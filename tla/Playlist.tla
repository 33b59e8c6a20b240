------------------------------ MODULE Playlist ------------------------------
(***************************************************************************)
(* The list of songs and what plays from it: link.c, the paging, insertion *)
(* and mode functions of player.c, music_lib_bridge.c and the handlers of  *)
(* socket.c that use them.                                                 *)
(*                                                                         *)
(* The parent keeps the list, one page of an online source or all local    *)
(* songs, and the context it came from.  The child that chooses the next   *)
(* track works on the copies it was forked with; both name the current     *)
(* track in shm.  The app sees the list that was last uploaded.            *)
(*                                                                         *)
(* The parent is one thread.  Its handlers are atomic but for the request  *)
(* loop of a page turn, with one request per step, and the insertion of    *)
(* songs, which writes the list before it looks at shm again: the child    *)
(* goes on meanwhile.  Module Playback has the processes, the signals and  *)
(* the pauses in detail; here a child is alive exactly while it plays.     *)
(* A mode forced by the environment is left out.                           *)
(***************************************************************************)
EXTENDS Naturals, Sequences, FiniteSets, SequencesExt

CONSTANTS Tracks,    \* songs, by identity: source and id
          Keywords,  \* search keywords
          Hot,       \* the empty keyword: songs that are popular
          Playlists, \* ids of playlists of the music service
          Local,     \* the songs on the storage device
          Catalog,   \* the songs of a keyword, a playlist or the device
          PageSize,
          None,
          Extensible \* bound: the lengths of a list that insertions extend

Sources == Keywords \cup Playlists \cup {Local}

ASSUME PlaylistAssumption ==
  /\ Hot \in Keywords
  /\ None \notin Sources \cup Tracks
  /\ Local \notin Keywords \cup Playlists
  /\ Keywords \cap Playlists = {}
  /\ Catalog \in [Sources -> Seq(Tracks)]
  /\ \A s \in Sources : IsInjective(Catalog[s])
  /\ PageSize \in Nat \ {0}
  /\ Extensible \subseteq Nat

VARIABLES q,     \* list, context and current track, see Queue
          mode,  \* shm's current_mode
          st,    \* g_current_state
          kid,   \* what the child knows, see Child; None without one
          eof,   \* g_playlist_eof_flag
          supp,  \* g_eof_autostart_suppressed
          call,  \* a page turn under way, or None
          intro  \* an insertion under way, or None

vars == <<q, mode, st, kid, eof, supp, call, intro>>

-----------------------------------------------------------------------------
(* The list *)

\* find_by_identity: the first node of the track, 0 if there is none
Pos(l, t) == SelectInSeq(l, LAMBDA x : x = t)

\* link_insert_node_after, from link_anchor_for_insert on: behind the current
\* track, or in front of all
InsertAfter(l, t, new) ==
  SubSeq(l, 1, Pos(l, t)) \o new \o SubSeq(l, Pos(l, t) + 1, Len(l))

\* select_song_from_shm
Selected(l, t) == IF Pos(l, t) # 0 THEN t ELSE Head(l)

-----------------------------------------------------------------------------
(* The music service, and the directory of local songs *)

Pages(s)   == IF Catalog[s] = <<>> THEN 1
              ELSE (Len(Catalog[s]) - 1) \div PageSize + 1
Page(s, n) == IF n = 0 THEN <<>>
              ELSE SubSeq(Catalog[s], (n - 1) * PageSize + 1, 
                          IF n < Pages(s) THEN n * PageSize ELSE Len(Catalog[s]))

\* A request fails, or finds nothing, or finds the page; what finds nothing
\* may still tell the number of pages, 0 if it does not.
Failed == [ok |-> FALSE, songs |-> <<>>, total |-> 0]
Found(s, n) == [ok |-> TRUE, songs |-> Page(s, n), total |-> Pages(s)]
Replies(s, n) ==
  {Failed, Found(s, n), [ok |-> TRUE, songs |-> <<>>, total |-> 0],
   [ok |-> TRUE, songs |-> <<>>, total |-> Pages(s)]}
Good(r) == r.ok /\ r.songs # <<>>

-----------------------------------------------------------------------------
(* The queue x: q before or after a part of a handler *)

\* list, kw, pl, page, total: the list and g_playlist_ctx
\* cur: shm's current track
\* pub: the list uploaded last on this connection; None before the first, and
\*   after a request that found nothing, when the app is left with an old one
Queue == [online : BOOLEAN, list : Seq(Tracks), kw : Keywords,
          pl : Playlists \cup {None}, page : Nat, total : Nat \ {0},
          cur : Tracks \cup {None}, pub : Seq(Tracks) \cup {None}]

\* playlist_ctx_fill_page; offline, music_source_search asks the device.
Source(x) == IF x.pl # None THEN x.pl ELSE IF x.online THEN x.kw ELSE Local
SearchIn(x, kw) == IF x.online THEN kw ELSE Local

\* player_online_playlist_ctx_active
CtxActive(x) == x.online /\ (x.pl # None \/ x.kw # Hot \/ x.total > 1 \/ x.page > 1)

\* player_publish_playlist_snapshot_if_online
Published(x) == IF x.online THEN [x EXCEPT !.pub = x.list] ELSE x

\* music_lib_search_fill_list_page, music_lib_playlist_fill_list_page
Fill(x, r) ==
  [x EXCEPT !.list = IF r.ok THEN r.songs ELSE @, !.pub = IF Good(r) THEN @ ELSE None]
SetTotal(x, r) == [x EXCEPT !.total = IF r.total > 0 THEN r.total ELSE 1]

\* player_prepare_keyword_playlist: what it may leave behind
ToKeyword(x, kw) == [x EXCEPT !.pl = None, !.kw = kw,
                              !.page = IF kw # x.kw THEN 1 ELSE @]
PreparedUnsent(x, r) == IF Good(r) THEN SetTotal(Fill(x, r), r) ELSE Fill(x, r)
PreparedWith(x, r) == IF Good(r) THEN Published(SetTotal(Fill(x, r), r)) ELSE Fill(x, r)
Prepared(x, kw) ==
  {[ok |-> Good(r), q |-> PreparedWith(ToKeyword(x, kw), r)] :
     r \in Replies(SearchIn(x, kw), ToKeyword(x, kw).page)}

\* player_online_next_track_cross_page, player_online_prev_track_cross_page,
\* in n pages of the source s: the neighbour in the whole source, or None when
\* the track is not in the pages, or when one of the requests fails.
Neighbour(s, t, fwd) ==
  LET n == Len(Catalog[s])
      i == Pos(Catalog[s], t)
  IN  Catalog[s][IF fwd THEN (i % n) + 1 ELSE IF i = 1 THEN n ELSE i - 1]
CrossPage(s, n, t, fwd) ==
  {None} \cup {Neighbour(s, t, fwd) :
    p \in {p \in 1 .. n : p <= Pages(s) /\ Pos(Page(s, p), t) # 0}}
PagesKnown(x) == IF CtxActive(x) THEN x.total ELSE 0
ParentCrosses(x, fwd) == CrossPage(Source(x), PagesKnown(x), x.cur, fwd)

\* The child's copy of the list, and of the context the parent forked it with
Child == [list : Seq(Tracks), src : Sources, pages : Nat]
Fork(x) == [list |-> x.list, src |-> IF x.online THEN Source(x) ELSE Local,
            pages |-> PagesKnown(x)]

-----------------------------------------------------------------------------
(* The parent's steps *)

\* A page turn under way: the page to ask for, the requests left, the track it
\* left from; an insertion under way: the song to be announced, the track it
\* was inserted behind
Calls == [op : {"next", "prevpage", "nextpage", "eof"}, page : Nat,
          left : Nat \ {0}, from : Tracks \cup {None}]
Intros == [app : BOOLEAN, want : Tracks, kw : Keywords \cup {None},
           at : Tracks \cup {None}, hidden : BOOLEAN]

ASSUME NoneAssumption == None \notin Child \cup Calls \cup Intros

\* Between two handlers
Idle == call = None /\ intro = None

\* player_start_play on the queue x, with or without a child that plays
Begin(x) ==
  LET y == [x EXCEPT !.cur = Selected(x.list, x.cur)]
  IN  q' = y /\ kid' = Fork(y) /\ st' = "play"
StartFrom(x, s, k) ==
  /\ supp' = FALSE
  /\ IF s = "play" /\ k # None THEN q' = x /\ st' = s /\ kid' = k
     ELSE IF x.list # <<>> THEN Begin(x)
     ELSE \E p \in Prepared(x, x.kw) :
            IF p.ok THEN Begin(p.q) ELSE q' = p.q /\ st' = s /\ kid' = k
StartPlay(x) == StartFrom(x, st, kid)

\* player_stop_play, then player_start_play
Restart(x) == StartFrom(x, "stop", None)

\* The end of next, previous and pick: the child goes to the track that shm
\* names once its grandchild is stopped; without a child, a start.
SwitchTo(x) ==
  IF kid # None THEN q' = x /\ st' = "play" /\ UNCHANGED <<kid, supp>>
  ELSE StartPlay(x)
Unplayed(x) == q' = x /\ UNCHANGED <<st, kid, supp>>

Init ==
  /\ q = [online |-> FALSE, list |-> <<>>, kw |-> Hot, pl |-> None, page |-> 1,
          total |-> 1, cur |-> None, pub |-> None]
  /\ mode = "order" /\ st = "stop" /\ kid = None
  /\ eof = FALSE /\ supp = FALSE /\ call = None /\ intro = None

Play ==
  /\ Idle
  /\ StartPlay(q)
  /\ UNCHANGED <<mode, eof, call, intro>>

Stopped == st' = "stop" /\ kid' = None /\ supp' = (supp \/ st = "play")
StopPlay ==
  /\ Idle /\ st = "play"
  /\ Stopped
  /\ UNCHANGED <<q, mode, eof, call, intro>>

SetMode ==
  /\ Idle
  /\ mode' \in {"order", "single"} \ {mode}
  /\ UNCHANGED <<q, st, kid, eof, supp, call, intro>>

\* player_playlist_load_next_page and its mirror: the page to ask for first,
\* and the one after a request that found nothing and told of n pages
TurnTooSoon(x, fwd) ==
  IF fwd THEN IF x.page + 1 >= x.total THEN 1 ELSE x.page + 1
  ELSE IF x.page < 2 THEN x.total ELSE x.page - 1
TurnFrom(x, fwd) ==
  IF fwd THEN IF x.page + 1 > x.total THEN 1 ELSE x.page + 1
  ELSE IF x.page < 2 THEN x.total ELSE x.page - 1
TurnOn(p, n, fwd) ==
  IF fwd THEN IF n > 0 /\ p + 1 > n THEN 1 ELSE p + 1
  ELSE IF p < 2 THEN n ELSE p - 1
Turn(x, op) ==
  /\ call' = [op |-> op, from |-> IF op = "next" THEN x.cur ELSE None, left |-> x.total,
              page |-> TurnFrom(x, op # "prevpage")]
  /\ q' = x
  /\ UNCHANGED <<mode, st, kid, intro>>

\* player_next_song: the current track is in the list
NextInList(x) ==
  LET i == Pos(x.list, x.cur)
  IN  IF i < Len(x.list)
      THEN SwitchTo([x EXCEPT !.cur = x.list[i + 1]]) /\ UNCHANGED call
      ELSE IF x.online THEN Turn(x, "next") /\ UNCHANGED supp
      ELSE /\ SwitchTo([x EXCEPT !.cur = IF mode = "single" THEN @ ELSE Head(x.list)])
           /\ UNCHANGED call

\* ... it is not, and we are offline: the node after the first
NextOffline ==
  IF q.list = <<>> THEN Unplayed(q)
  ELSE SwitchTo([q EXCEPT !.cur = q.list[IF Len(q.list) > 1 THEN 2 ELSE 1]])

\* ... online: the source's, or the first page anew
NextOnline == \E t \in ParentCrosses(q, TRUE) :
  CASE t # None -> SwitchTo([q EXCEPT !.cur = t]) /\ UNCHANGED call
    [] t = None /\ CtxActive(q) /\ q.cur # None ->
         Unplayed(q) /\ UNCHANGED call
    [] OTHER -> \E p \in Prepared(q, q.kw) :
         IF ~p.ok THEN Unplayed(p.q) /\ UNCHANGED call
         ELSE IF Pos(p.q.list, q.cur) # 0 THEN NextInList(p.q)
         ELSE SwitchTo([p.q EXCEPT !.cur = Head(p.q.list)]) /\ UNCHANGED call

NextSong ==
  /\ Idle
  /\ IF Pos(q.list, q.cur) # 0 THEN NextInList(q)
     ELSE IF q.online THEN NextOnline
     ELSE NextOffline /\ UNCHANGED call
  /\ UNCHANGED <<mode, eof, intro>>

\* player_prev_song: online, the first of the list stays where it is
PrevInList(x) ==
  LET i == Pos(x.list, x.cur)
  IN  x.list[IF i > 1 THEN i - 1 ELSE IF x.online THEN 1 ELSE Len(x.list)]
PrevSong ==
  /\ Idle
  /\ IF Pos(q.list, q.cur) # 0 THEN SwitchTo([q EXCEPT !.cur = PrevInList(q)])
     ELSE \E t \in ParentCrosses(q, FALSE) :
            IF t = None THEN Unplayed(q) ELSE SwitchTo([q EXCEPT !.cur = t])
  /\ UNCHANGED <<mode, eof, call, intro>>

\* player_play_assign_song: the app picks a song of the list
AssignSong == \E t \in Range(q.list) :
  /\ Idle
  /\ SwitchTo([q EXCEPT !.cur = t])
  /\ UNCHANGED <<mode, eof, call, intro>>

\* socket_play_playlist
PlayPlaylist == \E p \in Playlists : \E r \in Replies(p, 1) :
  /\ Idle /\ q.online /\ Good(r)
  /\ Restart(Published(SetTotal([q EXCEPT !.list = r.songs, !.kw = Hot, !.pl = p,
                                          !.page = 1, !.cur = Head(r.songs)], r)))
  /\ UNCHANGED <<mode, eof, call, intro>>

\* socket_playlist_page_next, socket_playlist_page_prev
TurnPage == \E op \in {"nextpage", "prevpage"} :
  /\ Idle /\ q.online
  /\ Turn(q, op)
  /\ UNCHANGED <<eof, supp>>

\* socket_upload_music_list: the app asks for the list; the server has none.
GetMusicList ==
  /\ Idle /\ q.online /\ q.pub \in {None, <<>>}
  /\ q' = Published(q)
  /\ UNCHANGED <<mode, st, kid, eof, supp, call, intro>>

-----------------------------------------------------------------------------
(* The end of the list, and page turns *)

\* child_process at the end of a track.  SIGUSR1 tells the end of the list; a
\* request that fails ends the child without a word.
KidStopsAt(t) == q' = [q EXCEPT !.cur = t] /\ UNCHANGED <<st, kid, eof>>
KidInList(i) ==
  IF mode = "single" THEN KidStopsAt(kid.list[i])
  ELSE IF i < Len(kid.list) THEN KidStopsAt(kid.list[i + 1])
  ELSE st' = "stop" /\ kid' = None /\ eof' = TRUE /\ UNCHANGED q
KidNext ==
  /\ kid # None
  /\ IF Pos(kid.list, q.cur) # 0 THEN KidInList(Pos(kid.list, q.cur))
     ELSE IF kid.src = Local THEN KidInList(1)
     ELSE \E t \in CrossPage(kid.src, kid.pages, q.cur, TRUE) :
            IF t # None THEN KidStopsAt(t)
            ELSE q' = [q EXCEPT !.pub = None] /\ kid' = None /\ UNCHANGED <<st, eof>>
  /\ UNCHANGED <<mode, supp, call, intro>>

\* player_eof_wrap_or_restart
EofNoWrap(x) ==
  IF mode = "order" /\ Pos(x.list, x.cur) = Len(x.list) THEN Unplayed(x) ELSE StartPlay(x)
EofWrap(x) ==
  LET i == Pos(x.list, x.cur)
      j == IF i = 0 THEN 1 ELSE i
  IN  IF mode = "single" THEN StartPlay(x)
      ELSE IF x.list # <<>> /\ (i # 0 \/ ~x.online)
      THEN StartPlay([x EXCEPT !.cur = x.list[(j % Len(x.list)) + 1]])
      ELSE \E t \in ParentCrosses(x, TRUE) :
             IF t = None THEN Unplayed([x EXCEPT !.pub = None])
             ELSE StartPlay([x EXCEPT !.cur = t])

\* player_process_async_events
HandleEof ==
  /\ Idle /\ eof /\ eof' = FALSE
  /\ IF supp THEN supp' = FALSE /\ UNCHANGED <<q, mode, st, kid, call, intro>>
     ELSE IF mode = "order" /\ q.online THEN Turn(q, "eof") /\ UNCHANGED supp
     ELSE EofWrap(q) /\ UNCHANGED <<mode, call, intro>>

\* One request of the loop of a page turn, and what its caller does when the
\* page is found, or when nothing is left to try
Turned(x) ==
  CASE call.op = "next" -> SwitchTo([x EXCEPT !.cur = Head(x.list)])
    [] call.op = "eof"  -> StartPlay(x)
    [] OTHER            -> Unplayed(x)
GaveUp(x) == IF call.op = "eof" THEN EofWrap(x) ELSE Unplayed(x)
TryPage ==
  /\ call # None
  /\ \E r \in Replies(Source(q), call.page) :
       IF Good(r)
       THEN /\ Turned(Published(SetTotal([Fill(q, r) EXCEPT !.page = call.page], r)))
            /\ call' = None
       ELSE IF call.left > 1
       THEN /\ Unplayed(Fill(q, r))
            /\ call' = [call EXCEPT !.left = @ - 1,
                          !.page = TurnOn(@, r.total, call.op # "prevpage")]
       ELSE GaveUp(Fill(q, r)) /\ call' = None
  /\ UNCHANGED <<mode, eof, intro>>

-----------------------------------------------------------------------------
(* Songs inserted behind the current track, by voice or by the app *)

\* What may be inserted: a song, or the first page of a search, which becomes
\* the context, or of a playlist, which does not.
Offers ==
  {[songs |-> <<t>>, kw |-> None] : t \in Tracks \ Range(Catalog[Local])}
  \cup {[songs |-> Page(SearchIn(q, k), 1), kw |-> k] : k \in Keywords \ {Hot}}
  \cup {[songs |-> Page(p, 1), kw |-> None] : p \in Playlists}

\* music_lib_resolve_insert_item_after_current,
\* music_lib_insert_search_result_after_current,
\* music_lib_insert_search_after_current; offline there is the search only.
InsertSongs == \E o \in Offers, app \in BOOLEAN :
  /\ Idle
  /\ o.songs # <<>> /\ Len(q.list) \in Extensible
  /\ q.online \/ (o.kw # None /\ ~app)
  /\ app => Len(o.songs) = 1 /\ o.kw = None /\ Pos(q.list, o.songs[1]) = 0
  /\ q' = [q EXCEPT !.list = InsertAfter(@, q.cur, o.songs)]
  /\ intro' = [app |-> app, kw |-> o.kw, want |-> o.songs[1],
               at |-> q.cur,
               hidden |-> Pos(q.list, q.cur) = 0 /\ Pos(o.songs, q.cur) # 0]
  /\ UNCHANGED <<mode, st, kid, eof, supp, call>>

\* player_voice_intro_shm_after_insert: the track behind the current one is
\* announced.  The app's is played at once.
BehindFirst(l, t) == l[IF Len(l) > 1 THEN 2 ELSE 1]
Behind(l, t)      == l[(Pos(l, t) % Len(l)) + 1]
AfterInsert ==
  /\ intro # None /\ intro' = None
  /\ LET x == IF intro.kw = None THEN q ELSE [q EXCEPT !.kw = intro.kw, !.page = 1]
         y == Published([x EXCEPT !.cur = Behind(x.list, x.cur)])
     IN  IF intro.app THEN Restart(y) ELSE Unplayed(y)
  /\ UNCHANGED <<mode, eof, call>>

\* player_voice_intro_commit_insert_play, player_voice_intro_commit_hot_random_play:
\* an announcement is over (module Dialogue says when).
CommitIntro ==
  /\ Idle
  /\ Restart(q)
  /\ UNCHANGED <<mode, eof, call, intro>>

\* player_search_hot_random_prepare_for_tts: the first page, to know how many
\* there are, then one of them, then the first again; a song of it is announced.
HotContext(x, r) == [SetTotal(Fill(x, r), r) EXCEPT !.kw = Hot]
HotPage(x, r, n) == [SetTotal(Fill(x, r), r) EXCEPT !.page = n]
HotPages(x) == LET s == SearchIn(x, Hot) IN
  {[ok |-> FALSE, q |-> Fill(x, r)] : r \in {r \in Replies(s, 1) : ~Good(r)}}
  \cup UNION {LET y == HotContext(x, r1) IN
    IF y.total = 1 THEN {[ok |-> TRUE, q |-> [y EXCEPT !.page = 1]]}
    ELSE UNION {{IF Good(r2) THEN [ok |-> TRUE, q |-> HotPage(y, r2, n)]
                 ELSE [ok |-> Good(r3), q |-> IF Good(r3) THEN HotPage(Fill(y, r2), r3, 1)
                                              ELSE Fill(Fill(y, r2), r3)]
                 : r2 \in Replies(s, n), r3 \in Replies(s, 1)} : n \in 1 .. y.total}
    : r1 \in {r \in Replies(s, 1) : Good(r)}}
HotRandom == \E h \in HotPages(q) :
  /\ Idle
  /\ Stopped
  /\ IF ~h.ok THEN q' = h.q
     ELSE \E t \in Range(h.q.list) :
            /\ t # q.cur \/ t = Last(h.q.list)
            /\ q' = Published([h.q EXCEPT !.cur = t])
  /\ UNCHANGED <<mode, eof, call, intro>>

-----------------------------------------------------------------------------
(* Online and offline *)

\* music_lib_load_all_local_to_link and
\* player_sync_shm_to_first_playable_local_song; the directory may fail.
LocalLists == {<<>>, Catalog[Local]}
WithLocal(x, l) ==
  [x EXCEPT !.list = l, !.cur = IF l = <<>> THEN @ ELSE Head(l)]
Offline(x, l) == [WithLocal(x, l) EXCEPT !.online = FALSE, !.pub = None]

\* player_switch_offline_mode: without storage, or when the songs cannot be
\* read, it stays online; in the second case without a list.
SwitchOffline ==
  /\ Idle /\ q.online
  /\ st' = "stop" /\ kid' = None /\ supp' = TRUE
  /\ \/ q' = q
     \/ q' = [q EXCEPT !.list = <<>>, !.pub = None]
     \/ \E l \in LocalLists : q' = Offline(q, l)
  /\ UNCHANGED <<mode, eof, call, intro>>

\* socket_handle_disconnect, player_offline_init_storage_and_library
Disconnect ==
  /\ Idle /\ q.online
  /\ Stopped
  /\ \E l \in LocalLists : q' = Offline(q, l)
  /\ UNCHANGED <<mode, eof, call, intro>>

\* player_switch_online_mode, socket_init, player_warm_online_playlist
SwitchOnline ==
  /\ Idle /\ ~q.online
  /\ st' = "stop" /\ kid' = None /\ supp' = TRUE
  /\ \/ \E p \in Prepared([q EXCEPT !.online = TRUE, !.list = <<>>], Hot) : q' = p.q
     \/ \E l \in LocalLists : q' = Offline(q, l)
  /\ UNCHANGED <<mode, eof, call, intro>>

-----------------------------------------------------------------------------
Next ==
  \/ Play \/ StopPlay \/ SetMode \/ NextSong \/ PrevSong \/ AssignSong
  \/ PlayPlaylist \/ TurnPage \/ GetMusicList
  \/ KidNext \/ HandleEof \/ TryPage
  \/ InsertSongs \/ AfterInsert \/ CommitIntro \/ HotRandom
  \/ SwitchOffline \/ Disconnect \/ SwitchOnline

Spec == Init /\ [][Next]_vars

\* The parent goes on with the handler it is in, and looks at the end of the
\* list in every round of its loop.
FairSpec == /\ Spec
            /\ WF_vars(TryPage) /\ WF_vars(AfterInsert) /\ SF_vars(HandleEof)

-----------------------------------------------------------------------------
(* Properties *)

\* Every variable has its type; in particular no page is asked for that the
\* context does not have, and no context without a page.
TypeOK ==
  /\ q \in Queue
  /\ mode \in {"order", "single"}
  /\ st \in {"play", "stop"}
  /\ kid \in Child \cup {None}
  /\ eof \in BOOLEAN /\ supp \in BOOLEAN
  /\ call \in Calls \cup {None}
  /\ intro \in Intros \cup {None}

\* The list the app was sent is the list the speaker has, whatever turned a
\* page, filled or extended it, unless a request found nothing since or songs
\* are just being inserted (player_publish_playlist_snapshot_if_online).
PublishedUnlessFailed ==
  q.pub # None /\ intro = None => q.pub = q.list

\* The track that is announced, and played after the announcement, is the one
\* that was asked for, wherever it was inserted and whatever the list repeats,
\* unless the place is not found again (link_anchor_for_insert and
\* player_voice_intro_shm_after_insert look for it each for itself): the child
\* went on to another track in between, or the current track was on no page of
\* the list and is one of those inserted.
AnnouncedIsRequested ==
  [][AfterInsert /\ intro.at = q.cur /\ ~intro.hidden
       => q'.cur = intro.want]_vars

\* Online, next goes to the song that follows in the source, whichever of its
\* pages the app has turned to meanwhile, unless a request fails
\* (player_online_next_track_cross_page, player_playlist_load_next_page).
Plain(x) == /\ x.online /\ x.total = Pages(Source(x))
            /\ x.list = Page(Source(x), x.page)
            /\ CtxActive(x)
Follows(t) == Neighbour(Source(q), t, TRUE)
NextOnPage ==
  /\ NextSong /\ Plain(q) /\ kid # None
  /\ Pos(Catalog[Source(q)], q.cur) # 0
NextTurned ==
  /\ TryPage /\ Plain(q) /\ call.op = "next" /\ call.left = q.total
  /\ Pos(Page(Source(q), q.page), call.from) # 0
  /\ call' = None /\ q'.pub # None
NextIsSuccessor ==
  [][/\ NextOnPage => call' # None \/ q'.cur \in {q.cur, Follows(q.cur)}
     /\ NextTurned => q'.cur = Follows(call.from)]_vars

\* After the end of the list the music goes on, offline or online, whatever the
\* app does meanwhile, unless requests find nothing or the mode is changed
\* (player_process_async_events, player_eof_wrap_or_restart).
Unanswered == q.online /\ q.pub = None
EndGoesOn == eof ~> (st = "play" \/ Unanswered \/ supp \/ q.list = <<>>)
=============================================================================
