---------------------------- MODULE PlaylistProofs ----------------------------
(***************************************************************************)
(* Proofs about Playlist, for any catalogue, playlists, songs and replies. *)
(* The inductive invariant IInv is that list and context fit each other    *)
(* and that the app has the list, except while songs are inserted.         *)
(* Beside it, IntroInv says where the song that is to be announced stands  *)
(* while its insertion is under way, and CallInv what the request of a     *)
(* paused next is for.                                                     *)
(***************************************************************************)
EXTENDS Playlist, SequenceTheorems, WellFoundedInduction, TLAPS

\* A set of naturals that is not empty has a smallest member.
LEMMA SmallestOfSet ==
  ASSUME NEW S \in SUBSET Nat, S # {}
  PROVE  Min(S) \in S /\ \A n \in S : Min(S) <= n
<1>1. PICK m \in S : \A n \in S : <<n, m>> \notin OpToRel(<, Nat)
  BY WFMin, NatLessThanWellFounded, Zenon
<1>2. \A n \in S : ~(n < m)
  BY <1>1, Zenon DEF OpToRel
<1>3. \A n \in S : m <= n
  BY <1>2
<1> QED
  BY <1>3 DEF Min

\* Pos is the first occurrence (find_by_identity).
LEMMA PosFirst ==
  ASSUME NEW l \in Seq(Tracks), NEW t
  PROVE  /\ Pos(l, t) \in 0 .. Len(l)
         /\ Pos(l, t) # 0 => l[Pos(l, t)] = t
         /\ \A i \in 1 .. Len(l) : l[i] = t => Pos(l, t) # 0 /\ Pos(l, t) <= i
<1> DEFINE I == {i \in 1 .. Len(l) : l[i] = t}
<1>1. Pos(l, t) = IF I # {} THEN Min(I) ELSE 0
  BY DEF Pos, SelectInSeq
<1>2. CASE I = {}
  <2>1. Pos(l, t) = 0
    BY <1>1, <1>2
  <2>2. \A i \in 1 .. Len(l) : l[i] # t
    BY <1>2
  <2> QED
    BY <2>1, <2>2
<1>3. CASE I # {}
  <2>1. Min(I) \in I /\ \A i \in I : Min(I) <= i
    BY <1>3, SmallestOfSet
  <2>2. Pos(l, t) = Min(I)
    BY <1>1, <1>3
  <2>3. Pos(l, t) \in I /\ \A i \in I : Pos(l, t) <= i
    BY <2>1, <2>2
  <2> QED
    BY <2>3
<1> QED
  BY <1>2, <1>3

-----------------------------------------------------------------------------
(* The catalogue and its pages.                                              *)

LEMMA SourcesTyped ==
  /\ None \notin Sources /\ None \notin Tracks
  /\ Hot \in Keywords /\ Keywords \subseteq Sources
  /\ Playlists \subseteq Sources /\ Local \in Sources
  /\ PageSize \in Nat \ {0}
  /\ \A s \in Sources : Catalog[s] \in Seq(Tracks) /\ Len(Catalog[s]) \in Nat
BY PlaylistAssumption DEF Sources

LEMMA Division ==
  ASSUME NEW a \in Nat, NEW b \in Nat \ {0}
  PROVE  a \div b \in Nat /\ (a \div b) * b <= a /\ a < (a \div b) * b + b
<1>1. a \div b \in Nat /\ (a \div b) * b <= a
  OBVIOUS
<1>2. a < b * ((a \div b) + 1)
  OBVIOUS
<1>3. b * ((a \div b) + 1) = (a \div b) * b + b
  BY <1>1
<1> QED
  BY <1>1, <1>2, <1>3

LEMMA SmallModulo ==
  ASSUME NEW a \in Nat, NEW b \in Nat \ {0}, a < b
  PROVE  a % b = a
OBVIOUS

\* The pages of a source cover it and none is superfluous.
LEMMA PagesCover ==
  ASSUME NEW s \in Sources
  PROVE  /\ Pages(s) \in Nat \ {0}
         /\ Len(Catalog[s]) <= Pages(s) * PageSize
         /\ (Pages(s) - 1) * PageSize <= Len(Catalog[s])
         /\ Catalog[s] # <<>> => (Pages(s) - 1) * PageSize < Len(Catalog[s])
<1> DEFINE n == Len(Catalog[s])
           k == (n - 1) \div PageSize
<1>1. PageSize \in Nat \ {0} /\ n \in Nat /\ Catalog[s] \in Seq(Tracks)
  BY SourcesTyped
<1>2. CASE Catalog[s] = <<>>
  <2>1. Pages(s) = 1 /\ n = 0
    BY <1>2 DEF Pages
  <2> QED
    BY <1>1, <1>2, <2>1
<1>3. CASE Catalog[s] # <<>>
  <2>1. n > 0
    BY <1>1, <1>3
  <2>2. Pages(s) = k + 1
    BY <1>3 DEF Pages
  <2>3. k \in Nat /\ k * PageSize <= n - 1 /\ n - 1 < (k + 1) * PageSize
    <3>1. n - 1 \in Nat
      BY <1>1, <2>1
    <3>2. k \in Nat /\ k * PageSize <= n - 1 /\ n - 1 < k * PageSize + PageSize
      BY <1>1, <3>1, Division
    <3>3. (k + 1) * PageSize = k * PageSize + PageSize
      <4>1. \A c \in Nat : (c + 1) * PageSize = c * PageSize + PageSize
        BY <1>1
      <4> QED
        BY <3>2, <4>1
    <3> QED
      BY <3>2, <3>3
  <2> HIDE DEF k, n
  <2>4. Pages(s) \in Nat \ {0} /\ Pages(s) - 1 = k
    BY <2>2, <2>3
  <2> QED
    BY <1>1, <1>3, <2>2, <2>3, <2>4 DEF n
<1> QED
  BY <1>2, <1>3

\* A page of a source: how far into the source it begins, and what it shows.
Offset(p) == (p - 1) * PageSize

LEMMA PageShows ==
  ASSUME NEW s \in Sources, NEW p \in 1 .. Pages(s)
  PROVE  /\ Offset(p) \in Nat
         /\ Page(s, p) \in Seq(Tracks)
         /\ Offset(p) + Len(Page(s, p)) <= Len(Catalog[s])
         /\ p = Pages(s) => Offset(p) + Len(Page(s, p)) = Len(Catalog[s])
         /\ p < Pages(s) => /\ Offset(p) + Len(Page(s, p)) = Offset(p + 1)
                            /\ Offset(p + 1) < Len(Catalog[s])
         /\ \A i \in 1 .. Len(Page(s, p)) : Page(s, p)[i] = Catalog[s][Offset(p) + i]
<1> DEFINE n == Len(Catalog[s])
           o == Offset(p)
           b == IF p < Pages(s) THEN p * PageSize ELSE n
<1>1. /\ PageSize \in Nat \ {0} /\ n \in Nat /\ Catalog[s] \in Seq(Tracks)
      /\ Pages(s) \in Nat \ {0} /\ p \in Nat \ {0}
  BY SourcesTyped, PagesCover
<1>2. o \in Nat /\ o = p * PageSize - PageSize /\ Offset(p + 1) = p * PageSize
  BY <1>1 DEF Offset
<1>3. p < Pages(s) => p * PageSize <= (Pages(s) - 1) * PageSize
  BY <1>1
<1>4. o <= (Pages(s) - 1) * PageSize
  BY <1>1 DEF Offset
<1>5. /\ (Pages(s) - 1) * PageSize <= n /\ (Pages(s) - 1) * PageSize \in Nat
      /\ Catalog[s] # <<>> => (Pages(s) - 1) * PageSize < n
      /\ Catalog[s] = <<>> => Pages(s) = 1
  <2>1. Catalog[s] = <<>> => Pages(s) = 1
    BY DEF Pages
  <2> QED
    BY <1>1, <2>1, PagesCover
<1>6. p < Pages(s) => p * PageSize < n
  <2>1. p < Pages(s) => Catalog[s] # <<>>
    BY <1>1, <1>5
  <2> QED
    BY <1>1, <1>3, <1>5, <2>1
<1>7. p * PageSize \in Nat
  BY <1>1
<1>8. b \in Nat /\ b <= n /\ o <= b
  BY <1>1, <1>2, <1>4, <1>5, <1>6, <1>7
<1>9. Page(s, p) = SubSeq(Catalog[s], o + 1, b)
  BY <1>1 DEF Page, Offset
<1> HIDE DEF o, b, n
<1>10. \A i \in o + 1 .. b : Catalog[s][i] \in Tracks
  BY <1>1, <1>2, <1>8 DEF n
<1>11. /\ Page(s, p) \in Seq(Tracks)
       /\ Len(Page(s, p)) = IF o + 1 <= b THEN b - (o + 1) + 1 ELSE 0
       /\ \A i \in 1 .. b - (o + 1) + 1 : Page(s, p)[i] = Catalog[s][o + 1 + i - 1]
  <2> DEFINE a == o + 1
  <2>1. a \in Int /\ b \in Int
    BY <1>2, <1>8
  <2>2. \A i \in a .. b : Catalog[s][i] \in Tracks
    BY <1>10
  <2> HIDE DEF a
  <2>3. /\ SubSeq(Catalog[s], a, b) \in Seq(Tracks)
        /\ Len(SubSeq(Catalog[s], a, b)) = IF a <= b THEN b - a + 1 ELSE 0
        /\ \A i \in 1 .. b - a + 1 : SubSeq(Catalog[s], a, b)[i] = Catalog[s][a + i - 1]
    BY <2>1, <2>2, SubSeqProperties
  <2> QED
    BY <1>9, <2>3 DEF a
<1>12. Len(Page(s, p)) = b - o
  BY <1>2, <1>8, <1>11
<1>13. \A i \in 1 .. Len(Page(s, p)) : Page(s, p)[i] = Catalog[s][o + i]
  <2> TAKE i \in 1 .. Len(Page(s, p))
  <2>1. i \in 1 .. b - (o + 1) + 1 /\ o + 1 + i - 1 = o + i
    BY <1>2, <1>8, <1>12
  <2> QED
    BY <1>11, <2>1
<1>14. o + Len(Page(s, p)) = b
  BY <1>2, <1>8, <1>12
<1>15. p < Pages(s) => b = Offset(p + 1) /\ b < n
  BY <1>2, <1>6 DEF b
<1>16. p = Pages(s) => b = n
  BY <1>1 DEF b
<1> QED
  BY <1>2, <1>8, <1>11, <1>13, <1>14, <1>15, <1>16 DEF o, n

\* There is no page 0 and none behind the last.
LEMMA NoSuchPage ==
  ASSUME NEW s \in Sources, NEW p \in Nat, p \notin 1 .. Pages(s)
  PROVE  Page(s, p) = <<>>
<1>1. /\ PageSize \in Nat \ {0} /\ Len(Catalog[s]) \in Nat
      /\ Pages(s) \in Nat \ {0} /\ Len(Catalog[s]) <= Pages(s) * PageSize
  BY SourcesTyped, PagesCover
<1>2. CASE p = 0
  BY <1>2 DEF Page
<1>3. CASE p # 0
  <2>1. p - 1 >= Pages(s) /\ p > Pages(s)
    BY <1>1, <1>3
  <2>2. (p - 1) * PageSize >= Pages(s) * PageSize
    BY <1>1, <2>1
  <2>3. (p - 1) * PageSize \in Int /\ Pages(s) * PageSize \in Int
    BY <1>1
  <2>4. Page(s, p) = SubSeq(Catalog[s], (p - 1) * PageSize + 1, Len(Catalog[s]))
    <3>1. ~(p < Pages(s))
      BY <1>1, <2>1
    <3> QED
      BY <1>3, <3>1 DEF Page
  <2> DEFINE m == (p - 1) * PageSize + 1
  <2>5. Len(Catalog[s]) < m /\ m \in Int /\ Len(Catalog[s]) \in Int
    BY <1>1, <2>2, <2>3
  <2> HIDE DEF m
  <2> QED
    BY <2>4, <2>5, SubSeqEmpty DEF m
<1> QED
  BY <1>2, <1>3

LEMMA PageTyped == \A s \in Sources, p \in Nat : Page(s, p) \in Seq(Tracks)
<1> TAKE s \in Sources, p \in Nat
<1>1. CASE p \in 1 .. Pages(s)
  BY <1>1, PageShows
<1>2. CASE p \notin 1 .. Pages(s)
  BY <1>2, NoSuchPage, EmptySeq
<1> QED
  BY <1>1, <1>2

-----------------------------------------------------------------------------
(* The queue.  Sound: the app has no list of a speaker that is offline.      *)
(* Sent: the app has no list, or the one the speaker has.                    *)

Sound(x) == x \in Queue /\ (~x.online => x.pub = None)
Sent(x)  == Sound(x) /\ (x.pub # None => x.pub = x.list)

ReplyTypes == [ok : BOOLEAN, songs : Seq(Tracks), total : Nat]

LEMMA RepliesTyped ==
  \A s \in Sources, n \in Nat : Replies(s, n) \subseteq ReplyTypes
<1> TAKE s \in Sources, n \in Nat
<1>1. <<>> \in Seq(Tracks) /\ Page(s, n) \in Seq(Tracks) /\ Pages(s) \in Nat
  BY EmptySeq, PageTyped, PagesCover
<1> QED
  BY <1>1 DEF Replies, Failed, Found, ReplyTypes

LEMMA SourceTyped ==
  ASSUME NEW x \in Queue
  PROVE  /\ Source(x) \in Sources
         /\ \A kw \in Keywords : SearchIn(x, kw) \in Sources
BY SourcesTyped DEF Queue, Source, SearchIn

\* Another track does not matter to the list.
LEMMA OtherTrack ==
  ASSUME NEW x, NEW t \in Tracks \cup {None}
  PROVE  /\ Sound(x) => Sound([x EXCEPT !.cur = t])
         /\ Sent(x) => Sent([x EXCEPT !.cur = t])
         /\ x \in Queue => /\ [x EXCEPT !.cur = t].list = x.list
                           /\ [x EXCEPT !.cur = t].cur = t
BY DEF Sound, Sent, Queue

LEMMA PublishedSent ==
  ASSUME NEW x, Sound(x)
  PROVE  /\ Sent(Published(x))
         /\ Published(x).list = x.list
         /\ Published(x).cur = x.cur
BY DEF Sound, Sent, Published, Queue

LEMMA UnsentSound ==
  ASSUME NEW x, Sound(x)
  PROVE  Sent([x EXCEPT !.pub = None])
BY DEF Sound, Sent, Queue

LEMMA FillSound ==
  ASSUME NEW x, Sound(x), NEW r \in ReplyTypes
  PROVE  /\ Sound(Fill(x, r))
         /\ Fill(x, r).cur = x.cur
         /\ Fill(x, r).online = x.online
         /\ Good(r) => Fill(x, r).list = r.songs /\ r.songs # <<>>
         /\ ~Good(r) => Sent(Fill(x, r))
BY DEF Sound, Sent, Fill, Good, Queue, ReplyTypes

LEMMA SetTotalSound ==
  ASSUME NEW x, Sound(x), NEW r \in ReplyTypes
  PROVE  /\ Sound(SetTotal(x, r))
         /\ SetTotal(x, r).list = x.list
         /\ SetTotal(x, r).cur = x.cur
<1> DEFINE n == IF r.total > 0 THEN r.total ELSE 1
<1>1. n \in Nat \ {0}
  BY DEF ReplyTypes
<1>2. SetTotal(x, r) = [x EXCEPT !.total = n]
  BY DEF SetTotal
<1> HIDE DEF n
<1> QED
  BY <1>1, <1>2 DEF Sound, Queue

LEMMA ToKeywordSound ==
  ASSUME NEW x, Sound(x), NEW kw \in Keywords
  PROVE  /\ Sound(ToKeyword(x, kw))
         /\ ToKeyword(x, kw).cur = x.cur
         /\ ToKeyword(x, kw).page \in Nat
BY DEF Sound, ToKeyword, Queue

LEMMA PreparedSent ==
  ASSUME NEW x, Sound(x), NEW kw \in Keywords, NEW p \in Prepared(x, kw)
  PROVE  /\ Sent(p.q)
         /\ p.q.cur = x.cur
         /\ p.ok => p.q.list # <<>>
<1> DEFINE y == ToKeyword(x, kw)
<1>1. Sound(y) /\ y.cur = x.cur /\ y.page \in Nat
  BY ToKeywordSound
<1>2. SearchIn(x, kw) \in Sources
  BY SourceTyped DEF Sound
<1>3. PICK r \in Replies(SearchIn(x, kw), y.page) :
        p = [ok |-> Good(r), q |-> PreparedWith(y, r)]
  BY DEF Prepared
<1>4. r \in ReplyTypes
  BY <1>1, <1>2, <1>3, RepliesTyped
<1>5. p.ok = Good(r) /\ p.q = PreparedWith(y, r)
  BY <1>3
<1> HIDE DEF y
<1>6. Sound(Fill(y, r)) /\ Fill(y, r).cur = y.cur
  BY <1>1, <1>4, FillSound
<1>7. CASE Good(r)
  <2>1. Fill(y, r).list = r.songs /\ r.songs # <<>>
    BY <1>1, <1>4, <1>7, FillSound
  <2>2. p.q = Published(SetTotal(Fill(y, r), r))
    BY <1>5, <1>7 DEF PreparedWith
  <2>3. /\ Sound(SetTotal(Fill(y, r), r))
        /\ SetTotal(Fill(y, r), r).list = r.songs
        /\ SetTotal(Fill(y, r), r).cur = x.cur
    BY <1>1, <1>4, <1>6, <2>1, SetTotalSound
  <2> QED
    BY <2>1, <2>2, <2>3, PublishedSent
<1>8. CASE ~Good(r)
  <2>1. p.q = Fill(y, r)
    BY <1>5, <1>8 DEF PreparedWith
  <2> QED
    BY <1>1, <1>4, <1>5, <1>6, <1>8, <2>1, FillSound
<1> QED
  BY <1>7, <1>8

-----------------------------------------------------------------------------
(* The tracks that are chosen are songs.                                     *)

LEMMA SelectedTyped ==
  ASSUME NEW l \in Seq(Tracks), l # <<>>, NEW t
  PROVE  Selected(l, t) \in Tracks /\ Pos(l, Selected(l, t)) # 0
<1>1. l[1] \in Tracks /\ Head(l) = l[1] /\ Len(l) \in Nat \ {0}
  BY EmptySeq
<1>2. Pos(l, Head(l)) # 0
  BY <1>1, PosFirst
<1>3. Pos(l, t) # 0 => t \in Tracks
  BY PosFirst
<1> QED
  BY <1>1, <1>2, <1>3 DEF Selected

\* In the whole source the neighbour of a track exists.
LEMMA NeighbourTyped ==
  ASSUME NEW s \in Sources, NEW t, Pos(Catalog[s], t) # 0, NEW fwd \in BOOLEAN
  PROVE  Neighbour(s, t, fwd) \in Tracks
<1> DEFINE n == Len(Catalog[s])
           i == Pos(Catalog[s], t)
<1>1. Catalog[s] \in Seq(Tracks) /\ n \in Nat
  BY SourcesTyped
<1>2. i \in 1 .. n
  BY <1>1, PosFirst
<1>3. (i % n) + 1 \in 1 .. n
  BY <1>1, <1>2
<1>4. (IF fwd THEN (i % n) + 1 ELSE IF i = 1 THEN n ELSE i - 1) \in 1 .. n
  BY <1>1, <1>2, <1>3
<1> QED
  BY <1>1, <1>4 DEF Neighbour

LEMMA CrossPageTyped ==
  ASSUME NEW s \in Sources, NEW n \in Nat, NEW c, NEW fwd \in BOOLEAN,
         NEW t \in CrossPage(s, n, c, fwd)
  PROVE  t = None \/ (t \in Tracks /\ t = Neighbour(s, c, fwd))
<1>1. CASE t # None
  <2>1. PICK p \in 1 .. n : /\ p <= Pages(s) /\ Pos(Page(s, p), c) # 0
                            /\ t = Neighbour(s, c, fwd)
    BY <1>1 DEF CrossPage
  <2>2. p \in 1 .. Pages(s)
    BY <2>1, PagesCover
  <2> DEFINE j == Pos(Page(s, p), c)
  <2>3. /\ Page(s, p) \in Seq(Tracks) /\ Offset(p) \in Nat
        /\ Offset(p) + Len(Page(s, p)) <= Len(Catalog[s])
        /\ \A i \in 1 .. Len(Page(s, p)) : Page(s, p)[i] = Catalog[s][Offset(p) + i]
    BY <2>2, PageShows
  <2>4. j \in 1 .. Len(Page(s, p)) /\ Page(s, p)[j] = c
    BY <2>1, <2>3, PosFirst
  <2>5. Offset(p) + j \in 1 .. Len(Catalog[s]) /\ Catalog[s][Offset(p) + j] = c
    BY <2>3, <2>4, SourcesTyped
  <2>6. Pos(Catalog[s], c) # 0
    BY <2>5, SourcesTyped, PosFirst
  <2> QED
    BY <2>1, <2>6, NeighbourTyped
<1> QED
  BY <1>1

LEMMA ParentCrossesTyped ==
  ASSUME NEW x \in Queue, NEW fwd \in BOOLEAN, NEW t \in ParentCrosses(x, fwd)
  PROVE  t = None \/ (t \in Tracks /\ t = Neighbour(Source(x), x.cur, fwd))
<1>1. Source(x) \in Sources /\ PagesKnown(x) \in Nat
  BY SourceTyped DEF PagesKnown, Queue
<1> QED
  BY <1>1, CrossPageTyped DEF ParentCrosses

-----------------------------------------------------------------------------
(* The inductive invariant.                                                  *)

\* A child has a list to choose from.
KidOK(k) == k = None \/ (k \in Child /\ k.list # <<>>)

\* Only while songs are inserted may the app have another list than the
\* speaker, and only one of the two handlers that pause is under way.
QueueInv  == Sound(q) /\ (intro = None => Sent(q))
PausedInv == /\ call = None \/ intro = None
             /\ intro # None => q.list # <<>>

RestTyped == /\ mode \in {"order", "single"} /\ st \in {"play", "stop"}
             /\ eof \in BOOLEAN /\ supp \in BOOLEAN
             /\ call \in Calls \cup {None} /\ intro \in Intros \cup {None}

IInv == QueueInv /\ PausedInv /\ KidOK(kid) /\ RestTyped

LEMMA InvTypes == IInv => TypeOK
BY DEF IInv, QueueInv, PausedInv, KidOK, RestTyped, TypeOK, Sound

LEMMA InitInv == Init => IInv
<1> SUFFICES ASSUME Init PROVE IInv
    OBVIOUS
<1>1. q \in Queue
  BY SourcesTyped, EmptySeq DEF Init, Queue
<1>2. Sound(q) /\ Sent(q)
  BY <1>1 DEF Init, Sound, Sent
<1> QED
  BY <1>2, Zenon DEF Init, IInv, QueueInv, PausedInv, KidOK, RestTyped

-----------------------------------------------------------------------------
(* Starting and switching leave a list that was sent and a child that has one *)

Arrived == /\ Sent(q') /\ KidOK(kid')
           /\ st' \in {"play", "stop"} /\ supp' \in BOOLEAN

LEMMA ForkOK ==
  ASSUME NEW x \in Queue, x.list # <<>>
  PROVE  KidOK(Fork(x)) /\ Fork(x) # None
<1>1. Fork(x) \in Child /\ Fork(x).list = x.list
  BY SourceTyped, SourcesTyped DEF Fork, Child, Queue, PagesKnown
<1> QED
  BY <1>1, NoneAssumption DEF KidOK

LEMMA BeginOK ==
  ASSUME NEW x, Sent(x), x.list # <<>>, Begin(x)
  PROVE  /\ Sent(q') /\ KidOK(kid') /\ st' = "play"
         /\ q'.list = x.list /\ q'.cur = Selected(x.list, x.cur)
<1> DEFINE t == Selected(x.list, x.cur)
           y == [x EXCEPT !.cur = t]
<1>1. x \in Queue /\ x.list \in Seq(Tracks)
  BY DEF Sent, Sound, Queue
<1>2. t \in Tracks
  BY <1>1, SelectedTyped
<1>3. q' = y /\ kid' = Fork(y) /\ st' = "play"
  BY DEF Begin
<1> HIDE DEF t
<1>4. Sent(y) /\ y.list = x.list /\ y.cur = t
  BY <1>1, <1>2, OtherTrack
<1>5. KidOK(Fork(y))
  BY <1>4, ForkOK DEF Sent, Sound
<1> QED
  BY <1>3, <1>4, <1>5 DEF t

LEMMA StartFromOK ==
  ASSUME NEW x, Sent(x), NEW s \in {"play", "stop"}, NEW k, KidOK(k),
         StartFrom(x, s, k)
  PROVE  /\ Arrived
         /\ x.list # <<>> /\ ~(s = "play" /\ k # None)
              => q'.cur = Selected(x.list, x.cur)
<1>1. supp' = FALSE
  BY DEF StartFrom
<1>2. CASE s = "play" /\ k # None
  BY <1>1, <1>2 DEF StartFrom, Arrived
<1>3. CASE ~(s = "play" /\ k # None) /\ x.list # <<>>
  <2>1. Begin(x)
    BY <1>3 DEF StartFrom
  <2> QED
    BY <1>1, <2>1, <1>3, BeginOK DEF Arrived
<1>4. CASE ~(s = "play" /\ k # None) /\ x.list = <<>>
  <2>1. PICK p \in Prepared(x, x.kw) :
          IF p.ok THEN Begin(p.q) ELSE q' = p.q /\ st' = s /\ kid' = k
    BY <1>4 DEF StartFrom
  <2>2. Sent(p.q) /\ (p.ok => p.q.list # <<>>)
    BY PreparedSent DEF Sent, Sound, Queue
  <2>3. CASE p.ok
    BY <1>1, <1>4, <2>1, <2>2, <2>3, BeginOK DEF Arrived
  <2>4. CASE ~p.ok
    BY <1>1, <1>4, <2>1, <2>2, <2>4 DEF Arrived
  <2> QED
    BY <2>3, <2>4
<1> QED
  BY <1>2, <1>3, <1>4

LEMMA RestartOK ==
  ASSUME NEW x, Sent(x), Restart(x)
  PROVE  Arrived /\ (x.list # <<>> => q'.cur = Selected(x.list, x.cur))
<1>1. KidOK(None) /\ StartFrom(x, "stop", None)
  BY DEF Restart, KidOK
<1> QED
  BY <1>1, StartFromOK

LEMMA StartPlayOK ==
  ASSUME IInv, NEW x, Sent(x), StartPlay(x)
  PROVE  Arrived
<1>1. st \in {"play", "stop"} /\ KidOK(kid) /\ StartFrom(x, st, kid)
  BY DEF StartPlay, IInv, RestTyped
<1> QED
  BY <1>1, StartFromOK

LEMMA SwitchToOK ==
  ASSUME IInv, NEW x, Sent(x), SwitchTo(x)
  PROVE  /\ Arrived
         /\ kid # None => q' = x
         /\ kid = None /\ x.list # <<>> => q'.cur = Selected(x.list, x.cur)
<1>1. st \in {"play", "stop"} /\ KidOK(kid) /\ supp \in BOOLEAN
  BY DEF IInv, RestTyped
<1>2. CASE kid # None
  BY <1>1, <1>2 DEF SwitchTo, Arrived
<1>3. CASE kid = None
  <2>1. StartFrom(x, st, kid)
    BY <1>3 DEF SwitchTo, StartPlay
  <2> QED
    BY <1>1, <1>3, <2>1, StartFromOK
<1> QED
  BY <1>2, <1>3

LEMMA UnplayedOK ==
  ASSUME IInv, NEW x, Sent(x), Unplayed(x)
  PROVE  Arrived
BY DEF IInv, RestTyped, Unplayed, Arrived

\* A handler that is over, and has begun no other, restores the invariant.
LEMMA ArrivedInv ==
  ASSUME Arrived, mode' \in {"order", "single"}, eof' \in BOOLEAN,
         call' \in Calls \cup {None}, intro' = None
  PROVE  IInv'
BY DEF Arrived, IInv, QueueInv, PausedInv, RestTyped, Sent

-----------------------------------------------------------------------------
(* One lemma per action.                                                     *)

LEMMA TurnOK ==
  ASSUME IInv, NEW x, Sent(x), NEW op \in {"next", "prevpage", "nextpage", "eof"},
         Turn(x, op), supp' \in BOOLEAN
  PROVE  Arrived /\ call' \in Calls
<1>1. /\ x.page \in Nat /\ x.total \in Nat \ {0} /\ x.cur \in Tracks \cup {None}
  BY DEF Sent, Sound, Queue
<1>2. TurnFrom(x, op # "prevpage") \in Nat
  BY <1>1 DEF TurnFrom
<1>3. call' \in Calls
  BY <1>1, <1>2 DEF Turn, Calls
<1> QED
  BY <1>3 DEF Turn, Arrived, IInv, RestTyped

LEMMA NextInListOK ==
  ASSUME IInv, call = None, NEW x, Sent(x), Pos(x.list, x.cur) # 0, NextInList(x)
  PROVE  Arrived /\ call' \in Calls \cup {None}
<1> DEFINE i == Pos(x.list, x.cur)
<1>1. x.list \in Seq(Tracks) /\ Len(x.list) \in Nat
  BY DEF Sent, Sound, Queue
<1>2. i \in 1 .. Len(x.list)
  BY <1>1, PosFirst
<1>3. ASSUME NEW t \in Tracks \cup {None}, SwitchTo([x EXCEPT !.cur = t])
      PROVE  Arrived
  BY <1>3, OtherTrack, SwitchToOK
<1>4. CASE i < Len(x.list)
  <2>1. x.list[i + 1] \in Tracks
    BY <1>1, <1>2, <1>4
  <2> QED
    BY <1>3, <1>4, <2>1 DEF NextInList
<1>5. CASE ~(i < Len(x.list)) /\ x.online
  <2>1. Turn(x, "next") /\ UNCHANGED supp
    BY <1>5 DEF NextInList
  <2> QED
    BY <2>1, TurnOK DEF IInv, RestTyped
<1>6. CASE ~(i < Len(x.list)) /\ ~x.online
  <2> DEFINE t == IF mode = "single" THEN x.cur ELSE Head(x.list)
  <2>1. t \in Tracks \cup {None}
    BY <1>1, <1>2 DEF Sent, Sound, Queue
  <2>2. SwitchTo([x EXCEPT !.cur = t]) /\ UNCHANGED call
    BY <1>6 DEF NextInList
  <2> HIDE DEF t
  <2> QED
    BY <1>3, <2>1, <2>2
<1> QED
  BY <1>4, <1>5, <1>6

LEMMA NextOnlineOK ==
  ASSUME IInv, Idle, NextOnline
  PROVE  Arrived /\ call' \in Calls \cup {None}
<1>1. Sent(q) /\ q \in Queue /\ q.kw \in Keywords /\ call = None
  BY DEF IInv, QueueInv, Idle, Sent, Sound, Queue
<1>2. PICK t \in ParentCrosses(q, TRUE) :
        CASE t # None -> SwitchTo([q EXCEPT !.cur = t]) /\ UNCHANGED call
          [] t = None /\ CtxActive(q) /\ q.cur # None ->
               Unplayed(q) /\ UNCHANGED call
          [] OTHER -> \E p \in Prepared(q, q.kw) :
               IF ~p.ok THEN Unplayed(p.q) /\ UNCHANGED call
               ELSE IF Pos(p.q.list, q.cur) # 0 THEN NextInList(p.q)
               ELSE SwitchTo([p.q EXCEPT !.cur = Head(p.q.list)]) /\ UNCHANGED call
  BY DEF NextOnline
<1>3. t \in Tracks \cup {None}
  BY <1>1, <1>2, ParentCrossesTyped
<1>4. CASE t # None
  <2>1. SwitchTo([q EXCEPT !.cur = t]) /\ UNCHANGED call
    BY <1>2, <1>4
  <2> QED
    BY <1>1, <1>3, <2>1, OtherTrack, SwitchToOK
<1>5. CASE t = None /\ CtxActive(q) /\ q.cur # None
  <2>1. Unplayed(q) /\ UNCHANGED call
    BY <1>2, <1>5
  <2> QED
    BY <1>1, <2>1, UnplayedOK
<1>6. CASE t = None /\ ~(CtxActive(q) /\ q.cur # None)
  <2>1. PICK p \in Prepared(q, q.kw) :
          IF ~p.ok THEN Unplayed(p.q) /\ UNCHANGED call
          ELSE IF Pos(p.q.list, q.cur) # 0 THEN NextInList(p.q)
          ELSE SwitchTo([p.q EXCEPT !.cur = Head(p.q.list)]) /\ UNCHANGED call
    BY <1>2, <1>6
  <2>2. Sent(p.q) /\ p.q.cur = q.cur /\ (p.ok => p.q.list # <<>>)
    BY <1>1, PreparedSent DEF Sent
  <2>3. p.q.list \in Seq(Tracks)
    BY <2>2 DEF Sent, Sound, Queue
  <2>4. CASE ~p.ok
    BY <1>1, <2>1, <2>2, <2>4, UnplayedOK
  <2>5. CASE p.ok /\ Pos(p.q.list, q.cur) # 0
    BY <1>1, <2>1, <2>2, <2>5, NextInListOK
  <2>6. CASE p.ok /\ Pos(p.q.list, q.cur) = 0
    <3>1. Head(p.q.list) \in Tracks
      BY <2>2, <2>3, <2>6
    <3> QED
      BY <1>1, <2>1, <2>2, <2>6, <3>1, OtherTrack, SwitchToOK
  <2> QED
    BY <2>4, <2>5, <2>6
<1> QED
  BY <1>4, <1>5, <1>6

LEMMA NextSong_Inv == IInv /\ NextSong => IInv'
<1> SUFFICES ASSUME IInv, NextSong PROVE IInv'
    OBVIOUS
<1>1. /\ Idle /\ Sent(q) /\ q.list \in Seq(Tracks) /\ Len(q.list) \in Nat
      /\ UNCHANGED <<mode, eof, intro>> /\ call = None
  BY DEF NextSong, IInv, QueueInv, Idle, Sent, Sound, Queue
<1>2. Arrived /\ call' \in Calls \cup {None}
  <2>1. CASE Pos(q.list, q.cur) # 0
    BY <1>1, <2>1, NextInListOK DEF NextSong
  <2>2. CASE Pos(q.list, q.cur) = 0 /\ q.online
    BY <1>1, <2>2, NextOnlineOK DEF NextSong
  <2>3. CASE Pos(q.list, q.cur) = 0 /\ ~q.online
    <3>1. NextOffline /\ UNCHANGED call
      BY <2>3 DEF NextSong
    <3>2. CASE q.list = <<>>
      BY <1>1, <3>1, <3>2, UnplayedOK DEF NextOffline
    <3>3. CASE q.list # <<>>
      <4> DEFINE t == q.list[IF Len(q.list) > 1 THEN 2 ELSE 1]
      <4>1. t \in Tracks
        BY <1>1, <3>3
      <4>2. SwitchTo([q EXCEPT !.cur = t])
        BY <3>1, <3>3 DEF NextOffline
      <4> HIDE DEF t
      <4> QED
        BY <1>1, <3>1, <4>1, <4>2, OtherTrack, SwitchToOK
    <3> QED
      BY <3>2, <3>3
  <2> QED
    BY <2>1, <2>2, <2>3
<1> QED
  BY <1>1, <1>2, ArrivedInv DEF IInv, RestTyped, Idle

LEMMA PrevSong_Inv == IInv /\ PrevSong => IInv'
<1> SUFFICES ASSUME IInv, PrevSong PROVE IInv'
    OBVIOUS
<1>1. /\ Idle /\ Sent(q) /\ q \in Queue /\ q.list \in Seq(Tracks)
      /\ Len(q.list) \in Nat
      /\ UNCHANGED <<mode, eof, call, intro>> /\ call = None
  BY DEF PrevSong, IInv, QueueInv, Idle, Sent, Sound, Queue
<1>2. Arrived
  <2>1. CASE Pos(q.list, q.cur) # 0
    <3>1. PrevInList(q) \in Tracks
      BY <1>1, <2>1, PosFirst DEF PrevInList
    <3> QED
      BY <1>1, <2>1, <3>1, OtherTrack, SwitchToOK DEF PrevSong
  <2>2. CASE Pos(q.list, q.cur) = 0
    <3>1. PICK t \in ParentCrosses(q, FALSE) :
            IF t = None THEN Unplayed(q) ELSE SwitchTo([q EXCEPT !.cur = t])
      BY <2>2 DEF PrevSong
    <3>2. t \in Tracks \cup {None}
      BY <1>1, ParentCrossesTyped
    <3> QED
      BY <1>1, <3>1, <3>2, OtherTrack, SwitchToOK, UnplayedOK
  <2> QED
    BY <2>1, <2>2
<1> QED
  BY <1>1, <1>2, ArrivedInv DEF IInv, RestTyped, Idle

LEMMA AssignSong_Inv == IInv /\ AssignSong => IInv'
<1> SUFFICES ASSUME IInv, AssignSong PROVE IInv'
    OBVIOUS
<1>1. PICK t \in Range(q.list) : /\ Idle /\ SwitchTo([q EXCEPT !.cur = t])
                                 /\ UNCHANGED <<mode, eof, call, intro>>
  BY DEF AssignSong
<1>2. t \in Tracks /\ Sent(q)
  BY <1>1 DEF IInv, QueueInv, Idle, Sent, Sound, Queue, Range
<1>3. Arrived
  BY <1>1, <1>2, OtherTrack, SwitchToOK
<1> QED
  BY <1>1, <1>3, ArrivedInv DEF IInv, RestTyped, Idle

LEMMA PlayPlaylist_Inv == IInv /\ PlayPlaylist => IInv'
<1> SUFFICES ASSUME IInv, PlayPlaylist PROVE IInv'
    OBVIOUS
<1>1. PICK p \in Playlists : \E r \in Replies(p, 1) :
        /\ Idle /\ q.online /\ Good(r)
        /\ Restart(Published(SetTotal([q EXCEPT !.list = r.songs, !.kw = Hot,
                     !.pl = p, !.page = 1, !.cur = Head(r.songs)], r)))
        /\ UNCHANGED <<mode, eof, call, intro>>
  BY DEF PlayPlaylist
<1>2. PICK r \in Replies(p, 1) :
        /\ Idle /\ q.online /\ Good(r)
        /\ Restart(Published(SetTotal([q EXCEPT !.list = r.songs, !.kw = Hot,
                     !.pl = p, !.page = 1, !.cur = Head(r.songs)], r)))
        /\ UNCHANGED <<mode, eof, call, intro>>
  BY <1>1
<1> DEFINE y == [q EXCEPT !.list = r.songs, !.kw = Hot, !.pl = p, !.page = 1,
                          !.cur = Head(r.songs)]
<1>3. r \in ReplyTypes /\ r.songs \in Seq(Tracks) /\ Head(r.songs) \in Tracks
  <2>1. r \in ReplyTypes
    BY RepliesTyped, SourcesTyped
  <2> QED
    BY <1>2, <2>1 DEF ReplyTypes, Good
<1>4. Sound(y)
  BY <1>2, <1>3, SourcesTyped DEF IInv, QueueInv, Sound, Queue
<1> HIDE DEF y
<1>5. Sent(Published(SetTotal(y, r)))
  BY <1>3, <1>4, SetTotalSound, PublishedSent
<1>6. Arrived
  BY <1>2, <1>5, RestartOK DEF y
<1> QED
  BY <1>2, <1>6, ArrivedInv DEF IInv, RestTyped, Idle

LEMMA TurnPage_Inv == IInv /\ TurnPage => IInv'
<1> SUFFICES ASSUME IInv, TurnPage PROVE IInv'
    OBVIOUS
<1>1. PICK op \in {"nextpage", "prevpage"} :
        /\ Idle /\ Turn(q, op) /\ UNCHANGED <<eof, supp>>
  BY DEF TurnPage
<1>2. Sent(q) /\ supp \in BOOLEAN /\ eof \in BOOLEAN
  BY <1>1 DEF IInv, QueueInv, RestTyped, Idle
<1>3. Arrived /\ call' \in Calls
  BY <1>1, <1>2, TurnOK
<1> QED
  BY <1>1, <1>2, <1>3, ArrivedInv DEF IInv, RestTyped, Idle, Turn

LEMMA Play_Inv == IInv /\ Play => IInv'
BY StartPlayOK, ArrivedInv DEF Play, IInv, QueueInv, RestTyped, Idle

LEMMA StopPlay_Inv == IInv /\ StopPlay => IInv'
<1> SUFFICES ASSUME IInv, StopPlay PROVE IInv'
    OBVIOUS
<1>1. Arrived
  BY Zenon DEF StopPlay, Stopped, Idle, IInv, QueueInv, KidOK, RestTyped, Arrived
<1> QED
  BY <1>1, ArrivedInv DEF StopPlay, IInv, RestTyped, Idle

LEMMA SetMode_Inv == IInv /\ SetMode => IInv'
BY DEF SetMode, Idle, IInv, QueueInv, PausedInv, RestTyped

LEMMA GetMusicList_Inv == IInv /\ GetMusicList => IInv'
<1> SUFFICES ASSUME IInv, GetMusicList PROVE IInv'
    OBVIOUS
<1>1. Sent(q') /\ Idle /\ UNCHANGED <<mode, st, kid, eof, supp, call, intro>>
  BY PublishedSent DEF GetMusicList, IInv, QueueInv
<1> QED
  BY <1>1 DEF Idle, IInv, QueueInv, PausedInv, RestTyped, Sent

\* The child changes the current track, or ends.
LEMMA KidNext_Inv == IInv /\ KidNext => IInv'
<1> SUFFICES ASSUME IInv, KidNext PROVE IInv'
    OBVIOUS
<1>1. /\ Sound(q) /\ q \in Queue /\ KidOK(kid) /\ kid # None
      /\ UNCHANGED <<mode, supp, call, intro>> /\ RestTyped
  BY DEF KidNext, IInv, QueueInv, Sound
<1>2. /\ kid.list \in Seq(Tracks) /\ kid.list # <<>> /\ kid.src \in Sources
      /\ kid.pages \in Nat /\ Len(kid.list) \in Nat
  BY <1>1 DEF KidOK, Child
<1> DEFINE Goal == /\ \/ \E t \in Tracks : q' = [q EXCEPT !.cur = t]
                      \/ q' = q \/ q' = [q EXCEPT !.pub = None]
                   /\ kid' \in {kid, None} /\ st' \in {st, "stop"}
                   /\ eof' \in BOOLEAN
<1>3. ASSUME NEW t \in Tracks, KidStopsAt(t) PROVE Goal
  BY <1>1, <1>3 DEF KidStopsAt, RestTyped
<1>4. ASSUME NEW i \in 1 .. Len(kid.list), KidInList(i) PROVE Goal
  <2>1. CASE mode = "single"
    BY <1>2, <1>3, <1>4, <2>1 DEF KidInList
  <2>2. CASE mode # "single" /\ i < Len(kid.list)
    <3>1. kid.list[i + 1] \in Tracks
      BY <1>2, <2>2
    <3> QED
      BY <1>3, <1>4, <2>2, <3>1 DEF KidInList
  <2>3. CASE mode # "single" /\ ~(i < Len(kid.list))
    BY <1>4, <2>3 DEF KidInList
  <2> QED
    BY <2>1, <2>2, <2>3
<1>5. Goal
  <2>1. CASE Pos(kid.list, q.cur) # 0
    <3>1. Pos(kid.list, q.cur) \in 1 .. Len(kid.list)
      BY <1>2, <2>1, PosFirst
    <3> QED
      BY <1>4, <2>1, <3>1 DEF KidNext
  <2>2. CASE Pos(kid.list, q.cur) = 0 /\ kid.src = Local
    <3>1. 1 \in 1 .. Len(kid.list)
      BY <1>2
    <3> QED
      BY <1>4, <2>2, <3>1 DEF KidNext
  <2>3. CASE Pos(kid.list, q.cur) = 0 /\ kid.src # Local
    <3>1. PICK t \in CrossPage(kid.src, kid.pages, q.cur, TRUE) :
            IF t # None THEN KidStopsAt(t)
            ELSE q' = [q EXCEPT !.pub = None] /\ kid' = None /\ UNCHANGED <<st, eof>>
      BY <2>3 DEF KidNext
    <3>2. t = None \/ t \in Tracks
      BY <1>2, CrossPageTyped
    <3> QED
      BY <1>1, <1>3, <3>1, <3>2 DEF RestTyped
  <2> QED
    BY <2>1, <2>2, <2>3
<1>6. Sound(q') /\ (Sent(q) => Sent(q')) /\ q'.list = q.list
  BY <1>1, <1>5, OtherTrack, UnsentSound DEF Sent, Sound, Queue
<1>7. KidOK(kid') /\ RestTyped'
  BY <1>1, <1>5 DEF KidOK, RestTyped
<1> QED
  BY <1>1, <1>6, <1>7 DEF IInv, QueueInv, PausedInv

LEMMA EofWrapOK ==
  ASSUME IInv, NEW x, Sent(x), EofWrap(x)
  PROVE  Arrived
<1>1. x \in Queue /\ x.list \in Seq(Tracks) /\ Len(x.list) \in Nat
  BY DEF Sent, Sound, Queue
<1> DEFINE i == Pos(x.list, x.cur)
           j == IF i = 0 THEN 1 ELSE i
<1>2. i \in 0 .. Len(x.list)
  BY <1>1, PosFirst
<1>3. CASE mode = "single"
  BY <1>3, StartPlayOK DEF EofWrap
<1>4. CASE mode # "single" /\ x.list # <<>> /\ (i # 0 \/ ~x.online)
  <2>1. (j % Len(x.list)) + 1 \in 1 .. Len(x.list)
    BY <1>1, <1>2, <1>4
  <2>2. x.list[(j % Len(x.list)) + 1] \in Tracks
    BY <1>1, <2>1
  <2>3. StartPlay([x EXCEPT !.cur = x.list[(j % Len(x.list)) + 1]])
    BY <1>4 DEF EofWrap
  <2> QED
    BY <2>2, <2>3, OtherTrack, StartPlayOK
<1>5. CASE mode # "single" /\ ~(x.list # <<>> /\ (i # 0 \/ ~x.online))
  <2>1. PICK t \in ParentCrosses(x, TRUE) :
          IF t = None THEN Unplayed([x EXCEPT !.pub = None])
          ELSE StartPlay([x EXCEPT !.cur = t])
    BY <1>5 DEF EofWrap
  <2>2. t = None \/ t \in Tracks
    BY <1>1, ParentCrossesTyped
  <2> QED
    BY <2>1, <2>2, OtherTrack, UnsentSound, StartPlayOK, UnplayedOK DEF Sent
<1> QED
  BY <1>3, <1>4, <1>5

LEMMA HandleEof_Inv == IInv /\ HandleEof => IInv'
<1> SUFFICES ASSUME IInv, HandleEof PROVE IInv'
    OBVIOUS
<1>1. Idle /\ eof' = FALSE /\ Sent(q)
  BY DEF HandleEof, IInv, QueueInv, Idle
<1>2. CASE supp
  <2>1. supp' = FALSE /\ UNCHANGED <<q, mode, st, kid, call, intro>>
    BY <1>2 DEF HandleEof
  <2> QED
    BY <1>1, <2>1, Zenon DEF IInv, QueueInv, PausedInv, KidOK, RestTyped, Sound, Sent
<1>3. CASE ~supp /\ mode = "order" /\ q.online
  <2>1. Turn(q, "eof") /\ UNCHANGED supp
    BY <1>3 DEF HandleEof
  <2>2. Arrived /\ call' \in Calls
    BY <1>1, <2>1, TurnOK DEF IInv, RestTyped
  <2> QED
    BY <1>1, <2>1, <2>2, ArrivedInv DEF Turn, Idle, IInv, RestTyped
<1>4. CASE ~supp /\ ~(mode = "order" /\ q.online)
  <2>1. EofWrap(q) /\ UNCHANGED <<mode, call, intro>>
    BY <1>4 DEF HandleEof
  <2> QED
    BY <1>1, <2>1, EofWrapOK, ArrivedInv DEF Idle, IInv, RestTyped
<1> QED
  BY <1>2, <1>3, <1>4

\* What the page that was asked for makes of the queue.
TurnedQueue(x, r, p) == Published(SetTotal([Fill(x, r) EXCEPT !.page = p], r))

LEMMA TurnedQueueSent ==
  ASSUME NEW x, Sound(x), NEW r \in ReplyTypes, Good(r), NEW p \in Nat
  PROVE  /\ Sent(TurnedQueue(x, r, p))
         /\ TurnedQueue(x, r, p).list = r.songs
         /\ TurnedQueue(x, r, p).cur = x.cur
<1> DEFINE y == [Fill(x, r) EXCEPT !.page = p]
<1>1. Sound(Fill(x, r)) /\ Fill(x, r).list = r.songs /\ Fill(x, r).cur = x.cur
  BY FillSound
<1>2. Sound(y) /\ y.list = r.songs /\ y.cur = x.cur
  BY <1>1 DEF Sound, Queue
<1> HIDE DEF y
<1>3. Sound(SetTotal(y, r)) /\ SetTotal(y, r).list = r.songs
      /\ SetTotal(y, r).cur = x.cur
  BY <1>2, SetTotalSound
<1> QED
  BY <1>3, PublishedSent DEF y, TurnedQueue

LEMMA TryPage_Inv == IInv /\ TryPage => IInv'
<1> SUFFICES ASSUME IInv, TryPage PROVE IInv'
    OBVIOUS
<1>1. /\ call \in Calls /\ call # None /\ intro = None
      /\ UNCHANGED <<mode, eof, intro>> /\ Sound(q) /\ q \in Queue
  BY DEF TryPage, IInv, PausedInv, QueueInv, RestTyped, Sound
<1>2. PICK r \in Replies(Source(q), call.page) :
        IF Good(r)
        THEN Turned(TurnedQueue(q, r, call.page)) /\ call' = None
        ELSE IF call.left > 1
        THEN /\ Unplayed(Fill(q, r))
             /\ call' = [call EXCEPT !.left = @ - 1,
                           !.page = TurnOn(@, r.total, call.op # "prevpage")]
        ELSE GaveUp(Fill(q, r)) /\ call' = None
  BY DEF TryPage, TurnedQueue
<1>3. call.page \in Nat /\ call.left \in Nat \ {0} /\ r \in ReplyTypes
  BY <1>1, SourceTyped, RepliesTyped DEF Calls
<1>4. CASE Good(r)
  <2> DEFINE y == TurnedQueue(q, r, call.page)
  <2>1. Turned(y) /\ call' = None
    BY <1>2, <1>4
  <2>2. Sent(y) /\ y.list = r.songs
    BY <1>1, <1>3, <1>4, TurnedQueueSent
  <2>3. Head(y.list) \in Tracks
    BY <1>3, <1>4, <2>2 DEF ReplyTypes, Good
  <2> HIDE DEF y
  <2>4. CASE call.op = "next"
    BY <2>1, <2>2, <2>3, <2>4, OtherTrack, SwitchToOK, ArrivedInv, <1>1
       DEF Turned, IInv, RestTyped
  <2>5. CASE call.op = "eof"
    BY <2>1, <2>2, <2>5, StartPlayOK, ArrivedInv, <1>1 DEF Turned, IInv, RestTyped
  <2>6. CASE call.op \notin {"next", "eof"}
    BY <2>1, <2>2, <2>6, UnplayedOK, ArrivedInv, <1>1 DEF Turned, IInv, RestTyped
  <2> QED
    BY <2>4, <2>5, <2>6
<1>5. CASE ~Good(r) /\ call.left > 1
  <2>1. Unplayed(Fill(q, r)) /\ Sent(Fill(q, r))
    BY <1>1, <1>2, <1>3, <1>5, FillSound
  <2>2. TurnOn(call.page, r.total, call.op # "prevpage") \in Nat
    BY <1>3 DEF TurnOn, ReplyTypes
  <2>3. call' \in Calls
    <3>1. call' = [call EXCEPT !.left = @ - 1,
                     !.page = TurnOn(@, r.total, call.op # "prevpage")]
      BY <1>2, <1>5
    <3>2. call.left - 1 \in Nat \ {0}
      BY <1>3, <1>5
    <3> QED
      BY <1>1, <2>2, <3>1, <3>2 DEF Calls
  <2> QED
    BY <1>1, <2>1, <2>3, UnplayedOK, ArrivedInv DEF IInv, RestTyped
<1>6. CASE ~Good(r) /\ ~(call.left > 1)
  <2>1. GaveUp(Fill(q, r)) /\ call' = None /\ Sent(Fill(q, r))
    BY <1>1, <1>2, <1>3, <1>6, FillSound
  <2> QED
    BY <1>1, <2>1, EofWrapOK, UnplayedOK, ArrivedInv DEF GaveUp, IInv, RestTyped
<1> QED
  BY <1>4, <1>5, <1>6

-----------------------------------------------------------------------------
(* Songs inserted: where they are found again.                               *)

\* A concatenation, part by part.
LEMMA ConcatParts ==
  ASSUME NEW S, NEW s \in Seq(S), NEW t \in Seq(S)
  PROVE  /\ s \o t \in Seq(S)
         /\ Len(s \o t) = Len(s) + Len(t)
         /\ \A k \in 1 .. Len(s) : (s \o t)[k] = s[k]
         /\ \A k \in 1 .. Len(t) : (s \o t)[Len(s) + k] = t[k]
<1>1. s \o t \in Seq(S) /\ Len(s \o t) = Len(s) + Len(t)
  OBVIOUS
<1>2. \A k \in 1 .. Len(s) : (s \o t)[k] = s[k]
  OBVIOUS
<1>3. \A k \in 1 .. Len(t) : (s \o t)[Len(s) + k] = t[k]
  <2> TAKE k \in 1 .. Len(t)
  <2>1. PICK j \in Nat : j = Len(s) + k
    OBVIOUS
  <2>2. j \in 1 .. Len(s) + Len(t) /\ ~(j <= Len(s)) /\ j - Len(s) = k
    BY <2>1
  <2>3. (s \o t)[j] = t[j - Len(s)]
    BY <2>2, ConcatProperties
  <2> QED
    BY <2>1, <2>2, <2>3
<1> QED
  BY <1>1, <1>2, <1>3

\* ... of three lists of songs.
LEMMA ThreeParts ==
  ASSUME NEW a \in Seq(Tracks), NEW m \in Seq(Tracks), NEW b \in Seq(Tracks)
  PROVE  /\ (a \o m) \o b \in Seq(Tracks)
         /\ Len((a \o m) \o b) = Len(a) + Len(m) + Len(b)
         /\ \A k \in 1 .. Len(a) : ((a \o m) \o b)[k] = a[k]
         /\ \A k \in 1 .. Len(m) : ((a \o m) \o b)[Len(a) + k] = m[k]
         /\ \A k \in 1 .. Len(b) : ((a \o m) \o b)[Len(a) + Len(m) + k] = b[k]
<1>1. /\ a \o m \in Seq(Tracks)
      /\ Len(a \o m) = Len(a) + Len(m)
      /\ \A k \in 1 .. Len(a) : (a \o m)[k] = a[k]
      /\ \A k \in 1 .. Len(m) : (a \o m)[Len(a) + k] = m[k]
  BY ConcatParts
<1>c. PICK c \in Seq(Tracks) : c = a \o m
  BY <1>1
<1>2. Len(c) = Len(a) + Len(m)
  BY <1>1, <1>c
<1>3. /\ \A k \in 1 .. Len(a) : c[k] = a[k]
      /\ \A k \in 1 .. Len(m) : c[Len(a) + k] = m[k]
  BY <1>1, <1>c
<1>4. /\ c \o b \in Seq(Tracks)
      /\ Len(c \o b) = Len(c) + Len(b)
      /\ \A k \in 1 .. Len(c) : (c \o b)[k] = c[k]
      /\ \A k \in 1 .. Len(b) : (c \o b)[Len(c) + k] = b[k]
  BY ConcatParts
<1>5. Len(a) \in Nat /\ Len(m) \in Nat /\ Len(b) \in Nat
  OBVIOUS
<1>6. \A k \in 1 .. Len(a) : (c \o b)[k] = a[k]
  BY <1>2, <1>3, <1>4, <1>5
<1>7. \A k \in 1 .. Len(m) : (c \o b)[Len(a) + k] = m[k]
  <2> TAKE k \in 1 .. Len(m)
  <2>1. Len(a) + k \in 1 .. Len(c)
    BY <1>2, <1>5
  <2> QED
    BY <1>3, <1>4, <2>1
<1>8. \A k \in 1 .. Len(b) : (c \o b)[Len(a) + Len(m) + k] = b[k]
  BY <1>2, <1>4
<1> QED
  BY <1>c, <1>2, <1>4, <1>6, <1>7, <1>8

LEMMA InsertAfterShape ==
  ASSUME NEW l \in Seq(Tracks), NEW t, NEW new \in Seq(Tracks)
  PROVE  /\ InsertAfter(l, t, new) \in Seq(Tracks)
         /\ Len(InsertAfter(l, t, new)) = Len(l) + Len(new)
         /\ \A k \in 1 .. Pos(l, t) : InsertAfter(l, t, new)[k] = l[k]
         /\ \A k \in 1 .. Len(new) : InsertAfter(l, t, new)[Pos(l, t) + k] = new[k]
         /\ Pos(l, t) = 0 =>
              \A k \in 1 .. Len(l) : InsertAfter(l, t, new)[Len(new) + k] = l[k]
<1> DEFINE i == Pos(l, t)
           a == SubSeq(l, 1, i)
           b == SubSeq(l, i + 1, Len(l))
<1>1. i \in 0 .. Len(l) /\ Len(l) \in Nat /\ Len(new) \in Nat
  BY PosFirst
<1> HIDE DEF i
<1>2. /\ a \in Seq(Tracks) /\ Len(a) = i
      /\ \A k \in 1 .. i : a[k] = l[k]
  <2>1. \A k \in 1 .. i : l[k] \in Tracks
    BY <1>1
  <2>2. /\ SubSeq(l, 1, i) \in Seq(Tracks)
        /\ Len(SubSeq(l, 1, i)) = IF 1 <= i THEN i - 1 + 1 ELSE 0
        /\ \A k \in 1 .. i - 1 + 1 : SubSeq(l, 1, i)[k] = l[1 + k - 1]
    BY <1>1, <2>1, SubSeqProperties
  <2>3. \A k \in 1 .. i : k \in 1 .. i - 1 + 1 /\ 1 + k - 1 = k
    BY <1>1
  <2> QED
    BY <1>1, <2>2, <2>3
<1>3. /\ b \in Seq(Tracks) /\ Len(b) = Len(l) - i
      /\ \A k \in 1 .. Len(l) - i : b[k] = l[i + k]
  <2> DEFINE m == i + 1
             n == Len(l)
  <2>1. (\A k \in m .. n : l[k] \in Tracks) /\ m \in Int /\ n \in Int
    BY <1>1
  <2> HIDE DEF m, n
  <2>2. /\ SubSeq(l, m, n) \in Seq(Tracks)
        /\ Len(SubSeq(l, m, n)) = IF m <= n THEN n - m + 1 ELSE 0
        /\ \A k \in 1 .. n - m + 1 : SubSeq(l, m, n)[k] = l[m + k - 1]
    BY <2>1, SubSeqProperties
  <2>3. \A k \in 1 .. Len(l) - i : k \in 1 .. n - m + 1 /\ m + k - 1 = i + k
    BY <1>1 DEF m, n
  <2>4. (IF m <= n THEN n - m + 1 ELSE 0) = Len(l) - i
    BY <1>1 DEF m, n
  <2> QED
    BY <2>2, <2>3, <2>4 DEF m, n
<1>4. InsertAfter(l, t, new) = (a \o new) \o b
  BY DEF InsertAfter, i
<1>5. Len(a) = i /\ Len(b) = Len(l) - i /\ a \in Seq(Tracks) /\ b \in Seq(Tracks)
  BY <1>2, <1>3
<1> HIDE DEF a, b
<1> DEFINE y == (a \o new) \o b
<1>6. /\ y \in Seq(Tracks)
      /\ Len(y) = Len(a) + Len(new) + Len(b)
      /\ \A k \in 1 .. Len(a) : y[k] = a[k]
      /\ \A k \in 1 .. Len(new) : y[Len(a) + k] = new[k]
      /\ \A k \in 1 .. Len(b) : y[Len(a) + Len(new) + k] = b[k]
  BY <1>5, ThreeParts
<1> HIDE DEF y
<1>7. \A k \in 1 .. i : y[k] = l[k]
  BY <1>2, <1>5, <1>6
<1>8. \A k \in 1 .. Len(new) : y[i + k] = new[k]
  BY <1>5, <1>6
<1>9. ASSUME i = 0, NEW k \in 1 .. Len(l)
      PROVE  y[Len(new) + k] = l[k]
  <2>1. k \in 1 .. Len(b) /\ k \in 1 .. Len(l) - i /\ i + k = k
        /\ Len(a) + Len(new) + k = Len(new) + k
    BY <1>1, <1>5, <1>9
  <2> QED
    BY <1>3, <1>6, <2>1
<1>10. Len(y) = Len(l) + Len(new)
  BY <1>1, <1>5, <1>6
<1> QED
  BY <1>4, <1>6, <1>7, <1>8, <1>9, <1>10 DEF i, y

\* The first of the songs is found behind the track they were inserted behind,
\* unless that track is in none of the old places and among the new songs.
LEMMA BehindInserted ==
  ASSUME NEW l \in Seq(Tracks), NEW t, NEW new \in Seq(Tracks), new # <<>>,
         ~(Pos(l, t) = 0 /\ Pos(new, t) # 0)
  PROVE  Behind(InsertAfter(l, t, new), t) = new[1]
<1> DEFINE y == InsertAfter(l, t, new)
           i == Pos(l, t)
<1>1. /\ y \in Seq(Tracks) /\ Len(y) = Len(l) + Len(new)
      /\ \A k \in 1 .. i : y[k] = l[k]
      /\ \A k \in 1 .. Len(new) : y[i + k] = new[k]
      /\ i = 0 => \A k \in 1 .. Len(l) : y[Len(new) + k] = l[k]
  BY InsertAfterShape
<1>2. /\ i \in 0 .. Len(l) /\ Len(l) \in Nat /\ Len(new) \in Nat \ {0}
      /\ i # 0 => l[i] = t
      /\ \A k \in 1 .. Len(l) : l[k] = t => i # 0 /\ i <= k
  BY PosFirst, EmptySeq
<1>3. \A k \in 1 .. Len(new) : new[k] = t => Pos(new, t) # 0
  BY PosFirst
<1>4. /\ Pos(y, t) \in 0 .. Len(y)
      /\ Pos(y, t) # 0 => y[Pos(y, t)] = t
      /\ \A k \in 1 .. Len(y) : y[k] = t => Pos(y, t) # 0 /\ Pos(y, t) <= k
  BY <1>1, PosFirst
<1> HIDE DEF i, y
<1>5. Pos(y, t) = i
  <2>1. CASE i # 0
    <3>1. i \in 1 .. Len(y) /\ y[i] = t
      BY <1>1, <1>2, <2>1
    <3>2. Pos(y, t) # 0 /\ Pos(y, t) <= i
      BY <1>4, <3>1
    <3>3. Pos(y, t) \in 1 .. i /\ Pos(y, t) \in 1 .. Len(l)
      BY <1>2, <1>4, <3>2
    <3>4. l[Pos(y, t)] = t
      BY <1>1, <1>4, <3>2, <3>3
    <3> QED
      BY <1>2, <3>2, <3>3, <3>4
  <2>2. CASE i = 0
    <3>1. ASSUME NEW k \in 1 .. Len(y), y[k] = t PROVE FALSE
      <4>1. CASE k <= Len(new)
        <5>1. k \in 1 .. Len(new) /\ i + k = k
          BY <1>1, <1>2, <2>2, <4>1
        <5> QED
          BY <1>1, <1>3, <2>2, <3>1, <5>1 DEF i
      <4>2. CASE ~(k <= Len(new))
        <5>1. k - Len(new) \in 1 .. Len(l) /\ Len(new) + (k - Len(new)) = k
          BY <1>1, <1>2, <4>2
        <5> QED
          BY <1>1, <1>2, <2>2, <3>1, <5>1
      <4> QED
        BY <4>1, <4>2
    <3>2. Len(y) \in Nat
      BY <1>1
    <3>3. Pos(y, t) # 0 => Pos(y, t) \in 1 .. Len(y)
      BY <1>4, <3>2
    <3> QED
      BY <1>4, <2>2, <3>1, <3>3
  <2> QED
    BY <2>1, <2>2
<1>6. (i % Len(y)) + 1 = i + 1
  <2>1. i \in Nat /\ Len(y) \in Nat \ {0} /\ i < Len(y)
    BY <1>1, <1>2
  <2> QED
    BY <2>1, SmallModulo
<1>7. y[i + 1] = new[1]
  BY <1>1, <1>2
<1> QED
  BY <1>5, <1>6, <1>7 DEF Behind, y

\* Behind a track there is a song.
LEMMA BehindTyped ==
  ASSUME NEW l \in Seq(Tracks), l # <<>>, NEW t
  PROVE  Behind(l, t) \in Tracks /\ Pos(l, Behind(l, t)) # 0
<1>1. Pos(l, t) \in 0 .. Len(l) /\ Len(l) \in Nat \ {0}
  BY PosFirst, EmptySeq
<1>2. (Pos(l, t) % Len(l)) + 1 \in 1 .. Len(l)
  BY <1>1
<1>3. Behind(l, t) = l[(Pos(l, t) % Len(l)) + 1]
  BY DEF Behind
<1> QED
  BY <1>2, <1>3, PosFirst

\* What is offered is a list of songs of a keyword that was searched for.
LEMMA OffersTyped ==
  ASSUME NEW o \in Offers
  PROVE  o.songs \in Seq(Tracks) /\ o.kw \in Keywords \cup {None}
<1>1. \A k \in Keywords : SearchIn(q, k) \in Sources
  BY SourcesTyped DEF SearchIn
<1>2. ASSUME NEW t \in Tracks PROVE <<t>> \in Seq(Tracks)
  OBVIOUS
<1>3. 1 \in Nat
  OBVIOUS
<1>4. CASE \E t \in Tracks : o = [songs |-> <<t>>, kw |-> None]
  BY <1>2, <1>4
<1>5. CASE \E k \in Keywords : o = [songs |-> Page(SearchIn(q, k), 1), kw |-> k]
  BY <1>1, <1>3, <1>5, PageTyped
<1>6. CASE \E p \in Playlists : o = [songs |-> Page(p, 1), kw |-> None]
  BY <1>3, <1>6, PageTyped, SourcesTyped
<1> QED
  BY <1>4, <1>5, <1>6 DEF Offers

\* While an insertion is under way, the song to be announced is behind the
\* track it was inserted behind.
IntroInv == intro # None /\ ~intro.hidden => Behind(q.list, intro.at) = intro.want

LEMMA InsertSongs_Inv == IInv /\ InsertSongs => IInv' /\ IntroInv'
<1> SUFFICES ASSUME IInv, InsertSongs PROVE IInv' /\ IntroInv'
    OBVIOUS
<1>1. PICK o \in Offers, app \in BOOLEAN :
        /\ Idle /\ o.songs # <<>>
        /\ q.online \/ (o.kw # None /\ ~app)
        /\ q' = [q EXCEPT !.list = InsertAfter(@, q.cur, o.songs)]
        /\ intro' = [app |-> app, kw |-> o.kw, want |-> o.songs[1], at |-> q.cur,
                     hidden |-> Pos(q.list, q.cur) = 0 /\ Pos(o.songs, q.cur) # 0]
        /\ UNCHANGED <<mode, st, kid, eof, supp, call>>
  BY DEF InsertSongs
<1> DEFINE s == o.songs
           y == InsertAfter(q.list, q.cur, s)
<1>2. /\ Sent(q) /\ q \in Queue /\ q.list \in Seq(Tracks)
      /\ q.cur \in Tracks \cup {None} /\ Len(q.list) \in Nat
      /\ s \in Seq(Tracks) /\ o.kw \in Keywords \cup {None}
  BY <1>1, OffersTyped DEF Idle, IInv, QueueInv, Sent, Sound, Queue
<1>3. Len(s) \in Nat \ {0} /\ s[1] \in Tracks
  BY <1>1, <1>2, EmptySeq
<1>4. y \in Seq(Tracks) /\ Len(y) = Len(q.list) + Len(s)
  <2> DEFINE c == q.cur
             l == q.list
  <2>1. l \in Seq(Tracks) /\ s \in Seq(Tracks)
    BY <1>2
  <2> HIDE DEF c, l, s
  <2>2. InsertAfter(l, c, s) \in Seq(Tracks) /\ Len(InsertAfter(l, c, s)) = Len(l) + Len(s)
    BY <2>1, InsertAfterShape
  <2> QED
    BY <2>2 DEF c, l
<1>5. y # <<>>
  <2> HIDE DEF s, y
  <2>1. Len(y) # 0
    BY <1>2, <1>3, <1>4
  <2> QED
    BY <1>4, <2>1, EmptySeq
<1>6. q' = [q EXCEPT !.list = y]
  BY <1>1
<1>7. (Pos(q.list, q.cur) = 0 /\ Pos(s, q.cur) # 0) \/ Behind(y, q.cur) = s[1]
  BY <1>1, <1>2, BehindInserted
<1> HIDE DEF s, y
<1>8. q'.list = y /\ q' \in Queue /\ (~q'.online => q'.pub = None)
  BY <1>2, <1>4, <1>6 DEF Sent, Sound, Queue
<1>9. intro' \in Intros
  <2>1. intro' = [app |-> app, kw |-> o.kw, want |-> s[1], at |-> q.cur,
                  hidden |-> Pos(q.list, q.cur) = 0 /\ Pos(s, q.cur) # 0]
    BY <1>1 DEF s
  <2>2. (Pos(q.list, q.cur) = 0 /\ Pos(s, q.cur) # 0) \in BOOLEAN
    OBVIOUS
  <2> QED
    BY <1>2, <1>3, <2>1, <2>2 DEF Intros
<1>10. intro' # None
  BY <1>9, NoneAssumption
<1>11. IInv'
  <2>1. QueueInv' /\ PausedInv'
    BY <1>1, <1>5, <1>8, <1>10 DEF QueueInv, PausedInv, Idle, Sound
  <2>2. KidOK(kid') /\ RestTyped'
    BY <1>1, <1>9, Zenon DEF IInv, RestTyped
  <2> QED
    BY <2>1, <2>2 DEF IInv
<1>12. IntroInv'
  <2>1. intro'.at = q.cur /\ intro'.want = s[1]
        /\ (intro'.hidden <=> Pos(q.list, q.cur) = 0 /\ Pos(s, q.cur) # 0)
    BY <1>1 DEF s
  <2> QED
    BY <1>7, <1>8, <2>1 DEF IntroInv
<1> QED
  BY <1>11, <1>12

\* The queue that is announced.
IntroQueue ==
  LET x == IF intro.kw = None THEN q ELSE [q EXCEPT !.kw = intro.kw, !.page = 1]
  IN  Published([x EXCEPT !.cur = Behind(x.list, x.cur)])

LEMMA AfterInsert_Inv ==
  ASSUME IInv, AfterInsert
  PROVE  IInv' /\ q'.cur = Behind(q.list, q.cur)
<1>1. /\ intro \in Intros /\ intro' = None /\ call = None /\ Sound(q)
      /\ q.list # <<>> /\ q.list \in Seq(Tracks) /\ UNCHANGED <<mode, eof, call>>
      /\ IF intro.app THEN Restart(IntroQueue) ELSE Unplayed(IntroQueue)
  BY DEF AfterInsert, IntroQueue, IInv, QueueInv, PausedInv, RestTyped, Sound, Queue
<1> DEFINE t == Behind(q.list, q.cur)
           x == IF intro.kw = None THEN q ELSE [q EXCEPT !.kw = intro.kw, !.page = 1]
           y == [x EXCEPT !.cur = t]
<1>2. t \in Tracks /\ Pos(q.list, t) # 0
  BY <1>1, BehindTyped
<1>3. Sound(x) /\ x.list = q.list /\ x.cur = q.cur
  BY <1>1 DEF Sound, Queue, Intros
<1>4. IntroQueue = Published([x EXCEPT !.cur = Behind(x.list, x.cur)])
  BY DEF IntroQueue
<1>5. IntroQueue = Published(y)
  BY <1>3, <1>4
<1> HIDE DEF t, x
<1>6. Sound(y) /\ y.list = q.list /\ y.cur = t
  BY <1>2, <1>3, OtherTrack DEF Sound
<1> HIDE DEF y
<1>7. Sent(IntroQueue) /\ IntroQueue.list = q.list /\ IntroQueue.cur = t
  BY <1>5, <1>6, PublishedSent
<1>8. Arrived /\ q'.cur = t
  <2>1. CASE intro.app
    BY <1>1, <1>2, <1>7, <2>1, RestartOK DEF Selected
  <2>2. CASE ~intro.app
    BY <1>1, <1>7, <2>2, UnplayedOK DEF Unplayed
  <2> QED
    BY <2>1, <2>2
<1> QED
  BY <1>1, <1>8, ArrivedInv DEF IInv, RestTyped, t

LEMMA CommitIntro_Inv == IInv /\ CommitIntro => IInv'
<1> SUFFICES ASSUME IInv, CommitIntro PROVE IInv'
    OBVIOUS
<1>1. Arrived
  BY RestartOK DEF CommitIntro, IInv, QueueInv, Idle
<1> QED
  BY <1>1, ArrivedInv DEF CommitIntro, IInv, RestTyped, Idle

\* The page a popular song is drawn from was sent, or nothing was found.
LEMMA HotPagesOK ==
  ASSUME NEW x, Sound(x), NEW h \in HotPages(x)
  PROVE  /\ Sound(h.q)
         /\ h.ok => h.q.list \in Seq(Tracks) /\ h.q.list # <<>>
         /\ ~h.ok => Sent(h.q)
<1> DEFINE s == SearchIn(x, Hot)
           Goal(z) == /\ Sound(z.q)
                      /\ z.ok => z.q.list # <<>>
                      /\ ~z.ok => Sent(z.q)
<1>0. s \in Sources /\ Hot \in Keywords
  BY SourceTyped, SourcesTyped DEF Sound
<1> HIDE DEF s
<1>1. \A n \in Nat : Replies(s, n) \subseteq ReplyTypes
  BY <1>0, RepliesTyped
<1>2. ASSUME NEW z, Sound(z), NEW r \in ReplyTypes, Good(r)
      PROVE  /\ Sound(SetTotal(Fill(z, r), r))
             /\ SetTotal(Fill(z, r), r).list # <<>>
             /\ SetTotal(Fill(z, r), r).total \in Nat \ {0}
  <2> DEFINE w == Fill(z, r)
  <2>1. Sound(w) /\ w.list # <<>>
    BY <1>2, FillSound
  <2> HIDE DEF w
  <2>2. Sound(SetTotal(w, r)) /\ SetTotal(w, r).list # <<>>
    BY <2>1, SetTotalSound
  <2>3. SetTotal(w, r).total \in Nat \ {0}
    BY <2>2 DEF Sound, Queue
  <2> QED
    BY <2>2, <2>3 DEF w
<1>3. ASSUME NEW z, Sound(z), z.list # <<>>, NEW n \in Nat
      PROVE  /\ Sound([z EXCEPT !.page = n]) /\ [z EXCEPT !.page = n].list # <<>>
             /\ Sound([z EXCEPT !.kw = Hot])  /\ [z EXCEPT !.kw = Hot].list # <<>>
             /\ [z EXCEPT !.kw = Hot].total = z.total
  BY <1>0, <1>3 DEF Sound, Queue
<1>4. CASE \E r \in {r \in Replies(s, 1) : ~Good(r)} :
             h = [ok |-> FALSE, q |-> Fill(x, r)]
  <2>1. PICK r \in Replies(s, 1) : ~Good(r) /\ h = [ok |-> FALSE, q |-> Fill(x, r)]
    BY <1>4
  <2>2. r \in ReplyTypes
    BY <1>1
  <2>3. Sound(Fill(x, r)) /\ Sent(Fill(x, r))
    BY <2>1, <2>2, FillSound
  <2> QED
    BY <2>1, <2>3
<1>5. ASSUME NEW r1 \in Replies(s, 1), Good(r1),
             h \in LET y == HotContext(x, r1) IN
               IF y.total = 1 THEN {[ok |-> TRUE, q |-> [y EXCEPT !.page = 1]]}
               ELSE UNION {{IF Good(r2) THEN [ok |-> TRUE, q |-> HotPage(y, r2, n)]
                            ELSE [ok |-> Good(r3),
                                  q |-> IF Good(r3) THEN HotPage(Fill(y, r2), r3, 1)
                                        ELSE Fill(Fill(y, r2), r3)]
                            : r2 \in Replies(s, n), r3 \in Replies(s, 1)}
                           : n \in 1 .. y.total}
      PROVE  Goal(h)
  <2> DEFINE y == HotContext(x, r1)
  <2>1. r1 \in ReplyTypes
    BY <1>1
  <2>2. Sound(y) /\ y.list # <<>> /\ y.total \in Nat \ {0}
    <3> DEFINE w == SetTotal(Fill(x, r1), r1)
    <3>1. Sound(w) /\ w.list # <<>> /\ w.total \in Nat \ {0}
      BY <1>2, <1>5, <2>1
    <3>2. y = [w EXCEPT !.kw = Hot]
      BY DEF HotContext
    <3> HIDE DEF y, w
    <3>3. 1 \in Nat
      OBVIOUS
    <3> QED
      BY <1>3, <3>1, <3>2, <3>3
  <2> HIDE DEF y
  <2>3. CASE y.total = 1
    <3>1. h = [ok |-> TRUE, q |-> [y EXCEPT !.page = 1]]
      BY <1>5, <2>3 DEF y
    <3> QED
      BY <1>3, <2>2, <3>1
  <2>4. CASE y.total # 1
    <3>1. PICK n \in 1 .. y.total : \E r2 \in Replies(s, n), r3 \in Replies(s, 1) :
            h = IF Good(r2) THEN [ok |-> TRUE, q |-> HotPage(y, r2, n)]
                ELSE [ok |-> Good(r3), q |-> IF Good(r3) THEN HotPage(Fill(y, r2), r3, 1)
                                             ELSE Fill(Fill(y, r2), r3)]
      BY <1>5, <2>4 DEF y
    <3>2. PICK r2 \in Replies(s, n), r3 \in Replies(s, 1) :
            h = IF Good(r2) THEN [ok |-> TRUE, q |-> HotPage(y, r2, n)]
                ELSE [ok |-> Good(r3), q |-> IF Good(r3) THEN HotPage(Fill(y, r2), r3, 1)
                                             ELSE Fill(Fill(y, r2), r3)]
      BY <3>1
    <3>3. n \in Nat /\ r2 \in ReplyTypes /\ r3 \in ReplyTypes
      BY <1>1, <2>2
    <3>4. Sound(Fill(y, r2))
      BY <2>2, <3>3, FillSound
    <3>5. CASE Good(r2)
      <4>1. Sound(HotPage(y, r2, n)) /\ HotPage(y, r2, n).list # <<>>
        BY <1>2, <1>3, <2>2, <3>3, <3>5 DEF HotPage
      <4> QED
        BY <3>2, <3>5, <4>1
    <3>6. CASE ~Good(r2) /\ Good(r3)
      <4>1. Sound(HotPage(Fill(y, r2), r3, 1)) /\ HotPage(Fill(y, r2), r3, 1).list # <<>>
        BY <1>2, <1>3, <3>3, <3>4, <3>6 DEF HotPage
      <4> QED
        BY <3>2, <3>6, <4>1
    <3>7. CASE ~Good(r2) /\ ~Good(r3)
      <4>1. Sent(Fill(Fill(y, r2), r3)) /\ Sound(Fill(Fill(y, r2), r3))
        BY <3>3, <3>4, <3>7, FillSound
      <4> QED
        BY <3>2, <3>7, <4>1
    <3> QED
      BY <3>5, <3>6, <3>7
  <2> QED
    BY <2>3, <2>4
<1>6. Goal(h)
  BY <1>4, <1>5 DEF HotPages, s
<1> QED
  BY <1>6 DEF Sound, Queue

LEMMA HotRandom_Inv == IInv /\ HotRandom => IInv'
<1> SUFFICES ASSUME IInv, HotRandom PROVE IInv'
    OBVIOUS
<1>1. PICK h \in HotPages(q) :
        /\ Idle /\ Stopped
        /\ IF ~h.ok THEN q' = h.q
           ELSE \E t \in Range(h.q.list) :
                  /\ t # q.cur \/ t = Last(h.q.list)
                  /\ q' = Published([h.q EXCEPT !.cur = t])
        /\ UNCHANGED <<mode, eof, call, intro>>
  BY DEF HotRandom
<1>2. /\ Sound(h.q)
      /\ h.ok => h.q.list \in Seq(Tracks) /\ h.q.list # <<>>
      /\ ~h.ok => Sent(h.q)
  BY HotPagesOK DEF IInv, QueueInv
<1>3. Sent(q')
  <2>1. CASE ~h.ok
    BY <1>1, <1>2, <2>1
  <2>2. CASE h.ok
    <3>1. PICK t \in Range(h.q.list) : q' = Published([h.q EXCEPT !.cur = t])
      BY <1>1, <2>2
    <3>2. t \in Tracks
      BY <1>2, <2>2 DEF Range
    <3> QED
      BY <1>2, <3>1, <3>2, OtherTrack, PublishedSent
  <2> QED
    BY <2>1, <2>2
<1>4. KidOK(kid') /\ st' \in {"play", "stop"} /\ supp' \in BOOLEAN
  BY <1>1, Zenon DEF Stopped, KidOK, IInv, RestTyped
<1>5. Arrived
  BY <1>3, <1>4 DEF Arrived
<1> QED
  BY <1>1, <1>5, ArrivedInv DEF IInv, RestTyped, Idle

\* Offline the app has no list.
LEMMA OfflineSent ==
  ASSUME NEW x, Sound(x), NEW l \in LocalLists
  PROVE  Sent(Offline(x, l))
<1>0. l \in Seq(Tracks)
  BY SourcesTyped, EmptySeq DEF LocalLists
<1>1. l \in Seq(Tracks) /\ (l # <<>> => Head(l) \in Tracks)
  BY <1>0
<1> DEFINE t == IF l = <<>> THEN x.cur ELSE Head(l)
<1>2. t \in Tracks \cup {None}
  BY <1>1 DEF Sound, Queue
<1>3. Offline(x, l) = [x EXCEPT !.list = l, !.cur = t, !.online = FALSE, !.pub = None]
  BY DEF Offline, WithLocal, Sound, Queue
<1> HIDE DEF t
<1> QED
  BY <1>1, <1>2, <1>3 DEF Sound, Sent, Queue

LEMMA SwitchOffline_Inv == IInv /\ SwitchOffline => IInv'
<1> SUFFICES ASSUME IInv, SwitchOffline PROVE IInv'
    OBVIOUS
<1>1. /\ Idle /\ st' = "stop" /\ kid' = None /\ supp' = TRUE
      /\ UNCHANGED <<mode, eof, call, intro>>
      /\ \/ q' = q
         \/ q' = [q EXCEPT !.list = <<>>, !.pub = None]
         \/ \E l \in LocalLists : q' = Offline(q, l)
  BY DEF SwitchOffline
<1>2. Sent(q) /\ Sent([q EXCEPT !.list = <<>>, !.pub = None])
  BY <1>1, EmptySeq DEF IInv, QueueInv, Idle, Sent, Sound, Queue
<1>3. Sent(q')
  BY <1>1, <1>2, OfflineSent DEF Sent
<1>4. Arrived
  BY <1>1, <1>3, Zenon DEF Arrived, KidOK
<1> QED
  BY <1>1, <1>4, ArrivedInv DEF IInv, RestTyped, Idle

LEMMA Disconnect_Inv == IInv /\ Disconnect => IInv'
<1> SUFFICES ASSUME IInv, Disconnect PROVE IInv'
    OBVIOUS
<1>1. /\ Idle /\ Stopped /\ UNCHANGED <<mode, eof, call, intro>>
      /\ \E l \in LocalLists : q' = Offline(q, l)
  BY DEF Disconnect
<1>2. Sent(q')
  BY <1>1, OfflineSent DEF IInv, QueueInv
<1>3. KidOK(kid') /\ st' \in {"play", "stop"} /\ supp' \in BOOLEAN
  BY <1>1, Zenon DEF Stopped, KidOK, IInv, RestTyped
<1>4. Arrived
  BY <1>2, <1>3 DEF Arrived
<1> QED
  BY <1>1, <1>4, ArrivedInv DEF IInv, RestTyped, Idle

LEMMA SwitchOnline_Inv == IInv /\ SwitchOnline => IInv'
<1> SUFFICES ASSUME IInv, SwitchOnline PROVE IInv'
    OBVIOUS
<1> DEFINE x == [q EXCEPT !.online = TRUE, !.list = <<>>]
<1>1. /\ Idle /\ st' = "stop" /\ kid' = None /\ supp' = TRUE
      /\ UNCHANGED <<mode, eof, call, intro>>
      /\ \/ \E p \in Prepared(x, Hot) : q' = p.q
         \/ \E l \in LocalLists : q' = Offline(q, l)
  BY DEF SwitchOnline
<1>2. Sound(q) /\ Sound(x)
  BY EmptySeq DEF IInv, QueueInv, Sound, Queue
<1> HIDE DEF x
<1>3. Sent(q')
  BY <1>1, <1>2, PreparedSent, OfflineSent, SourcesTyped
<1>4. Arrived
  BY <1>1, <1>3, Zenon DEF Arrived, KidOK
<1> QED
  BY <1>1, <1>4, ArrivedInv DEF IInv, RestTyped, Idle

LEMMA StutterInv == IInv /\ UNCHANGED vars => IInv'
BY Zenon DEF IInv, QueueInv, PausedInv, KidOK, RestTyped, Sound, Sent, vars

-----------------------------------------------------------------------------
(* What every execution keeps.                                               *)

LEMMA Inductive == Spec => []IInv
<1>1. IInv /\ [Next]_vars => IInv'
  <2> SUFFICES ASSUME IInv, [Next]_vars PROVE IInv'
      OBVIOUS
  <2>1. CASE Play \/ StopPlay \/ SetMode \/ NextSong \/ PrevSong \/ AssignSong
    BY <2>1, Play_Inv, StopPlay_Inv, SetMode_Inv, NextSong_Inv, PrevSong_Inv,
       AssignSong_Inv
  <2>2. CASE PlayPlaylist \/ TurnPage \/ GetMusicList
    BY <2>2, PlayPlaylist_Inv, TurnPage_Inv, GetMusicList_Inv
  <2>3. CASE KidNext \/ HandleEof \/ TryPage
    BY <2>3, KidNext_Inv, HandleEof_Inv, TryPage_Inv
  <2>4. CASE InsertSongs \/ AfterInsert \/ CommitIntro \/ HotRandom
    BY <2>4, InsertSongs_Inv, AfterInsert_Inv, CommitIntro_Inv, HotRandom_Inv
  <2>5. CASE SwitchOffline \/ Disconnect \/ SwitchOnline
    BY <2>5, SwitchOffline_Inv, Disconnect_Inv, SwitchOnline_Inv
  <2>6. CASE UNCHANGED vars
    BY <2>6, StutterInv
  <2> QED
    BY <2>1, <2>2, <2>3, <2>4, <2>5, <2>6 DEF Next
<1> QED
  BY <1>1, InitInv, PTL DEF Spec

\* Every variable has its type: no page is asked for that the context does not
\* have, no context is without a page, and no child without a list.
THEOREM PlaylistTypeCorrect == Spec => [](TypeOK /\ KidOK(kid))
<1>1. IInv => TypeOK /\ KidOK(kid)
  BY InvTypes DEF IInv
<1> QED
  BY <1>1, Inductive, PTL

\* The list the app was sent is the list the speaker has, whatever turned a
\* page, filled or extended it, unless a request found nothing since or songs
\* are just being inserted (player_publish_playlist_snapshot_if_online).
THEOREM ListIsPublished == Spec => []PublishedUnlessFailed
<1>1. IInv => PublishedUnlessFailed
  BY DEF IInv, QueueInv, Sent, PublishedUnlessFailed
<1> QED
  BY <1>1, Inductive, PTL

-----------------------------------------------------------------------------
(* An insertion under way.                                                   *)

\* The child touches nothing but the current track, or takes the app's list.
LEMMA KidNextOnly ==
  ASSUME IInv, KidNext
  PROVE  /\ q'.list = q.list /\ q'.page = q.page /\ q'.total = q.total
         /\ UNCHANGED <<call, intro>>
<1>1. q \in Queue /\ UNCHANGED <<call, intro>>
  BY DEF KidNext, IInv, QueueInv, Sound
<1>2. ASSUME NEW i, KidInList(i)
      PROVE  (\E t : q' = [q EXCEPT !.cur = t]) \/ q' = q
  BY <1>2 DEF KidInList, KidStopsAt
<1>3. (\E t : q' = [q EXCEPT !.cur = t]) \/ q' = q \/ q' = [q EXCEPT !.pub = None]
  <2>1. CASE Pos(kid.list, q.cur) # 0 \/ kid.src = Local
    BY <1>2, <2>1 DEF KidNext
  <2>2. CASE ~(Pos(kid.list, q.cur) # 0 \/ kid.src = Local)
    <3>1. PICK t \in CrossPage(kid.src, kid.pages, q.cur, TRUE) :
            IF t # None THEN KidStopsAt(t)
            ELSE q' = [q EXCEPT !.pub = None] /\ kid' = None /\ UNCHANGED <<st, eof>>
      BY <2>2 DEF KidNext
    <3> QED
      BY <3>1 DEF KidStopsAt
  <2> QED
    BY <2>1, <2>2
<1> QED
  BY <1>1, <1>3 DEF Queue

LEMMA IntroStep == IInv /\ IntroInv /\ [Next]_vars => IntroInv'
<1> SUFFICES ASSUME IInv, IntroInv, [Next]_vars PROVE IntroInv'
    OBVIOUS
<1>1. CASE InsertSongs
  BY <1>1, InsertSongs_Inv
<1>2. CASE KidNext
  BY <1>2, KidNextOnly DEF IntroInv
<1>3. CASE AfterInsert
  BY <1>3 DEF AfterInsert, IntroInv
<1>4. CASE TryPage
  BY <1>4 DEF TryPage, IntroInv, IInv, PausedInv
<1>5. CASE Play \/ StopPlay \/ SetMode \/ PrevSong \/ AssignSong \/ NextSong
  BY <1>5 DEF Play, StopPlay, SetMode, PrevSong, AssignSong, NextSong, Idle, IntroInv
<1>6. CASE PlayPlaylist \/ GetMusicList
  BY <1>6 DEF PlayPlaylist, GetMusicList, Idle, IntroInv
<1>7. CASE TurnPage
  BY <1>7 DEF TurnPage, Turn, Idle, IntroInv
<1>8. CASE HandleEof
  BY <1>8 DEF HandleEof, Turn, Idle, IntroInv
<1>9. CASE CommitIntro \/ HotRandom \/ SwitchOffline \/ Disconnect \/ SwitchOnline
  BY <1>9 DEF CommitIntro, HotRandom, SwitchOffline, Disconnect, SwitchOnline, Idle,
     IntroInv
<1>10. CASE UNCHANGED vars
  BY <1>10 DEF vars, IntroInv
<1> QED
  BY <1>1, <1>2, <1>3, <1>4, <1>5, <1>6, <1>7, <1>8, <1>9, <1>10 DEF Next

\* The track that is announced is the one that was asked for, wherever it was
\* inserted and whatever the list repeats, unless the place is not found again
\* (link_anchor_for_insert, player_voice_intro_shm_after_insert).
THEOREM AnnouncedWasRequested == Spec => AnnouncedIsRequested
<1> DEFINE A == AfterInsert /\ intro.at = q.cur /\ ~intro.hidden
                  => q'.cur = intro.want
<1>1. Init => IntroInv
  BY DEF Init, IntroInv
<1>2. IInv /\ IntroInv /\ [Next]_vars => [A]_vars
  <2> SUFFICES ASSUME IInv, IntroInv, AfterInsert, intro.at = q.cur, ~intro.hidden
               PROVE  q'.cur = intro.want
    BY Zenon
  <2>1. intro # None
    BY DEF AfterInsert
  <2> QED
    BY <2>1, AfterInsert_Inv DEF IntroInv
<1>3. AnnouncedIsRequested <=> [][A]_vars
  BY DEF AnnouncedIsRequested
<1> HIDE DEF A
<1>4. Spec => [][A]_vars
  BY <1>1, <1>2, IntroStep, Inductive, PTL DEF Spec
<1> QED
  BY <1>3, <1>4

-----------------------------------------------------------------------------
(* Next goes to the song that follows.                                       *)

\* A song of a page has its place in the source behind the page's beginning,
\* since no source repeats a song.
LEMMA PlaceInSource ==
  ASSUME NEW s \in Sources, NEW p \in 1 .. Pages(s), NEW t, Pos(Page(s, p), t) # 0
  PROVE  /\ Pos(Catalog[s], t) = Offset(p) + Pos(Page(s, p), t)
         /\ Pos(Page(s, p), t) \in 1 .. Len(Page(s, p))
<1> DEFINE j == Pos(Page(s, p), t)
           l == Catalog[s]
           i == Pos(l, t)
<1>1. l \in Seq(Tracks) /\ Len(l) \in Nat /\ IsInjective(l)
  BY SourcesTyped, PlaylistAssumption DEF Sources
<1>2. /\ Offset(p) \in Nat /\ Page(s, p) \in Seq(Tracks)
      /\ Offset(p) + Len(Page(s, p)) <= Len(l)
      /\ \A k \in 1 .. Len(Page(s, p)) : Page(s, p)[k] = l[Offset(p) + k]
  BY PageShows
<1>3. j \in 1 .. Len(Page(s, p)) /\ Page(s, p)[j] = t
  BY <1>2, PosFirst
<1>4. Offset(p) + j \in 1 .. Len(l) /\ l[Offset(p) + j] = t
  BY <1>1, <1>2, <1>3
<1>5. i \in 1 .. Len(l) /\ l[i] = t
  BY <1>1, <1>4, PosFirst
<1>6. DOMAIN l = 1 .. Len(l)
  BY <1>1
<1> HIDE DEF i, j, l
<1>7. i = Offset(p) + j
  BY <1>1, <1>4, <1>5, <1>6 DEF IsInjective
<1> QED
  BY <1>3, <1>7 DEF i, j, l

\* What follows a song of a page is the next of the page, or the first of the
\* next page, or, behind the last page, of the first.
LEMMA WhatFollows ==
  ASSUME NEW s \in Sources, NEW p \in 1 .. Pages(s), NEW t, Pos(Page(s, p), t) # 0
  PROVE  Neighbour(s, t, TRUE) =
           IF Pos(Page(s, p), t) < Len(Page(s, p))
           THEN Page(s, p)[Pos(Page(s, p), t) + 1]
           ELSE Page(s, IF p < Pages(s) THEN p + 1 ELSE 1)[1]
<1> DEFINE j == Pos(Page(s, p), t)
           n == Len(Catalog[s])
           i == Pos(Catalog[s], t)
           m == Len(Page(s, p))
           o == Offset(p)
<1>1. i = o + j /\ j \in 1 .. m
  BY PlaceInSource
<1>2. /\ o \in Nat /\ m \in Nat /\ o + m <= n
      /\ p = Pages(s) => o + m = n
      /\ p < Pages(s) => o + m = Offset(p + 1) /\ Offset(p + 1) < n
      /\ \A k \in 1 .. m : Page(s, p)[k] = Catalog[s][o + k]
  BY PageShows
<1>3. n \in Nat /\ Pages(s) \in Nat \ {0} /\ p \in Nat \ {0}
  BY SourcesTyped, PagesCover
<1>4. Neighbour(s, t, TRUE) = Catalog[s][(i % n) + 1]
  BY DEF Neighbour
<1> HIDE DEF i, j, m, n, o
<1>5. i < n => i % n = i
  <2>1. i \in Nat /\ n \in Nat
    BY <1>1, <1>2, <1>3
  <2> QED
    BY <2>1, SmallModulo
<1>6. CASE j < m
  <2>1. i < n /\ o + (j + 1) = i + 1 /\ j + 1 \in 1 .. m
    BY <1>1, <1>2, <1>3, <1>6
  <2>2. Page(s, p)[j + 1] = Catalog[s][i + 1]
    BY <1>2, <2>1
  <2> QED
    BY <1>4, <1>5, <1>6, <2>1, <2>2 DEF j, m
<1>7. CASE ~(j < m) /\ p < Pages(s)
  <2>1. i < n /\ i = Offset(p + 1) /\ p + 1 \in 1 .. Pages(s)
    BY <1>1, <1>2, <1>3, <1>7
  <2>2. /\ Offset(p + 1) + Len(Page(s, p + 1)) <= n
        /\ p + 1 = Pages(s) => Offset(p + 1) + Len(Page(s, p + 1)) = n
        /\ p + 1 < Pages(s) => Offset(p + 1) + Len(Page(s, p + 1)) = Offset(p + 1 + 1)
        /\ \A k \in 1 .. Len(Page(s, p + 1)) :
             Page(s, p + 1)[k] = Catalog[s][Offset(p + 1) + k]
        /\ Page(s, p + 1) \in Seq(Tracks)
    BY <2>1, PageShows DEF n
  <2>3. 1 \in 1 .. Len(Page(s, p + 1))
    <3>1. p + 1 < Pages(s) => Offset(p + 1 + 1) = Offset(p + 1) + PageSize
      <4>1. /\ \A c \in Nat : Offset(c + 1) = c * PageSize
            /\ \A c \in Nat : (c + 1) * PageSize = c * PageSize + PageSize
        BY SourcesTyped DEF Offset
      <4> QED
        BY <1>3, <4>1
    <3>2. Len(Page(s, p + 1)) \in Nat /\ Offset(p + 1) \in Nat /\ PageSize \in Nat \ {0}
      BY <1>2, <1>7, <2>1, <2>2, SourcesTyped, PageShows
    <3>3. p + 1 = Pages(s) \/ p + 1 < Pages(s)
      BY <1>3, <2>1
    <3> QED
      BY <1>3, <2>1, <2>2, <3>1, <3>2, <3>3
  <2>4. Page(s, p + 1)[1] = Catalog[s][i + 1]
    BY <2>1, <2>2, <2>3
  <2> QED
    BY <1>4, <1>5, <1>7, <2>1, <2>4 DEF j, m
<1>8. CASE ~(j < m) /\ ~(p < Pages(s))
  <2>1. i = n /\ n \in Nat \ {0} /\ p = Pages(s)
    BY <1>1, <1>2, <1>3, <1>8
  <2>2. i % n = 0
    <3>1. \A c \in Nat \ {0} : c % c = 0
      OBVIOUS
    <3> QED
      BY <2>1, <3>1
  <2>3. Page(s, 1)[1] = Catalog[s][1]
    <3>1. 1 \in 1 .. Pages(s) /\ Offset(1) = 0
      BY <1>3, SourcesTyped DEF Offset
    <3>2. /\ Offset(1) + Len(Page(s, 1)) <= n
          /\ 1 = Pages(s) => Offset(1) + Len(Page(s, 1)) = n
          /\ 1 < Pages(s) => Offset(1) + Len(Page(s, 1)) = Offset(1 + 1)
          /\ \A k \in 1 .. Len(Page(s, 1)) : Page(s, 1)[k] = Catalog[s][Offset(1) + k]
          /\ Len(Page(s, 1)) \in Nat
      BY <3>1, PageShows DEF n
    <3>3. Offset(1 + 1) = PageSize /\ PageSize \in Nat \ {0}
      BY SourcesTyped DEF Offset
    <3>4. 1 \in 1 .. Len(Page(s, 1))
      BY <1>3, <2>1, <3>1, <3>2, <3>3
    <3> QED
      BY <3>1, <3>2, <3>4
  <2>4. Neighbour(s, t, TRUE) = Catalog[s][1]
    <3>1. (i % n) + 1 = 1
      BY <2>2
    <3> QED
      BY <1>4, <3>1
  <2>5. (IF p < Pages(s) THEN p + 1 ELSE 1) = 1
    BY <1>8
  <2> QED
    BY <1>8, <2>3, <2>4, <2>5 DEF j, m
<1> QED
  BY <1>6, <1>7, <1>8

\* The first request for the page behind the one that ends with the track.
CallInv ==
  call # None /\ call.op = "next" =>
    /\ call.left <= q.total
    /\ call.left = q.total => /\ call.page = TurnFrom(q, TRUE)
                              /\ Pos(q.list, call.from) = Len(q.list)

LEMMA TurnCall ==
  ASSUME NEW x, Sent(x), NEW op, op = "next" => Pos(x.list, x.cur) = Len(x.list),
         Turn(x, op)
  PROVE  CallInv'
<1>1. x.total \in Nat
  BY DEF Sent, Sound, Queue
<1>2. /\ q' = x /\ call'.op = op /\ call'.left = x.total
      /\ op = "next" => call'.page = TurnFrom(x, TRUE) /\ call'.from = x.cur
  BY DEF Turn
<1> QED
  BY <1>1, <1>2 DEF CallInv, TurnFrom

LEMMA NextInListCall ==
  ASSUME call = None, NEW x, Sent(x), NextInList(x)
  PROVE  CallInv'
<1>1. Pos(x.list, x.cur) \in 0 .. Len(x.list) /\ Len(x.list) \in Nat
  BY PosFirst DEF Sent, Sound, Queue
<1>2. CASE UNCHANGED call
  BY <1>2 DEF CallInv
<1>3. CASE ~UNCHANGED call
  <2>1. Turn(x, "next") /\ ~(Pos(x.list, x.cur) < Len(x.list))
    BY <1>3 DEF NextInList
  <2>2. Pos(x.list, x.cur) = Len(x.list)
    BY <1>1, <2>1
  <2> QED
    BY <2>1, <2>2, TurnCall
<1> QED
  BY <1>2, <1>3

LEMMA CallStep == IInv /\ CallInv /\ [Next]_vars => CallInv'
<1> SUFFICES ASSUME IInv, CallInv, [Next]_vars PROVE CallInv'
    OBVIOUS
<1>0. Idle => Sent(q) /\ call = None
  BY DEF IInv, QueueInv, Idle
<1>1. CASE NextSong
  <2>1. CASE Pos(q.list, q.cur) # 0
    BY <1>0, <1>1, <2>1, NextInListCall DEF NextSong
  <2>2. CASE Pos(q.list, q.cur) = 0 /\ ~q.online
    BY <1>0, <1>1, <2>2 DEF NextSong, CallInv
  <2>3. CASE Pos(q.list, q.cur) = 0 /\ q.online
    <3>1. NextOnline
      BY <1>1, <2>3 DEF NextSong
    <3>2. CASE UNCHANGED call
      BY <1>0, <1>1, <3>2 DEF NextSong, CallInv
    <3>3. CASE ~UNCHANGED call
      <4>1. PICK p \in Prepared(q, q.kw) : NextInList(p.q)
        BY <3>1, <3>3 DEF NextOnline
      <4>2. Sent(p.q)
        BY <1>0, <1>1, PreparedSent DEF NextSong, Sent, Sound, Queue
      <4> QED
        BY <1>0, <1>1, <4>1, <4>2, NextInListCall DEF NextSong
    <3> QED
      BY <3>2, <3>3
  <2> QED
    BY <2>1, <2>2, <2>3
<1>2. CASE TurnPage
  BY <1>0, <1>2, TurnCall DEF TurnPage
<1>3. CASE HandleEof
  <2>1. CASE UNCHANGED call
    BY <1>0, <1>3, <2>1 DEF HandleEof, CallInv
  <2>2. CASE ~UNCHANGED call
    <3>1. Turn(q, "eof")
      BY <1>3, <2>2 DEF HandleEof
    <3> QED
      BY <1>0, <1>3, <3>1, TurnCall DEF HandleEof
  <2> QED
    BY <2>1, <2>2
<1>4. CASE TryPage
  <2>1. CASE call' = None
    BY <2>1 DEF CallInv
  <2>2. CASE call' # None
    <3>1. PICK r \in Replies(Source(q), call.page) :
            /\ q' = Fill(q, r) /\ call.left > 1
            /\ call' = [call EXCEPT !.left = @ - 1,
                          !.page = TurnOn(@, r.total, call.op # "prevpage")]
      BY <1>4, <2>2 DEF TryPage, Unplayed
    <3>2. call \in Calls /\ call # None /\ q \in Queue
      BY <1>4 DEF TryPage, IInv, RestTyped, QueueInv, Sound
    <3>3. call'.op = call.op /\ call'.left = call.left - 1 /\ call.left \in Nat
      BY <3>1, <3>2 DEF Calls
    <3>4. q'.total = q.total /\ q.total \in Nat
      BY <3>1, <3>2 DEF Fill, Queue
    <3> QED
      BY <3>2, <3>3, <3>4 DEF CallInv, TurnFrom
  <2> QED
    BY <2>1, <2>2
<1>5. CASE KidNext
  BY <1>5, KidNextOnly DEF CallInv, TurnFrom
<1>6. CASE Play \/ StopPlay \/ SetMode \/ PrevSong \/ AssignSong
  BY <1>6 DEF Play, StopPlay, SetMode, PrevSong, AssignSong, Idle, CallInv
<1>7. CASE PlayPlaylist \/ GetMusicList \/ InsertSongs
  BY <1>7 DEF PlayPlaylist, GetMusicList, InsertSongs, Idle, CallInv
<1>8. CASE AfterInsert
  BY <1>8 DEF AfterInsert, IInv, PausedInv, CallInv
<1>9. CASE CommitIntro \/ HotRandom \/ SwitchOffline \/ Disconnect \/ SwitchOnline
  BY <1>9 DEF CommitIntro, HotRandom, SwitchOffline, Disconnect, SwitchOnline, Idle,
     CallInv
<1>10. CASE UNCHANGED vars
  BY <1>10 DEF vars, CallInv, TurnFrom
<1> QED
  BY <1>1, <1>2, <1>3, <1>4, <1>5, <1>6, <1>7, <1>8, <1>9, <1>10 DEF Next

\* Within the page, next goes to the song that follows, or begins a page turn.
LEMMA NextOnPageStep ==
  ASSUME IInv, NextOnPage
  PROVE  call' # None \/ q'.cur \in {q.cur, Follows(q.cur)}
<1> DEFINE s == Source(q)
           i == Pos(q.list, q.cur)
<1>1. /\ NextSong /\ Idle /\ kid # None /\ Sent(q) /\ q \in Queue
      /\ s \in Sources /\ q.online /\ CtxActive(q)
      /\ q.list = Page(s, q.page) /\ q.page \in Nat
      /\ Pos(Catalog[s], q.cur) # 0
  BY SourceTyped
     DEF NextOnPage, NextSong, Plain, Idle, IInv, QueueInv, Sent, Sound, Queue
<1>2. ASSUME NEW t \in Tracks, SwitchTo([q EXCEPT !.cur = t])
      PROVE  q'.cur = t
  BY <1>1, <1>2 DEF SwitchTo, Queue
<1>3. CASE i # 0
  <2>1. NextInList(q) /\ call = None
    BY <1>1, <1>3 DEF NextSong, Idle
  <2>2. q.list \in Seq(Tracks) /\ i \in 1 .. Len(q.list)
    BY <1>1, <1>3, PosFirst DEF Queue
  <2>3. q.page \in 1 .. Pages(s)
    <3>1. Len(<<>>) = 0
      OBVIOUS
    <3> QED
      BY <1>1, <2>2, <3>1, NoSuchPage
  <2>4. CASE i < Len(q.list)
    <3>1. q.list[i + 1] \in Tracks /\ SwitchTo([q EXCEPT !.cur = q.list[i + 1]])
      BY <2>1, <2>2, <2>4 DEF NextInList
    <3>2. q'.cur = q.list[i + 1]
      BY <1>2, <3>1
    <3>3. Neighbour(s, q.cur, TRUE) = q.list[i + 1]
      BY <1>1, <1>3, <2>3, <2>4, WhatFollows
    <3> QED
      BY <3>2, <3>3 DEF Follows
  <2>5. CASE ~(i < Len(q.list))
    <3>1. Turn(q, "next") /\ UNCHANGED supp
      BY <1>1, <2>1, <2>5 DEF NextInList
    <3>2. call' \in Calls
      BY <1>1, <3>1, TurnOK DEF IInv, RestTyped
    <3> QED
      BY <3>2, NoneAssumption
  <2> QED
    BY <2>4, <2>5
<1>4. CASE i = 0
  <2>1. NextOnline
    BY <1>1, <1>4 DEF NextSong
  <2>2. q.cur \in Tracks /\ q.cur # None
    <3>1. Catalog[s] \in Seq(Tracks)
      BY <1>1, SourcesTyped
    <3> QED
      BY <1>1, <3>1, PosFirst, SourcesTyped
  <2>3. PICK t \in ParentCrosses(q, TRUE) :
          IF t # None THEN SwitchTo([q EXCEPT !.cur = t]) ELSE q' = q
    BY <1>1, <2>1, <2>2 DEF NextOnline, Unplayed
  <2>4. t = None \/ (t \in Tracks /\ t = Neighbour(s, q.cur, TRUE))
    BY <1>1, ParentCrossesTyped
  <2> QED
    BY <1>2, <2>3, <2>4 DEF Follows
<1> QED
  BY <1>3, <1>4

\* ... a page turn that succeeds at once goes to the song that follows.
LEMMA NextTurnedStep ==
  ASSUME IInv, CallInv, NextTurned
  PROVE  q'.cur = Follows(call.from)
<1> DEFINE s == Source(q)
           j == Pos(q.list, call.from)
           g == IF q.page < Pages(s) THEN q.page + 1 ELSE 1
<1>1. /\ TryPage /\ call.op = "next" /\ call.left = q.total /\ call \in Calls
      /\ call # None /\ call' = None /\ q'.pub # None
      /\ q \in Queue /\ Sound(q) /\ s \in Sources
      /\ q.total = Pages(s) /\ q.list = Page(s, q.page)
      /\ q.page \in Nat /\ q.list \in Seq(Tracks)
      /\ Pos(Page(s, q.page), call.from) # 0
  BY SourceTyped
     DEF NextTurned, TryPage, Plain, IInv, QueueInv, RestTyped, Sound, Queue
<1>2. call.page = TurnFrom(q, TRUE) /\ j = Len(q.list)
  BY <1>1 DEF CallInv
<1>3. q.page \in 1 .. Pages(s)
  <2>1. j \in 0 .. Len(q.list) /\ Len(<<>>) = 0
    BY <1>1, PosFirst
  <2>2. j # 0
    BY <1>1
  <2> QED
    BY <1>1, <1>2, <2>1, <2>2, NoSuchPage
<1>4. Neighbour(s, call.from, TRUE) = Page(s, g)[1]
  <2>1. ~(Pos(Page(s, q.page), call.from) < Len(Page(s, q.page)))
    BY <1>1, <1>2
  <2> QED
    BY <1>1, <1>3, <2>1, WhatFollows
<1>5. call.page = g
  BY <1>1, <1>2, <1>3, PagesCover DEF TurnFrom
<1>6. PICK r \in Replies(s, call.page) :
        IF Good(r)
        THEN Turned(TurnedQueue(q, r, call.page)) /\ call' = None
        ELSE IF call.left > 1
        THEN call' = [call EXCEPT !.left = @ - 1,
                           !.page = TurnOn(@, r.total, call.op # "prevpage")]
        ELSE GaveUp(Fill(q, r)) /\ call' = None
  BY <1>1 DEF TryPage, TurnedQueue
<1>7. call.page \in Nat /\ call.left \in Nat \ {0} /\ r \in ReplyTypes
  BY <1>1, RepliesTyped DEF Calls
<1>8. CASE Good(r)
  <2> DEFINE y == TurnedQueue(q, r, call.page)
  <2>1. SwitchTo([y EXCEPT !.cur = Head(y.list)])
    BY <1>1, <1>6, <1>8 DEF Turned
  <2>2. Sent(y) /\ y.list = r.songs /\ r.songs # <<>> /\ r.songs \in Seq(Tracks)
    BY <1>1, <1>7, <1>8, TurnedQueueSent DEF Good, ReplyTypes
  <2>3. r.songs = Page(s, call.page)
    BY <1>8, <2>2 DEF Replies, Failed, Found, Good
  <2> HIDE DEF y
  <2> DEFINE t == Head(y.list)
             x == [y EXCEPT !.cur = t]
  <2>4. t \in Tracks /\ t = y.list[1] /\ Pos(y.list, t) # 0
    <3>1. y.list[1] \in Tracks /\ Head(y.list) = y.list[1] /\ 1 \in 1 .. Len(y.list)
      BY <2>2, EmptySeq
    <3> QED
      BY <2>2, <3>1, PosFirst
  <2>5. SwitchTo(x)
    BY <2>1
  <2> HIDE DEF t
  <2>6. Sent(x) /\ x.list = y.list /\ x.cur = t
    BY <2>2, <2>4, OtherTrack DEF Sent, Sound
  <2> HIDE DEF x
  <2>7. q'.cur = t
    BY <2>2, <2>4, <2>5, <2>6, SwitchToOK DEF Selected
  <2> QED
    BY <1>4, <1>5, <2>2, <2>3, <2>4, <2>7 DEF Follows
<1>9. CASE ~Good(r)
  <2>1. call' \in Calls \/ GaveUp(Fill(q, r))
    <3>1. CASE call.left > 1
      <4>1. call' = [call EXCEPT !.left = @ - 1,
                       !.page = TurnOn(@, r.total, call.op # "prevpage")]
        BY <1>6, <1>9, <3>1
      <4>2. TurnOn(call.page, r.total, call.op # "prevpage") \in Nat
            /\ call.left - 1 \in Nat \ {0}
        BY <1>7, <3>1 DEF TurnOn, ReplyTypes
      <4> QED
        BY <1>1, <4>1, <4>2 DEF Calls
    <3> QED
      BY <1>6, <1>9, <3>1
  <2>2. GaveUp(Fill(q, r))
    BY <1>1, <2>1, NoneAssumption
  <2>3. q' = Fill(q, r)
    BY <1>1, <2>2 DEF GaveUp, Unplayed
  <2>4. Fill(q, r).pub = None
    BY <1>1, <1>9 DEF Fill, Queue
  <2> QED
    BY <1>1, <2>3, <2>4
<1> QED
  BY <1>8, <1>9

\* Online, next goes to the song that follows in the source, whichever of its
\* pages the app has turned to meanwhile, unless a request fails
\* (player_online_next_track_cross_page, player_playlist_load_next_page).
THEOREM NextGoesToSuccessor == Spec => NextIsSuccessor
<1> DEFINE A == /\ NextOnPage => call' # None \/ q'.cur \in {q.cur, Follows(q.cur)}
                /\ NextTurned => q'.cur = Follows(call.from)
<1>1. Init => CallInv
  BY DEF Init, CallInv
<1>2. IInv /\ CallInv /\ [Next]_vars => [A]_vars
  BY NextOnPageStep, NextTurnedStep
<1>3. NextIsSuccessor <=> [][A]_vars
  BY DEF NextIsSuccessor
<1> HIDE DEF A
<1>4. Spec => [][A]_vars
  BY <1>1, <1>2, CallStep, Inductive, PTL DEF Spec
<1> QED
  BY <1>3, <1>4

=============================================================================
