------------------------------- MODULE Relay --------------------------------
(***************************************************************************)
(* The relay server (server.cpp, player.cpp, database.cpp) between the     *)
(* speakers (socket.c, socket_report.c) and the Qt app (socket.cpp,        *)
(* widget.cpp, bind.cpp, player.cpp).                                      *)
(*                                                                         *)
(* The server is one libevent loop: each action of it is one callback.  It *)
(* keeps an entry per device that reports, with the connection of the      *)
(* device, the connection of the app that reports for that device, and the *)
(* last list the device uploaded; the accounts are in a database, which    *)
(* survives the server.  A list is known by its version.                   *)
(*                                                                         *)
(* What a client sends waits in a FIFO until the server reads it; a client *)
(* has at most one connection it uses and at most one older one whose end  *)
(* has not reached the server.  What the server sends is acted on by the   *)
(* client in the same step: a client acts on what it reads in order, so    *)
(* that a delay on that way is the same as one of what the client sends    *)
(* next.  In the same way it notices at once that the server has freed its *)
(* connection; the server notices the end of one in a step of its own.     *)
(*                                                                         *)
(* Bounds: MaxUnread messages wait in all and MaxGone connections have an  *)
(* end that the server has not seen; an app has one request of its login   *)
(* and binding windows in flight, as its user waits for the answer.        *)
(***************************************************************************)
EXTENDS Naturals, Sequences, FiniteSets, Functions

CONSTANTS Apps,      \* app processes
          Devices,   \* device ids, one speaker each
          Users,     \* account names
          None,
          MaxVer,    \* bound on list versions
          MaxUnread, \* bound on the messages the server has not read yet
          MaxGone    \* bound on the ends the server has not seen yet

ASSUME RelayAssumption ==
  /\ Apps \cap Devices = {}
  /\ None \notin Devices \cup Users \cup (Apps \cup Devices) \X {0, 1}
  /\ {"absent", "unbound"} \cap Devices = {}
  /\ MaxVer \in Nat
  /\ MaxUnread \in Nat
  /\ MaxGone \in Nat

VARIABLES up,      \* the server runs
          reg,     \* m_player_list: the entry of a device, or None
          db,      \* accounts: "absent", "unbound" or the device bound
          cs,      \* the connections, see ConnStates
          toSrv,   \* what the server has not read
          dconn,   \* a speaker's g_socket_fd, None is -1
          app      \* the app processes

vars == <<up, reg, db, cs, toSrv, dconn, app>>

-----------------------------------------------------------------------------
Conns    == (Apps \cup Devices) \X {0, 1}
Of(x)    == {<<x, 0>>, <<x, 1>>}
Versions == 0 .. MaxVer     \* 0: no list yet

\* "fin": closed by the client, which the server has not seen.
ConnStates == {"closed", "open", "fin"}

Entry == [dbev : Conns, abev : Conns \cup {None}, list : Versions]

AppState == [conn : Conns \cup {None}, scr : {"login", "bind", "main"},
             user : Users \cup {None}, wait : BOOLEAN,
             win : Devices \cup {None}, mine : BOOLEAN, shown : Versions]

FreshApp == [conn |-> None, scr |-> "login", user |-> None, wait |-> FALSE,
             win |-> None, mine |-> FALSE, shown |-> 0]

Message ==
  [t : {"device_report", "reply", "app_report"}, dev : Devices]
  \cup [t : {"upload"}, dev : Devices, ver : Versions]
  \cup [t : {"bind"}, user : Users \cup {None}, dev : Devices]
  \cup [t : {"login", "register"}, user : Users]
  \cup [t : {"cmd", "getlist"}]

Init ==
  /\ up = TRUE
  /\ reg = [d \in Devices |-> None]
  /\ db = [u \in Users |-> "absent"]
  /\ cs = [c \in Conns |-> "closed"]
  /\ toSrv = [c \in Conns |-> <<>>]
  /\ dconn = [d \in Devices |-> None]
  /\ app = [a \in Apps |-> FreshApp]

Has(d)           == reg[d] # None
Registered(d, c) == Has(d) /\ reg[d].dbev = c
Attached(d, c)   == Has(d) /\ reg[d].abev = c
Named(c)         == \E d \in Devices : Registered(d, c) \/ Attached(d, c)

\* A name for a new connection: an old one that nothing refers to.
Usable(c) == cs[c] = "closed" \/ (cs[c] = "fin" /\ toSrv[c] = <<>> /\ ~Named(c))

\* A client sends; on a connection that is over, into the void.
Open(c)       == c # None /\ cs[c] = "open"
Unread        == FoldFunction(LAMBDA q, n : n + Len(q), 0, toSrv)
Gone          == {c \in Conns : cs[c] = "fin"}
Sent(q, c, m) == IF cs[c] = "open" THEN [q EXCEPT ![c] = Append(@, m)] ELSE q
ClientSends(c, m) ==
  /\ Open(c) /\ Unread < MaxUnread
  /\ toSrv' = Sent(toSrv, c, m)
  /\ UNCHANGED <<up, reg, db, cs, dconn>>

\* The client closes its connection.
Fin(c) == Cardinality(Gone) < MaxGone /\ cs' = [cs EXCEPT ![c] = "fin"]

\* tryConnect sees the end of the connection: Widget::onSocketDisconnected
\* deletes the windows it owns and shows the login window.
Disconnected(s) ==
  IF s.mine \/ s.win = None THEN FreshApp
  ELSE [s EXCEPT !.conn = None, !.scr = "login", !.user = None,
                 !.wait = FALSE]

\* bufferevent_free of the connections in S; their clients see the end
\* (a speaker in socket_handle_disconnect).
BevFree(S) ==
  /\ cs' = [c \in Conns |-> IF c \in S THEN "closed" ELSE cs[c]]
  /\ toSrv' = [c \in Conns |-> IF c \in S THEN <<>> ELSE toSrv[c]]
  /\ dconn' = [d \in Devices |-> IF dconn[d] \in S THEN None ELSE dconn[d]]
  /\ app' = [a \in Apps |-> IF app[a].conn # None /\ app[a].conn \in S
                            THEN Disconnected(app[a]) ELSE app[a]]

-----------------------------------------------------------------------------
(* The speaker. *)

\* socket_init
DevConnect(d) == \E c \in Of(d) :
  /\ up /\ dconn[d] = None /\ Usable(c)
  /\ dconn' = [dconn EXCEPT ![d] = c]
  /\ cs' = [cs EXCEPT ![c] = "open"]
  /\ UNCHANGED <<up, reg, db, toSrv, app>>

\* report_thread, once a second
DevReport(d) ==
  /\ ClientSends(dconn[d], [t |-> "device_report", dev |-> d])
  /\ UNCHANGED app

\* socket_upload_music_list, after the changes of the list that are published
DevUpload(d) == \E v \in 1 .. MaxVer :
  /\ ClientSends(dconn[d], [t |-> "upload", dev |-> d, ver |-> v])
  /\ UNCHANGED app

\* socket_close_connection: the speaker is switched to its local songs, or its
\* process ends.  It connects again only when it is told to.
DevClose(d) ==
  /\ dconn[d] # None
  /\ Fin(dconn[d])
  /\ dconn' = [dconn EXCEPT ![d] = None]
  /\ UNCHANGED <<up, reg, db, toSrv, app>>

\* What a speaker sends when it is given a command (select_read_socket): the
\* reply, but for one way through socket_next_song, or the list.
DevAnswers(d, t) ==
  IF t = "cmd" THEN {<<>>, <<[t |-> "reply", dev |-> d]>>}
  ELSE {<<[t |-> "upload", dev |-> d, ver |-> v]>> : v \in 1 .. MaxVer}

-----------------------------------------------------------------------------
(* The app. *)

Set(a, r) == app' = [app EXCEPT ![a] = r]

\* Socket::tryConnect, once a second
AppConnect(a) == \E c \in Of(a) :
  /\ up /\ app[a].conn = None /\ Usable(c)
  /\ Set(a, [app[a] EXCEPT !.conn = c])
  /\ cs' = [cs EXCEPT ![c] = "open"]
  /\ UNCHANGED <<up, reg, db, toSrv, dconn>>

\* The buttons of the login window and of the binding window
AppLogin(a, u, t) ==
  /\ app[a].scr = "login" /\ ~app[a].wait
  /\ Set(a, [app[a] EXCEPT !.wait = TRUE, !.user = u])
  /\ ClientSends(app[a].conn, [t |-> t, user |-> u])

AppBind(a, d) ==
  /\ app[a].scr = "bind" /\ ~app[a].wait
  /\ Set(a, [app[a] EXCEPT !.wait = TRUE])
  /\ ClientSends(app[a].conn,
       [t |-> "bind", user |-> app[a].user, dev |-> d])

\* Player::tryreport, once a second in every player window
AppReport(a) ==
  /\ app[a].win # None
  /\ ClientSends(app[a].conn, [t |-> "app_report", dev |-> app[a].win])
  /\ UNCHANGED app

\* The buttons of a player window.  It asks for the list when the first report
\* comes, or one of a new version, or a reply to a turn of the page.
AppCommand(a, t) ==
  /\ app[a].win # None
  /\ ClientSends(app[a].conn, [t |-> t])
  /\ UNCHANGED app

\* Widget::server_reply_slot; Bind::server_reply_slot, which leaves the player
\* window it makes to nobody; Player::server_reply_slot.
Player(s, m, mine) ==
  [s EXCEPT !.scr = "main", !.wait = FALSE, !.mine = mine, !.shown = 0,
            !.user = None, !.win = m.dev]
LoginWindow(s, m) ==
  CASE m.t = "reply_login" /\ m.res = "success" -> Player(s, m, TRUE)
    [] m.t = "reply_login" /\ m.res = "notbind" ->
         [s EXCEPT !.scr = "bind", !.wait = FALSE]
    [] OTHER -> [s EXCEPT !.user = None, !.wait = FALSE]
BindWindow(s, m) ==
  IF m.t = "reply_bind" /\ m.res = "success" THEN Player(s, m, FALSE)
  ELSE [s EXCEPT !.wait = FALSE]
PlayerWindow(s, m) ==
  IF m.t = "upload" THEN [s EXCEPT !.shown = m.ver]
  ELSE [s EXCEPT !.user = None, !.wait = FALSE]

\* Every window that is connected to readyRead reads until nothing is left: the
\* one connected first takes it all.  The login window is connected again
\* after a disconnection, behind a player window that nobody deleted.
HandlerByScreen(s, m) ==
  CASE s.scr = "main" -> PlayerWindow(s, m)
    [] s.scr = "bind" -> BindWindow(s, m)
    [] OTHER -> LoginWindow(s, m)
Handler(s, m) ==
  IF s.win # None THEN PlayerWindow(s, m)
  ELSE IF s.scr = "bind" THEN BindWindow(s, m) ELSE LoginWindow(s, m)

\* The connection ends on the app's side: the user closes the app, or the app
\* loses it and is told so by tryConnect, before the server sees the end.
AppEnds(a, s) ==
  /\ app[a].conn # None
  /\ Fin(app[a].conn)
  /\ Set(a, s)
  /\ UNCHANGED <<up, reg, db, toSrv, dconn>>
AppQuit(a) == AppEnds(a, FreshApp)
AppLost(a) == AppEnds(a, Disconnected(app[a]))

-----------------------------------------------------------------------------
(* The server's handlers of a message m from the connection c. *)

Read(c) == [toSrv EXCEPT ![c] = Tail(@)]

\* server_send_data to an app; it has got what it is sent.
AppGets(c, m) ==
  IF Open(c) THEN [app EXCEPT ![c[1]] = Handler(@, m)] ELSE app

\* player_device_update_infolist
RefreshTime(e, c) == e
Refresh(e, c)     == [e EXCEPT !.dbev = c]
DeviceReport(c, m) ==
  /\ m.t = "device_report"
  /\ reg' = [reg EXCEPT ![m.dev] =
       IF Has(m.dev) THEN Refresh(@, c)
       ELSE [dbev |-> c, abev |-> None, list |-> 0]]
  /\ toSrv' = Read(c)
  /\ UNCHANGED <<up, db, cs, app>>

\* player_device_update_music_list
UploadList(c, m) ==
  /\ m.t = "upload"
  /\ reg' = [d \in Devices |-> IF Registered(d, c)
                               THEN [reg[d] EXCEPT !.list = m.ver] ELSE reg[d]]
  /\ app' = IF Registered(m.dev, c) THEN AppGets(reg[m.dev].abev, m) ELSE app
  /\ toSrv' = Read(c)
  /\ UNCHANGED <<up, db, cs>>

\* player_app_update_infolist, sync_cached_snapshots_to_app
AttachFirst(e, c)   == IF e # None /\ e.abev = None THEN [e EXCEPT !.abev = c] ELSE e
AttachUnknown(e, c) == IF e = None THEN [dbev |-> None, abev |-> c, list |-> 0]
                       ELSE [e EXCEPT !.abev = c]
Attach(e, c)        == IF e = None THEN e ELSE [e EXCEPT !.abev = c]
NeedSyncNever(d, c) == FALSE
NeedSync(d, c)      == Has(d) /\ ~Attached(d, c)
AppReported(c, m) ==
  /\ m.t = "app_report"
  /\ reg' = [reg EXCEPT ![m.dev] = Attach(@, c)]
  /\ app' = IF NeedSync(m.dev, c) /\ reg[m.dev].list # 0
            THEN AppGets(c, [t |-> "upload", dev |-> m.dev,
                             ver |-> reg[m.dev].list])
            ELSE app
  /\ toSrv' = Read(c)
  /\ UNCHANGED <<up, db, cs>>

\* player_app_register, Database::user_register; it may fail.
Answer(c, r) ==
  /\ app' = AppGets(c, r)
  /\ toSrv' = Read(c)
  /\ UNCHANGED <<up, reg, cs>>
Register(c, m) ==
  /\ m.t = "register"
  /\ \/ db' = [db EXCEPT ![m.user] = IF @ = "absent" THEN "unbound" ELSE @]
     \/ UNCHANGED db
  /\ Answer(c, [t |-> "reply_register"])

\* player_app_login, Database::user_login; the password may be wrong.
LoginResult(m) ==
  CASE db[m.user] = "absent"  -> "refused"
    [] db[m.user] = "unbound" -> "notbind"
    [] OTHER                  -> "success"
Login(c, m) ==
  /\ m.t = "login"
  /\ \E res \in {LoginResult(m), "refused"} :
       Answer(c, [t |-> "reply_login", res |-> res, dev |-> db[m.user]])
  /\ UNCHANGED db

\* player_app_bind, Database::user_bind: the device must be nobody's and the
\* account known; the device that the account has is overwritten.
BindableTwice(m) == db[m.user] # "absent"
Bindable(m) == db[m.user] # "absent" /\ \A u \in Users : db[u] # m.dev
BindDevice(c, m) ==
  /\ m.t = "bind"
  /\ \/ /\ Bindable(m)
        /\ db' = [db EXCEPT ![m.user] = m.dev]
        /\ Answer(c, [t |-> "reply_bind", res |-> "success", dev |-> m.dev])
     \/ /\ UNCHANGED db
        /\ Answer(c, [t |-> "reply_bind", res |-> "refused", dev |-> m.dev])

\* server_app_option: "offline" without an entry; the list from the cache if
\* there is one; all else is the device's.
Forward(c, m) == \E d \in Devices :
  /\ Attached(d, c)
  /\ IF m.t = "getlist" /\ reg[d].list # 0
     THEN /\ app' = AppGets(c, [t |-> "upload", dev |-> d, ver |-> reg[d].list])
          /\ toSrv' = Read(c)
     ELSE /\ \E ans \in DevAnswers(d, m.t) :
               toSrv' = IF ans = <<>> THEN Read(c)
                        ELSE Sent(Read(c), reg[d].dbev, ans[1])
          /\ UNCHANGED app
AppOption(c, m) ==
  /\ m.t \in {"cmd", "getlist"}
  /\ \/ (\A d \in Devices : ~Attached(d, c)) /\ toSrv' = Read(c) /\ UNCHANGED app
     \/ Forward(c, m)
  /\ UNCHANGED <<up, reg, db, cs>>

\* server_device_reply_handle
ReplyHandle(c, m) ==
  /\ m.t = "reply"
  /\ \A d \in Devices : Registered(d, c) => reg[d].abev # None
  /\ toSrv' = Read(c)
  /\ UNCHANGED <<up, reg, db, cs, app>>

\* read_cb
Handle(c, m) ==
  \/ DeviceReport(c, m) \/ UploadList(c, m) \/ ReplyHandle(c, m)
  \/ AppReported(c, m) \/ AppOption(c, m)
  \/ Register(c, m) \/ Login(c, m) \/ BindDevice(c, m)
SrvRead(c) ==
  /\ up /\ cs[c] \in {"open", "fin"} /\ toSrv[c] # <<>>
  /\ Handle(c, Head(toSrv[c]))
  /\ UNCHANGED dconn

-----------------------------------------------------------------------------
(* event_cb and player_timer_cb. *)

\* The end of a connection that no entry names is ignored.  So is an error: what
\* was not read is lost, as if it had not been sent, and an entry may go on
\* naming the connection, as if its end came late.
AtEnd(c) == up /\ cs[c] = "fin" /\ toSrv[c] = <<>>

KeepEntry(e) == e
Detach(e)    == [e EXCEPT !.abev = None]

\* The end of an app's connection
AppEnd(c, d) ==
  /\ AtEnd(c) /\ Attached(d, c)
  /\ reg' = [reg EXCEPT ![d] = Detach(@)]
  /\ BevFree({c})
  /\ UNCHANGED <<up, db>>

\* The end of a device's connection: device_offline is written to the app's
\* connection, which is freed before the loop can send it.
DevEnd(c, d) ==
  /\ AtEnd(c) /\ Registered(d, c)
  /\ reg' = [reg EXCEPT ![d] = None]
  /\ BevFree({c, reg[d].abev})
  /\ UNCHANGED <<up, db>>

\* player_timer_cb finds apps and devices whose last report is more than
\* TIMEOUT seconds old: they were silent, or the loop was, in a music request
\* that may take half a minute.
TimerCb(lateApps, lateDevs) ==
  /\ up
  /\ \A d \in lateApps : Has(d) /\ reg[d].abev # None
  /\ \A d \in lateDevs : Has(d)
  /\ reg' = [d \in Devices |->
       IF d \in lateDevs THEN None
       ELSE IF d \in lateApps THEN Detach(reg[d]) ELSE reg[d]]
  /\ BevFree({reg[d].abev : d \in lateApps \cup lateDevs} \cup
             {reg[d].dbev : d \in lateDevs})
  /\ UNCHANGED <<up, db>>

\* server_device_reply_handle does not test the app's connection for NULL: a
\* reply that finds the app gone ends the server.
ReplyToNull(c) ==
  /\ up /\ cs[c] \in {"open", "fin"} /\ toSrv[c] # <<>>
  /\ Head(toSrv[c]).t = "reply"
  /\ \E d \in Devices : Registered(d, c) /\ reg[d].abev = None
  /\ up' = FALSE
  /\ reg' = [d \in Devices |-> None]
  /\ BevFree(Conns)
  /\ UNCHANGED db

ReadCb(c) == SrvRead(c) \/ ReplyToNull(c)

\* The operator starts the server; nothing else does.
Restart ==
  /\ ~up /\ up' = TRUE
  /\ UNCHANGED <<reg, db, cs, toSrv, dconn, app>>

-----------------------------------------------------------------------------
SrvStep ==
  \/ \E c \in Conns : ReadCb(c)
  \/ \E c \in Conns, d \in Devices : AppEnd(c, d) \/ DevEnd(c, d)
  \/ \E d \in Devices : TimerCb({d}, {}) \/ TimerCb({}, {d})
  \/ Restart

DevStep(d) == DevConnect(d) \/ DevReport(d) \/ DevUpload(d) \/ DevClose(d)

AppStep(a) ==
  \/ AppConnect(a) \/ AppReport(a) \/ AppQuit(a) \/ AppLost(a)
  \/ \E t \in {"cmd", "getlist"} : AppCommand(a, t)
  \/ \E u \in Users, t \in {"login", "register"} : AppLogin(a, u, t)
  \/ \E d \in Devices : AppBind(a, d)

Next ==
  \/ SrvStep
  \/ \E d \in Devices : DevStep(d)
  \/ \E a \in Apps : AppStep(a)

Spec == Init /\ [][Next]_vars

\* The loop of the server reads what has come, and the timers of the clients
\* report.
FairSpec ==
  /\ Spec
  /\ \A c \in Conns : WF_vars(ReadCb(c))
  /\ \A d \in Devices : SF_vars(DevReport(d))
  /\ \A a \in Apps : SF_vars(AppReport(a))

-----------------------------------------------------------------------------
(* Properties. *)

\* The registry, the accounts, the connections, the unread messages and the
\* windows have the shapes their handlers expect.
TypeOK ==
  /\ up \in BOOLEAN
  /\ reg \in [Devices -> Entry \cup {None}]
  /\ db \in [Users -> {"absent", "unbound"} \cup Devices]
  /\ cs \in [Conns -> ConnStates]
  /\ toSrv \in [Conns -> Seq(Message)]
  /\ dconn \in [Devices -> Conns \cup {None}]
  /\ app \in [Apps -> AppState]

\* An entry names only connections the server has not freed, and none that
\* another entry names: event_cb, the timer, and late reports of an older
\* connection leave no dangling bufferevent in m_player_list, although
\* event_cb stops at the first entry it finds.
NoDangling ==
  /\ \A d \in Devices : Has(d) => \A c \in {reg[d].dbev, reg[d].abev} \ {None} :
       cs[c] # "closed"
  /\ \A d, e \in Devices : d # e /\ Has(d) /\ Has(e) =>
       {reg[d].dbev, reg[d].abev} \cap {reg[e].dbev, reg[e].abev} \subseteq {None}

\* The entry of a device names a connection of that device, and if it names
\* the one an app uses, the app shows a player window of that device: commands
\* and lists, which the server passes on by the connection alone, are those of
\* the speaker on the screen.  (This is not about accounts: user_bind overwrites
\* the speaker an account has, and a window that shows the old one keeps it,
\* whichever account binds that speaker next.)
Isolation ==
  \A d \in Devices : Has(d) =>
    /\ reg[d].dbev \in Of(d)
    /\ \A a \in Apps : app[a].conn # None /\ reg[d].abev = app[a].conn =>
         app[a].win = d

\* A device is bound to one account at most: user_bind looks for the device
\* in all accounts before it writes.
OneOwner == \A u, v \in Users : db[u] \in Devices /\ db[u] = db[v] => u = v

\* An attached app shows the list the server holds for the device: every upload
\* is forwarded, and whoever attaches or takes over is sent the cached list.
Coherent ==
  \A a \in Apps, d \in Devices :
    LET c == app[a].conn IN
    Open(c) /\ Attached(d, c) /\ reg[d].list # 0 => app[a].shown = reg[d].list

\* A speaker that stays connected gets into the registry with the connection
\* it uses, although the end of its last connection, a late report of it or
\* the timer may come between.
DeviceRegisters ==
  \A d \in Devices :
    Open(dconn[d]) ~> ~Open(dconn[d]) \/ Registered(d, dconn[d])

\* A player window of a device that stays registered is attached to it in
\* the end, or its connection is lost.
AppAttaches ==
  \A a \in Apps, d \in Devices :
    Open(app[a].conn) /\ app[a].win = d /\ Has(d)
    ~> ~Open(app[a].conn) \/ ~Has(d) \/ Attached(d, app[a].conn)
=============================================================================
