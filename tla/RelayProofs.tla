----------------------------- MODULE RelayProofs -----------------------------
(***************************************************************************)
(* The registry of the relay server keeps the speakers and the accounts    *)
(* apart, for any number of apps, devices, users and messages under way.   *)
(*                                                                         *)
(* The invariants of Relay are not inductive: what an entry of the         *)
(* registry names was in a message before, and what a message says was     *)
(* true of its sender when it was sent.  IInv adds what is known of the    *)
(* messages that wait and of the owners of the connections.  It also says  *)
(* of each connection that all it ever reports, read or waiting, is one    *)
(* device, and that of its app's window as long as the app uses it.        *)
(***************************************************************************)
EXTENDS Relay, TLAPS

Elems(s) == {s[i] : i \in DOMAIN s}
Waiting(c) == Elems(toSrv[c])

\* The devices the connection c is attached to or will be
Reports(c) == {d \in Devices :
  Attached(d, c) \/ \E m \in Waiting(c) : m.t = "app_report" /\ m.dev = d}

\* A client uses a connection of its own.
Owners ==
  /\ \A d \in Devices : dconn[d] # None => dconn[d] \in Of(d)
  /\ \A a \in Apps : app[a].conn # None => app[a].conn \in Of(a)
  /\ \A c \in Conns : cs[c] = "open" =>
       \/ c[1] \in Devices /\ dconn[c[1]] = c
       \/ c[1] \in Apps /\ app[c[1]].conn = c

\* Who sends what
Senders == \A c \in Conns : \A m \in Waiting(c) :
  /\ m.t \in {"device_report", "upload"} => m.dev = c[1]
  /\ m.t = "app_report" => c[1] \in Apps

\* A freed connection is forgotten.
Freed == \A c \in Conns : cs[c] = "closed" => toSrv[c] = <<>> /\ ~Named(c)

\* An entry names a connection of its device, and one of an app.
Entries == \A d \in Devices : Has(d) =>
  /\ reg[d].dbev \in Of(d)
  /\ reg[d].abev # None => reg[d].abev[1] \in Apps

OneReport == \A c \in Conns : \A d, e \in Reports(c) : d = e
Shows == \A a \in Apps, c \in Conns :
  app[a].conn = c => \A d \in Reports(c) : app[a].win = d

IInv == TypeOK /\ Owners /\ Senders /\ Freed /\ Entries /\ OneReport /\ Shows

-----------------------------------------------------------------------------
(* Sequences, connections, messages and windows *)

LEMMA ElemsAppend ==
  ASSUME NEW S, NEW s \in Seq(S), NEW m \in S
  PROVE  /\ Append(s, m) \in Seq(S)
         /\ Elems(Append(s, m)) = Elems(s) \cup {m}
<1>1. /\ Append(s, m) \in Seq(S)
      /\ DOMAIN s = 1 .. Len(s) /\ Len(s) \in Nat
      /\ DOMAIN Append(s, m) = 1 .. Len(s) + 1
      /\ \A i \in 1 .. Len(s) : Append(s, m)[i] = s[i]
      /\ Append(s, m)[Len(s) + 1] = m
  OBVIOUS
<1>2. 1 .. Len(s) + 1 = 1 .. Len(s) \cup {Len(s) + 1}
  BY <1>1
<1> QED
  BY <1>1, <1>2 DEF Elems

LEMMA ElemsTail ==
  ASSUME NEW S, NEW s \in Seq(S), s # <<>>
  PROVE  /\ Tail(s) \in Seq(S) /\ Elems(Tail(s)) \subseteq Elems(s)
         /\ Head(s) \in Elems(s) /\ Head(s) \in S
BY DEF Elems

LEMMA ElemsEmpty == ASSUME NEW S PROVE <<>> \in Seq(S) /\ Elems(<<>>) = {}
BY DEF Elems

LEMMA ElemsIn == ASSUME NEW S, NEW s \in Seq(S) PROVE Elems(s) \subseteq S
BY DEF Elems

LEMMA OfConns ==
  ASSUME NEW x \in Apps \cup Devices, NEW c \in Of(x)
  PROVE  c \in Conns /\ c[1] = x /\ c # None
BY RelayAssumption DEF Of, Conns

LEMMA ConnOf ==
  ASSUME NEW c \in Conns
  PROVE  c[1] \in Apps \cup Devices /\ c \in Of(c[1]) /\ c # None
BY RelayAssumption DEF Of, Conns

LEMMA MessageFields ==
  ASSUME NEW m \in Message
  PROVE  /\ m.t \in {"device_report", "reply", "app_report", "upload", "bind"} =>
              m.dev \in Devices
         /\ m.t = "upload" => m.ver \in Versions
         /\ m.t \in {"login", "register"} => m.user \in Users
BY DEF Message

\* A window that reads a message keeps its connection, and its device once it
\* has one; only a list changes what it shows then.
LEMMA HandlerFields ==
  ASSUME NEW s \in AppState, NEW m,
         m.t = "upload" => m.ver \in Versions,
         m.t \in {"reply_login", "reply_bind"} /\ m.res = "success" =>
           m.dev \in Devices
  PROVE  /\ Handler(s, m) \in AppState
         /\ Handler(s, m).conn = s.conn
         /\ s.win # None => Handler(s, m).win = s.win
         /\ s.win # None => Handler(s, m).shown = IF m.t = "upload" THEN m.ver
                                                  ELSE s.shown
<1>1. 0 \in Versions
  BY RelayAssumption DEF Versions
<1> QED
  BY <1>1 DEF Handler, PlayerWindow, BindWindow, LoginWindow, Player, AppState

LEMMA DisconnectedFields ==
  ASSUME NEW s \in AppState
  PROVE  /\ Disconnected(s) \in AppState
         /\ Disconnected(s).conn = None
<1>1. 0 \in Versions
  BY RelayAssumption DEF Versions
<1> QED
  BY <1>1 DEF Disconnected, FreshApp, AppState

-----------------------------------------------------------------------------
(* The clients *)

LEMMA WaitingElems ==
  \A c : Waiting(c) = Elems(toSrv[c]) /\ Waiting(c)' = Elems(toSrv'[c])
BY DEF Waiting, Elems

LEMMA InitInv == Init => IInv
<1> SUFFICES ASSUME Init PROVE IInv
  OBVIOUS
<1>1. 0 \in Versions
  BY RelayAssumption DEF Versions
<1>2. \A c \in Conns : toSrv[c] = <<>> /\ Waiting(c) = {} /\ Reports(c) = {}
  BY ElemsEmpty DEF Init, Waiting, Reports, Attached, Has
<1>3. TypeOK
  BY <1>1, ElemsEmpty DEF Init, TypeOK, FreshApp, AppState, ConnStates
<1>4. Owners /\ Freed /\ Entries /\ Shows
  BY <1>2 DEF Init, Owners, Freed, Entries, Shows, Has, Named, Registered, Attached,
              FreshApp
<1> QED
  BY <1>2, <1>3, <1>4 DEF IInv, Senders, OneReport

\* A message m is sent on c: its sender may send it, and says nothing new of c.
LEMMA SendInv ==
  ASSUME IInv, NEW c \in Conns, NEW m \in Message, cs[c] = "open",
         ClientSends(c, m),
         m.t \in {"device_report", "upload"} => m.dev = c[1],
         m.t = "app_report" => \E a \in Apps : app[a].conn = c /\ app[a].win = m.dev,
         app' \in [Apps -> AppState],
         \A a \in Apps : app'[a].conn = app[a].conn /\ app'[a].win = app[a].win
  PROVE  IInv'
<1>1. /\ toSrv' = [toSrv EXCEPT ![c] = Append(@, m)]
      /\ UNCHANGED <<up, reg, db, cs, dconn>>
  BY DEF ClientSends, Sent
<1>2. toSrv' \in [Conns -> Seq(Message)]
  BY <1>1, ElemsAppend DEF IInv, TypeOK
<1>3. \A x \in Conns : Waiting(x)' = IF x = c THEN Waiting(x) \cup {m} ELSE Waiting(x)
  <2>1. toSrv[c] \in Seq(Message) /\ toSrv'[c] = Append(toSrv[c], m)
    BY <1>1 DEF IInv, TypeOK
  <2>2. \A x \in Conns \ {c} : toSrv'[x] = toSrv[x]
    BY <1>1 DEF IInv, TypeOK
  <2>3. Elems(Append(toSrv[c], m)) = Elems(toSrv[c]) \cup {m}
    BY <2>1, ElemsAppend
  <2>4. Elems(toSrv'[c]) = Elems(toSrv[c]) \cup {m}
    BY <2>1, <2>3
  <2>5. ASSUME NEW x \in Conns \ {c} PROVE Elems(toSrv'[x]) = Elems(toSrv[x])
    BY <2>2
  <2> QED
    BY <2>4, <2>5, WaitingElems
<1>4. TypeOK'
  BY <1>1, <1>2 DEF IInv, TypeOK
<1>5. Owners' /\ Entries' /\ Freed'
  BY <1>1 DEF IInv, TypeOK, Owners, Entries, Freed, Has, Named, Registered, Attached
<1>6. m.t = "app_report" => c[1] \in Apps
  BY ConnOf, OfConns DEF IInv, Owners
<1>7. Senders'
  BY <1>3, <1>6 DEF IInv, Senders
<1>8. \A x \in Conns : \A d \in Reports(x)' :
        d \in Reports(x) \/ (x = c /\ m.t = "app_report" /\ m.dev = d)
  BY <1>1, <1>3 DEF Reports, Attached, Has
<1>9. \A x \in Conns : x = c /\ m.t = "app_report" => \A d \in Reports(x) : d = m.dev
  BY DEF IInv, Shows
<1>10. OneReport'
  BY <1>8, <1>9 DEF IInv, OneReport
<1>11. ASSUME NEW a \in Apps, NEW x \in Conns, app'[a].conn = x
       PROVE  \A d \in Reports(x)' : app'[a].win = d
  <2>1. x # None
    BY ConnOf
  <2>2. \A b \in Apps : app[b].conn = x => b = a
    BY <2>1, <1>11, OfConns DEF IInv, Owners
  <2> QED
    BY <1>8, <1>11, <2>2 DEF IInv, Shows
<1>12. Shows'
  BY <1>11 DEF Shows
<1> QED
  BY <1>4, <1>5, <1>7, <1>10, <1>12 DEF IInv

-----------------------------------------------------------------------------
(* The server reads *)

\* What a handler of a message from c may do: forget the message, pass a reply
\* or a list on to a speaker, let an entry name c, and answer a window.
LEMMA ReadInv ==
  ASSUME IInv, NEW c \in Conns, cs[c] # "closed",
         up' \in BOOLEAN, UNCHANGED <<cs, dconn>>,
         db' \in [Users -> {"absent", "unbound"} \cup Devices],
         toSrv' \in [Conns -> Seq(Message)],
         \A x \in Conns : cs[x] = "closed" => toSrv'[x] = <<>>,
         \A x \in Conns : \A m \in Waiting(x)' :
           m \in Waiting(x) \/ (m.t \in {"reply", "upload"} /\ m.dev = x[1]),
         reg' \in [Devices -> Entry \cup {None}],
         \A d \in Devices : reg'[d] # None =>
           /\ \/ Has(d) /\ reg'[d].dbev = reg[d].dbev
              \/ reg'[d].dbev = c /\ c \in Of(d)
           /\ \/ reg'[d].abev = None
              \/ Has(d) /\ reg'[d].abev = reg[d].abev
              \/ /\ reg'[d].abev = c
                 /\ \E m \in Waiting(c) : m.t = "app_report" /\ m.dev = d,
         app' \in [Apps -> AppState],
         \A a \in Apps : /\ app'[a].conn = app[a].conn
                         /\ app[a].win # None => app'[a].win = app[a].win
  PROVE  IInv'
<1>1. TypeOK'
  BY DEF IInv, TypeOK
<1>2. Owners'
  BY DEF IInv, Owners
<1>3. Senders'
  BY DEF IInv, Senders
<1>4. Entries'
  BY DEF IInv, Entries, Senders, Has
<1>5. ASSUME NEW x \in Conns, cs[x] = "closed" PROVE ~Named(x)'
  <2>1. \A d \in Devices : Has(d) => reg[d].dbev # x /\ reg[d].abev # x
    BY <1>5 DEF IInv, Freed, Named, Registered, Attached
  <2>2. x # c /\ x # None
    BY <1>5, ConnOf
  <2>3. \A d \in Devices : Has(d)' => reg'[d].dbev # x /\ reg'[d].abev # x
    BY <2>1, <2>2 DEF Has
  <2> QED
    BY <2>3 DEF Named, Registered, Attached
<1>10. Freed'
  BY <1>5 DEF Freed
<1>6. ASSUME NEW x \in Conns, NEW d \in Reports(x)' PROVE d \in Reports(x)
  <2>1. CASE Attached(d, x)'
    BY <1>6, <2>1, ConnOf DEF Reports, Attached, Has
  <2>2. CASE \E m \in Waiting(x)' : m.t = "app_report" /\ m.dev = d
    BY <1>6, <2>2 DEF Reports
  <2> QED
    BY <1>6, <2>1, <2>2 DEF Reports
<1>7. OneReport'
  BY <1>6 DEF IInv, OneReport
<1>8. ASSUME NEW a \in Apps, NEW x \in Conns, app'[a].conn = x, NEW d \in Reports(x)'
      PROVE  app'[a].win = d
  <2>1. d \in Reports(x) /\ app[a].conn = x
    BY <1>6, <1>8
  <2>2. d \in Devices /\ d # None /\ app[a].win = d
    BY <2>1, RelayAssumption DEF Reports, IInv, Shows
  <2> QED
    BY <2>2
<1>9. Shows'
  BY <1>8 DEF Shows
<1> QED
  BY <1>1, <1>2, <1>3, <1>4, <1>7, <1>9, <1>10 DEF IInv

LEMMA ReadFields ==
  ASSUME IInv, NEW c \in Conns, toSrv[c] # <<>>
  PROVE  /\ Head(toSrv[c]) \in Message /\ Head(toSrv[c]) \in Waiting(c)
         /\ Read(c) \in [Conns -> Seq(Message)]
         /\ \A x \in Conns : Elems(Read(c)[x]) \subseteq Waiting(x)
         /\ \A x \in Conns : cs[x] = "closed" => Read(c)[x] = <<>>
<1>1. toSrv[c] \in Seq(Message)
  BY DEF IInv, TypeOK
<1>2. /\ Tail(toSrv[c]) \in Seq(Message) /\ Elems(Tail(toSrv[c])) \subseteq Elems(toSrv[c])
      /\ Head(toSrv[c]) \in Elems(toSrv[c]) /\ Head(toSrv[c]) \in Message
  BY <1>1, ElemsTail
<1>3. /\ Read(c) \in [Conns -> Seq(Message)]
      /\ Read(c)[c] = Tail(toSrv[c])
      /\ \A x \in Conns \ {c} : Read(c)[x] = toSrv[x]
  BY <1>2 DEF IInv, TypeOK, Read
<1>4. ASSUME NEW x \in Conns PROVE Elems(Read(c)[x]) \subseteq Elems(toSrv[x])
  <2>1. CASE x = c
    BY <1>2, <1>3, <2>1
  <2>2. CASE x # c
    <3>1. Read(c)[x] = toSrv[x]
      BY <1>3, <2>2
    <3> QED
      BY <3>1
  <2> QED
    BY <2>1, <2>2
<1> QED
  BY <1>2, <1>3, <1>4, WaitingElems DEF IInv, Freed

\* What the server sends changes no window's connection, nor its device.
LEMMA AppGetsFields ==
  ASSUME IInv, NEW c \in Conns \cup {None}, NEW m,
         m.t = "upload" => m.ver \in Versions,
         m.t \in {"reply_login", "reply_bind"} /\ m.res = "success" =>
           m.dev \in Devices
  PROVE  /\ AppGets(c, m) \in [Apps -> AppState]
         /\ \A a \in Apps :
              /\ AppGets(c, m)[a].conn = app[a].conn
              /\ app[a].win # None => AppGets(c, m)[a].win = app[a].win
<1> DEFINE h == Handler(app[c[1]], m)
<1>1. CASE Open(c) /\ c[1] \in Apps
  <2>1. /\ h \in AppState /\ h.conn = app[c[1]].conn
        /\ app[c[1]].win # None => h.win = app[c[1]].win
    BY <1>1, HandlerFields DEF IInv, TypeOK
  <2>2. AppGets(c, m) = [app EXCEPT ![c[1]] = h]
    BY <1>1 DEF AppGets
  <2> HIDE DEF h
  <2> QED
    BY <2>1, <2>2 DEF IInv, TypeOK
<1>2. CASE ~(Open(c) /\ c[1] \in Apps)
  <2>1. AppGets(c, m) = app
    BY <1>2 DEF AppGets, IInv, TypeOK
  <2> QED
    BY <2>1 DEF IInv, TypeOK
<1> QED
  BY <1>1, <1>2

LEMMA AppKept ==
  ASSUME IInv, UNCHANGED app
  PROVE  /\ app' \in [Apps -> AppState]
         /\ \A a \in Apps : /\ app'[a].conn = app[a].conn
                            /\ app[a].win # None => app'[a].win = app[a].win
BY DEF IInv, TypeOK

LEMMA ReadWaiting ==
  ASSUME IInv, NEW c \in Conns, toSrv[c] # <<>>, toSrv' = Read(c)
  PROVE  /\ toSrv' \in [Conns -> Seq(Message)]
         /\ \A x \in Conns : cs[x] = "closed" => toSrv'[x] = <<>>
         /\ \A x \in Conns : Waiting(x)' \subseteq Waiting(x)
BY ReadFields, WaitingElems

LEMMA DeviceReportInv ==
  ASSUME IInv, NEW c \in Conns, cs[c] # "closed", toSrv[c] # <<>>, UNCHANGED dconn,
         DeviceReport(c, Head(toSrv[c]))
  PROVE  IInv'
<1> DEFINE m == Head(toSrv[c])
<1>1. m \in Message /\ m \in Waiting(c) /\ m.t = "device_report"
  BY ReadFields DEF DeviceReport
<1>2. m.dev \in Devices /\ m.dev = c[1] /\ c \in Of(m.dev)
  BY <1>1, MessageFields, ConnOf DEF IInv, Senders
<1>3. /\ reg' = [reg EXCEPT ![m.dev] =
           IF Has(m.dev) THEN Refresh(@, c)
           ELSE [dbev |-> c, abev |-> None, list |-> 0]]
      /\ toSrv' = Read(c) /\ UNCHANGED <<up, db, cs, app>>
  BY DEF DeviceReport
<1> HIDE DEF m
<1>4. 0 \in Versions
  BY RelayAssumption DEF Versions
<1>5. reg' \in [Devices -> Entry \cup {None}]
  BY <1>2, <1>3, <1>4 DEF IInv, TypeOK, Entry, Refresh, Has
<1>6. \A d \in Devices : reg'[d] # None =>
        /\ \/ Has(d) /\ reg'[d].dbev = reg[d].dbev
           \/ reg'[d].dbev = c /\ c \in Of(d)
        /\ reg'[d].abev = None \/ (Has(d) /\ reg'[d].abev = reg[d].abev)
  <2> SUFFICES ASSUME NEW d \in Devices, reg'[d] # None
               PROVE  /\ \/ Has(d) /\ reg'[d].dbev = reg[d].dbev
                         \/ reg'[d].dbev = c /\ c \in Of(d)
                      /\ \/ reg'[d].abev = None
                         \/ Has(d) /\ reg'[d].abev = reg[d].abev
    OBVIOUS
  <2>1. CASE d # m.dev
    BY <1>2, <1>3, <2>1 DEF IInv, TypeOK, Has
  <2>2. CASE d = m.dev /\ Has(d)
    BY <1>2, <1>3, <2>2 DEF IInv, TypeOK, Entry, Refresh, Has
  <2>3. CASE d = m.dev /\ ~Has(d)
    BY <1>2, <1>3, <2>3 DEF IInv, TypeOK
  <2> QED
    BY <2>1, <2>2, <2>3
<1>7. /\ up' \in BOOLEAN
      /\ db' \in [Users -> {"absent", "unbound"} \cup Devices]
  BY <1>3 DEF IInv, TypeOK
<1> QED
  BY <1>3, <1>5, <1>6, <1>7, ReadWaiting, AppKept, ReadInv

LEMMA UploadListInv ==
  ASSUME IInv, NEW c \in Conns, cs[c] # "closed", toSrv[c] # <<>>, UNCHANGED dconn,
         UploadList(c, Head(toSrv[c]))
  PROVE  IInv'
<1> DEFINE m == Head(toSrv[c])
<1>1. m \in Message /\ m \in Waiting(c) /\ m.t = "upload"
  BY ReadFields DEF UploadList
<1>2. m.dev \in Devices /\ m.ver \in Versions
  BY <1>1, MessageFields
<1>3. /\ reg' = [d \in Devices |-> IF Registered(d, c)
                                   THEN [reg[d] EXCEPT !.list = m.ver] ELSE reg[d]]
      /\ app' = IF Registered(m.dev, c) THEN AppGets(reg[m.dev].abev, m) ELSE app
      /\ toSrv' = Read(c) /\ UNCHANGED <<up, db, cs>>
  BY DEF UploadList
<1> HIDE DEF m
<1>4. \A d \in Devices : Has(d) => reg[d] \in Entry
  BY DEF IInv, TypeOK, Has
<1>5. reg' \in [Devices -> Entry \cup {None}]
  <2> SUFFICES ASSUME NEW d \in Devices, Registered(d, c)
               PROVE  [reg[d] EXCEPT !.list = m.ver] \in Entry
    BY <1>3 DEF IInv, TypeOK
  <2> QED
    BY <1>2, <1>4 DEF Registered, Entry
<1>6. \A d \in Devices : reg'[d] # None =>
        Has(d) /\ reg'[d].dbev = reg[d].dbev /\ reg'[d].abev = reg[d].abev
  <2> SUFFICES ASSUME NEW d \in Devices, reg'[d] # None
               PROVE Has(d) /\ reg'[d].dbev = reg[d].dbev /\ reg'[d].abev = reg[d].abev
    OBVIOUS
  <2>1. CASE Registered(d, c)
    BY <1>3, <1>4, <2>1 DEF Registered, Entry
  <2>2. CASE ~Registered(d, c)
    BY <1>3, <2>2 DEF Has
  <2> QED
    BY <2>1, <2>2
<1>7. /\ app' \in [Apps -> AppState]
      /\ \A a \in Apps : /\ app'[a].conn = app[a].conn
                         /\ app[a].win # None => app'[a].win = app[a].win
  <2>1. CASE Registered(m.dev, c)
    <3>1. reg[m.dev].abev \in Conns \cup {None}
      BY <1>2, <1>4, <2>1 DEF Registered, Entry
    <3> QED
      BY <1>1, <1>2, <1>3, <2>1, <3>1, AppGetsFields
  <2>2. CASE ~Registered(m.dev, c)
    BY <1>3, <2>2, AppKept
  <2> QED
    BY <2>1, <2>2
<1>8. /\ up' \in BOOLEAN
      /\ db' \in [Users -> {"absent", "unbound"} \cup Devices]
  BY <1>3 DEF IInv, TypeOK
<1> QED
  BY <1>3, <1>5, <1>6, <1>7, <1>8, ReadWaiting, ReadInv

LEMMA AppReportedInv ==
  ASSUME IInv, NEW c \in Conns, cs[c] # "closed", toSrv[c] # <<>>, UNCHANGED dconn,
         AppReported(c, Head(toSrv[c]))
  PROVE  IInv'
<1> DEFINE m == Head(toSrv[c])
           u == [t |-> "upload", dev |-> m.dev, ver |-> reg[m.dev].list]
<1>1. m \in Message /\ m \in Waiting(c) /\ m.t = "app_report"
  BY ReadFields DEF AppReported
<1>2. m.dev \in Devices
  BY <1>1, MessageFields
<1>3. /\ reg' = [reg EXCEPT ![m.dev] = Attach(@, c)]
      /\ app' = IF NeedSync(m.dev, c) /\ reg[m.dev].list # 0 THEN AppGets(c, u) ELSE app
      /\ toSrv' = Read(c) /\ UNCHANGED <<up, db, cs>>
  BY DEF AppReported
<1> HIDE DEF m
<1>4. reg' \in [Devices -> Entry \cup {None}]
  BY <1>2, <1>3 DEF IInv, TypeOK, Entry, Attach
<1>5. \A d \in Devices : reg'[d] # None =>
        /\ Has(d) /\ reg'[d].dbev = reg[d].dbev
        /\ \/ reg'[d].abev = reg[d].abev
           \/ reg'[d].abev = c /\ m.dev = d
  BY <1>2, <1>3 DEF IInv, TypeOK, Entry, Attach, Has
<1>6. /\ app' \in [Apps -> AppState]
      /\ \A a \in Apps : /\ app'[a].conn = app[a].conn
                         /\ app[a].win # None => app'[a].win = app[a].win
  <2>1. CASE NeedSync(m.dev, c)
    <3>1. reg[m.dev] \in Entry
      BY <1>2, <2>1 DEF NeedSync, Has, IInv, TypeOK
    <3>2. u.t = "upload" /\ u.ver \in Versions
      BY <3>1 DEF Entry
    <3> HIDE DEF u
    <3> QED
      BY <1>3, <3>2, AppGetsFields, AppKept
  <2>2. CASE ~NeedSync(m.dev, c)
    BY <1>3, <2>2, AppKept
  <2> QED
    BY <2>1, <2>2
<1>7. /\ up' \in BOOLEAN
      /\ db' \in [Users -> {"absent", "unbound"} \cup Devices]
  BY <1>3 DEF IInv, TypeOK
<1> QED
  BY <1>1, <1>3, <1>4, <1>5, <1>6, <1>7, ReadWaiting, ReadInv

\* The handlers that leave the registry alone
LEMMA RegKept ==
  ASSUME IInv, UNCHANGED <<up, reg>>
  PROVE  /\ up' \in BOOLEAN /\ reg' \in [Devices -> Entry \cup {None}]
         /\ \A d \in Devices : reg'[d] # None =>
              Has(d) /\ reg'[d].dbev = reg[d].dbev /\ reg'[d].abev = reg[d].abev
BY DEF IInv, TypeOK, Has

LEMMA AccountInv ==
  ASSUME IInv, NEW c \in Conns, cs[c] # "closed", toSrv[c] # <<>>, UNCHANGED dconn,
         \/ Register(c, Head(toSrv[c])) \/ Login(c, Head(toSrv[c]))
         \/ BindDevice(c, Head(toSrv[c]))
  PROVE  IInv'
<1> DEFINE m == Head(toSrv[c])
<1>1. m \in Message
  BY ReadFields
<1>2. ASSUME NEW r, Answer(c, r), r.t # "upload",
             r.t \in {"reply_login", "reply_bind"} /\ r.res = "success" =>
               r.dev \in Devices,
             db' \in [Users -> {"absent", "unbound"} \cup Devices]
      PROVE  IInv'
  <2>1. app' = AppGets(c, r) /\ toSrv' = Read(c) /\ UNCHANGED <<up, reg, cs>>
    BY <1>2 DEF Answer
  <2> QED
    BY <1>2, <2>1, AppGetsFields, RegKept, ReadWaiting, ReadInv
<1>3. CASE Register(c, m)
  <2>1. m.user \in Users
    BY <1>1, <1>3, MessageFields DEF Register
  <2>2. db' \in [Users -> {"absent", "unbound"} \cup Devices]
    BY <1>3, <2>1 DEF Register, IInv, TypeOK
  <2> QED
    BY <1>2, <1>3, <2>2 DEF Register
<1>4. CASE Login(c, m)
  <2>1. m.user \in Users /\ db[m.user] \in {"absent", "unbound"} \cup Devices
    BY <1>1, <1>4, MessageFields DEF Login, IInv, TypeOK
  <2>2. LoginResult(m) = "success" => db[m.user] \in Devices
    BY <2>1 DEF LoginResult
  <2>3. PICK res \in {LoginResult(m), "refused"} :
          Answer(c, [t |-> "reply_login", res |-> res, dev |-> db[m.user]])
    BY <1>4 DEF Login
  <2>4. db' \in [Users -> {"absent", "unbound"} \cup Devices]
    BY <1>4 DEF Login, IInv, TypeOK
  <2> QED
    BY <1>2, <2>2, <2>3, <2>4
<1>5. CASE BindDevice(c, m)
  <2>1. m.dev \in Devices
    BY <1>1, <1>5, MessageFields DEF BindDevice
  <2>2. db' \in [Users -> {"absent", "unbound"} \cup Devices]
    BY <1>5, <2>1 DEF BindDevice, IInv, TypeOK
  <2>3. PICK res \in {"success", "refused"} :
          Answer(c, [t |-> "reply_bind", res |-> res, dev |-> m.dev])
    BY <1>5 DEF BindDevice
  <2> QED
    BY <1>2, <2>1, <2>2, <2>3
<1> QED
  BY <1>3, <1>4, <1>5

LEMMA ReplyHandleInv ==
  ASSUME IInv, NEW c \in Conns, cs[c] # "closed", toSrv[c] # <<>>, UNCHANGED dconn,
         ReplyHandle(c, Head(toSrv[c]))
  PROVE  IInv'
<1>1. toSrv' = Read(c) /\ UNCHANGED <<up, reg, db, cs, app>>
  BY DEF ReplyHandle
<1>2. db' \in [Users -> {"absent", "unbound"} \cup Devices]
  BY <1>1 DEF IInv, TypeOK
<1> QED
  BY <1>1, <1>2, RegKept, ReadWaiting, AppKept, ReadInv

LEMMA ForwardInv ==
  ASSUME IInv, NEW c \in Conns, cs[c] # "closed", toSrv[c] # <<>>, UNCHANGED dconn,
         UNCHANGED <<up, reg, db, cs>>, Forward(c, Head(toSrv[c]))
  PROVE  IInv'
<1> DEFINE m == Head(toSrv[c])
<1>1. PICK d \in Devices :
        /\ Attached(d, c)
        /\ IF m.t = "getlist" /\ reg[d].list # 0
           THEN /\ app' = AppGets(c, [t |-> "upload", dev |-> d, ver |-> reg[d].list])
                /\ toSrv' = Read(c)
           ELSE /\ \E ans \in DevAnswers(d, m.t) :
                     toSrv' = IF ans = <<>> THEN Read(c)
                              ELSE Sent(Read(c), reg[d].dbev, ans[1])
                /\ UNCHANGED app
  BY DEF Forward
<1>2. db' \in [Users -> {"absent", "unbound"} \cup Devices]
  BY DEF IInv, TypeOK
<1>3. reg[d] \in Entry /\ reg[d].dbev \in Conns /\ reg[d].dbev[1] = d
  BY <1>1, OfConns DEF Attached, Has, IInv, TypeOK, Entries
<1>4. CASE app' = AppGets(c, [t |-> "upload", dev |-> d, ver |-> reg[d].list])
           /\ toSrv' = Read(c)
  <2> DEFINE u == [t |-> "upload", dev |-> d, ver |-> reg[d].list]
  <2>1. u.t = "upload" /\ u.ver \in Versions
    BY <1>3 DEF Entry
  <2>2. app' = AppGets(c, u) /\ toSrv' = Read(c)
    BY <1>4
  <2> HIDE DEF u
  <2>3. /\ app' \in [Apps -> AppState]
        /\ \A a \in Apps : /\ app'[a].conn = app[a].conn
                           /\ app[a].win # None => app'[a].win = app[a].win
    BY <2>1, <2>2, AppGetsFields
  <2> QED
    BY <1>2, <2>2, <2>3, RegKept, ReadWaiting, ReadInv
<1>5. CASE toSrv' = Read(c) /\ UNCHANGED app
  BY <1>2, <1>5, AppKept, RegKept, ReadWaiting, ReadInv
<1>6. ASSUME NEW r, r \in Message, r.t \in {"reply", "upload"}, r.dev = d,
             toSrv' = Sent(Read(c), reg[d].dbev, r), UNCHANGED app
      PROVE  IInv'
  <2> DEFINE b == reg[d].dbev
  <2> HIDE DEF b
  <2>0. b \in Conns /\ b[1] = d /\ toSrv' = Sent(Read(c), b, r)
    BY <1>3, <1>6 DEF b
  <2>1. CASE cs[b] = "open"
    <3>1. /\ Read(c) \in [Conns -> Seq(Message)]
          /\ \A x \in Conns : Elems(Read(c)[x]) \subseteq Waiting(x)
          /\ \A x \in Conns : cs[x] = "closed" => Read(c)[x] = <<>>
      BY ReadFields
    <3>6. toSrv' = [Read(c) EXCEPT ![b] = Append(@, r)]
      BY <2>0, <2>1 DEF Sent
    <3>7. Read(c)[b] \in Seq(Message)
      BY <2>0, <3>1
    <3>8. /\ Append(Read(c)[b], r) \in Seq(Message)
          /\ Elems(Append(Read(c)[b], r)) = Elems(Read(c)[b]) \cup {r}
      BY <1>6, <3>7, ElemsAppend
    <3>2. /\ toSrv' = [Read(c) EXCEPT ![b] = Append(Read(c)[b], r)]
          /\ Append(Read(c)[b], r) \in Seq(Message)
          /\ Elems(Append(Read(c)[b], r)) = Elems(Read(c)[b]) \cup {r}
      BY <3>6, <3>8
    <3>3. /\ toSrv' \in [Conns -> Seq(Message)]
          /\ \A x \in Conns : cs[x] = "closed" => toSrv'[x] = <<>>
      BY <2>0, <2>1, <3>1, <3>2
    <3>4. ASSUME NEW x \in Conns
          PROVE  Elems(toSrv'[x]) \subseteq Waiting(x) \cup (IF x = b THEN {r} ELSE {})
      <4>1. CASE x = b
        <5>1. toSrv'[x] = Append(Read(c)[b], r)
          BY <2>0, <3>1, <3>2, <4>1
        <5> QED
          BY <3>1, <3>2, <4>1, <5>1
      <4>2. CASE x # b
        <5>1. toSrv'[x] = Read(c)[x]
          BY <2>0, <3>1, <3>2, <4>2
        <5> QED
          BY <3>1, <5>1
      <4> QED
        BY <4>1, <4>2
    <3>5. \A x \in Conns : \A n \in Waiting(x)' :
            n \in Waiting(x) \/ (n.t \in {"reply", "upload"} /\ n.dev = x[1])
      BY <1>6, <2>0, <3>4, WaitingElems
    <3> QED
      BY <1>2, <1>6, <3>3, <3>5, AppKept, RegKept, ReadInv
  <2>2. CASE cs[b] # "open"
    BY <1>5, <1>6, <2>0, <2>2 DEF Sent
  <2> QED
    BY <2>1, <2>2
<1>7. ASSUME NEW ans \in DevAnswers(d, m.t), ans # <<>>
      PROVE  ans[1] \in Message /\ ans[1].t \in {"reply", "upload"} /\ ans[1].dev = d
  <2>1. 1 .. MaxVer \subseteq Versions
    BY RelayAssumption DEF Versions
  <2> QED
    BY <1>7, <2>1 DEF DevAnswers, Message
<1> HIDE DEF m
<1> QED
  BY <1>1, <1>4, <1>5, <1>6, <1>7

LEMMA AppOptionInv ==
  ASSUME IInv, NEW c \in Conns, cs[c] # "closed", toSrv[c] # <<>>, UNCHANGED dconn,
         AppOption(c, Head(toSrv[c]))
  PROVE  IInv'
<1>1. UNCHANGED <<up, reg, db, cs>>
  BY DEF AppOption
<1>2. db' \in [Users -> {"absent", "unbound"} \cup Devices]
  BY <1>1 DEF IInv, TypeOK
<1>3. CASE toSrv' = Read(c) /\ UNCHANGED app
  BY <1>1, <1>2, <1>3, AppKept, RegKept, ReadWaiting, ReadInv
<1> QED
  BY <1>1, <1>3, ForwardInv DEF AppOption

LEMMA SrvReadInv == ASSUME IInv, NEW c \in Conns, SrvRead(c) PROVE IInv'
BY DeviceReportInv, UploadListInv, AppReportedInv, AccountInv, ReplyHandleInv,
   AppOptionInv DEF SrvRead, Handle

-----------------------------------------------------------------------------
(* The server frees connections *)

\* Those in S are freed, and no entry names them any more.
LEMMA FreeInv ==
  ASSUME IInv, NEW S, BevFree(S), up' \in BOOLEAN, UNCHANGED db,
         reg' \in [Devices -> Entry \cup {None}],
         \A d \in Devices : reg'[d] # None =>
           /\ Has(d) /\ reg'[d].dbev = reg[d].dbev /\ reg'[d].dbev \notin S
           /\ \/ reg'[d].abev = None
              \/ reg'[d].abev = reg[d].abev /\ reg'[d].abev \notin S
  PROVE  IInv'
<1>1. /\ cs' = [c \in Conns |-> IF c \in S THEN "closed" ELSE cs[c]]
      /\ toSrv' = [c \in Conns |-> IF c \in S THEN <<>> ELSE toSrv[c]]
      /\ dconn' = [d \in Devices |-> IF dconn[d] \in S THEN None ELSE dconn[d]]
      /\ app' = [a \in Apps |-> IF app[a].conn # None /\ app[a].conn \in S
                                THEN Disconnected(app[a]) ELSE app[a]]
  BY DEF BevFree
<1>2. \A a \in Apps : app'[a] \in AppState
        /\ \/ app'[a] = app[a] /\ (app[a].conn = None \/ app[a].conn \notin S)
           \/ app'[a].conn = None
  BY <1>1, DisconnectedFields DEF IInv, TypeOK
<1>3. toSrv' \in [Conns -> Seq(Message)] /\ cs' \in [Conns -> ConnStates]
  BY <1>1, ElemsEmpty DEF IInv, TypeOK, ConnStates
<1>4. TypeOK'
  BY <1>1, <1>2, <1>3 DEF IInv, TypeOK
<1>5. Owners'
  <2>1. \A d \in Devices : dconn'[d] # None => dconn'[d] \in Of(d)
    BY <1>1 DEF IInv, Owners
  <2>2. \A a \in Apps : app'[a].conn # None => app'[a].conn \in Of(a)
    BY <1>2 DEF IInv, Owners
  <2>3. ASSUME NEW c \in Conns, cs'[c] = "open"
        PROVE  \/ c[1] \in Devices /\ dconn'[c[1]] = c
               \/ c[1] \in Apps /\ app'[c[1]].conn = c
    <3>1. c \notin S /\ cs[c] = "open"
      BY <1>1, <2>3
    <3> QED
      BY <1>1, <3>1 DEF IInv, Owners
  <2> QED
    BY <2>1, <2>2, <2>3 DEF Owners
<1>6. ASSUME NEW c \in Conns PROVE Waiting(c)' \subseteq Waiting(c)
  <2>1. CASE c \in S
    <3>1. toSrv'[c] = <<>>
      BY <1>1, <2>1
    <3> QED
      BY <3>1, ElemsEmpty, WaitingElems
  <2>2. CASE c \notin S
    <3>1. toSrv'[c] = toSrv[c]
      BY <1>1, <2>2
    <3> QED
      BY <3>1, WaitingElems
  <2> QED
    BY <2>1, <2>2
<1>7. Senders'
  BY <1>6 DEF IInv, Senders
<1>8. Entries'
  BY DEF IInv, Entries, Has
<1>9. ASSUME NEW c \in Conns, cs'[c] = "closed" PROVE toSrv'[c] = <<>> /\ ~Named(c)'
  <2>1. c # None
    BY ConnOf
  <2>2. CASE c \in S
    BY <1>1, <2>1, <2>2 DEF Named, Registered, Attached, Has
  <2>3. CASE c \notin S
    <3>1. toSrv[c] = <<>> /\ ~Named(c) /\ toSrv'[c] = toSrv[c]
      BY <1>1, <1>9, <2>3 DEF IInv, Freed
    <3> QED
      BY <2>1, <3>1 DEF Named, Registered, Attached, Has
  <2> QED
    BY <2>2, <2>3
<1>10. Freed'
  BY <1>9 DEF Freed
<1>11. ASSUME NEW c \in Conns, NEW d \in Reports(c)' PROVE d \in Reports(c)
  BY <1>6, <1>11, ConnOf DEF Reports, Attached, Has
<1>12. OneReport'
  BY <1>11 DEF IInv, OneReport
<1>13. ASSUME NEW a \in Apps, NEW c \in Conns, app'[a].conn = c, NEW d \in Reports(c)'
       PROVE  app'[a].win = d
  <2>1. app'[a] = app[a]
    BY <1>2, <1>13, ConnOf
  <2> QED
    BY <1>11, <1>13, <2>1 DEF IInv, Shows
<1>14. Shows'
  BY <1>13 DEF Shows
<1> QED
  BY <1>4, <1>5, <1>7, <1>8, <1>10, <1>12, <1>14 DEF IInv

\* No two entries name the same connection, and no connection is a device's
\* and an app's.
LEMMA NamesApart ==
  ASSUME IInv, NEW d \in Devices, NEW e \in Devices, Has(d), Has(e)
  PROVE  /\ reg[d].dbev \in Conns /\ reg[d].dbev # None
         /\ reg[d].abev \in Conns \cup {None}
         /\ reg[d].dbev # reg[e].abev
         /\ d # e => reg[d].dbev # reg[e].dbev
         /\ d # e /\ reg[d].abev # None => reg[d].abev # reg[e].abev
<1>1. /\ reg[d] \in Entry /\ reg[d].dbev \in Of(d)
      /\ reg[e] \in Entry /\ reg[e].dbev \in Of(e)
      /\ reg[d].abev # None => reg[d].abev \in Conns
      /\ reg[e].abev # None => reg[e].abev \in Conns /\ reg[e].abev[1] \in Apps
  BY DEF IInv, TypeOK, Entries, Entry, Has
<1>2. reg[d].dbev \in Conns /\ reg[d].dbev # None /\ reg[d].dbev[1] = d
  BY <1>1, OfConns
<1>3. reg[e].dbev[1] = e
  BY <1>1, OfConns
<1>4. reg[d].dbev # reg[e].abev
  BY <1>1, <1>2, RelayAssumption
<1>5. ASSUME reg[d].abev # None, reg[d].abev = reg[e].abev PROVE d = e
  <2>1. d \in Reports(reg[d].abev) /\ e \in Reports(reg[d].abev)
    BY <1>5 DEF Reports, Attached
  <2> QED
    BY <1>1, <1>5, <2>1 DEF IInv, OneReport
<1> QED
  BY <1>1, <1>2, <1>3, <1>4, <1>5

LEMMA AppEndInv ==
  ASSUME IInv, NEW c \in Conns, NEW d \in Devices, AppEnd(c, d), UNCHANGED db
  PROVE  IInv'
<1>1. /\ Attached(d, c) /\ reg' = [reg EXCEPT ![d] = Detach(@)]
      /\ BevFree({c}) /\ UNCHANGED <<up, db>> /\ Has(d) /\ reg[d].abev = c /\ c # None
  BY ConnOf DEF AppEnd, Attached
<1>2. reg' \in [Devices -> Entry \cup {None}]
  BY <1>1 DEF IInv, TypeOK, Entry, Detach, Has
<1>3. \A e \in Devices : reg'[e] # None =>
        /\ Has(e) /\ reg'[e].dbev = reg[e].dbev
        /\ reg'[e].abev = IF e = d THEN None ELSE reg[e].abev
  BY <1>1 DEF IInv, TypeOK, Entry, Detach, Has
<1>4. \A e \in Devices : Has(e) => reg[e].dbev # c /\ (e # d => reg[e].abev # c)
  BY <1>1, NamesApart
<1>5. up' \in BOOLEAN
  BY <1>1 DEF IInv, TypeOK
<1> QED
  BY <1>1, <1>2, <1>3, <1>4, <1>5, FreeInv

LEMMA DevEndInv ==
  ASSUME IInv, NEW c \in Conns, NEW d \in Devices, DevEnd(c, d)
  PROVE  IInv'
<1>1. /\ reg' = [reg EXCEPT ![d] = None]
      /\ BevFree({c, reg[d].abev}) /\ UNCHANGED <<up, db>> /\ Has(d) /\ reg[d].dbev = c
  BY DEF DevEnd, Registered
<1>2. reg' \in [Devices -> Entry \cup {None}] /\ up' \in BOOLEAN
  BY <1>1 DEF IInv, TypeOK
<1>3. \A e \in Devices : reg'[e] # None => e # d /\ Has(e) /\ reg'[e] = reg[e]
  BY <1>1 DEF IInv, TypeOK, Has
<1>4. \A e \in Devices : Has(e) /\ e # d =>
        /\ reg[e].dbev # c /\ reg[e].dbev # reg[d].abev /\ reg[e].abev # c
        /\ reg[e].abev # None => reg[e].abev # reg[d].abev
  BY <1>1, NamesApart
<1>5. \A e \in Devices : reg'[e] # None =>
        /\ reg'[e].dbev \notin {c, reg[d].abev}
        /\ reg'[e].abev = None \/ reg'[e].abev \notin {c, reg[d].abev}
  BY <1>3, <1>4
<1> QED
  BY <1>1, <1>2, <1>3, <1>5, FreeInv

LEMMA TimerCbInv ==
  ASSUME IInv, NEW d \in Devices, TimerCb({d}, {}) \/ TimerCb({}, {d})
  PROVE  IInv'
<1>1. CASE TimerCb({d}, {})
  <2>1. /\ Has(d) /\ reg[d].abev # None /\ UNCHANGED <<up, db>>
        /\ reg' = [e \in Devices |-> IF e = d THEN Detach(reg[e]) ELSE reg[e]]
    BY <1>1 DEF TimerCb
  <2>2. {reg[e].abev : e \in {d} \cup {}} \cup {reg[e].dbev : e \in {}} = {reg[d].abev}
    OBVIOUS
  <2>3. BevFree({reg[d].abev})
    BY <1>1, <2>2 DEF TimerCb
  <2>4. reg' \in [Devices -> Entry \cup {None}] /\ up' \in BOOLEAN
    BY <2>1 DEF IInv, TypeOK, Entry, Detach, Has
  <2>5. \A e \in Devices : reg'[e] # None =>
          /\ Has(e) /\ reg'[e].dbev = reg[e].dbev
          /\ reg'[e].abev = IF e = d THEN None ELSE reg[e].abev
    BY <2>1 DEF IInv, TypeOK, Entry, Detach, Has
  <2>6. \A e \in Devices : Has(e) =>
          reg[e].dbev # reg[d].abev /\ (e # d => reg[e].abev # reg[d].abev)
    BY <2>1, NamesApart
  <2> QED
    BY <2>1, <2>3, <2>4, <2>5, <2>6, FreeInv
<1>2. CASE TimerCb({}, {d})
  <2>1. /\ Has(d) /\ UNCHANGED <<up, db>>
        /\ reg' = [e \in Devices |-> IF e = d THEN None ELSE reg[e]]
    BY <1>2 DEF TimerCb
  <2>2. {reg[e].abev : e \in {} \cup {d}} \cup {reg[e].dbev : e \in {d}}
          = {reg[d].abev, reg[d].dbev}
    OBVIOUS
  <2>3. BevFree({reg[d].abev, reg[d].dbev})
    BY <1>2, <2>2 DEF TimerCb
  <2>4. reg' \in [Devices -> Entry \cup {None}] /\ up' \in BOOLEAN
    BY <2>1 DEF IInv, TypeOK
  <2>5. \A e \in Devices : reg'[e] # None => e # d /\ Has(e) /\ reg'[e] = reg[e]
    BY <2>1 DEF Has
  <2>6. \A e \in Devices : Has(e) /\ e # d =>
          /\ reg[e].dbev # reg[d].dbev /\ reg[e].dbev # reg[d].abev
          /\ reg[e].abev # reg[d].dbev
          /\ reg[e].abev # None => reg[e].abev # reg[d].abev
    BY <2>1, NamesApart
  <2>7. \A e \in Devices : reg'[e] # None =>
          /\ reg'[e].dbev \notin {reg[d].abev, reg[d].dbev}
          /\ reg'[e].abev = None \/ reg'[e].abev \notin {reg[d].abev, reg[d].dbev}
    BY <2>5, <2>6
  <2> QED
    BY <2>1, <2>3, <2>4, <2>5, <2>7, FreeInv
<1> QED
  BY <1>1, <1>2

LEMMA ReplyToNullInv == ASSUME IInv, NEW c \in Conns, ReplyToNull(c) PROVE IInv'
<1>1. /\ up' = FALSE /\ reg' = [d \in Devices |-> None]
      /\ BevFree(Conns) /\ UNCHANGED db
  BY DEF ReplyToNull
<1> QED
  BY <1>1, FreeInv

-----------------------------------------------------------------------------
(* The clients connect and close *)

LEMMA Fresh == FreshApp \in AppState
<1>1. 0 \in Versions
  BY RelayAssumption DEF Versions
<1> QED
  BY <1>1 DEF FreshApp, AppState

\* Only cs and the owners of connections change.
LEMMA OwnerInv ==
  ASSUME IInv, UNCHANGED <<up, reg, db, toSrv>>,
         cs' \in [Conns -> ConnStates], dconn' \in [Devices -> Conns \cup {None}],
         app' \in [Apps -> AppState], Owners',
         \A c \in Conns : cs'[c] = "closed" => cs[c] = "closed",
         \A a \in Apps : \/ app'[a] = app[a] \/ app'[a].conn = None
                         \/ Reports(app'[a].conn) = {}
  PROVE  IInv'
<1>1. TypeOK' /\ Entries' /\ Freed'
  BY DEF IInv, TypeOK, Entries, Freed, Has, Named, Registered, Attached
<1>2. \A c : Waiting(c)' = Waiting(c)
  BY WaitingElems DEF Waiting, Elems
<1>3. \A c : Reports(c)' = Reports(c)
  BY <1>2 DEF Reports, Attached, Has
<1>4. Senders' /\ OneReport'
  BY <1>2, <1>3 DEF IInv, Senders, OneReport
<1>5. ASSUME NEW a \in Apps, NEW c \in Conns, app'[a].conn = c, NEW d \in Reports(c)'
      PROVE  app'[a].win = d
  <2>1. c # None /\ d \in Reports(c)
    BY <1>3, <1>5, ConnOf
  <2>2. app'[a] = app[a]
    BY <1>5, <2>1
  <2> QED
    BY <1>5, <2>1, <2>2 DEF IInv, Shows
<1>6. Shows'
  BY <1>5 DEF Shows
<1> QED
  BY <1>1, <1>4, <1>6 DEF IInv

LEMMA UsableSilent ==
  ASSUME IInv, NEW c \in Conns, Usable(c) PROVE toSrv[c] = <<>> /\ Reports(c) = {}
<1>1. toSrv[c] = <<>> /\ ~Named(c)
  BY DEF IInv, Freed, Usable
<1>2. Waiting(c) = {}
  BY <1>1, ElemsEmpty DEF Waiting
<1> QED
  BY <1>1, <1>2 DEF Reports, Named

LEMMA DevConnectInv ==
  ASSUME IInv, NEW d \in Devices, DevConnect(d) PROVE IInv'
<1>1. PICK c \in Of(d) :
        /\ dconn[d] = None /\ Usable(c)
        /\ dconn' = [dconn EXCEPT ![d] = c]
        /\ cs' = [cs EXCEPT ![c] = "open"]
        /\ UNCHANGED <<up, reg, db, toSrv, app>>
  BY DEF DevConnect
<1>2. c \in Conns /\ c[1] = d /\ c # None
  BY OfConns
<1>3. /\ cs' \in [Conns -> ConnStates] /\ dconn' \in [Devices -> Conns \cup {None}]
      /\ app' \in [Apps -> AppState]
      /\ \A x \in Conns : cs'[x] = "closed" => cs[x] = "closed"
  BY <1>1, <1>2 DEF IInv, TypeOK, ConnStates
<1>4. Owners'
  <2>1. \A e \in Devices : dconn'[e] # None => dconn'[e] \in Of(e)
    BY <1>1, <1>2 DEF IInv, TypeOK, Owners
  <2>2. \A a \in Apps : app'[a].conn # None => app'[a].conn \in Of(a)
    BY <1>1 DEF IInv, Owners
  <2>3. ASSUME NEW x \in Conns, cs'[x] = "open"
        PROVE  \/ x[1] \in Devices /\ dconn'[x[1]] = x
               \/ x[1] \in Apps /\ app'[x[1]].conn = x
    <3>1. CASE x = c
      BY <1>1, <1>2, <3>1 DEF IInv, TypeOK
    <3>2. CASE x # c
      <4>1. cs[x] = "open"
        BY <1>1, <2>3, <3>2 DEF IInv, TypeOK
      <4> QED
        BY <1>1, <4>1, ConnOf DEF IInv, TypeOK, Owners
    <3> QED
      BY <3>1, <3>2
  <2> QED
    BY <2>1, <2>2, <2>3 DEF Owners
<1> QED
  BY <1>1, <1>3, <1>4, OwnerInv

LEMMA DevCloseInv ==
  ASSUME IInv, NEW d \in Devices, DevClose(d) PROVE IInv'
<1>1. /\ dconn[d] # None /\ cs' = [cs EXCEPT ![dconn[d]] = "fin"]
      /\ dconn' = [dconn EXCEPT ![d] = None]
      /\ UNCHANGED <<up, reg, db, toSrv, app>>
  BY DEF DevClose, Fin
<1>2. /\ cs' \in [Conns -> ConnStates] /\ dconn' \in [Devices -> Conns \cup {None}]
      /\ app' \in [Apps -> AppState]
      /\ \A x \in Conns : cs'[x] = "closed" => cs[x] = "closed"
  BY <1>1 DEF IInv, TypeOK, ConnStates
<1>3. ASSUME NEW x \in Conns, cs'[x] = "open"
      PROVE  \/ x[1] \in Devices /\ dconn'[x[1]] = x
             \/ x[1] \in Apps /\ app'[x[1]].conn = x
  <2>1. x # dconn[d] /\ cs[x] = "open"
    BY <1>1, <1>3 DEF IInv, TypeOK
  <2> QED
    BY <1>1, <2>1 DEF IInv, TypeOK, Owners
<1>4. Owners'
  BY <1>1, <1>3 DEF IInv, TypeOK, Owners
<1> QED
  BY <1>1, <1>2, <1>4, OwnerInv

LEMMA AppConnectInv ==
  ASSUME IInv, NEW a \in Apps, AppConnect(a) PROVE IInv'
<1>1. PICK c \in Of(a) :
        /\ app[a].conn = None /\ Usable(c)
        /\ app' = [app EXCEPT ![a] = [app[a] EXCEPT !.conn = c]]
        /\ cs' = [cs EXCEPT ![c] = "open"]
        /\ UNCHANGED <<up, reg, db, toSrv, dconn>>
  BY DEF AppConnect, Set
<1>2. c \in Conns /\ c[1] = a /\ c # None
  BY OfConns
<1>8. [app[a] EXCEPT !.conn = c] \in AppState /\ [app[a] EXCEPT !.conn = c].conn = c
  <2>1. app[a] \in AppState
    BY DEF IInv, TypeOK
  <2> QED
    BY <1>2, <2>1 DEF AppState
<1>3. /\ app' \in [Apps -> AppState] /\ app'[a].conn = c
      /\ \A b \in Apps \ {a} : app'[b] = app[b]
  BY <1>1, <1>8 DEF IInv, TypeOK
<1>4. /\ cs' \in [Conns -> ConnStates] /\ dconn' \in [Devices -> Conns \cup {None}]
      /\ \A x \in Conns : cs'[x] = "closed" => cs[x] = "closed"
  BY <1>1, <1>2 DEF IInv, TypeOK, ConnStates
<1>5. ASSUME NEW x \in Conns, cs'[x] = "open"
      PROVE  \/ x[1] \in Devices /\ dconn'[x[1]] = x
             \/ x[1] \in Apps /\ app'[x[1]].conn = x
  <2>1. CASE x = c
    BY <1>2, <1>3, <2>1
  <2>2. CASE x # c
    <3>1. cs[x] = "open"
      BY <1>1, <1>5, <2>2 DEF IInv, TypeOK
    <3> QED
      BY <1>1, <1>3, <3>1, ConnOf DEF IInv, Owners
  <2> QED
    BY <2>1, <2>2
<1>6. Owners'
  BY <1>1, <1>3, <1>5 DEF IInv, Owners
<1>7. \A b \in Apps : app'[b] = app[b] \/ Reports(app'[b].conn) = {}
  BY <1>1, <1>2, <1>3, UsableSilent
<1> QED
  BY <1>1, <1>3, <1>4, <1>6, <1>7, OwnerInv

\* What an app is left with when its connection ends on its own side.
LEMMA AppLeft ==
  ASSUME app \in [Apps -> AppState], NEW a \in Apps, AppQuit(a) \/ AppLost(a)
  PROVE  \E s \in AppState : s.conn = None /\ AppEnds(a, s)
<1>1. FreshApp \in AppState /\ FreshApp.conn = None
  BY Fresh DEF FreshApp
<1>2. Disconnected(app[a]) \in AppState /\ Disconnected(app[a]).conn = None
  BY DisconnectedFields
<1> QED
  BY <1>1, <1>2 DEF AppQuit, AppLost

LEMMA AppEndsInv ==
  ASSUME IInv, NEW a \in Apps, AppQuit(a) \/ AppLost(a) PROVE IInv'
<1>2. PICK s \in AppState : s.conn = None /\ AppEnds(a, s)
  BY AppLeft DEF IInv, TypeOK
<1>1. /\ app[a].conn # None /\ cs' = [cs EXCEPT ![app[a].conn] = "fin"]
      /\ app' = [app EXCEPT ![a] = s]
      /\ UNCHANGED <<up, reg, db, toSrv, dconn>>
  BY <1>2 DEF AppEnds, Fin, Set
<1>3. /\ app' \in [Apps -> AppState] /\ app'[a].conn = None
      /\ \A b \in Apps \ {a} : app'[b] = app[b]
  BY <1>1, <1>2 DEF IInv, TypeOK
<1>4. /\ cs' \in [Conns -> ConnStates] /\ dconn' \in [Devices -> Conns \cup {None}]
      /\ \A x \in Conns : cs'[x] = "closed" => cs[x] = "closed"
  BY <1>1 DEF IInv, TypeOK, ConnStates
<1>5. ASSUME NEW x \in Conns, cs'[x] = "open"
      PROVE  \/ x[1] \in Devices /\ dconn'[x[1]] = x
             \/ x[1] \in Apps /\ app'[x[1]].conn = x
  <2>1. x # app[a].conn /\ cs[x] = "open"
    BY <1>1, <1>5 DEF IInv, TypeOK
  <2> QED
    BY <1>1, <1>3, <2>1 DEF IInv, Owners
<1>6. Owners'
  BY <1>1, <1>3, <1>5 DEF IInv, Owners
<1> QED
  BY <1>1, <1>3, <1>4, <1>6, OwnerInv

LEMMA DevSendInv ==
  ASSUME IInv, NEW d \in Devices, DevReport(d) \/ DevUpload(d) PROVE IInv'
<1>1. PICK m \in {[t |-> "device_report", dev |-> d]} \cup
                 {[t |-> "upload", dev |-> d, ver |-> v] : v \in 1 .. MaxVer} :
        ClientSends(dconn[d], m) /\ UNCHANGED app
  BY DEF DevReport, DevUpload
<1>2. m \in Message /\ m.t \in {"device_report", "upload"} /\ m.dev = d
  <2>1. 1 .. MaxVer \subseteq Versions
    BY RelayAssumption DEF Versions
  <2> QED
    BY <1>1, <2>1 DEF Message
<1>3. cs[dconn[d]] = "open" /\ dconn[d] \in Conns /\ dconn[d][1] = d
  BY <1>1, OfConns DEF ClientSends, Open, IInv, TypeOK, Owners
<1>4. /\ app' \in [Apps -> AppState]
      /\ \A a \in Apps : app'[a].conn = app[a].conn /\ app'[a].win = app[a].win
  BY <1>1 DEF IInv, TypeOK
<1> QED
  BY <1>1, <1>2, <1>3, <1>4, SendInv

LEMMA AppSendInv ==
  ASSUME IInv, NEW a \in Apps,
         \/ AppReport(a)
         \/ \E t \in {"cmd", "getlist"} : AppCommand(a, t)
         \/ \E u \in Users, t \in {"login", "register"} : AppLogin(a, u, t)
         \/ \E d \in Devices : AppBind(a, d)
  PROVE  IInv'
<1>1. app[a] \in AppState
  BY DEF IInv, TypeOK
<1>2. ASSUME NEW m \in Message, NEW s \in AppState, ClientSends(app[a].conn, m),
             m.t \notin {"device_report", "upload"},
             m.t = "app_report" => m.dev = app[a].win,
             app' = [app EXCEPT ![a] = s], s.conn = app[a].conn, s.win = app[a].win
      PROVE  IInv'
  <2>1. cs[app[a].conn] = "open" /\ app[a].conn \in Conns
    BY <1>1, <1>2 DEF ClientSends, Open, AppState
  <2>2. /\ app' \in [Apps -> AppState]
        /\ \A b \in Apps : app'[b].conn = app[b].conn /\ app'[b].win = app[b].win
    BY <1>2 DEF IInv, TypeOK
  <2> QED
    BY <1>2, <2>1, <2>2, SendInv
<1>3. app = [app EXCEPT ![a] = app[a]]
  BY DEF IInv, TypeOK
<1>4. CASE AppReport(a)
  <2>1. /\ app[a].win \in Devices /\ UNCHANGED app
        /\ ClientSends(app[a].conn, [t |-> "app_report", dev |-> app[a].win])
    BY <1>1, <1>4 DEF AppReport, AppState
  <2>2. [t |-> "app_report", dev |-> app[a].win] \in Message
    BY <2>1 DEF Message
  <2> QED
    BY <1>1, <1>2, <1>3, <2>1, <2>2
<1>5. ASSUME NEW t \in {"cmd", "getlist"}, AppCommand(a, t) PROVE IInv'
  <2>1. UNCHANGED app /\ ClientSends(app[a].conn, [t |-> t])
    BY <1>5 DEF AppCommand
  <2>2. [t |-> t] \in Message
    BY DEF Message
  <2> QED
    BY <1>1, <1>2, <1>3, <2>1, <2>2
<1>6. ASSUME NEW u \in Users, NEW t \in {"login", "register"}, AppLogin(a, u, t)
      PROVE  IInv'
  <2> DEFINE s == [app[a] EXCEPT !.wait = TRUE, !.user = u]
  <2>1. /\ app' = [app EXCEPT ![a] = s]
        /\ ClientSends(app[a].conn, [t |-> t, user |-> u])
    BY <1>6 DEF AppLogin, Set
  <2>2. s \in AppState /\ s.conn = app[a].conn /\ s.win = app[a].win
    BY <1>1 DEF AppState
  <2>3. [t |-> t, user |-> u] \in Message
    BY DEF Message
  <2> HIDE DEF s
  <2> QED
    BY <1>2, <2>1, <2>2, <2>3
<1>7. ASSUME NEW d \in Devices, AppBind(a, d) PROVE IInv'
  <2> DEFINE s == [app[a] EXCEPT !.wait = TRUE]
  <2>1. /\ app' = [app EXCEPT ![a] = s]
        /\ ClientSends(app[a].conn, [t |-> "bind", user |-> app[a].user, dev |-> d])
    BY <1>7 DEF AppBind, Set
  <2>2. s \in AppState /\ s.conn = app[a].conn /\ s.win = app[a].win
    BY <1>1 DEF AppState
  <2>3. [t |-> "bind", user |-> app[a].user, dev |-> d] \in Message
    BY <1>1 DEF AppState, Message
  <2> HIDE DEF s
  <2> QED
    BY <1>2, <2>1, <2>2, <2>3
<1> QED
  BY <1>4, <1>5, <1>6, <1>7

-----------------------------------------------------------------------------
(* The theorems *)

LEMMA NextInv == IInv /\ [Next]_vars => IInv'
<1> SUFFICES ASSUME IInv, [Next]_vars PROVE IInv'
  OBVIOUS
<1>1. CASE SrvStep
  <2>1. ASSUME UNCHANGED <<reg, db, cs, toSrv, dconn, app>>, up' \in BOOLEAN PROVE IInv'
    <3>1. TypeOK' /\ Owners' /\ Entries' /\ Freed'
      BY <2>1 DEF IInv, TypeOK, Owners, Entries, Freed, Has, Named, Registered, Attached
    <3>2. Senders' /\ OneReport' /\ Shows'
      BY <2>1 DEF IInv, Senders, OneReport, Shows, Reports, Waiting, Elems, Attached, Has
    <3> QED
      BY <3>1, <3>2 DEF IInv
  <2>2. CASE Restart
    BY <2>1, <2>2 DEF Restart
  <2>3. ASSUME NEW c \in Conns, NEW d \in Devices, AppEnd(c, d) \/ DevEnd(c, d) PROVE IInv'
    BY <2>3, AppEndInv, DevEndInv DEF AppEnd
  <2> QED
    BY <1>1, <2>2, <2>3, SrvReadInv, ReplyToNullInv, TimerCbInv DEF SrvStep, ReadCb
<1>2. CASE \E d \in Devices : DevStep(d)
  BY <1>2, DevConnectInv, DevSendInv, DevCloseInv DEF DevStep
<1>3. CASE \E a \in Apps : AppStep(a)
  BY <1>3, AppConnectInv, AppSendInv, AppEndsInv DEF AppStep
<1>4. CASE UNCHANGED vars
  <2>1. TypeOK' /\ Owners' /\ Entries' /\ Freed'
    BY <1>4 DEF vars, IInv, TypeOK, Owners, Entries, Freed, Has, Named, Registered,
                Attached
  <2>2. Senders' /\ OneReport' /\ Shows'
    BY <1>4 DEF vars, IInv, Senders, OneReport, Shows, Reports, Waiting, Elems,
                Attached, Has
  <2> QED
    BY <2>1, <2>2 DEF IInv
<1> QED
  BY <1>1, <1>2, <1>3, <1>4 DEF Next

\* The inductive invariant of the relay: every handler of read_cb, event_cb and
\* player_timer_cb, and every step of a client, keeps it.
THEOREM RelayInvariant == Spec => []IInv
BY InitInv, NextInv, PTL DEF Spec

\* Every variable of Relay keeps its type: no handler finds an entry, an account,
\* a message or a window it does not expect.
THEOREM RelayTypeCorrect == Spec => []TypeOK
<1>1. IInv => TypeOK
  BY DEF IInv
<1> QED
  BY <1>1, RelayInvariant, PTL

\* An entry of m_player_list never names a bufferevent that was freed, and no
\* bufferevent is named by two entries, though event_cb stops at the first one
\* it finds and player_timer_cb frees without a message from the client.
THEOREM RegistryNamesLiveConnections == Spec => []NoDangling
<1>1. IInv => NoDangling
  <2> SUFFICES ASSUME IInv PROVE NoDangling
    OBVIOUS
  <2>1. ASSUME NEW d \in Devices, Has(d), NEW c \in {reg[d].dbev, reg[d].abev} \ {None}
        PROVE  cs[c] # "closed"
    <3>1. c \in Conns /\ Named(c)
      BY <2>1, NamesApart DEF Named, Registered, Attached
    <3> QED
      BY <3>1 DEF IInv, Freed
  <2>2. ASSUME NEW d \in Devices, NEW e \in Devices, d # e, Has(d), Has(e)
        PROVE  {reg[d].dbev, reg[d].abev} \cap {reg[e].dbev, reg[e].abev} \subseteq {None}
    BY <2>2, NamesApart
  <2> QED
    BY <2>1, <2>2 DEF NoDangling
<1> QED
  BY <1>1, RelayInvariant, PTL

\* server_app_option and player_device_update_music_list pass commands and lists
\* on by connection alone; they reach only the speaker of that entry and an app
\* whose window shows that speaker, whichever accounts have bound it.
THEOREM OnlyOwnWindows == Spec => []Isolation
<1>1. IInv => Isolation
  <2> SUFFICES ASSUME IInv, NEW d \in Devices, Has(d)
               PROVE  /\ reg[d].dbev \in Of(d)
                      /\ \A a \in Apps : app[a].conn # None /\ reg[d].abev = app[a].conn =>
                           app[a].win = d
    BY DEF Isolation
  <2>1. reg[d].dbev \in Of(d)
    BY DEF IInv, Entries
  <2>2. ASSUME NEW a \in Apps, app[a].conn # None, reg[d].abev = app[a].conn
        PROVE  app[a].win = d
    <3>1. app[a].conn \in Conns /\ d \in Reports(app[a].conn)
      BY <2>2, OfConns DEF IInv, Owners, Reports, Attached
    <3> QED
      BY <3>1 DEF IInv, Shows
  <2> QED
    BY <2>1, <2>2
<1> QED
  BY <1>1, RelayInvariant, PTL

\* Database::user_bind, a query and an update in one handler, never binds a
\* speaker to two accounts.
THEOREM SpeakersHaveOneAccount == Spec => []OneOwner
<1>1. Init => OneOwner
  BY RelayAssumption DEF Init, OneOwner
<1>2. IInv /\ OneOwner /\ [Next]_vars => OneOwner'
  <2> SUFFICES ASSUME IInv, OneOwner, [Next]_vars PROVE OneOwner'
    OBVIOUS
  <2>1. CASE UNCHANGED db
    BY <2>1 DEF OneOwner
  <2>2. ASSUME NEW c \in Conns, Register(c, Head(toSrv[c])) PROVE OneOwner'
    BY <2>2, RelayAssumption DEF Register, OneOwner, IInv, TypeOK
  <2>3. ASSUME NEW c \in Conns, BindDevice(c, Head(toSrv[c])) PROVE OneOwner'
    BY <2>3 DEF BindDevice, Bindable, OneOwner, IInv, TypeOK
  <2>4. CASE SrvStep
    <3>1. ASSUME NEW c \in Conns, Handle(c, Head(toSrv[c])) PROVE OneOwner'
      BY <2>1, <2>2, <2>3, <3>1
         DEF Handle, DeviceReport, UploadList, ReplyHandle, AppReported, AppOption, Login
    <3>2. ASSUME NEW c \in Conns, ReplyToNull(c) PROVE UNCHANGED db
      BY <3>2 DEF ReplyToNull
    <3>3. ASSUME NEW c \in Conns, NEW d \in Devices, AppEnd(c, d) \/ DevEnd(c, d)
          PROVE  UNCHANGED db
      BY <3>3 DEF AppEnd, DevEnd
    <3>4. ASSUME NEW S, NEW T, TimerCb(S, T) PROVE UNCHANGED db
      BY <3>4 DEF TimerCb
    <3> QED
      BY <2>1, <2>4, <3>1, <3>2, <3>3, <3>4 DEF SrvStep, ReadCb, SrvRead, Restart
  <2>5. CASE \E d \in Devices : DevStep(d)
    BY <2>1, <2>5 DEF DevStep, DevConnect, DevReport, DevUpload, DevClose, ClientSends
  <2>6. CASE \E a \in Apps : AppStep(a)
    BY <2>1, <2>6 DEF AppStep, AppConnect, AppReport, AppQuit, AppLost, AppEnds,
                      AppCommand, AppLogin, AppBind, ClientSends
  <2>7. CASE UNCHANGED vars
    BY <2>1, <2>7 DEF vars
  <2> QED
    BY <2>4, <2>5, <2>6, <2>7 DEF Next
<1> QED
  BY <1>1, <1>2, RelayInvariant, PTL DEF Spec

-----------------------------------------------------------------------------
(* The lists *)

\* What the server sends to c is read by nobody but the app that uses c.
LEMMA AppGetsShown ==
  ASSUME IInv, NEW c \in Conns, NEW m, NEW a \in Apps,
         m.t = "upload" => m.ver \in Versions,
         m.t \in {"reply_login", "reply_bind"} /\ m.res = "success" =>
           m.dev \in Devices
  PROVE  /\ app[a].conn # c => AppGets(c, m)[a] = app[a]
         /\ app[a].conn = c /\ Open(c) /\ app[a].win # None =>
              AppGets(c, m)[a].shown = IF m.t = "upload" THEN m.ver ELSE app[a].shown
<1> DEFINE h == Handler(app[c[1]], m)
<1>1. CASE Open(c) /\ c[1] \in Apps
  <2>1. app[c[1]].conn = c
    BY <1>1, RelayAssumption DEF Open, IInv, Owners
  <2>2. app[c[1]].win # None =>
          h.shown = IF m.t = "upload" THEN m.ver ELSE app[c[1]].shown
    BY <1>1, HandlerFields DEF IInv, TypeOK
  <2>3. AppGets(c, m) = [app EXCEPT ![c[1]] = h]
    BY <1>1 DEF AppGets
  <2>4. app[a].conn = c => a = c[1]
    BY OfConns, ConnOf DEF IInv, Owners
  <2> HIDE DEF h
  <2> QED
    BY <1>1, <2>1, <2>2, <2>3, <2>4 DEF IInv, TypeOK
<1>2. CASE ~(Open(c) /\ c[1] \in Apps)
  <2>1. AppGets(c, m) = app
    BY <1>2 DEF AppGets, IInv, TypeOK
  <2>2. app[a].conn = c => c[1] \in Apps
    BY OfConns, ConnOf DEF IInv, Owners
  <2> QED
    BY <1>2, <2>1, <2>2
<1> QED
  BY <1>1, <1>2

\* An app's window is of the device its connection is attached to.
LEMMA AttachedShows ==
  ASSUME IInv, NEW a \in Apps, NEW c \in Conns, app[a].conn = c,
         NEW d \in Reports(c)
  PROVE  app[a].win = d /\ app[a].win # None
BY RelayAssumption DEF Reports, IInv, Shows

\* Coherent holds of an app and a device afterwards if it held before and
\* nothing it is about has changed.
Unmoved(a, d) ==
  LET c == app[a].conn IN
  /\ app'[a].conn = c /\ app'[a].shown = app[a].shown
  /\ cs'[c] = "open" => cs[c] = "open"
  /\ Attached(d, c)' => Attached(d, c) /\ reg'[d].list = reg[d].list

Holds(a, d) ==
  LET c == app[a].conn IN
  Open(c) /\ Attached(d, c) /\ reg[d].list # 0 => app[a].shown = reg[d].list

LEMMA UnmovedHolds ==
  ASSUME NEW a \in Apps, NEW d \in Devices, Coherent, Unmoved(a, d)
  PROVE  Holds(a, d)'
BY DEF Coherent, Unmoved, Holds, Open, Attached, Has

LEMMA GoneHolds ==
  ASSUME NEW a \in Apps, NEW d \in Devices,
         \/ app'[a].conn = None
         \/ ~Attached(d, app[a].conn)' /\ app'[a].conn = app[a].conn
  PROVE  Holds(a, d)'
BY DEF Holds, Open, Attached, Has

LEMMA UploadListHolds ==
  ASSUME IInv, Coherent, NEW c \in Conns, toSrv[c] # <<>>,
         UploadList(c, Head(toSrv[c])), NEW a \in Apps, NEW d \in Devices
  PROVE  Holds(a, d)'
<1> DEFINE m == Head(toSrv[c])
           b == reg[m.dev].abev
<1>1. m \in Message /\ m \in Waiting(c) /\ m.t = "upload"
  BY ReadFields DEF UploadList
<1>2. m.dev \in Devices /\ m.ver \in Versions /\ m.dev = c[1]
  BY <1>1, MessageFields DEF IInv, Senders
<1>3. /\ reg' = [e \in Devices |-> IF Registered(e, c)
                                   THEN [reg[e] EXCEPT !.list = m.ver] ELSE reg[e]]
      /\ app' = IF Registered(m.dev, c) THEN AppGets(b, m) ELSE app
      /\ UNCHANGED cs
  BY DEF UploadList
<1> HIDE DEF m
<1>4. \A e \in Devices : Registered(e, c) => e = m.dev
  BY <1>2, OfConns DEF Registered, IInv, Entries
<1>5. \A e \in Devices : Has(e) => reg[e] \in Entry
  BY DEF IInv, TypeOK, Has
<1>6. /\ Attached(d, app[a].conn) \/ ~(Has(d)' /\ reg'[d].abev = app[a].conn)
      /\ d = m.dev /\ Registered(m.dev, c) => reg'[d].list = m.ver
      /\ d # m.dev \/ ~Registered(m.dev, c) => reg'[d] = reg[d]
  <2>1. CASE Registered(d, c)
    <3>1. reg[d] \in Entry /\ d = m.dev /\ reg'[d] = [reg[d] EXCEPT !.list = m.ver]
      BY <1>3, <1>4, <1>5, <2>1 DEF Registered
    <3>2. reg'[d].list = m.ver /\ reg'[d].abev = reg[d].abev
      BY <3>1 DEF Entry
    <3> QED
      BY <2>1, <3>1, <3>2 DEF Attached, Registered
  <2>2. CASE ~Registered(d, c)
    BY <1>3, <2>2 DEF Attached, Has
  <2> QED
    BY <2>1, <2>2
<1>7. CASE ~Registered(m.dev, c)
  <2>1. Unmoved(a, d)
    BY <1>3, <1>6, <1>7 DEF Unmoved, Attached, Has
  <2> QED
    BY <2>1, UnmovedHolds
<1>8. CASE Registered(m.dev, c)
  <2>1. b \in Conns \cup {None} /\ app' = AppGets(b, m)
    BY <1>2, <1>3, <1>5, <1>8 DEF Registered, Entry
  <2>2. app'[a].conn = app[a].conn
    BY <1>1, <1>2, <2>1, AppGetsFields
  <2>3. CASE app[a].conn = None
    BY <2>2, <2>3, GoneHolds
  <2>4. CASE app[a].conn # None /\ ~Attached(d, app[a].conn)
    BY <1>6, <2>2, <2>4, GoneHolds DEF Attached, Has
  <2>5. CASE app[a].conn # None /\ Attached(d, app[a].conn) /\ app[a].conn # b
    <3>1. app'[a] = app[a]
      <4>1. CASE b = None
        BY <2>1, <4>1 DEF AppGets, Open
      <4>2. CASE b # None
        BY <1>1, <1>2, <2>1, <2>5, <4>2, AppGetsShown
      <4> QED
        BY <4>1, <4>2
    <3>2. d # m.dev
      BY <2>5 DEF Attached
    <3> QED
      BY <1>3, <1>6, <2>2, <2>5, <3>1, <3>2, UnmovedHolds DEF Unmoved
  <2>6. CASE app[a].conn # None /\ Attached(d, app[a].conn) /\ app[a].conn = b
    <3>1. b \in Conns /\ d \in Reports(b) /\ m.dev \in Reports(b)
      BY <1>2, <1>8, <2>1, <2>6 DEF Reports, Attached, Registered
    <3>2. d = m.dev /\ app[a].win # None
      BY <2>6, <3>1, AttachedShows DEF IInv, OneReport
    <3>3. Open(b) => app'[a].shown = m.ver
      BY <1>1, <1>2, <2>1, <2>6, <3>1, <3>2, AppGetsShown
    <3> HIDE DEF b
    <3> QED
      BY <1>3, <1>6, <1>8, <2>2, <2>6, <3>2, <3>3 DEF Holds, Open
  <2> QED
    BY <2>3, <2>4, <2>5, <2>6
<1> QED
  BY <1>7, <1>8

LEMMA AppReportedHolds ==
  ASSUME IInv, Coherent, NEW c \in Conns, toSrv[c] # <<>>,
         AppReported(c, Head(toSrv[c])), NEW a \in Apps, NEW d \in Devices
  PROVE  Holds(a, d)'
<1> DEFINE m == Head(toSrv[c])
           u == [t |-> "upload", dev |-> m.dev, ver |-> reg[m.dev].list]
<1>1. m \in Message /\ m \in Waiting(c) /\ m.t = "app_report"
  BY ReadFields DEF AppReported
<1>2. m.dev \in Devices
  BY <1>1, MessageFields
<1>3. /\ reg' = [reg EXCEPT ![m.dev] = Attach(@, c)]
      /\ app' = IF NeedSync(m.dev, c) /\ reg[m.dev].list # 0 THEN AppGets(c, u) ELSE app
      /\ UNCHANGED cs
  BY DEF AppReported
<1>4. m.dev \in Reports(c)
  BY <1>1, <1>2 DEF Reports
<1>5. u.t = "upload" /\ (Has(m.dev) => u.ver \in Versions) /\ u.ver = reg[m.dev].list
  BY <1>2 DEF Has, IInv, TypeOK, Entry
<1> HIDE DEF m, u
<1>6. Has(d)' => /\ Has(d) /\ reg'[d].list = reg[d].list
                 /\ reg'[d].abev = IF d = m.dev THEN c ELSE reg[d].abev
  BY <1>2, <1>3 DEF IInv, TypeOK, Entry, Attach, Has
<1>7. /\ app'[a].conn = app[a].conn
      /\ app[a].conn # c => app'[a] = app[a]
      /\ app[a].conn = c /\ Open(c) /\ app[a].win # None /\ NeedSync(m.dev, c)
           /\ reg[m.dev].list # 0 => app'[a].shown = u.ver
  <2>1. CASE NeedSync(m.dev, c)
    BY <1>3, <1>5, <2>1, AppGetsFields, AppGetsShown DEF NeedSync
  <2>2. CASE ~NeedSync(m.dev, c)
    BY <1>3, <2>2
  <2> QED
    BY <2>1, <2>2
<1>8. CASE app[a].conn = c
  <2>1. app[a].win = m.dev /\ app[a].win # None
    BY <1>4, <1>8, AttachedShows
  <2>2. CASE d # m.dev
    <3>1. ~Attached(d, c)
      BY <1>8, <2>1, <2>2, AttachedShows DEF Reports
    <3> QED
      BY <1>6, <1>7, <1>8, <2>2, <3>1, GoneHolds DEF Attached
  <2>3. CASE d = m.dev /\ NeedSync(m.dev, c)
    BY <1>3, <1>5, <1>6, <1>7, <1>8, <2>1, <2>3 DEF Holds, Open, NeedSync, Attached
  <2>4. CASE d = m.dev /\ ~NeedSync(m.dev, c)
    <3>1. app'[a] = app[a] /\ (Has(d) => Attached(d, c))
      BY <1>3, <2>4 DEF NeedSync
    <3> QED
      BY <1>3, <1>6, <1>8, <3>1, UnmovedHolds DEF Unmoved, Attached
  <2> QED
    BY <2>2, <2>3, <2>4
<1>9. CASE app[a].conn # c
  <2>1. Unmoved(a, d)
    BY <1>3, <1>6, <1>7, <1>9 DEF Unmoved, Attached
  <2> QED
    BY <2>1, UnmovedHolds
<1> QED
  BY <1>8, <1>9

\* An answer to c of something else, or of the list of the device c is attached to
LEMMA AnswerHolds ==
  ASSUME IInv, Coherent, NEW c \in Conns, NEW r, UNCHANGED <<reg, cs>>,
         app' = AppGets(c, r),
         r.t = "upload" => r.ver \in Versions
           /\ \E e \in Devices : Attached(e, c) /\ r.ver = reg[e].list,
         r.t \in {"reply_login", "reply_bind"} /\ r.res = "success" => r.dev \in Devices,
         NEW a \in Apps, NEW d \in Devices
  PROVE  Holds(a, d)'
<1>1. app'[a].conn = app[a].conn
  BY AppGetsFields
<1>2. CASE app[a].conn # c
  <2>1. app'[a] = app[a]
    BY <1>2, AppGetsShown
  <2> QED
    BY <2>1, UnmovedHolds DEF Unmoved, Attached, Has
<1>3. CASE app[a].conn = c /\ ~(Open(c) /\ Attached(d, c))
  BY <1>1, <1>3 DEF Holds, Open, Attached, Has
<1>4. CASE app[a].conn = c /\ Open(c) /\ Attached(d, c)
  <2>1. d \in Reports(c) /\ app[a].win # None
    BY <1>4, AttachedShows DEF Reports
  <2>2. \A e \in Devices : Attached(e, c) => e = d
    BY <2>1 DEF IInv, OneReport, Reports
  <2>3. app'[a].shown = IF r.t = "upload" THEN r.ver ELSE app[a].shown
    BY <1>4, <2>1, AppGetsShown
  <2>4. CASE r.t = "upload"
    BY <1>1, <1>4, <2>2, <2>3, <2>4 DEF Holds, Open
  <2>5. CASE r.t # "upload"
    BY <1>1, <2>3, <2>5, UnmovedHolds DEF Unmoved, Attached, Has
  <2> QED
    BY <2>4, <2>5
<1> QED
  BY <1>2, <1>3, <1>4

LEMMA SrvReadHolds ==
  ASSUME IInv, Coherent, NEW c \in Conns, SrvRead(c), NEW a \in Apps, NEW d \in Devices
  PROVE  Holds(a, d)'
<1> DEFINE m == Head(toSrv[c])
<1>1. toSrv[c] # <<>> /\ Handle(c, m) /\ m \in Message /\ m \in Waiting(c)
  BY ReadFields DEF SrvRead
<1>2. ASSUME UNCHANGED <<reg, cs, app>> PROVE Holds(a, d)'
  BY <1>2, UnmovedHolds DEF Unmoved, Attached, Has
<1>3. CASE DeviceReport(c, m)
  <2>1. /\ reg' = [reg EXCEPT ![m.dev] =
             IF Has(m.dev) THEN Refresh(@, c)
             ELSE [dbev |-> c, abev |-> None, list |-> 0]]
        /\ UNCHANGED <<cs, app>> /\ m.dev \in Devices
    BY <1>1, <1>3, MessageFields DEF DeviceReport
  <2> HIDE DEF m
  <2>2. reg'[d].abev = None \/ (Has(d) /\ reg'[d].abev = reg[d].abev
                                       /\ reg'[d].list = reg[d].list) \/ ~Has(d)'
    <3>1. CASE Has(d)
      BY <2>1, <3>1 DEF IInv, TypeOK, Has, Refresh, Entry
    <3>2. CASE ~Has(d)
      BY <2>1, <3>2 DEF IInv, TypeOK, Has
    <3> QED
      BY <3>1, <3>2
  <2> QED
    BY <2>1, <2>2, UnmovedHolds, GoneHolds DEF Unmoved, Attached
<1>4. CASE Register(c, m)
  <2> DEFINE r == [t |-> "reply_register"]
  <2>1. app' = AppGets(c, r) /\ UNCHANGED <<reg, cs>>
    BY <1>4 DEF Register, Answer
  <2>2. r.t = "reply_register"
    OBVIOUS
  <2> HIDE DEF r
  <2> QED
    BY <2>1, <2>2, AnswerHolds
<1>5. CASE Login(c, m)
  <2>1. m.user \in Users /\ db[m.user] \in {"absent", "unbound"} \cup Devices
    BY <1>1, <1>5, MessageFields DEF Login, IInv, TypeOK
  <2>2. LoginResult(m) = "success" => db[m.user] \in Devices
    BY <2>1 DEF LoginResult
  <2>3. PICK res \in {LoginResult(m), "refused"} :
          Answer(c, [t |-> "reply_login", res |-> res, dev |-> db[m.user]])
    BY <1>5 DEF Login
  <2> QED
    BY <2>2, <2>3, AnswerHolds DEF Answer
<1>6. CASE BindDevice(c, m)
  <2>1. m.dev \in Devices
    BY <1>1, <1>6, MessageFields DEF BindDevice
  <2>2. PICK res \in {"success", "refused"} :
          Answer(c, [t |-> "reply_bind", res |-> res, dev |-> m.dev])
    BY <1>6 DEF BindDevice
  <2> QED
    BY <2>1, <2>2, AnswerHolds DEF Answer
<1>7. CASE AppOption(c, m)
  <2>1. UNCHANGED <<reg, cs>>
    BY <1>7 DEF AppOption
  <2>2. ASSUME NEW e \in Devices, Attached(e, c),
               app' = AppGets(c, [t |-> "upload", dev |-> e, ver |-> reg[e].list])
        PROVE  Holds(a, d)'
    <3>1. reg[e].list \in Versions
      BY <2>2 DEF Attached, Has, IInv, TypeOK, Entry
    <3> QED
      BY <2>1, <2>2, <3>1, AnswerHolds
  <2> QED
    BY <1>2, <1>7, <2>1, <2>2 DEF AppOption, Forward
<1> QED
  BY <1>1, <1>2, <1>3, <1>4, <1>5, <1>6, <1>7, UploadListHolds, AppReportedHolds
     DEF Handle, ReplyHandle

LEMMA FreeHolds ==
  ASSUME IInv, Coherent, NEW S, BevFree(S),
         \A e \in Devices : reg'[e] # None =>
           /\ Has(e) /\ reg'[e].list = reg[e].list
           /\ reg'[e].abev = None \/ reg'[e].abev = reg[e].abev,
         NEW a \in Apps, NEW d \in Devices
  PROVE  Holds(a, d)'
<1>1. /\ cs' = [c \in Conns |-> IF c \in S THEN "closed" ELSE cs[c]]
      /\ app'[a] = IF app[a].conn # None /\ app[a].conn \in S
                   THEN Disconnected(app[a]) ELSE app[a]
  BY DEF BevFree
<1>2. app'[a].conn = None \/ app'[a] = app[a]
  BY <1>1, DisconnectedFields DEF IInv, TypeOK
<1>3. app[a].conn \in Conns \cup {None}
  BY DEF IInv, TypeOK, AppState
<1>4. CASE app'[a].conn # None /\ app'[a] = app[a]
  <2>1. Unmoved(a, d)
    BY <1>1, <1>3, <1>4 DEF Unmoved, Attached, Has
  <2> QED
    BY <2>1, UnmovedHolds
<1>5. CASE app'[a].conn = None
  BY <1>5 DEF Holds, Open
<1> QED
  BY <1>2, <1>4, <1>5

LEMMA DetachHolds ==
  ASSUME IInv, NEW d \in Devices, Has(d)
  PROVE  Detach(reg[d]).list = reg[d].list /\ Detach(reg[d]).abev = None
BY DEF IInv, TypeOK, Has, Entry, Detach

LEMMA SrvEndHolds ==
  ASSUME IInv, Coherent, NEW a \in Apps, NEW d \in Devices,
         \/ \E c \in Conns : ReplyToNull(c)
         \/ \E c \in Conns, e \in Devices : AppEnd(c, e) \/ DevEnd(c, e)
         \/ \E e \in Devices : TimerCb({e}, {}) \/ TimerCb({}, {e})
  PROVE  Holds(a, d)'
<1>1. \E S : BevFree(S)
  BY DEF ReplyToNull, AppEnd, DevEnd, TimerCb
<1>2. ASSUME NEW e \in Devices, reg'[e] # None
      PROVE  /\ Has(e) /\ reg'[e].list = reg[e].list
             /\ reg'[e].abev = None \/ reg'[e].abev = reg[e].abev
  <2>0. reg \in [Devices -> Entry \cup {None}]
    BY DEF IInv, TypeOK
  <2>1. CASE \E c \in Conns : ReplyToNull(c)
    BY <1>2, <2>1 DEF ReplyToNull
  <2>2. CASE \E c \in Conns, x \in Devices : AppEnd(c, x)
    BY <1>2, <2>0, <2>2, DetachHolds DEF AppEnd, Attached, Has
  <2>3. CASE \E c \in Conns, x \in Devices : DevEnd(c, x)
    BY <1>2, <2>0, <2>3 DEF DevEnd, Has
  <2>4. CASE \E x \in Devices : TimerCb({x}, {})
    BY <1>2, <2>0, <2>4, DetachHolds DEF TimerCb, Has
  <2>5. CASE \E x \in Devices : TimerCb({}, {x})
    BY <1>2, <2>0, <2>5 DEF TimerCb, Has
  <2> QED
    BY <2>1, <2>2, <2>3, <2>4, <2>5
<1> QED
  BY <1>1, <1>2, FreeHolds

LEMMA DevHolds ==
  ASSUME IInv, Coherent, NEW a \in Apps, NEW d \in Devices,
         NEW e \in Devices, DevStep(e)
  PROVE  Holds(a, d)'
<1>1. UNCHANGED <<reg, app>>
  BY DEF DevStep, DevConnect, DevReport, DevUpload, DevClose, ClientSends
<1>2. \A c \in Of(a) : cs'[c] = "open" => cs[c] = "open"
  <2>1. CASE DevConnect(e)
    <3>1. PICK b \in Of(e) : cs' = [cs EXCEPT ![b] = "open"]
      BY <2>1 DEF DevConnect
    <3>2. \A c \in Of(a) : c # b /\ c \in Conns
      BY OfConns, RelayAssumption
    <3> QED
      BY <3>1, <3>2 DEF IInv, TypeOK
  <2>2. CASE DevReport(e) \/ DevUpload(e)
    BY <2>2 DEF DevReport, DevUpload, ClientSends
  <2>3. CASE DevClose(e)
    BY <2>3, OfConns DEF DevClose, Fin, IInv, TypeOK
  <2> QED
    BY <2>1, <2>2, <2>3 DEF DevStep
<1>3. CASE app[a].conn = None
  BY <1>1, <1>3, GoneHolds
<1>4. CASE app[a].conn # None
  BY <1>1, <1>2, <1>4, UnmovedHolds DEF Unmoved, Attached, Has, IInv, Owners
<1> QED
  BY <1>3, <1>4

LEMMA AppHolds ==
  ASSUME IInv, Coherent, NEW a \in Apps, NEW d \in Devices,
         NEW b \in Apps, AppStep(b)
  PROVE  Holds(a, d)'
<1>1. UNCHANGED reg /\ app \in [Apps -> AppState]
  BY DEF AppStep, AppConnect, AppReport, AppQuit, AppLost, AppEnds, AppCommand,
         AppLogin, AppBind, ClientSends, IInv, TypeOK
<1>2. CASE AppConnect(b)
  <2>1. PICK c \in Of(b) :
          /\ Usable(c) /\ cs' = [cs EXCEPT ![c] = "open"]
          /\ app' = [app EXCEPT ![b] = [app[b] EXCEPT !.conn = c]]
    BY <1>2 DEF AppConnect, Set
  <2>2. c \in Conns /\ c[1] = b /\ Reports(c) = {}
    BY <2>1, OfConns, UsableSilent
  <2>3. CASE a = b
    <3>1. app[b] \in AppState
      BY <1>1
    <3>2. [app[b] EXCEPT !.conn = c].conn = c
      BY <3>1 DEF AppState
    <3>3. app'[a].conn = c
      BY <1>1, <2>1, <2>3, <3>2
    <3> QED
      BY <1>1, <2>2, <3>3 DEF Holds, Reports, Attached, Has
  <2>4. CASE a # b /\ app[a].conn # None
    <3>1. app[a].conn \in Conns /\ app[a].conn # c /\ app'[a] = app[a]
      BY <1>1, <2>1, <2>2, <2>4, OfConns DEF IInv, Owners
    <3> QED
      BY <1>1, <2>1, <3>1, UnmovedHolds DEF Unmoved, Attached, Has, IInv, TypeOK
  <2>5. CASE a # b /\ app[a].conn = None
    BY <1>1, <2>1, <2>5, GoneHolds
  <2> QED
    BY <2>3, <2>4, <2>5
<1>3. CASE AppQuit(b) \/ AppLost(b)
  <2>0. PICK s \in AppState : s.conn = None /\ AppEnds(b, s)
    BY <1>1, <1>3, AppLeft
  <2>1. /\ cs' = [cs EXCEPT ![app[b].conn] = "fin"]
        /\ app' = [app EXCEPT ![b] = s] /\ s.conn = None
    BY <2>0 DEF AppEnds, Fin, Set
  <2>2. CASE a = b
    BY <1>1, <2>1, <2>2 DEF Holds, Open
  <2>3. CASE a # b /\ app[a].conn \in Conns
    BY <1>1, <2>1, <2>3, UnmovedHolds DEF Unmoved, Attached, Has, IInv, TypeOK
  <2>4. CASE a # b /\ app[a].conn = None
    BY <1>1, <2>1, <2>4, GoneHolds
  <2> QED
    BY <1>1, <2>2, <2>3, <2>4 DEF AppState
<1>4. ASSUME NEW s \in AppState, s.conn = app[b].conn, s.shown = app[b].shown,
             app' = [app EXCEPT ![b] = s], UNCHANGED cs
      PROVE  Holds(a, d)'
  BY <1>1, <1>4, UnmovedHolds DEF Unmoved, Attached, Has
<1>5. CASE AppReport(b) \/ \E t \in {"cmd", "getlist"} : AppCommand(b, t)
  BY <1>1, <1>5, UnmovedHolds
     DEF AppReport, AppCommand, ClientSends, Unmoved, Attached, Has
<1>6. ASSUME NEW u \in Users, NEW t \in {"login", "register"}, AppLogin(b, u, t)
      PROVE  Holds(a, d)'
  <2> DEFINE s == [app[b] EXCEPT !.wait = TRUE, !.user = u]
  <2>1. app[b] \in AppState /\ app' = [app EXCEPT ![b] = s] /\ UNCHANGED cs
    BY <1>1, <1>6 DEF AppLogin, Set, ClientSends
  <2>2. s \in AppState /\ s.conn = app[b].conn /\ s.shown = app[b].shown
    BY <2>1 DEF AppState
  <2> HIDE DEF s
  <2> QED
    BY <1>4, <2>1, <2>2
<1>7. ASSUME NEW e \in Devices, AppBind(b, e) PROVE Holds(a, d)'
  <2> DEFINE s == [app[b] EXCEPT !.wait = TRUE]
  <2>1. app[b] \in AppState /\ app' = [app EXCEPT ![b] = s] /\ UNCHANGED cs
    BY <1>1, <1>7 DEF AppBind, Set, ClientSends
  <2>2. s \in AppState /\ s.conn = app[b].conn /\ s.shown = app[b].shown
    BY <2>1 DEF AppState
  <2> HIDE DEF s
  <2> QED
    BY <1>4, <2>1, <2>2
<1> QED
  BY <1>2, <1>3, <1>5, <1>6, <1>7 DEF AppStep

\* An attached app shows the list the server holds: the forwarding of uploads and
\* sync_cached_snapshots_to_app leave no way to attach behind a list that was
\* not sent.
THEOREM AttachedAppsAreCoherent == Spec => []Coherent
<1>1. Init => Coherent
  BY DEF Init, Coherent, Open, Attached, Has, FreshApp
<1>2. IInv /\ Coherent /\ [Next]_vars => Coherent'
  <2> SUFFICES ASSUME IInv, Coherent, [Next]_vars, NEW a \in Apps, NEW d \in Devices
               PROVE  Holds(a, d)'
    BY DEF Coherent, Holds
  <2>1. CASE UNCHANGED <<reg, cs, app>>
    BY <2>1, UnmovedHolds DEF Unmoved, Attached, Has
  <2>2. CASE SrvStep
    BY <2>1, <2>2, SrvReadHolds, SrvEndHolds DEF SrvStep, ReadCb, Restart
  <2> QED
    BY <2>1, <2>2, DevHolds, AppHolds DEF Next, vars
<1> QED
  BY <1>1, <1>2, RelayInvariant, PTL DEF Spec

=============================================================================
