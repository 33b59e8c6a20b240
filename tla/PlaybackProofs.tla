--------------------------- MODULE PlaybackProofs ---------------------------
(* Proofs about Playback, for any pids, catalogue, commands and timing.     *)
EXTENDS Playback, TLAPS

-----------------------------------------------------------------------------
(* The list: its operators stay inside the catalogue.                        *)

LEMMA PageBounds ==
  ASSUME NEW p \in 1 .. Pages
  PROVE  /\ First(p) \in 0 .. Total - 1
         /\ Last(p) \in First(p) .. Total - 1
         /\ Last(p) \in Int /\ First(p) \in Int
<1>1. Pages \in Nat /\ PageSize \in Nat \ {0}
  BY PlaybackAssumption
<1>2. (p - 1) * PageSize >= 0 /\ (Pages - p) * PageSize >= 0
  BY <1>1
<1>3. /\ (Pages - p) * PageSize = Pages * PageSize - p * PageSize
      /\ (p - 1) * PageSize = p * PageSize - PageSize
  BY <1>1
<1> DEFINE a == p * PageSize
           b == Pages * PageSize
<1>4. a \in Int /\ b \in Int /\ PageSize \in Int
  BY <1>1
<1>5. a - PageSize >= 0 /\ b - a >= 0 /\ PageSize > 0
  BY <1>1, <1>2, <1>3
<1>6. First(p) = a - PageSize /\ Last(p) = a - 1 /\ Total = b
  BY <1>3 DEF First, Last, Total
<1> HIDE DEF a, b
<1> QED
  BY <1>4, <1>5, <1>6

LEMMA TotalType == Total \in Nat \ {0} /\ NoTrack \in SongIds
<1>1. 1 \in 1 .. Pages
  BY PlaybackAssumption
<1>2. First(1) \in 0 .. Total - 1
  BY <1>1, PageBounds
<1>3. Total \in Int
  BY PlaybackAssumption DEF Total
<1> QED
  BY <1>2, <1>3 DEF NoTrack, SongIds

LEMMA LinkNextType ==
  ASSUME NEW p \in 1 .. Pages, NEW t \in SongIds, NEW mode \in Modes,
         NEW force \in BOOLEAN
  PROVE  /\ LinkNext(p, t, mode, force).ret \in {-1, 0, 1}
         /\ LinkNext(p, t, mode, force).track \in SongIds
<1>1. /\ First(p) \in 0 .. Total - 1 /\ Last(p) \in First(p) .. Total - 1
      /\ Last(p) \in Int /\ First(p) \in Int
  BY PageBounds
<1>2. Total \in Nat /\ t \in Int
  BY TotalType DEF SongIds
<1> DEFINE target == IF OnPage(p, t) THEN t ELSE First(p)
<1>3. target \in First(p) .. Last(p)
  BY <1>1, <1>2 DEF OnPage
<1>4. target # Last(p) => target + 1 \in SongIds
  BY <1>1, <1>2, <1>3 DEF SongIds
<1>5. target \in SongIds /\ NoTrack \in SongIds
  BY <1>1, <1>2, <1>3, TotalType DEF SongIds
<1> QED
  BY <1>4, <1>5 DEF LinkNext

LEMMA NextGlobalType == \A t \in SongIds : NextGlobal(t) \in SongIds
BY TotalType DEF NextGlobal, SongIds

LEMMA NextPageType == \A p \in 1 .. Pages : NextPage(p) \in 1 .. Pages
BY PlaybackAssumption DEF NextPage

LEMMA FirstType == \A p \in 1 .. Pages : First(p) \in SongIds
<1> TAKE p \in 1 .. Pages
<1> QED
  BY PageBounds, TotalType DEF SongIds

LEMMA OnPageType ==
  ASSUME NEW p \in 1 .. Pages, NEW t, OnPage(p, t)
  PROVE  t \in SongIds
BY PageBounds, TotalType DEF OnPage, SongIds

-----------------------------------------------------------------------------
(* The records of the processes.                                             *)

LEMMA RecordTypes ==
  /\ NoCopy \in Shm
  /\ Idle \in ParRecs
  /\ NoKid \in KidRecs
  /\ NoGrand \in GrandRecs
<1>1. NoCopy \in Shm
  BY TotalType DEF NoCopy, Shm, Modes, KidPids, GrandPids
<1>2. 1 \in 1 .. Pages /\ NoTrack \in SongIds
  BY PlaybackAssumption, TotalType
<1> QED
  BY <1>1, <1>2
     DEF Idle, ParRecs, NoKid, KidRecs, NoGrand, GrandRecs, KidPids, GrandPids

LEMMA EndedType ==
  ASSUME NEW gr \in [Grands -> GrandRecs], NEW g \in Grands
  PROVE  Ended(gr, g) \in [Grands -> GrandRecs]
<1>1. [NoGrand EXCEPT !.pc = "zombie", !.kid = gr[g].kid] \in GrandRecs
  BY RecordTypes DEF GrandRecs
<1> QED
  BY <1>1, RecordTypes DEF Ended

LEMMA ProcessTypes ==
  ASSUME TypeOK
  PROVE  /\ \A pid \in GrandPids : EndIfAlive(pid) \in [Grands -> GrandRecs]
         /\ \A c \in Kids : Orphaned(c) \in [Grands -> GrandRecs]
         /\ \A pid \in GrandPids : Resumed(pid) \in [Grands -> GrandRecs]
         /\ \A pid \in KidPids : Stopped(pid) \in [Kids -> KidRecs]
         /\ \A gr, w : Kept(fifo, w, gr) \in Seq({"quit", "cycle"})
<1>1. \A pid \in GrandPids : EndIfAlive(pid) \in [Grands -> GrandRecs]
  BY EndedType DEF EndIfAlive, TypeOK
<1>2. \A c \in Kids : Orphaned(c) \in [Grands -> GrandRecs]
  <2> TAKE c \in Kids
  <2>1. \A g \in Grands : [grand[g] EXCEPT !.kid = Nobody] \in GrandRecs
    BY DEF TypeOK, GrandRecs, KidPids
  <2> QED
    BY <2>1, RecordTypes DEF Orphaned, TypeOK
<1>3. \A pid \in GrandPids : Resumed(pid) \in [Grands -> GrandRecs]
  <2>1. \A g \in Grands : [grand[g] EXCEPT !.stopped = FALSE] \in GrandRecs
    BY DEF TypeOK, GrandRecs
  <2> QED
    BY <2>1 DEF Resumed, TypeOK
<1>4. \A pid \in KidPids : Stopped(pid) \in [Kids -> KidRecs]
  <2>1. \A c \in Kids : [kid[c] EXCEPT !.stop = TRUE] \in KidRecs
    BY DEF TypeOK, KidRecs
  <2> QED
    BY <2>1 DEF Stopped, TypeOK
<1>5. \A gr, w : Kept(fifo, w, gr) \in Seq({"quit", "cycle"})
  BY DEF Kept, TypeOK
<1> QED
  BY <1>1, <1>2, <1>3, <1>4, <1>5

-----------------------------------------------------------------------------
(* The rounds of force_stop_playback_processes are counted only inside it,   *)
(* and a round that has begun is one of the first three; a stop makes none.   *)

InRound  == {"quit", "kill", "wait_child", "force_grand"}
RetryInv == /\ par.pc \notin InRound \cup {"force"} => par.retry = 0
            /\ par.pc \in InRound => par.retry < 3
            /\ par.cmd = "stop" => /\ par.retry = 0
                                   /\ par.pc \notin {"force", "force_grand"}

IInv == TypeOK /\ RetryInv

LEMMA InitInv == Init => IInv
<1> SUFFICES ASSUME Init PROVE IInv
    OBVIOUS
<1>1. 1 \in 1 .. Pages /\ <<>> \in Seq({"quit", "cycle"})
  BY PlaybackAssumption
<1>2. /\ par \in ParRecs /\ shm \in Shm
      /\ kid \in [Kids -> KidRecs] /\ grand \in [Grands -> GrandRecs]
  BY RecordTypes DEF Init
<1>3. TypeOK
  BY <1>1, <1>2 DEF Init, TypeOK
<1> QED
  BY <1>3 DEF Init, RetryInv, IInv, InRound, Idle

LEMMA ShmFields ==
  \A s \in Shm : /\ s.song \in SongIds /\ s.mode \in Modes
                 /\ s.child \in KidPids /\ s.grand \in GrandPids
BY DEF Shm

\* Writing some fields of a copy of shm.
LEMMA ShmUpdate ==
  /\ \A c \in Kids : [NoCopy EXCEPT !.child = c] \in Shm
  /\ \A s \in Shm :
     /\ [s EXCEPT !.child = Nobody, !.grand = Nobody] \in Shm
     /\ \A c \in KidPids : [s EXCEPT !.child = c, !.grand = Nobody] \in Shm
     /\ \A t \in SongIds : [s EXCEPT !.song = t] \in Shm
     /\ \A m \in Modes : [s EXCEPT !.mode = m] \in Shm
     /\ \A c \in KidPids, g \in Grands, t \in SongIds :
          [s EXCEPT !.child = c, !.grand = g, !.song = t] \in Shm
<1>1. \A c \in Kids : [NoCopy EXCEPT !.child = c] \in Shm
  BY RecordTypes DEF Shm, KidPids
<1> QED
  BY <1>1 DEF Shm, KidPids, GrandPids

LEMMA ReapChildren_Inv ==
  ASSUME IInv, ReapChildren
  PROVE  IInv'
<1>1. par' \in ParRecs
  BY DEF ReapChildren, At, GoTo, IInv, TypeOK, ParRecs
<1>2. RetryInv'
  BY DEF ReapChildren, At, GoTo, IInv, TypeOK, RetryInv, InRound, ParRecs
<1>3. kid' \in [Kids -> KidRecs]
  BY RecordTypes DEF ReapChildren, At, GoTo, IInv, TypeOK
<1> QED
  BY <1>1, <1>2, <1>3
     DEF ReapChildren, At, GoTo, IInv, TypeOK, flags, events, pipes

LEMMA ClearChildFlag_Inv ==
  ASSUME IInv, ClearChildFlag
  PROVE  IInv'
<1>1. par' \in ParRecs
  BY DEF ClearChildFlag, At, GoTo, IInv, TypeOK, ParRecs
<1>2. RetryInv'
  BY DEF ClearChildFlag, At, GoTo, IInv, TypeOK, RetryInv, InRound, ParRecs
<1> QED
  BY <1>1, <1>2
     DEF ClearChildFlag, At, GoTo, IInv, TypeOK, flags, events, pipes

LEMMA EofDropped_Inv ==
  ASSUME IInv, EofDropped
  PROVE  IInv'
<1>1. par' \in ParRecs
  BY RecordTypes DEF EofDropped, At, Return, IInv, TypeOK, ParRecs, Idle
<1>2. RetryInv'
  BY DEF EofDropped, At, Return, IInv, TypeOK, RetryInv, InRound, ParRecs, Idle
<1> QED
  BY <1>1, <1>2 DEF EofDropped, At, Return, IInv, TypeOK, flags, events, pipes

LEMMA EofTurnPage_Inv ==
  ASSUME IInv, EofTurnPage
  PROVE  IInv'
<1>a. par \in ParRecs /\ par.pc = "events"
  BY DEF EofTurnPage, At, IInv, TypeOK
<1>b. par' \in {[par EXCEPT !.pc = "start"], [par EXCEPT !.pc = "wrap"]}
  BY Zenon DEF EofTurnPage, GoTo
<1>1. par' \in ParRecs
  BY <1>a, <1>b DEF ParRecs
<1>2. RetryInv'
  BY <1>a, <1>b DEF IInv, RetryInv, InRound, ParRecs
<1>3. page' \in 1 .. Pages
  BY NextPageType DEF EofTurnPage, At, GoTo, IInv, TypeOK
<1> QED
  BY <1>1, <1>2, <1>3
     DEF EofTurnPage, At, GoTo, IInv, TypeOK, flags, events, pipes

LEMMA WrapSet_Inv ==
  ASSUME IInv, WrapSet
  PROVE  IInv'
<1>1. par' \in ParRecs
  BY RecordTypes DEF WrapSet, At, IInv, TypeOK, ParRecs, Idle
<1>2. RetryInv'
  BY DEF WrapSet, At, IInv, TypeOK, RetryInv, InRound, ParRecs, Idle
<1>3. shm' \in Shm
  BY DEF WrapSet, At, IInv, TypeOK, ParRecs
<1> QED
  BY <1>1, <1>2, <1>3 DEF WrapSet, At, IInv, TypeOK, flags, events, pipes

LEMMA CmdStart_Inv ==
  ASSUME IInv, CmdStart
  PROVE  IInv'
<1>1. par' \in ParRecs
  BY DEF CmdStart, At, GoTo, Given, IInv, TypeOK, ParRecs
<1>2. RetryInv'
  BY DEF CmdStart, At, GoTo, Given, IInv, TypeOK, RetryInv, InRound, ParRecs
<1> QED
  BY <1>1, <1>2
     DEF CmdStart, At, GoTo, Given, IInv, TypeOK, flags, events, pipes

LEMMA StartSet_Inv ==
  ASSUME IInv, StartSet
  PROVE  IInv'
<1>1. par' \in ParRecs
  BY RecordTypes DEF StartSet, At, IInv, TypeOK, ParRecs
<1>2. RetryInv'
  BY DEF StartSet, At, IInv, TypeOK, RetryInv, InRound, ParRecs
<1>3. shm' \in Shm
  BY DEF StartSet, At, IInv, TypeOK, ParRecs
<1> QED
  BY <1>1, <1>2, <1>3 DEF StartSet, At, IInv, TypeOK, flags, events, pipes

LEMMA ClearSet_Inv ==
  ASSUME IInv, ClearSet
  PROVE  IInv'
<1>1. par' \in ParRecs
  BY RecordTypes DEF ClearSet, At, IInv, TypeOK, ParRecs
<1>2. RetryInv'
  BY DEF ClearSet, At, IInv, TypeOK, RetryInv, InRound, ParRecs
<1>3. shm' \in Shm
  BY DEF ClearSet, At, IInv, TypeOK, ParRecs
<1> QED
  BY <1>1, <1>2, <1>3 DEF ClearSet, At, IInv, TypeOK, flags, events, pipes

LEMMA PidGet_Inv ==
  ASSUME IInv, PidGet
  PROVE  IInv'
<1>1. par' \in ParRecs
  BY ShmUpdate, ShmFields DEF PidGet, At, IInv, TypeOK, ParRecs
<1>2. RetryInv'
  BY DEF PidGet, At, IInv, TypeOK, RetryInv, InRound, ParRecs
<1> QED
  BY <1>1, <1>2 DEF PidGet, At, IInv, TypeOK, flags, events, pipes

LEMMA PidSet_Inv ==
  ASSUME IInv, PidSet
  PROVE  IInv'
<1>1. par' \in ParRecs
  BY RecordTypes DEF PidSet, At, Return, IInv, TypeOK, ParRecs, Idle
<1>2. RetryInv'
  BY DEF PidSet, At, Return, IInv, TypeOK, RetryInv, InRound, ParRecs, Idle
<1>3. shm' \in Shm
  BY DEF PidSet, At, Return, IInv, TypeOK, ParRecs
<1> QED
  BY <1>1, <1>2, <1>3
     DEF PidSet, At, Return, IInv, TypeOK, flags, events, pipes

LEMMA StopPlay_Inv ==
  ASSUME IInv, StopPlay
  PROVE  IInv'
<1>1. par' \in ParRecs
  BY DEF StopPlay, At, Given, IInv, TypeOK, ParRecs
<1>2. RetryInv'
  BY DEF StopPlay, At, Given, IInv, TypeOK, RetryInv, InRound, ParRecs
<1>3. kid' \in [Kids -> KidRecs]
  BY ProcessTypes, ShmFields DEF StopPlay, At, Given, IInv, TypeOK
<1> QED
  BY <1>1, <1>2, <1>3
     DEF StopPlay, At, Given, IInv, TypeOK, flags, events, pipes

LEMMA StopLast_Inv ==
  ASSUME IInv, StopLast
  PROVE  IInv'
<1>1. par' \in ParRecs
  BY ShmUpdate DEF StopLast, At, IInv, TypeOK, ParRecs
<1>2. RetryInv'
  BY DEF StopLast, At, IInv, TypeOK, RetryInv, InRound, ParRecs
<1>3. grand' \in [Grands -> GrandRecs]
  BY ProcessTypes, ShmFields DEF StopLast, At, IInv, TypeOK
<1>4. fifo' \in Seq({"quit", "cycle"})
  BY ProcessTypes DEF StopLast, At, IInv, TypeOK
<1> QED
  BY <1>1, <1>2, <1>3, <1>4
     DEF StopLast, At, IInv, TypeOK, flags, events, pipes

LEMMA StopClear_Inv ==
  ASSUME IInv, StopClear
  PROVE  IInv'
<1>1. par' \in ParRecs
  BY RecordTypes DEF StopClear, At, Return, IInv, TypeOK, ParRecs, Idle
<1>2. RetryInv'
  BY DEF StopClear, At, Return, IInv, TypeOK, RetryInv, InRound, ParRecs, Idle
<1>3. shm' \in Shm
  BY DEF StopClear, At, Return, IInv, TypeOK, ParRecs
<1>4. fifo' \in Seq({"quit", "cycle"})
  BY ProcessTypes DEF StopClear, At, Return, IInv, TypeOK
<1> QED
  BY <1>1, <1>2, <1>3, <1>4
     DEF StopClear, At, Return, IInv, TypeOK, flags, events, pipes

LEMMA CmdContinue_Inv ==
  ASSUME IInv, CmdContinue
  PROVE  IInv'
<1>1. par' \in ParRecs
  BY DEF CmdContinue, At, GoTo, Given, IInv, TypeOK, ParRecs
<1>2. RetryInv'
  BY DEF CmdContinue, At, GoTo, Given, IInv, TypeOK, RetryInv, InRound, ParRecs
<1> QED
  BY <1>1, <1>2
     DEF CmdContinue, At, GoTo, Given, IInv, TypeOK, flags, events, pipes

LEMMA SetModeSet_Inv ==
  ASSUME IInv, SetModeSet
  PROVE  IInv'
<1>1. par' \in ParRecs
  BY RecordTypes DEF SetModeSet, At, Return, IInv, TypeOK, ParRecs, Idle
<1>2. RetryInv'
  BY DEF SetModeSet, At, Return, IInv, TypeOK, RetryInv, InRound, ParRecs, Idle
<1>3. shm' \in Shm
  BY DEF SetModeSet, At, Return, IInv, TypeOK, ParRecs
<1> QED
  BY <1>1, <1>2, <1>3
     DEF SetModeSet, At, Return, IInv, TypeOK, flags, events, pipes

LEMMA NextSet_Inv ==
  ASSUME IInv, NextSet
  PROVE  IInv'
<1>1. par' \in ParRecs
  BY RecordTypes DEF NextSet, At, IInv, TypeOK, ParRecs, Idle
<1>2. RetryInv'
  BY DEF NextSet, At, IInv, TypeOK, RetryInv, InRound, ParRecs, Idle
<1>3. shm' \in Shm
  BY ShmUpdate DEF NextSet, At, IInv, TypeOK, ParRecs
<1> QED
  BY <1>1, <1>2, <1>3 DEF NextSet, At, IInv, TypeOK, flags, events, pipes

\* A child becomes another record of its type.
LEMMA KidStepType ==
  ASSUME TypeOK, NEW c \in Kids, NEW k \in KidRecs,
         kid' = [kid EXCEPT ![c] = k]
  PROVE  kid' \in [Kids -> KidRecs]
BY DEF TypeOK

LEMMA KidGoToType ==
  ASSUME TypeOK, NEW c \in Kids, NEW pc \in {"wait", "after"}, KidGoTo(c, pc)
  PROVE  kid' \in [Kids -> KidRecs]
<1> DEFINE k == [kid[c] EXCEPT !.pc = pc]
<1>1. kid[c] \in KidRecs
  BY DEF TypeOK
<1>2. k \in KidRecs
  BY <1>1 DEF KidRecs
<1>3. kid' = [kid EXCEPT ![c] = k]
  BY DEF KidGoTo, TypeOK
<1> QED
  BY <1>2, <1>3, KidStepType

LEMMA KidReap_Inv ==
  ASSUME NEW c \in Kids, IInv, KidReap(c)
  PROVE  IInv'
<1>1. kid' \in [Kids -> KidRecs]
  BY KidGoToType DEF KidReap, IInv
<1>2. grand' \in [Grands -> GrandRecs]
  BY RecordTypes DEF KidReap, KidAt, KidGoTo, IInv, TypeOK
<1> QED
  BY <1>1, <1>2
     DEF KidReap, KidAt, KidGoTo, IInv, TypeOK, RetryInv, flags, events, pipes

LEMMA KidGet_Inv ==
  ASSUME NEW c \in Kids, IInv, KidGet(c)
  PROVE  IInv'
<1> DEFINE k == [kid[c] EXCEPT !.pc = "sync", !.s = shm]
<1>a. kid \in [Kids -> KidRecs] /\ shm \in Shm
  BY DEF IInv, TypeOK
<1>b. k \in KidRecs
  BY <1>a DEF KidRecs
<1>c. kid' = [kid EXCEPT ![c] = k]
  BY <1>a DEF KidGet, KidRecs
<1>1. kid' \in [Kids -> KidRecs]
  BY <1>b, <1>c, KidStepType DEF IInv
<1> QED
  BY <1>1 DEF KidGet, KidAt, IInv, TypeOK, RetryInv, flags, events, pipes

LEMMA KidSet_Inv ==
  ASSUME NEW c \in Kids, IInv, KidSet(c)
  PROVE  IInv'
<1> DEFINE k == [kid[c] EXCEPT !.pc = "top", !.s = NoCopy]
<1>a. kid[c] \in KidRecs
  BY DEF IInv, TypeOK
<1>b. k \in KidRecs
  BY <1>a, RecordTypes DEF KidRecs
<1>c. kid' = [kid EXCEPT ![c] = k]
  BY DEF KidSet, IInv, TypeOK
<1>1. kid' \in [Kids -> KidRecs]
  BY <1>b, <1>c, KidStepType DEF IInv
<1>d. kid[c].s \in Shm /\ kid[c].song \in SongIds
  BY <1>a DEF KidRecs
<1>2. shm' \in Shm
  BY <1>d, ShmUpdate DEF KidSet
<1> QED
  BY <1>1, <1>2 DEF KidSet, KidAt, IInv, TypeOK, RetryInv, flags, events, pipes

LEMMA KidEof_Inv ==
  ASSUME NEW c \in Kids, IInv, KidEof(c)
  PROVE  IInv'
<1> DEFINE k == [kid[c] EXCEPT !.pc = "eof_sent", !.s = NoCopy]
<1>a. kid[c] \in KidRecs
  BY DEF IInv, TypeOK
<1>b. k \in KidRecs
  BY <1>a, RecordTypes DEF KidRecs
<1>c. kid' = [kid EXCEPT ![c] = k]
  BY DEF KidEof, IInv, TypeOK
<1>1. kid' \in [Kids -> KidRecs]
  BY <1>b, <1>c, KidStepType DEF IInv
<1>2. \/ UNCHANGED <<state, susp, focus, eof>>
      \/ state' = "STOP" /\ susp' = "YES" /\ focus' = "IDLE" /\ eof' = TRUE
  BY DEF KidEof, flags
<1>3. UNCHANGED <<par, chld, suppressed, page, wopen, fifo, shm, grand>>
  BY DEF KidEof, pipes
<1>4. eof' \in BOOLEAN /\ caught' \in BOOLEAN
  <2>1. caught' = (caught \/ par.pc \in {"pause", "tts", "resume"})
    BY DEF KidEof
  <2>2. caught' \in BOOLEAN
    BY <2>1, Zenon
  <2> QED
    BY <1>2, <2>2, Zenon DEF IInv, TypeOK
<1>5. RetryInv'
  BY <1>3 DEF IInv, RetryInv
<1>6. TypeOK'
  BY <1>1, <1>2, <1>3, <1>4 DEF IInv, TypeOK
<1> QED
  BY <1>5, <1>6 DEF IInv

LEMMA GrandSet_Inv ==
  ASSUME NEW g \in Grands, IInv, GrandSet(g)
  PROVE  IInv'
<1> DEFINE r == [grand[g] EXCEPT !.pc = "open", !.s = NoCopy]
<1>a. grand[g] \in GrandRecs
  BY DEF IInv, TypeOK
<1>b. r \in GrandRecs
  BY <1>a, RecordTypes DEF GrandRecs
<1>c. grand' = [grand EXCEPT ![g] = r]
  BY DEF GrandSet, IInv, TypeOK
<1>1. grand' \in [Grands -> GrandRecs]
  BY <1>b, <1>c DEF IInv, TypeOK
<1>d. grand[g].s \in Shm /\ grand[g].song \in SongIds /\ grand[g].kid \in KidPids
  BY <1>a DEF GrandRecs
<1>2. shm' \in Shm
  BY <1>d, ShmUpdate DEF GrandSet
<1> QED
  BY <1>1, <1>2
     DEF GrandSet, GrandAt, IInv, TypeOK, RetryInv, flags, events, pipes

LEMMA GrandEos_Inv ==
  ASSUME NEW g \in Grands, IInv, GrandEos(g)
  PROVE  IInv'
<1>1. grand' \in [Grands -> GrandRecs]
  BY EndedType DEF GrandEos, IInv, TypeOK
<1>2. fifo' \in Seq({"quit", "cycle"})
  BY ProcessTypes DEF GrandEos, IInv, TypeOK
<1> QED
  BY <1>1, <1>2 DEF GrandEos, IInv, TypeOK, RetryInv, flags, events, pipes

LEMMA ForceStop_Inv ==
  ASSUME IInv, ForceStop
  PROVE  IInv'
<1>1. par' \in ParRecs /\ RetryInv'
  <2>1. CASE par' = [par EXCEPT !.pc = "quit", !.s = shm] /\ par.retry < 3
    BY <2>1 DEF IInv, TypeOK, RetryInv, InRound, ParRecs
  <2>2. CASE par' = [par EXCEPT !.pc = "clear_set", !.retry = 0,
                       !.s = [shm EXCEPT !.child = Nobody, !.grand = Nobody]]
    <3>1. [shm EXCEPT !.child = Nobody, !.grand = Nobody] \in Shm
      BY ShmUpdate DEF IInv, TypeOK
    <3>2. par \in ParRecs /\ 0 \in 0 .. 3
      BY DEF IInv, TypeOK
    <3> QED
      BY <2>2, <3>1, <3>2 DEF RetryInv, InRound, ParRecs
  <2> QED
    BY <2>1, <2>2 DEF ForceStop
<1>2. kid' \in [Kids -> KidRecs]
  BY ProcessTypes, ShmFields DEF ForceStop, IInv, TypeOK
<1> QED
  BY <1>1, <1>2 DEF ForceStop, IInv, TypeOK, flags, events, pipes

LEMMA WaitChild_Inv ==
  ASSUME IInv, WaitChild
  PROVE  IInv'
<1>1. par' \in ParRecs /\ RetryInv'
  <2>1. par.pc = "wait_child" /\ par \in ParRecs /\ par.retry < 3
    BY DEF WaitChild, At, IInv, TypeOK, RetryInv, InRound
  <2>2. CASE par.cmd = "stop"
    <3>1. par' = [par EXCEPT !.pc = "stop_last"] /\ par.retry = 0
      BY <2>2 DEF WaitChild, GoTo, IInv, RetryInv
    <3> QED
      BY <2>1, <3>1 DEF RetryInv, InRound, ParRecs
  <2>3. CASE par.cmd # "stop"
    <3>1. par' = [par EXCEPT !.pc = "force_grand"]
      BY <2>3 DEF WaitChild, GoTo
    <3>2. /\ par' \in ParRecs
          /\ par'.pc = "force_grand" /\ par'.retry = par.retry
          /\ par'.cmd # "stop"
      BY <2>1, <2>3, <3>1 DEF ParRecs
    <3> QED
      BY <2>1, <3>2 DEF RetryInv, InRound
  <2> QED
    BY <2>2, <2>3
<1>2. kid' \in [Kids -> KidRecs]
  BY RecordTypes DEF WaitChild, IInv, TypeOK
<1>3. par.s.child \in Grands => par.s.child \notin KidPids
  BY PlaybackAssumption DEF KidPids
<1>4. par.s.child \in KidPids
  BY ShmFields DEF IInv, TypeOK, ParRecs
<1>5. grand' = grand \/ (par.s.child \in Kids /\ grand' = Orphaned(par.s.child))
  BY <1>3, <1>4 DEF WaitChild, Alive
<1>6. grand' \in [Grands -> GrandRecs]
  BY <1>5, ProcessTypes DEF IInv, TypeOK
<1>7. fifo' \in Seq({"quit", "cycle"}) /\ chld' \in BOOLEAN
  BY ProcessTypes DEF WaitChild, IInv, TypeOK
<1> QED
  BY <1>1, <1>2, <1>6, <1>7 DEF WaitChild, IInv, TypeOK, flags

LEMMA Kill_Inv ==
  ASSUME IInv, Kill
  PROVE  IInv'
<1>1. par \in ParRecs /\ par.pc = "kill" /\ par.retry < 3
  BY DEF Kill, At, IInv, TypeOK, RetryInv, InRound
<1>2. par' \in ParRecs /\ RetryInv'
  <2>1. CASE par.cmd = "next"
    BY <2>1, RecordTypes DEF Kill, Return, RetryInv, InRound, Idle
  <2>2. CASE par.cmd # "next"
    <3>1. par' = [par EXCEPT !.pc = "wait_child", !.seen = Nobody]
      BY <2>2 DEF Kill
    <3>2. /\ par' \in ParRecs
          /\ par'.pc = "wait_child" /\ par'.retry = par.retry /\ par'.cmd = par.cmd
      BY <1>1, <3>1 DEF ParRecs, GrandPids
    <3> QED
      BY <1>1, <3>2 DEF RetryInv, InRound, IInv
  <2> QED
    BY <2>1, <2>2
<1>3. grand' \in [Grands -> GrandRecs]
  BY ProcessTypes DEF Kill, IInv, TypeOK, ParRecs
<1>4. fifo' \in Seq({"quit", "cycle"})
  BY ProcessTypes DEF Kill, IInv
<1> QED
  BY <1>2, <1>3, <1>4 DEF Kill, IInv, TypeOK, flags, events

LEMMA ForceGrand_Inv ==
  ASSUME IInv, ForceGrand
  PROVE  IInv'
<1>1. par' \in ParRecs /\ RetryInv'
  <2>1. par.retry \in 0 .. 3 /\ par.retry < 3
    BY DEF ForceGrand, At, IInv, TypeOK, RetryInv, InRound, ParRecs
  <2>2. par.retry + 1 \in 0 .. 3 /\ par.cmd # "stop"
    BY <2>1 DEF ForceGrand, At, IInv, RetryInv
  <2>3. par' = [par EXCEPT !.pc = "force", !.retry = par.retry + 1, !.s = NoCopy]
    BY DEF ForceGrand
  <2>4. /\ par' \in ParRecs
        /\ par'.pc = "force" /\ par'.cmd = par.cmd
    BY <2>2, <2>3, RecordTypes DEF IInv, TypeOK, ParRecs
  <2> QED
    BY <2>2, <2>4 DEF RetryInv, InRound
<1>2. par.s.grand \in GrandPids
  BY ShmFields DEF IInv, TypeOK, ParRecs
<1>3. grand' \in [Grands -> GrandRecs]
  BY <1>2, ProcessTypes DEF ForceGrand, IInv
<1>4. fifo' \in Seq({"quit", "cycle"})
  BY ProcessTypes DEF ForceGrand, IInv
<1> QED
  BY <1>1, <1>3, <1>4 DEF ForceGrand, IInv, TypeOK, flags, events

LEMMA NextApply_Inv ==
  ASSUME IInv, NextApply
  PROVE  IInv'
<1>1. par' \in ParRecs /\ RetryInv'
  <2>1. \/ par' = [par EXCEPT !.pc = "quit", !.cmd = "next"]
        \/ par' = [par EXCEPT !.pc = "start"]
    BY DEF NextApply, GoTo
  <2>2. par.retry = 0
    BY DEF NextApply, At, IInv, RetryInv, InRound
  <2>3. CASE par' = [par EXCEPT !.pc = "quit", !.cmd = "next"]
    <3>1. par \in ParRecs /\ "quit" \in InRound
      BY DEF IInv, TypeOK, InRound
    <3>2. /\ par' \in ParRecs
          /\ par'.pc = "quit" /\ par'.retry = 0 /\ par'.cmd = "next"
      BY <2>2, <2>3, <3>1 DEF ParRecs
    <3> QED
      BY <3>1, <3>2 DEF RetryInv, InRound
  <2>4. CASE par' = [par EXCEPT !.pc = "start"]
    BY <2>2, <2>4 DEF IInv, TypeOK, RetryInv, InRound, ParRecs
  <2> QED
    BY <2>1, <2>3, <2>4
<1> QED
  BY <1>1 DEF NextApply, IInv, TypeOK, flags, events, pipes

LEMMA SetModeGet_Inv ==
  ASSUME IInv, SetModeGet
  PROVE  IInv'
<1>1. par' \in ParRecs /\ RetryInv'
  <2>1. PICK m \in Modes :
          par' = [par EXCEPT !.pc = "mode_set", !.s = [shm EXCEPT !.mode = m]]
    BY DEF SetModeGet
  <2>2. [shm EXCEPT !.mode = m] \in Shm
    BY ShmUpdate DEF IInv, TypeOK
  <2> QED
    BY <2>1, <2>2
       DEF SetModeGet, Given, At, IInv, TypeOK, RetryInv, InRound, ParRecs
<1> QED
  BY <1>1 DEF SetModeGet, IInv, TypeOK, flags, events, pipes

\* A command that chose a track keeps it in its copy of shm.
LEMMA ChooseType ==
  ASSUME IInv, At("idle"), NEW t \in SongIds,
         NEW pc \in {"next_set", "next_late"}, Choose(t, pc)
  PROVE  par' \in ParRecs /\ RetryInv'
<1>1. PICK cmd \in {"next", "next_stopped"} :
        par' = [par EXCEPT !.pc = pc, !.s = [shm EXCEPT !.song = t],
                           !.cmd = cmd]
  BY DEF Choose
<1>2. [shm EXCEPT !.song = t] \in Shm
  BY ShmUpdate DEF IInv, TypeOK
<1> QED
  BY <1>1, <1>2 DEF At, IInv, TypeOK, RetryInv, InRound, ParRecs

LEMMA PickSong_Inv ==
  ASSUME IInv, PickSong
  PROVE  IInv'
<1>1. PICK t \in First(page) .. Last(page) : Choose(t, "next_set")
  BY DEF PickSong
<1>2. t \in SongIds
  BY OnPageType DEF OnPage, IInv, TypeOK
<1>3. par' \in ParRecs /\ RetryInv'
  BY <1>1, <1>2, ChooseType DEF PickSong, Given
<1> QED
  BY <1>3 DEF PickSong, IInv, TypeOK, flags, events, pipes

LEMMA NextSong_Inv ==
  ASSUME IInv, NextSong
  PROVE  IInv'
<1> DEFINE adv == LinkNext(page, shm.song, shm.mode, TRUE)
           rep == LinkNext(page, shm.song, "SINGLE", FALSE)
<1>1. /\ shm.song \in SongIds /\ shm.mode \in Modes
      /\ page \in 1 .. Pages /\ NextPage(page) \in 1 .. Pages
      /\ 1 \in 1 .. Pages
  BY ShmFields, NextPageType, PlaybackAssumption DEF IInv, TypeOK
<1>2. adv.track \in SongIds /\ rep.track \in SongIds
  BY <1>1, LinkNextType DEF Modes
<1>3. NextGlobal(shm.song) \in SongIds
  BY <1>1, NextGlobalType
<1>4. /\ First(page) \in SongIds /\ First(1) \in SongIds
      /\ First(NextPage(page)) \in SongIds
  BY <1>1, FirstType
<1>5. page' \in 1 .. Pages
  BY <1>1 DEF NextSong
<1>6. \E t \in SongIds, pc \in {"next_set", "next_late"} : Choose(t, pc)
  <2>1. CASE Choose(adv.track, "next_set")
    BY <2>1, <1>2
  <2>2. CASE page' = NextPage(page) /\ Choose(First(page'), "next_late")
    BY <2>2, <1>4
  <2>3. CASE Choose(rep.track, "next_set")
    BY <2>3, <1>2
  <2>4. CASE Choose(First(page), "next_set")
    BY <2>4, <1>4
  <2>5. CASE Choose(NextGlobal(shm.song), "next_late")
    BY <2>5, <1>3
  <2>6. CASE Choose(First(1), "next_late")
    BY <2>6, <1>4
  <2> HIDE DEF adv, rep
  <2>7. CASE shm.mode = "SINGLE"
    BY <2>1, <2>2, <2>3, <2>5, <2>6, <2>7 DEF NextSong, adv, rep
  <2>8. CASE shm.mode # "SINGLE"
    BY <2>1, <2>2, <2>4, <2>5, <2>6, <2>8 DEF NextSong, adv, rep
  <2> QED
    BY <2>7, <2>8
<1>7. par' \in ParRecs /\ RetryInv'
  BY <1>6, ChooseType DEF NextSong, Given
<1> QED
  BY <1>5, <1>7 DEF NextSong, IInv, TypeOK, flags, events, pipes

LEMMA ForkChild_Inv ==
  ASSUME IInv, ForkChild
  PROVE  IInv'
<1>1. PICK c \in Kids :
        /\ kid' = [kid EXCEPT ![c] = [NoKid EXCEPT !.pc = "top",
                     !.song = par.track, !.url = par.track, !.page = page]]
        /\ par' = [Idle EXCEPT !.pc = "pid_get", !.s = [NoCopy EXCEPT !.child = c]]
  BY DEF ForkChild
<1>2. [NoCopy EXCEPT !.child = c] \in Shm
  BY ShmUpdate
<1>3. par' \in ParRecs /\ par'.pc = "pid_get" /\ par'.retry = 0
  BY <1>1, <1>2, RecordTypes DEF Idle, ParRecs
<1>4. [NoKid EXCEPT !.pc = "top", !.song = par.track, !.url = par.track,
                    !.page = page] \in KidRecs
  BY RecordTypes DEF KidRecs, ParRecs, IInv, TypeOK
<1>5. kid' \in [Kids -> KidRecs]
  BY <1>1, <1>4 DEF IInv, TypeOK
<1> QED
  BY <1>3, <1>5 DEF ForkChild, IInv, TypeOK, RetryInv, InRound,
                    flags, events, pipes

LEMMA KidFork_Inv ==
  ASSUME NEW c \in Kids, IInv, KidFork(c)
  PROVE  IInv'
<1>1. kid' \in [Kids -> KidRecs]
  BY KidGoToType DEF KidFork, IInv
<1>2. PICK g \in Grands :
        grand' = [grand EXCEPT ![g] = [NoGrand EXCEPT !.pc = "born",
                   !.kid = c, !.page = kid[c].page,
                   !.song = kid[c].song, !.url = kid[c].url]]
  BY DEF KidFork
<1>3. [NoGrand EXCEPT !.pc = "born", !.kid = c, !.page = kid[c].page,
         !.song = kid[c].song, !.url = kid[c].url] \in GrandRecs
  BY RecordTypes DEF GrandRecs, KidPids, KidRecs, IInv, TypeOK
<1>4. grand' \in [Grands -> GrandRecs]
  BY <1>2, <1>3 DEF IInv, TypeOK
<1> QED
  BY <1>1, <1>4 DEF KidFork, IInv, TypeOK, RetryInv, flags, events, pipes

LEMMA GrandGet_Inv ==
  ASSUME NEW g \in Grands, IInv, GrandGet(g)
  PROVE  IInv'
<1>1. PICK song \in SongIds, url \in SongIds :
        grand' = [grand EXCEPT ![g].pc = "register", ![g].s = shm,
                               ![g].song = song, ![g].url = url]
  <2>1. /\ shm.song \in SongIds
        /\ grand[g].song \in SongIds /\ grand[g].url \in SongIds
    BY ShmFields DEF IInv, TypeOK, GrandRecs
  <2>2. CASE OnPage(grand[g].page, shm.song)
    BY <2>1, <2>2 DEF GrandGet
  <2>3. CASE ~OnPage(grand[g].page, shm.song)
    BY <2>1, <2>3 DEF GrandGet
  <2> QED
    BY <2>2, <2>3
<1>2. [grand[g] EXCEPT !.pc = "register", !.s = shm, !.song = song,
                       !.url = url] \in GrandRecs
  BY DEF IInv, TypeOK, GrandRecs
<1>3. grand' \in [Grands -> GrandRecs]
  BY <1>1, <1>2 DEF IInv, TypeOK
<1> QED
  BY <1>3 DEF GrandGet, IInv, TypeOK, RetryInv, flags, events, pipes

LEMMA GrandPlay_Inv ==
  ASSUME NEW g \in Grands, IInv, GrandPlay(g)
  PROVE  IInv'
<1>1. [grand[g] EXCEPT !.pc = "play"] \in GrandRecs
  BY DEF IInv, TypeOK, GrandRecs
<1>2. [grand EXCEPT ![g].pc = "play"] \in [Grands -> GrandRecs]
  BY <1>1 DEF IInv, TypeOK
<1>3. Ended(grand, g) \in [Grands -> GrandRecs]
  BY EndedType DEF IInv, TypeOK
<1>4. grand' \in [Grands -> GrandRecs]
  BY <1>2, <1>3 DEF GrandPlay
<1> QED
  BY <1>4 DEF GrandPlay, IInv, TypeOK, RetryInv, flags, events, pipes

LEMMA GrandRead_Inv ==
  ASSUME NEW g \in Grands, IInv, GrandRead(g)
  PROVE  IInv'
<1>1. [grand[g] EXCEPT !.paused = ~@] \in GrandRecs
  BY DEF IInv, TypeOK, GrandRecs
<1>2. [grand EXCEPT ![g].paused = ~@] \in [Grands -> GrandRecs]
  BY <1>1 DEF IInv, TypeOK
<1>3. Ended(grand, g) \in [Grands -> GrandRecs]
  BY EndedType DEF IInv, TypeOK
<1>4. grand' \in [Grands -> GrandRecs]
  BY <1>2, <1>3 DEF GrandRead
<1>5. fifo' \in Seq({"quit", "cycle"})
  <2>1. Tail(fifo) \in Seq({"quit", "cycle"})
    BY DEF GrandRead, IInv, TypeOK
  <2>2. <<>> \in Seq({"quit", "cycle"})
    OBVIOUS
  <2> QED
    BY <2>1, <2>2 DEF GrandRead, Kept
<1> QED
  BY <1>4, <1>5 DEF GrandRead, IInv, TypeOK, RetryInv, flags, events

LEMMA Dies_Inv ==
  ASSUME IInv, Dies
  PROVE  IInv'
<1>1. par' \in ParRecs /\ RetryInv'
  BY RecordTypes DEF Dies, RetryInv, InRound, Idle, ParRecs
<1>2. kid' \in [Kids -> KidRecs]
  BY RecordTypes DEF Dies, IInv, TypeOK
<1>3. fifo' \in Seq({"quit", "cycle"}) /\ wopen' \in BOOLEAN
  <2>1. <<>> \in Seq({"quit", "cycle"})
    OBVIOUS
  <2> QED
    BY <2>1 DEF Dies
<1> QED
  BY <1>1, <1>2, <1>3 DEF Dies, IInv, TypeOK, flags, events

LEMMA WriteFifoType ==
  ASSUME IInv, NEW command \in {"quit", "cycle"}, WriteFifo(command)
  PROVE  wopen' \in BOOLEAN /\ fifo' \in Seq({"quit", "cycle"})
<1>1. wopen' \in BOOLEAN
  BY DEF WriteFifo
<1>2. Append(fifo, command) \in Seq({"quit", "cycle"})
  BY DEF IInv, TypeOK
<1>3. fifo' \in Seq({"quit", "cycle"})
  BY <1>2 DEF WriteFifo, IInv, TypeOK
<1> QED
  BY <1>1, <1>3

LEMMA Quit_Inv ==
  ASSUME IInv, Quit
  PROVE  IInv'
<1>1. CASE Dies
  BY <1>1, Dies_Inv
<1>2. CASE /\ WriteFifo("quit")
           /\ grand' = Resumed(shm.grand)
           /\ par' = [par EXCEPT !.pc = "kill", !.seen = shm.grand]
           /\ UNCHANGED <<flags, events, page, shm, kid>>
  <2>1. shm.grand \in GrandPids
    BY ShmFields DEF IInv, TypeOK
  <2>2. par' \in ParRecs /\ RetryInv'
    BY <1>2, <2>1 DEF Quit, At, IInv, TypeOK, RetryInv, InRound, ParRecs
  <2>3. grand' \in [Grands -> GrandRecs]
    BY <1>2, <2>1, ProcessTypes DEF IInv
  <2>4. wopen' \in BOOLEAN /\ fifo' \in Seq({"quit", "cycle"})
    BY <1>2, WriteFifoType
  <2> QED
    BY <1>2, <2>2, <2>3, <2>4 DEF IInv, TypeOK, flags, events
<1> QED
  BY <1>1, <1>2 DEF Quit

LEMMA GoToType ==
  ASSUME IInv, par.retry = 0, NEW pc \in {"idle", "start", "continue", "pause", "tts", "resume"},
         GoTo(pc)
  PROVE  par' \in ParRecs /\ RetryInv'
<1>1. par' \in ParRecs /\ par'.pc = pc /\ par'.retry = 0
  BY DEF GoTo, IInv, TypeOK, ParRecs
<1> QED
  BY <1>1 DEF RetryInv, InRound

LEMMA ReturnType == Return => par' \in ParRecs /\ RetryInv'
BY RecordTypes DEF Return, Idle, RetryInv, InRound

LEMMA SongCopyType ==
  ASSUME IInv, par.retry = 0, NEW t \in SongIds,
         NEW pc \in {"wrap_set", "wrap_late"},
         par' = [par EXCEPT !.pc = pc, !.s = [shm EXCEPT !.song = t]]
  PROVE  par' \in ParRecs /\ RetryInv'
<1>1. [shm EXCEPT !.song = t] \in Shm
  BY ShmUpdate DEF IInv, TypeOK
<1>2. par' \in ParRecs /\ par'.pc = pc /\ par'.retry = 0
  BY <1>1 DEF IInv, TypeOK, ParRecs
<1> QED
  BY <1>2 DEF RetryInv, InRound

LEMMA Wrap_Inv ==
  ASSUME IInv, Wrap
  PROVE  IInv'
<1> DEFINE adv == LinkNext(page, shm.song, shm.mode, TRUE)
           to(pc, t) == par' = [par EXCEPT !.pc = pc,
                                           !.s = [shm EXCEPT !.song = t]]
<1>1. shm.song \in SongIds /\ shm.mode \in Modes /\ page \in 1 .. Pages
  BY ShmFields DEF IInv, TypeOK
<1>2. /\ adv.track \in SongIds /\ First(page) \in SongIds
      /\ NextGlobal(shm.song) \in SongIds
  BY <1>1, LinkNextType, FirstType, NextGlobalType
<1>3. par' \in ParRecs /\ RetryInv'
  <2>1. par.retry = 0
    BY DEF Wrap, At, IInv, RetryInv, InRound
  <2>2. CASE GoTo("start")
    BY <2>1, <2>2, GoToType
  <2>3. CASE Return
    BY <2>3, ReturnType
  <2>4. CASE to("wrap_set", adv.track)
    <3> HIDE DEF adv
    <3> QED
      BY <1>2, <2>1, <2>4, SongCopyType
  <2>5. CASE to("wrap_set", First(page))
    BY <1>2, <2>1, <2>5, SongCopyType
  <2>6. CASE to("wrap_late", NextGlobal(shm.song))
    BY <1>2, <2>1, <2>6, SongCopyType
  <2>7. \/ GoTo("start") \/ Return
        \/ to("wrap_set", adv.track) \/ to("wrap_set", First(page))
        \/ to("wrap_late", NextGlobal(shm.song))
    BY DEF Wrap
  <2> QED
    BY <2>2, <2>3, <2>4, <2>5, <2>6, <2>7
<1> QED
  BY <1>3 DEF Wrap, IInv, TypeOK, flags, events, pipes

LEMMA StartPlay_Inv ==
  ASSUME IInv, StartPlay
  PROVE  IInv'
<1>1. par.retry = 0
  BY DEF StartPlay, At, IInv, RetryInv, InRound
<1>2. ASSUME NEW t \in SongIds,
             par' = [par EXCEPT !.pc = "start_set", !.track = t,
                                !.s = [shm EXCEPT !.song = t]]
      PROVE  par' \in ParRecs /\ RetryInv'
  <2>1. [shm EXCEPT !.song = t] \in Shm
    BY ShmUpdate DEF IInv, TypeOK
  <2>2. par' \in ParRecs /\ par'.pc = "start_set" /\ par'.retry = 0
    BY <1>1, <1>2, <2>1 DEF IInv, TypeOK, ParRecs
  <2> QED
    BY <2>2 DEF RetryInv, InRound
<1>3. par' \in ParRecs /\ RetryInv'
  <2> DEFINE t == IF OnPage(page, shm.song) THEN shm.song ELSE First(page)
  <2>1. t \in SongIds
    BY ShmFields, FirstType DEF IInv, TypeOK
  <2>2. CASE Return
    BY <2>2, ReturnType
  <2>3. CASE GoTo("continue")
    BY <1>1, <2>3, GoToType
  <2>4. CASE par' = [par EXCEPT !.pc = "start_set", !.track = t,
                                !.s = [shm EXCEPT !.song = t]]
    <3> HIDE DEF t
    <3> QED
      BY <1>2, <2>1, <2>4
  <2> QED
    BY <2>2, <2>3, <2>4 DEF StartPlay
<1> QED
  BY <1>3 DEF StartPlay, IInv, TypeOK, flags, pipes

LEMMA CmdSuspend_Inv ==
  ASSUME IInv, NEW command \in {"pause", "tts"}, CmdSuspend(command)
  PROVE  IInv'
<1>1. par.retry = 0
  BY DEF CmdSuspend, Given, At, IInv, RetryInv, InRound
<1>2. par' \in ParRecs /\ RetryInv'
  BY <1>1, GoToType DEF CmdSuspend
<1> QED
  BY <1>2 DEF CmdSuspend, IInv, TypeOK, flags, events, pipes

LEMMA Suspend_Inv ==
  ASSUME IInv, NEW command, NEW newFocus \in {"PAUSED_MANUAL", "PAUSED_FOR_TTS"},
         Suspend(command, newFocus)
  PROVE  IInv'
<1>1. CASE Dies
  BY <1>1, Dies_Inv
<1>2. CASE /\ grand' = IF grand[shm.grand].pc = "zombie" THEN grand
                       ELSE [grand EXCEPT ![shm.grand].stopped = TRUE]
           /\ state' = "PLAY" /\ susp' = "YES" /\ focus' = newFocus
           /\ Return
           /\ UNCHANGED <<events, page, pipes, shm, kid>>
  <2>1. \A g \in Grands : [grand[g] EXCEPT !.stopped = TRUE] \in GrandRecs
    BY DEF IInv, TypeOK, GrandRecs
  <2>2. \A g : [grand EXCEPT ![g].stopped = TRUE] \in [Grands -> GrandRecs]
    BY <2>1 DEF IInv, TypeOK
  <2>3. grand' \in [Grands -> GrandRecs]
    BY <1>2, <2>2 DEF IInv, TypeOK
  <2> QED
    BY <1>2, <2>3, ReturnType DEF IInv, TypeOK, events, pipes
<1>3. CASE /\ WriteFifo("cycle")
           /\ state' = "PLAY" /\ susp' = "YES" /\ focus' = newFocus
           /\ Return
           /\ UNCHANGED <<events, page, shm, kid, grand>>
  <2>1. wopen' \in BOOLEAN /\ fifo' \in Seq({"quit", "cycle"})
    BY <1>3, WriteFifoType
  <2> QED
    BY <1>3, <2>1, ReturnType DEF IInv, TypeOK, events
<1> QED
  BY <1>1, <1>2, <1>3 DEF Suspend

LEMMA ContinuePlay_Inv ==
  ASSUME IInv, ContinuePlay
  PROVE  IInv'
<1>1. par.retry = 0
  BY DEF ContinuePlay, At, IInv, RetryInv, InRound
<1>2. par' \in ParRecs /\ RetryInv'
  BY <1>1, GoToType DEF ContinuePlay
<1> QED
  BY <1>2 DEF ContinuePlay, IInv, TypeOK, flags, events, pipes

LEMMA Resume_Inv ==
  ASSUME IInv, Resume
  PROVE  IInv'
<1>1. CASE Dies
  BY <1>1, Dies_Inv
<1>2. par.retry = 0
  BY DEF Resume, At, IInv, RetryInv, InRound
<1>4. ASSUME ~Dies
      PROVE  par' \in ParRecs /\ RetryInv'
  <2>1. CASE GoTo("idle")
    BY <1>2, <2>1, GoToType
  <2>2. CASE GoTo("start")
    BY <1>2, <2>2, GoToType
  <2>3. GoTo("idle") \/ GoTo("start")
    BY <1>4, Zenon DEF Resume
  <2> QED
    BY <2>1, <2>2, <2>3
<1>5. ASSUME ~Dies
      PROVE  grand' \in [Grands -> GrandRecs]
  <2>1. shm.grand \in GrandPids
    BY ShmFields DEF IInv, TypeOK
  <2>2. grand' = Resumed(shm.grand) \/ grand' = grand
    BY <1>5, Zenon DEF Resume
  <2> QED
    BY <2>1, <2>2, ProcessTypes DEF IInv, TypeOK
<1>6. ASSUME ~Dies
      PROVE  wopen' \in BOOLEAN /\ fifo' \in Seq({"quit", "cycle"})
  <2>1. WriteFifo("cycle") \/ UNCHANGED <<wopen, fifo>>
    BY <1>6, Zenon DEF Resume, pipes
  <2>2. CASE WriteFifo("cycle")
    BY <2>2, WriteFifoType
  <2>3. CASE UNCHANGED <<wopen, fifo>>
    BY <2>3 DEF IInv, TypeOK
  <2> QED
    BY <2>1, <2>2, <2>3
<1>7. ASSUME ~Dies
      PROVE  /\ UNCHANGED <<events, page, shm, kid>>
             /\ \/ UNCHANGED flags
                \/ state' = "PLAY" /\ susp' = "NO" /\ focus' = "PLAYING"
  BY <1>7, Zenon DEF Resume
<1>8. CASE ~Dies
  BY <1>4, <1>5, <1>6, <1>7, <1>8 DEF IInv, TypeOK, flags, events
<1> QED
  BY <1>1, <1>8

LEMMA KidExit_Inv ==
  ASSUME NEW c \in Kids, IInv, KidExit(c)
  PROVE  IInv'
<1>1. [NoKid EXCEPT !.pc = "zombie"] \in KidRecs
  BY RecordTypes DEF KidRecs
<1>2. kid' \in [Kids -> KidRecs]
  <2>1. \/ kid' = [kid EXCEPT ![c] = NoKid]
        \/ kid' = [kid EXCEPT ![c] = [NoKid EXCEPT !.pc = "zombie"]]
    BY DEF KidExit
  <2> QED
    BY <1>1, <2>1, RecordTypes DEF IInv, TypeOK
<1>3. grand' \in [Grands -> GrandRecs] /\ fifo' \in Seq({"quit", "cycle"})
  BY ProcessTypes DEF KidExit, IInv
<1>4. chld' \in BOOLEAN
  BY DEF KidExit
<1> QED
  BY <1>2, <1>3, <1>4 DEF KidExit, IInv, TypeOK, RetryInv, flags

LEMMA KidStop_Inv ==
  ASSUME NEW c \in Kids, IInv, KidStop(c)
  PROVE  IInv'
BY KidExit_Inv DEF KidStop

\* A child that chose its next track.
LEMMA KidFieldsType ==
  ASSUME TypeOK, NEW c \in Kids, NEW pc \in {"set", "late_set"}, NEW t \in SongIds
  PROVE  [kid EXCEPT ![c].pc = pc, ![c].song = t, ![c].url = t]
           \in [Kids -> KidRecs]
<1>1. [kid[c] EXCEPT !.pc = pc, !.song = t, !.url = t] \in KidRecs
  BY DEF TypeOK, KidRecs
<1>2. [kid EXCEPT ![c] = [kid[c] EXCEPT !.pc = pc, !.song = t, !.url = t]]
        \in [Kids -> KidRecs]
  BY <1>1 DEF TypeOK
<1>3. [kid EXCEPT ![c].pc = pc, ![c].song = t, ![c].url = t]
        = [kid EXCEPT ![c] = [kid[c] EXCEPT !.pc = pc, !.song = t, !.url = t]]
  BY DEF TypeOK
<1> QED
  BY <1>2, <1>3

LEMMA KidFetch_Inv ==
  ASSUME NEW c \in Kids, IInv, KidFetch(c)
  PROVE  IInv'
<1>1. CASE KidExit(c)
  BY <1>1, KidExit_Inv
<1>2. CASE ~KidExit(c)
  <2> DEFINE t == NextGlobal(kid[c].s.song)
  <2>1. t \in SongIds
    BY ShmFields, NextGlobalType DEF IInv, TypeOK, KidRecs
  <2>2. kid' = [kid EXCEPT ![c].pc = "late_set", ![c].song = t, ![c].url = t]
    BY <1>2 DEF KidFetch
  <2> HIDE DEF t
  <2>3. kid' \in [Kids -> KidRecs]
    BY <2>1, <2>2, KidFieldsType DEF IInv
  <2>4. UNCHANGED <<par, flags, events, page, pipes, shm, grand>>
    BY <1>2 DEF KidFetch
  <2> QED
    BY <2>3, <2>4 DEF IInv, TypeOK, RetryInv, flags, events, pipes
<1> QED
  BY <1>1, <1>2

LEMMA KidSync_Inv ==
  ASSUME NEW c \in Kids, IInv, KidSync(c)
  PROVE  IInv'
<1> DEFINE k == kid[c]
           next == LinkNext(k.page, k.s.song, k.s.mode, FALSE)
           play(song, url) == [NoKid EXCEPT !.pc = "top",
                      !.stop = k.stop, !.page = k.page, !.song = song, !.url = url]
<1>1. k \in KidRecs
  BY DEF IInv, TypeOK
<1>2. k.s.song \in SongIds /\ k.url \in SongIds
  BY <1>1, ShmFields DEF KidRecs
<1>3. next.track \in SongIds
  BY <1>1, ShmFields, LinkNextType DEF KidRecs
<1>4. \A song, url \in SongIds : play(song, url) \in KidRecs
  BY <1>1, RecordTypes DEF KidRecs
<1>5. kid' \in [Kids -> KidRecs]
  <2>1. ASSUME NEW r \in KidRecs, kid' = [kid EXCEPT ![c] = r]
        PROVE  kid' \in [Kids -> KidRecs]
    BY <2>1 DEF IInv, TypeOK
  <2>2. CASE kid' = [kid EXCEPT ![c] = play(k.s.song, k.s.song)]
    <3> HIDE DEF play, k
    <3> QED
      BY <1>2, <1>4, <2>1, <2>2
  <2>3. CASE kid' = [kid EXCEPT ![c] = play(k.s.song, k.url)]
    <3> HIDE DEF play, k
    <3> QED
      BY <1>2, <1>4, <2>1, <2>3
  <2>4. CASE kid' = [kid EXCEPT ![c].pc = "set", ![c].song = next.track,
                                ![c].url = next.track]
    <3> HIDE DEF next
    <3> QED
      BY <1>3, <2>4, KidFieldsType DEF IInv
  <2>5. ASSUME NEW pc \in {"fetch", "eof"}, KidGoTo(c, pc)
        PROVE  kid' \in [Kids -> KidRecs]
    <3>1. [kid[c] EXCEPT !.pc = pc] \in KidRecs
      BY DEF IInv, TypeOK, KidRecs
    <3> QED
      BY <2>5, <3>1 DEF KidGoTo, IInv, TypeOK
  <2> QED
    BY <2>2, <2>3, <2>4, <2>5 DEF KidSync
<1> QED
  BY <1>5 DEF KidSync, IInv, TypeOK, RetryInv, flags, events, pipes

LEMMA PlaybackInductive == Spec => []IInv
<1>1. IInv /\ [Next]_vars => IInv'
  <2> SUFFICES ASSUME IInv, [Next]_vars PROVE IInv'
    OBVIOUS
  <2>1. CASE Events
    BY <2>1, ReapChildren_Inv, ClearChildFlag_Inv, EofDropped_Inv,
       EofTurnPage_Inv DEF Events
  <2>2. CASE Command
    BY <2>2, CmdStart_Inv, StopPlay_Inv, CmdContinue_Inv, NextSong_Inv,
       PickSong_Inv, CmdSuspend_Inv, SetModeGet_Inv DEF Command
  <2>3. CASE InCommand
    BY <2>3, Wrap_Inv, WrapSet_Inv, StartPlay_Inv, StartSet_Inv,
       ForceStop_Inv, Quit_Inv, Kill_Inv, WaitChild_Inv, ForceGrand_Inv,
       ClearSet_Inv, ForkChild_Inv, PidGet_Inv, PidSet_Inv, StopLast_Inv,
       StopClear_Inv, Suspend_Inv, ContinuePlay_Inv, Resume_Inv, NextSet_Inv, NextApply_Inv,
       SetModeSet_Inv DEF InCommand
  <2>4. CASE \E c \in Kids : Kid(c)
    BY <2>4, KidStop_Inv, KidFork_Inv, KidReap_Inv, KidGet_Inv, KidSync_Inv,
       KidFetch_Inv, KidSet_Inv, KidEof_Inv DEF Kid
  <2>5. CASE \E g \in Grands : Grand(g)
    BY <2>5, GrandGet_Inv, GrandSet_Inv, GrandPlay_Inv, GrandRead_Inv,
       GrandEos_Inv DEF Grand, GrandSetup
  <2>6. CASE UNCHANGED vars
    BY <2>6 DEF vars, flags, events, pipes, IInv, TypeOK, RetryInv
  <2> QED
    BY <2>1, <2>2, <2>3, <2>4, <2>5, <2>6 DEF Next
<1> QED
  BY InitInv, <1>1, PTL DEF Spec

\* Every variable of Playback, and every copy of shm that a process holds
\* between its shm_get and its shm_set, keeps its type through every
\* interleaving of the three processes: track indices stay inside the
\* catalogue, the page inside 1 .. Pages, and shm.child and shm.grand are
\* never swapped, though all three processes write them back from copies.
THEOREM PlaybackTypeCorrect == Spec => []TypeOK
<1>1. IInv => TypeOK
  BY DEF IInv
<1> QED
  BY <1>1, PlaybackInductive, PTL

=============================================================================
