------------------------- MODULE TtsPlaybackProofs --------------------------
(* Proofs about TtsPlayback, for any number of threads and periods.  What   *)
(* keeps announcements apart is that playback_thread, although it is read   *)
(* and cleared without a lock, names every thread that has not cleared it.  *)
EXTENDS TtsPlayback, TLAPS

\* An announcement is not played beyond its end.
InRange(t) ==
  /\ th[t].pc \in {"recheck", "write"} => th[t].left > 0
  /\ th[t].pc \in {"take_text", "take_wav"} => th[t].after = 0
  /\ th[t].after + th[t].left <= Periods

RangeInv == \A t \in Threads : InRange(t)

\* A live thread is the one playback_thread names, and the loop starts another
\* only when there is none.
Quiet == \A t \in Threads : ~Live(t)

HandleInv ==
  /\ \A t \in Threads : Live(t) => handle = t
  /\ main.pc = "wait" => main.h \in Threads /\ handle \in {NoThread, main.h}
  /\ main.pc = "wake" => main.cmd = "wake"
  /\ main.pc \in {"request", "create"} => Quiet
  /\ main.pc = "put" /\ main.cmd = "text" => Quiet

\* The buffer is there from its hand-over to the thread that takes it.
Given == main.pc = "create" /\ main.cmd = "text"

SamplesInv ==
  /\ \A t \in Threads : th[t].pc = "take_text" => samples
  /\ Given => samples
  /\ samples => Given \/ \E t \in Threads : th[t].pc = "take_text"

\* A text is handed over, taken and spoken inside a content session.
SessionInv ==
  /\ Given => session
  /\ main.pc = "put" /\ main.cmd = "text" => session
  /\ \A t \in Threads : th[t].pc = "take_text" => session
  /\ \A t \in Threads : Speaking(t) /\ th[t].plays = "text" => session
  /\ DoneMeansQuiet

IInv == TypeOK /\ RangeInv /\ HandleInv /\ SamplesInv /\ SessionInv

-----------------------------------------------------------------------------
FlagsTyped ==
  /\ stop \in BOOLEAN /\ samples \in BOOLEAN
  /\ session \in BOOLEAN /\ wake \in BOOLEAN
  /\ gaveUp \in BOOLEAN /\ early \subseteq Told

LEMMA NoPlayType == NoPlay \in ThreadStates
BY TtsAssumption DEF NoPlay, ThreadStates, Commands

LEMMA InitInv == Init => IInv
<1> SUFFICES ASSUME Init PROVE IInv
    OBVIOUS
<1>0. \A t \in Threads : th[t] = NoPlay
  BY DEF Init
<1>1. TypeOK
  <2>1. main \in LoopStates /\ handle \in Threads \cup {NoThread}
    BY DEF Init, AtRecv, LoopStates, Commands
  <2>2. file \in Files /\ th \in [Threads -> ThreadStates]
    BY NoPlayType DEF Init, Files
  <2>3. FlagsTyped
    BY Zenon DEF Init, FlagsTyped
  <2> QED
    BY <2>1, <2>2, <2>3 DEF TypeOK, FlagsTyped
<1>2. RangeInv
  <2> SUFFICES ASSUME NEW t \in Threads PROVE InRange(t)
      BY DEF RangeInv
  <2>1. th[t].pc = "free" /\ th[t].left = 0 /\ th[t].after = 0
    BY <1>0 DEF NoPlay
  <2> QED
    BY <2>1, TtsAssumption DEF InRange
<1>3. HandleInv
  BY <1>0 DEF HandleInv, Quiet, Live, Init, AtRecv, NoPlay
<1>4. SamplesInv
  BY <1>0 DEF SamplesInv, Given, Init, AtRecv, NoPlay
<1>5. SessionInv
  BY <1>0 DEF SessionInv, DoneMeansQuiet, Given, Init, AtRecv, NoPlay, Speaking, InLoop
<1> QED
  BY <1>1, <1>2, <1>3, <1>4, <1>5 DEF IInv

\* The types survive every step.
LEMMA LoopStep ==
  TypeOK /\ [Next]_vars => main' \in LoopStates /\ handle' \in Threads \cup {NoThread}
<1> SUFFICES ASSUME TypeOK, [Next]_vars
             PROVE  main' \in LoopStates /\ handle' \in Threads \cup {NoThread}
    OBVIOUS
<1> USE DEF TypeOK, LoopStates, Commands, Goto, At, Begin, Finish, AtRecv, AfterJoin
<1>1. CASE PlayText \/ PlayAudioFile \/ StopPlaying \/ PlayWakeResponse
  BY <1>1 DEF PlayText, PlayAudioFile, StopPlaying, PlayWakeResponse
<1>2. CASE WakeFile \/ RequestText \/ Put
  BY <1>2 DEF WakeFile, RequestText, Put
<1>3. CASE JoinTest \/ JoinCall \/ JoinReturns
  BY <1>3 DEF JoinTest, JoinCall, JoinReturns
<1>4. CASE Create \/ WakePlaying \/ Respawn
  BY <1>4 DEF Create, WakePlaying, Respawn
<1>5. ASSUME NEW t \in Threads, Play(t)
      PROVE  main' = main /\ handle' \in {handle, NoThread}
  BY <1>5 DEF Play, TakeText, TakeWav, Open, Check, Recheck, Write, Drain,
              SessionEnd, Done, Unwake, Clear
<1>6. CASE UNCHANGED vars
  BY <1>6 DEF vars
<1> QED
  BY <1>1, <1>2, <1>3, <1>4, <1>5, <1>6 DEF Next, Loop, InCommand

LEMMA DoneTyped ==
  ASSUME NEW who, NEW c \in Told, TellDone(who, c), TypeOK
  PROVE  gaveUp' \in BOOLEAN /\ early' \subseteq Told
BY Zenon DEF TellDone, TypeOK

LEMMA FlagStep == TypeOK /\ [Next]_vars => FlagsTyped' /\ file' \in Files
<1> SUFFICES ASSUME TypeOK, [Next]_vars PROVE FlagsTyped' /\ file' \in Files
    OBVIOUS
<1> DEFINE GivenTyped == stop' \in BOOLEAN /\ samples' \in BOOLEAN
           MarksTyped == session' \in BOOLEAN /\ wake' \in BOOLEAN
           HistTyped  == gaveUp' \in BOOLEAN /\ early' \subseteq Told
<1>1. file' \in Files
  BY DEF TypeOK, Next, Loop, InCommand, PlayText, PlayAudioFile, StopPlaying,
         PlayWakeResponse, WakeFile, JoinTest, JoinCall, JoinReturns,
         RequestText, Put, Create, WakePlaying, Respawn, Play, TakeText,
         TakeWav, Open, Check, Recheck, Write, Drain, SessionEnd, Done, Unwake,
         Clear, given, vars, LoopStates, Commands, Files
<1>2. GivenTyped
  BY DEF TypeOK, Next, Loop, InCommand, PlayText, PlayAudioFile, StopPlaying,
         PlayWakeResponse, WakeFile, JoinTest, JoinCall, JoinReturns,
         RequestText, Put, Create, WakePlaying, Respawn, Play, TakeText,
         TakeWav, Open, Check, Recheck, Write, Drain, SessionEnd, Done, Unwake,
         Clear, given, vars, tts_playback_stop
<1>3. MarksTyped
  BY DEF TypeOK, Next, Loop, InCommand, PlayText, PlayAudioFile, StopPlaying,
         PlayWakeResponse, WakeFile, JoinTest, JoinCall, JoinReturns,
         RequestText, Put, Create, WakePlaying, Respawn, Play, TakeText,
         TakeWav, Open, Check, Recheck, Write, Drain, SessionEnd, Done, Unwake,
         Clear, marks, vars
<1>4. HistTyped
  <2>1. CASE \E who \in Threads \cup {NoThread}, c \in Told : TellDone(who, c)
    BY <2>1, DoneTyped
  <2>2. CASE UNCHANGED hist
    BY <2>2, Zenon DEF hist, TypeOK
  <2>3. CASE UNCHANGED early /\ gaveUp' \in BOOLEAN
    BY <2>3, Zenon DEF TypeOK
  <2>4. ASSUME NEW t \in Threads, TakeText(t) \/ Open(t)
        PROVE  UNCHANGED early /\ gaveUp' \in BOOLEAN
    BY <2>4, Zenon DEF TakeText, Open, TypeOK
  <2>5. /\ {"empty", "file", "text", "wake"} \subseteq Told
        /\ \A t \in Threads : th[t].plays \in Told
    BY DEF Told, Commands, TypeOK, ThreadStates
  <2> QED
    BY <2>1, <2>2, <2>3, <2>4, <2>5
       DEF Next, Loop, InCommand, PlayText, PlayAudioFile, StopPlaying,
           PlayWakeResponse, WakeFile, JoinTest, JoinCall, JoinReturns,
           RequestText, Put, Create, WakePlaying, Respawn, Play, TakeWav,
           Check, Recheck, Write, Drain, SessionEnd, Done, Unwake, Clear,
           vars, hist
<1> QED
  BY <1>1, <1>2, <1>3, <1>4 DEF FlagsTyped

\* A stop marks threads, it moves none.
LEMMA StopStep ==
  ASSUME TypeOK, tts_playback_stop
  PROVE  /\ th' \in [Threads -> ThreadStates]
         /\ \A t \in Threads : /\ th'[t].pc = th[t].pc
                               /\ th'[t].plays = th[t].plays
                               /\ th'[t].left = th[t].left
                               /\ th'[t].after \in {th[t].after, 0}
<1>1. \A t \in Threads : th[t] \in ThreadStates
  BY DEF TypeOK
<1>2. ASSUME NEW t \in Threads
      PROVE  /\ th'[t] \in ThreadStates
             /\ th'[t].pc = th[t].pc /\ th'[t].plays = th[t].plays
             /\ th'[t].left = th[t].left /\ th'[t].after \in {th[t].after, 0}
  <2>1. th'[t] = IF Over(t) THEN th[t]
                 ELSE [th[t] EXCEPT !.told = TRUE, !.after = 0]
    BY DEF tts_playback_stop
  <2>2. 0 \in 0 .. Periods
    BY TtsAssumption
  <2>3. CASE Over(t)
    BY <1>1, <2>1, <2>3
  <2>4. CASE ~Over(t)
    <3>1. th'[t] = [th[t] EXCEPT !.told = TRUE, !.after = 0]
      BY <2>1, <2>4
    <3>2. th'[t] \in ThreadStates
      BY <1>1, <2>2, <3>1, Zenon DEF ThreadStates
    <3> QED
      BY <1>1, <3>1, <3>2 DEF ThreadStates
  <2> QED
    BY <2>3, <2>4
<1>3. th' = [t \in Threads |-> th'[t]]
  BY DEF tts_playback_stop
<1> QED
  BY <1>2, <1>3

StoppingStep == PlayText \/ StopPlaying \/ PlayWakeResponse
SilentStep ==
  \/ PlayAudioFile \/ WakeFile \/ JoinTest \/ JoinCall \/ RequestText \/ Put
  \/ WakePlaying

LEMMA ThreadStep ==
  TypeOK /\ RangeInv /\ [Next]_vars
    => th' \in [Threads -> ThreadStates] /\ RangeInv'
<1> SUFFICES ASSUME TypeOK, RangeInv, [Next]_vars
             PROVE  th' \in [Threads -> ThreadStates] /\ RangeInv'
    OBVIOUS
<1>a. \A t \in Threads : th[t] \in ThreadStates /\ InRange(t)
  BY DEF TypeOK, RangeInv
<1>b. Periods \in Nat
  BY TtsAssumption
<1>1. CASE StoppingStep
  <2>1. tts_playback_stop
    BY <1>1 DEF StoppingStep, PlayText, StopPlaying, PlayWakeResponse
  <2>2. ASSUME NEW t \in Threads PROVE InRange(t)'
    BY <2>1, <1>a, <1>b, StopStep DEF InRange, ThreadStates
  <2> QED
    BY <2>1, <2>2, StopStep DEF RangeInv
<1>2. CASE SilentStep \/ UNCHANGED vars
  <2>1. UNCHANGED th
    BY <1>2 DEF SilentStep, PlayAudioFile, WakeFile, JoinTest, JoinCall,
                RequestText, Put, WakePlaying, vars
  <2> QED
    BY <2>1 DEF TypeOK, RangeInv, InRange
<1>3. ASSUME NEW t \in Threads, NEW r \in ThreadStates, th' = [th EXCEPT ![t] = r],
             r.pc \in {"recheck", "write"} => r.left > 0,
             r.pc \in {"take_text", "take_wav"} => r.after = 0,
             r.after + r.left <= Periods
      PROVE  th' \in [Threads -> ThreadStates] /\ RangeInv'
  <2>1. th' \in [Threads -> ThreadStates]
    BY <1>3 DEF TypeOK
  <2>2. ASSUME NEW u \in Threads PROVE InRange(u)'
    <3>1. th'[u] = IF u = t THEN r ELSE th[u]
      BY <1>3 DEF TypeOK
    <3> QED
      BY <3>1, <1>3, <1>a DEF InRange
  <2> QED
    BY <2>1, <2>2 DEF RangeInv
<1>4. CASE JoinReturns
  <2>1. CASE main.h \in Threads
    <3>1. th' = [th EXCEPT ![main.h] = NoPlay]
      BY <1>4 DEF JoinReturns
    <3>2. NoPlay.pc = "free" /\ NoPlay.after + NoPlay.left <= Periods
      BY <1>b DEF NoPlay
    <3> QED
      BY <1>3, <2>1, <3>1, <3>2, NoPlayType
  <2>2. CASE main.h \notin Threads
    <3>1. UNCHANGED th
      BY <1>4, <2>2 DEF JoinReturns, TypeOK
    <3> QED
      BY <3>1 DEF TypeOK, RangeInv, InRange
  <2> QED
    BY <2>1, <2>2
<1>5. CASE Create
  <2>1. PICK t \in Threads : th' = [th EXCEPT ![t] = Started(main.cmd)]
    BY <1>5 DEF Create
  <2>2. PICK pc \in {"take_text", "take_wav"} :
          Started(main.cmd) = [NoPlay EXCEPT !.pc = pc]
    BY Zenon DEF Started
  <2>3. /\ [NoPlay EXCEPT !.pc = pc] \in ThreadStates
        /\ [NoPlay EXCEPT !.pc = pc].after = 0
        /\ [NoPlay EXCEPT !.pc = pc].left = 0
    <3>1. [NoPlay EXCEPT !.pc = pc] \in ThreadStates
      BY NoPlayType DEF ThreadStates
    <3> QED
      BY <3>1 DEF NoPlay
  <2>4. Started(main.cmd).after + Started(main.cmd).left <= Periods
    BY <1>b, <2>2, <2>3
  <2>5. Started(main.cmd).pc = pc
    BY <2>2, NoPlayType DEF ThreadStates
  <2> QED
    BY <1>3, <2>1, <2>2, <2>3, <2>4, <2>5
<1>6. CASE Respawn
  <2>1. th' = [t \in Threads |-> NoPlay]
    BY <1>6 DEF Respawn
  <2>2. NoPlay.pc = "free" /\ NoPlay.after = 0 /\ NoPlay.left = 0
    BY DEF NoPlay
  <2> QED
    BY <2>1, <2>2, <1>b, NoPlayType DEF RangeInv, InRange
<1>7. ASSUME NEW t \in Threads, TakeText(t) \/ TakeWav(t)
      PROVE  th' \in [Threads -> ThreadStates] /\ RangeInv'
  <2>1. PICK pc \in {"open", "ended"}, plays \in Commands :
          th' = [th EXCEPT ![t] =
                   [th[t] EXCEPT !.pc = pc, !.plays = plays, !.left = Periods]]
    <3>1. CASE TakeText(t)
      <4>1. PICK pc \in {"open", "ended"} :
              th' = [th EXCEPT ![t].pc = pc, ![t].plays = "text",
                               ![t].left = Periods]
        BY <3>1, Zenon DEF TakeText
      <4> QED
        BY <4>1 DEF TypeOK, Commands
    <3>2. CASE TakeWav(t)
      <4>1. PICK pc \in {"open", "ended"} :
              th' = [th EXCEPT ![t].pc = pc, ![t].plays = file,
                               ![t].left = Periods]
        BY <3>2, Zenon DEF TakeWav
      <4>2. file \in Commands
        BY DEF TypeOK, Files, Commands
      <4> QED
        BY <4>1, <4>2 DEF TypeOK
    <3> QED
      BY <1>7, <3>1, <3>2
  <2>p. Periods \in 0 .. Periods
    BY <1>b
  <2> DEFINE r == [th[t] EXCEPT !.pc = pc, !.plays = plays, !.left = Periods]
  <2>2. r \in ThreadStates
    BY <1>a, <2>p DEF ThreadStates
  <2>3. r.pc \in {"open", "ended"} /\ r.left = Periods /\ r.after = 0
    <3>1. th[t].after = 0
      BY <1>7, <1>a DEF TakeText, TakeWav, InRange
    <3> QED
      BY <3>1, <1>a DEF ThreadStates
  <2> HIDE DEF r
  <2>4. th' = [th EXCEPT ![t] = r]
    BY <2>1 DEF r
  <2>5. r.after + r.left <= Periods
    BY <1>b, <2>3
  <2> QED
    BY <1>3, <2>2, <2>3, <2>4, <2>5
<1>8. ASSUME NEW t \in Threads, NEW pc \in {"check", "ended", "recheck", "write",
               "drain", "session", "done", "unwake", "clear"},
             th' = [th EXCEPT ![t].pc = pc],
             pc \in {"recheck", "write"} => th[t].left > 0
      PROVE  th' \in [Threads -> ThreadStates] /\ RangeInv'
  <2> DEFINE r == [th[t] EXCEPT !.pc = pc]
  <2>1. r \in ThreadStates
    BY <1>a DEF ThreadStates
  <2>2. r.pc = pc /\ r.left = th[t].left /\ r.after = th[t].after
    BY <1>a DEF ThreadStates
  <2> HIDE DEF r
  <2>3. th' = [th EXCEPT ![t] = r]
    BY <1>8 DEF r
  <2> QED
    BY <1>3, <1>8, <1>a, <2>1, <2>2, <2>3 DEF InRange
<1>9. ASSUME NEW t \in Threads, Check(t) \/ Recheck(t)
      PROVE  th' \in [Threads -> ThreadStates] /\ RangeInv'
  <2>1. PICK pc \in {"recheck", "write", "drain"} :
          /\ th' = [th EXCEPT ![t].pc = pc]
          /\ pc \in {"recheck", "write"} => th[t].left > 0
    <3>1. th[t].left \in Nat
      BY <1>a DEF ThreadStates
    <3> QED
      BY <1>9, <1>a, <3>1 DEF Check, Recheck, Step, InRange
  <2> QED
    BY <1>8, <2>1
<1>10. ASSUME NEW t \in Threads,
              Open(t) \/ Drain(t) \/ SessionEnd(t) \/ Done(t) \/ Unwake(t)
       PROVE  th' \in [Threads -> ThreadStates] /\ RangeInv'
  <2>1. PICK pc \in {"check", "ended", "session", "done", "unwake", "clear"} :
          th' = [th EXCEPT ![t].pc = pc]
    BY <1>10 DEF Open, Drain, SessionEnd, Done, Unwake, Step
  <2> QED
    BY <1>8, <2>1
<1>11. ASSUME NEW t \in Threads, Write(t)
       PROVE  th' \in [Threads -> ThreadStates] /\ RangeInv'
  <2>1. CASE th' = [th EXCEPT ![t].pc = "drain"]
    BY <2>1, <1>8
  <2>2. ASSUME NEW n \in {th[t].after + 1, 0},
               th' = [th EXCEPT ![t] = [th[t] EXCEPT !.pc = "check",
                        !.left = th[t].left - 1, !.after = n]]
        PROVE  th' \in [Threads -> ThreadStates] /\ RangeInv'
    <3> DEFINE r == [th[t] EXCEPT !.pc = "check", !.left = th[t].left - 1,
                                  !.after = n]
    <3>1. /\ th[t].left \in 0 .. Periods /\ th[t].after \in 0 .. Periods
          /\ th[t].left > 0 /\ th[t].after + th[t].left <= Periods
      BY <1>11, <1>a DEF Write, InRange, ThreadStates
    <3>2. r \in ThreadStates
      <4>1. th[t].left - 1 \in 0 .. Periods /\ n \in 0 .. Periods
        BY <1>b, <3>1
      <4> QED
        BY <1>a, <4>1 DEF ThreadStates
    <3>3. r.pc = "check" /\ r.left = th[t].left - 1 /\ r.after = n
      BY <1>a DEF ThreadStates
    <3> HIDE DEF r
    <3>4. th' = [th EXCEPT ![t] = r]
      BY <2>2 DEF r
    <3>5. r.after + r.left <= Periods
      BY <3>1, <3>3, <1>b
    <3> QED
      BY <1>3, <3>2, <3>3, <3>4, <3>5
  <2>3. CASE th' = [th EXCEPT ![t].pc = "check", ![t].left = @ - 1,
                              ![t].after = IF th[t].told THEN @ + 1 ELSE 0]
    <3>1. PICK n \in {th[t].after + 1, 0} :
            th' = [th EXCEPT ![t] = [th[t] EXCEPT !.pc = "check",
                     !.left = th[t].left - 1, !.after = n]]
      BY <2>3 DEF TypeOK
    <3> QED
      BY <2>2, <3>1
  <2> QED
    BY <1>11, <2>1, <2>3 DEF Write
<1>12. ASSUME NEW t \in Threads, Clear(t)
       PROVE  th' \in [Threads -> ThreadStates] /\ RangeInv'
  <2>1. NoPlay.pc = "free" /\ NoPlay.after + NoPlay.left <= Periods
    BY <1>b DEF NoPlay
  <2>2. th' = [th EXCEPT ![t] = NoPlay]
    BY <1>12 DEF Clear
  <2> QED
    BY <1>3, <2>1, <2>2, NoPlayType
<1> QED
  BY <1>1, <1>2, <1>4, <1>5, <1>6, <1>7, <1>9, <1>10, <1>11, <1>12
     DEF Next, Loop, InCommand, Play, StoppingStep, SilentStep

LEMMA TypeStep == TypeOK /\ RangeInv /\ [Next]_vars => TypeOK' /\ RangeInv'
BY LoopStep, FlagStep, ThreadStep DEF TypeOK, FlagsTyped

\* Commands, marks, the buffer and every thread stay well typed, and no
\* announcement is played beyond its end.
THEOREM TtsTypeCorrect == Spec => []TypeOK
<1>1. Init => TypeOK /\ RangeInv
  BY InitInv DEF IInv
<1> QED
  BY <1>1, TypeStep, PTL DEF Spec

-----------------------------------------------------------------------------
(* What a step of a thread changes, for the invariants that relate the       *)
(* threads to the loop.                                                      *)

\* Nobody else's state changes, and a thread stays live unless it clears
\* playback_thread.
LEMMA PlayStep ==
  ASSUME NEW t \in Threads, Play(t), TypeOK
  PROVE  /\ UNCHANGED <<main, stop>>
         /\ \A u \in Threads : u # t => th'[u] = th[u]
         /\ th[t].pc \notin {"free", "ended"}
         /\ th'[t].pc \notin {"take_text", "take_wav"}
         /\ th'[t].pc # "free" => UNCHANGED handle
         /\ th'[t].pc = "free" => handle' = NoThread
<1>1. CASE TakeText(t) \/ TakeWav(t)
  BY <1>1 DEF TakeText, TakeWav, TypeOK, ThreadStates
<1>2. CASE Open(t) \/ Check(t) \/ Recheck(t) \/ Drain(t)
  BY <1>2 DEF Open, Check, Recheck, Drain, Step, TypeOK, ThreadStates, given
<1>3. CASE Write(t)
  BY <1>3 DEF Write, TypeOK, ThreadStates, given
<1>4. CASE SessionEnd(t) \/ Done(t) \/ Unwake(t)
  BY <1>4 DEF SessionEnd, Done, Unwake, Step, TypeOK, ThreadStates, given
<1>5. CASE Clear(t)
  BY <1>5 DEF Clear, TypeOK, NoPlay, given
<1> QED
  BY <1>1, <1>2, <1>3, <1>4, <1>5 DEF Play

LEMMA HandleStep == TypeOK /\ HandleInv /\ [Next]_vars => HandleInv'
<1> SUFFICES ASSUME TypeOK, HandleInv, [Next]_vars PROVE HandleInv'
    OBVIOUS
<1>a. main \in LoopStates
  BY DEF TypeOK
<1> USE DEF HandleInv, Quiet, Live
<1>1. CASE StoppingStep
  <2>1. \A t \in Threads : th'[t].pc = th[t].pc
    BY <1>1, StopStep DEF StoppingStep, PlayText, StopPlaying, PlayWakeResponse
  <2>2. UNCHANGED handle /\ (UNCHANGED main \/ main' \in
          {[AtRecv EXCEPT !.pc = "join", !.cmd = "text"],
           [AtRecv EXCEPT !.pc = "wake", !.cmd = "wake"]})
    BY <1>1 DEF StoppingStep, PlayText, StopPlaying, PlayWakeResponse, Begin
  <2> QED
    BY <2>1, <2>2 DEF AtRecv
<1>2. CASE PlayAudioFile
  BY <1>2 DEF PlayAudioFile, Begin, AtRecv
<1>3. CASE WakeFile
  BY <1>3, <1>a DEF WakeFile, At, Goto, LoopStates
<1>4. CASE JoinTest \/ JoinCall
  BY <1>4, <1>a, TtsAssumption
     DEF JoinTest, JoinCall, At, Goto, AfterJoin, LoopStates, TypeOK
<1>5. CASE JoinReturns
  <2>1. \A t \in Threads : th'[t].pc = "free"
    BY <1>5, TtsAssumption DEF JoinReturns, At, NoPlay, TypeOK
  <2>2. /\ main'.pc \in {"request", "create"} /\ main'.cmd = main.cmd
    BY <1>5, <1>a DEF JoinReturns, AfterJoin, Goto, LoopStates
  <2> QED
    BY <2>1, <2>2
<1>6. CASE RequestText
  BY <1>6, <1>a DEF RequestText, At, Goto, Finish, AtRecv, LoopStates
<1>7. CASE Put
  BY <1>7, <1>a DEF Put, At, Goto, LoopStates
<1>8. CASE Create
  <2>1. PICK t \in Threads : /\ th' = [th EXCEPT ![t] = Started(main.cmd)]
                             /\ handle' = t
    BY <1>8 DEF Create
  <2>2. \A u \in Threads : u # t => th'[u].pc = "free"
    BY <1>8, <2>1 DEF Create, At, TypeOK
  <2>3. main'.pc \in {"playing", "recv"}
    BY <1>8, <1>a DEF Create, Goto, Finish, AtRecv, LoopStates
  <2> QED
    BY <2>1, <2>2, <2>3
<1>9. CASE WakePlaying
  BY <1>9 DEF WakePlaying, Finish, AtRecv
<1>10. CASE Respawn
  BY <1>10 DEF Respawn, AtRecv, NoPlay
<1>11. ASSUME NEW t \in Threads, Play(t) PROVE HandleInv'
  BY <1>11, PlayStep, TtsAssumption
<1>12. CASE UNCHANGED vars
  BY <1>12 DEF vars
<1> QED
  BY <1>1, <1>2, <1>3, <1>4, <1>5, <1>6, <1>7, <1>8, <1>9, <1>10, <1>11, <1>12
     DEF Next, Loop, InCommand, StoppingStep

LEMMA SamplesStep ==
  TypeOK /\ HandleInv /\ SamplesInv /\ [Next]_vars => SamplesInv'
<1> SUFFICES ASSUME TypeOK, HandleInv, SamplesInv, [Next]_vars PROVE SamplesInv'
    OBVIOUS
<1>a. main \in LoopStates
  BY DEF TypeOK
<1>b. ASSUME UNCHANGED samples, ~Given, ~Given',
             \A t \in Threads : th'[t].pc = "take_text" <=> th[t].pc = "take_text"
      PROVE  SamplesInv'
  BY <1>b DEF SamplesInv
<1> USE DEF Given
<1>1. CASE StoppingStep
  <2>1. \A t \in Threads : th'[t].pc = th[t].pc
    BY <1>1, StopStep DEF StoppingStep, PlayText, StopPlaying, PlayWakeResponse
  <2>2. UNCHANGED samples /\ main.pc = "recv" /\ (UNCHANGED main \/ main' \in
          {[AtRecv EXCEPT !.pc = "join", !.cmd = "text"],
           [AtRecv EXCEPT !.pc = "wake", !.cmd = "wake"]})
    BY <1>1 DEF StoppingStep, PlayText, StopPlaying, PlayWakeResponse, Begin, At
  <2> QED
    BY <2>1, <2>2, <1>b DEF AtRecv
<1>2. CASE PlayAudioFile
  <2>1. /\ UNCHANGED <<samples, th>> /\ main.pc = "recv"
        /\ main' \in {main, [AtRecv EXCEPT !.pc = "put", !.cmd = "file"]}
    BY <1>2 DEF PlayAudioFile, Begin, At, given
  <2>2. main'.pc \in {"put", "recv"}
    BY <2>1 DEF AtRecv
  <2> QED
    BY <2>1, <2>2, <1>b
<1>3. CASE WakeFile \/ JoinTest \/ JoinCall \/ RequestText \/ WakePlaying
  <2>1. UNCHANGED <<samples, th>>
    BY <1>3 DEF WakeFile, JoinTest, JoinCall, RequestText, WakePlaying, given
  <2>2. ~Given /\ ~Given'
    <3>1. CASE WakeFile \/ RequestText \/ WakePlaying
      BY <3>1, <1>a DEF WakeFile, RequestText, WakePlaying, At, Goto, Finish,
                        AtRecv, LoopStates
    <3>2. CASE JoinTest \/ JoinCall
      BY <3>2, <1>a DEF JoinTest, JoinCall, At, Goto, AfterJoin, LoopStates
    <3> QED
      BY <1>3, <3>1, <3>2
  <2> QED
    BY <2>1, <2>2, <1>b
<1>4. CASE JoinReturns
  <2>1. \A t \in Threads : th'[t].pc = "take_text" <=> th[t].pc = "take_text"
    BY <1>4 DEF JoinReturns, Over, NoPlay, TypeOK
  <2> QED
    BY <1>4, <1>a, <1>b, <2>1
       DEF JoinReturns, At, AfterJoin, Goto, given, LoopStates
<1>5. CASE Put
  <2>1. CASE main.cmd = "text"
    BY <1>5, <1>a, <2>1 DEF Put, At, Goto, SamplesInv, LoopStates
  <2>2. CASE main.cmd # "text"
    BY <1>5, <1>a, <1>b, <2>2 DEF Put, At, Goto, LoopStates
  <2> QED
    BY <2>1, <2>2
<1>6. CASE Create
  <2>1. PICK t \in Threads : th' = [th EXCEPT ![t] = Started(main.cmd)]
    BY <1>6 DEF Create
  <2>2. \A u \in Threads : th[u].pc = "free"
    BY <1>6 DEF Create, At, HandleInv, Quiet, Live
  <2>3. samples' = samples /\ ~Given'
    BY <1>6, <1>a DEF Create, Goto, Finish, AtRecv, given, LoopStates
  <2>4. main.pc = "create"
    BY <1>6 DEF Create, At
  <2>5. CASE main.cmd = "text"
    <3>1. th'[t].pc = "take_text"
      BY <2>1, <2>5 DEF TypeOK, Started, NoPlay
    <3> QED
      BY <2>2, <2>3, <2>4, <2>5, <3>1 DEF SamplesInv
  <2>6. CASE main.cmd # "text"
    <3>1. \A u \in Threads : th'[u].pc # "take_text"
      BY <2>1, <2>2, <2>6 DEF TypeOK, Started, NoPlay
    <3> QED
      BY <2>2, <2>3, <2>4, <2>6, <3>1 DEF SamplesInv
  <2> QED
    BY <2>5, <2>6
<1>7. CASE Respawn
  BY <1>7 DEF Respawn, AtRecv, NoPlay, SamplesInv
<1>8. ASSUME NEW t \in Threads, TakeText(t) PROVE SamplesInv'
  <2>1. handle = t /\ main.pc # "create"
    BY <1>8 DEF TakeText, HandleInv, Quiet, Live
  <2>2. \A u \in Threads : th'[u].pc # "take_text"
    BY <1>8, <2>1 DEF TakeText, HandleInv, Live, TypeOK, ThreadStates
  <2> QED
    BY <1>8, <2>1, <2>2 DEF TakeText, SamplesInv
<1>9. ASSUME NEW t \in Threads, Play(t), ~TakeText(t) PROVE SamplesInv'
  <2>1. th[t].pc # "take_text" /\ UNCHANGED samples
    BY <1>9 DEF Play, TakeWav, Open, Check, Recheck, Write, Drain, SessionEnd,
                Done, Unwake, Clear, Step, given
  <2>2. \A u \in Threads : th'[u].pc = "take_text" <=> th[u].pc = "take_text"
    BY <1>9, <2>1, PlayStep
  <2>3. UNCHANGED main
    BY <1>9, PlayStep
  <2> QED
    BY <2>1, <2>2, <2>3 DEF SamplesInv
<1>10. CASE UNCHANGED vars
  BY <1>10 DEF vars, given, SamplesInv
<1> QED
  BY <1>1, <1>2, <1>3, <1>4, <1>5, <1>6, <1>7, <1>8, <1>9, <1>10
     DEF Next, Loop, InCommand, StoppingStep

\* tts:done is told early only for what is not the text spoken.
LEMMA DoneIsLate ==
  ASSUME NEW who, NEW c, TellDone(who, c), SessionInv,
         \/ c = "empty"
         \/ \A t \in Threads : Speaking(t) /\ th[t].plays = "text" => t = who
  PROVE  DoneMeansQuiet'
BY DEF TellDone, SessionInv, DoneMeansQuiet

LEMMA SessionStep ==
  IInv /\ [Next]_vars => SessionInv'
<1> SUFFICES ASSUME TypeOK, HandleInv, SamplesInv, SessionInv, [Next]_vars
             PROVE  SessionInv'
    BY DEF IInv
<1>a. main \in LoopStates
  BY DEF TypeOK
<1> DEFINE TextPut == main.pc = "put" /\ main.cmd = "text"
<1>b. ASSUME session => session', ~Given', ~TextPut', DoneMeansQuiet',
             \A t \in Threads : /\ th'[t].pc = th[t].pc \/ th'[t].pc = "free"
                                /\ th'[t].plays = th[t].plays \/ th'[t].pc = "free"
      PROVE  SessionInv'
  BY <1>b DEF SessionInv, Speaking, InLoop
<1> USE DEF Given
<1>1. CASE StoppingStep
  <2>1. \A t \in Threads : th'[t].pc = th[t].pc /\ th'[t].plays = th[t].plays
    BY <1>1, StopStep DEF StoppingStep, PlayText, StopPlaying, PlayWakeResponse
  <2>2. /\ UNCHANGED <<session, early>> /\ main.pc = "recv"
        /\ UNCHANGED main \/ main' \in
             {[AtRecv EXCEPT !.pc = "join", !.cmd = "text"],
              [AtRecv EXCEPT !.pc = "wake", !.cmd = "wake"]}
    BY <1>1 DEF StoppingStep, PlayText, StopPlaying, PlayWakeResponse, Begin,
                At, marks, hist
  <2>3. main'.pc \in {"recv", "join", "wake"}
    BY <2>2 DEF AtRecv
  <2>4. DoneMeansQuiet'
    BY <2>2, Zenon DEF SessionInv, DoneMeansQuiet
  <2> QED
    BY <2>1, <2>2, <2>3, <2>4, <1>b
<1>2. CASE PlayAudioFile
  <2>1. /\ UNCHANGED <<session, th>> /\ main.pc = "recv"
        /\ main' \in {main, [AtRecv EXCEPT !.pc = "put", !.cmd = "file"]}
    BY <1>2 DEF PlayAudioFile, Begin, At, marks
  <2>2. ~Given' /\ ~TextPut'
    BY <2>1 DEF AtRecv
  <2>3. ~session => \A t \in Threads : ~(Speaking(t) /\ th[t].plays = "text")
    BY DEF SessionInv
  <2>4. DoneMeansQuiet'
    <3>1. CASE TellDone(NoThread, "empty")
      BY <3>1, DoneIsLate
    <3>2. CASE ~session /\ TellDone(NoThread, "file")
      BY <3>2, <2>3, DoneIsLate
    <3>3. CASE UNCHANGED hist
      BY <3>3, Zenon DEF hist, SessionInv, DoneMeansQuiet
    <3> QED
      BY <1>2, <3>1, <3>2, <3>3 DEF PlayAudioFile
  <2> QED
    BY <2>1, <2>2, <2>4, <1>b
<1>3. CASE WakeFile \/ JoinTest \/ JoinCall
  <2>1. UNCHANGED <<session, th, hist>>
    BY <1>3 DEF WakeFile, JoinTest, JoinCall, marks
  <2>2. DoneMeansQuiet'
    BY <2>1, Zenon DEF hist, SessionInv, DoneMeansQuiet
  <2>3. ~Given' /\ ~TextPut'
    BY <1>3, <1>a DEF WakeFile, JoinTest, JoinCall, At, Goto, AfterJoin,
                      LoopStates, HandleInv
  <2> QED
    BY <2>1, <2>2, <2>3, <1>b
<1>4. CASE JoinReturns
  <2>1. UNCHANGED <<session, hist>>
    BY <1>4 DEF JoinReturns, marks
  <2>2. DoneMeansQuiet'
    BY <2>1, Zenon DEF hist, SessionInv, DoneMeansQuiet
  <2>3. ~Given' /\ ~TextPut'
    BY <1>4, <1>a DEF JoinReturns, At, Goto, AfterJoin, LoopStates
  <2>4. \A t \in Threads : th'[t] = th[t] \/ th'[t].pc = "free"
    BY <1>4 DEF JoinReturns, NoPlay, TypeOK
  <2> QED
    BY <2>1, <2>2, <2>3, <2>4, <1>b
<1>5. CASE RequestText
  <2>1. \A t \in Threads : th[t].pc = "free"
    BY <1>5 DEF RequestText, At, HandleInv, Quiet, Live
  <2>2. DoneMeansQuiet'
    <3>1. CASE TellDone(NoThread, "text")
      BY <3>1, <2>1, DoneIsLate DEF Speaking, InLoop
    <3>2. CASE UNCHANGED hist
      BY <3>2, Zenon DEF hist, SessionInv, DoneMeansQuiet
    <3> QED
      BY <1>5, <3>1, <3>2 DEF RequestText
  <2>3. main'.pc = "recv" \/ (main'.pc = "put" /\ session')
    BY <1>5, <1>a DEF RequestText, Goto, Finish, AtRecv, LoopStates
  <2>4. UNCHANGED th
    BY <1>5 DEF RequestText
  <2> QED
    BY <2>1, <2>2, <2>3, <2>4 DEF SessionInv, Speaking, InLoop
<1>6. CASE Put
  <2>1. UNCHANGED <<session, th, hist>> /\ main.pc = "put"
    BY <1>6 DEF Put, At, marks
  <2>2. DoneMeansQuiet'
    BY <2>1, Zenon DEF hist, SessionInv, DoneMeansQuiet
  <2>3. /\ main.cmd = "text" => main'.pc = "create"
        /\ main.cmd # "text" => main'.pc = "join"
    BY <1>6, <1>a DEF Put, Goto, LoopStates
  <2> QED
    BY <2>1, <2>2, <2>3 DEF SessionInv, Speaking, InLoop
<1>7. CASE Create
  <2>1. PICK t \in Threads : th' = [th EXCEPT ![t] = Started(main.cmd)]
    BY <1>7 DEF Create
  <2>2. \A u \in Threads : th[u].pc = "free"
    BY <1>7 DEF Create, At, HandleInv, Quiet, Live
  <2>3. UNCHANGED <<session, hist>> /\ main.pc = "create"
    BY <1>7 DEF Create, At, marks
  <2>4. DoneMeansQuiet'
    BY <2>3, Zenon DEF hist, SessionInv, DoneMeansQuiet
  <2>5. main'.pc \in {"recv", "playing"}
    BY <1>7, <1>a DEF Create, Goto, Finish, AtRecv, LoopStates
  <2>6. /\ main.cmd = "text" => th'[t].pc = "take_text"
        /\ main.cmd # "text" => th'[t].pc = "take_wav"
        /\ \A u \in Threads : u # t => th'[u].pc = "free"
    BY <2>1, <2>2 DEF TypeOK, Started, NoPlay
  <2> QED
    BY <2>3, <2>4, <2>5, <2>6 DEF SessionInv, Speaking, InLoop
<1>8. CASE WakePlaying
  <2>1. UNCHANGED <<session, th>> /\ main'.pc = "recv"
    BY <1>8 DEF WakePlaying, Finish, AtRecv, marks
  <2>2. DoneMeansQuiet'
    <3>1. CASE handle = NoThread
      <4>1. TellDone(NoThread, "wake")
        BY <1>8, <3>1 DEF WakePlaying
      <4>2. \A t \in Threads : th[t].pc = "free"
        BY <3>1, TtsAssumption DEF HandleInv, Live
      <4> QED
        BY <4>1, <4>2, DoneIsLate DEF Speaking, InLoop
    <3>2. CASE handle # NoThread
      <4>1. UNCHANGED hist
        BY <1>8, <3>2 DEF WakePlaying
      <4> QED
        BY <4>1, Zenon DEF hist, SessionInv, DoneMeansQuiet
    <3> QED
      BY <3>1, <3>2
  <2> QED
    BY <2>1, <2>2, <1>b
<1>9. CASE Respawn
  <2>1. UNCHANGED hist
    BY <1>9 DEF Respawn
  <2>2. DoneMeansQuiet'
    BY <2>1, Zenon DEF hist, SessionInv, DoneMeansQuiet
  <2>3. main'.pc = "recv" /\ \A t \in Threads : th'[t].pc = "free"
    BY <1>9 DEF Respawn, AtRecv, NoPlay
  <2> QED
    BY <2>2, <2>3 DEF SessionInv, Speaking, InLoop
<1>10. ASSUME NEW t \in Threads, Play(t) PROVE SessionInv'
  <2>1. /\ \A u \in Threads : u # t => th'[u] = th[u] /\ th[u].pc = "free"
        /\ UNCHANGED main /\ main.pc # "create" /\ ~TextPut
    BY <1>10, PlayStep DEF HandleInv, Quiet, Live
  <2>2. DoneMeansQuiet'
    <3>1. CASE \E c : TellDone(t, c)
      BY <3>1, <2>1, DoneIsLate DEF Speaking, InLoop
    <3>2. CASE UNCHANGED early
      BY <3>2, Zenon DEF SessionInv, DoneMeansQuiet
    <3> QED
      BY <1>10, <3>1, <3>2
         DEF Play, TakeText, TakeWav, Open, Check, Recheck, Write, Drain,
             SessionEnd, Done, Unwake, Clear, hist
  <2>3. th'[t].pc # "take_text"
    BY <1>10, PlayStep
  <2>4. Speaking(t)' /\ th'[t].plays = "text" => session'
    <3>1. CASE TakeText(t)
      BY <3>1 DEF TakeText, SessionInv, marks
    <3>2. CASE TakeWav(t)
      BY <3>2 DEF TakeWav, TypeOK, Files, ThreadStates
    <3>3. CASE Open(t) \/ Check(t) \/ Recheck(t)
      <4>1. Speaking(t) /\ th'[t].plays = th[t].plays /\ UNCHANGED session
        BY <3>3 DEF Open, Check, Recheck, Step, Speaking, InLoop, TypeOK,
                    ThreadStates, marks
      <4> QED
        BY <4>1 DEF SessionInv
    <3>4. CASE Write(t)
      <4>1. Speaking(t) /\ th'[t].plays = th[t].plays /\ UNCHANGED session
        BY <3>4 DEF Write, Speaking, InLoop, TypeOK, ThreadStates, marks
      <4> QED
        BY <4>1 DEF SessionInv
    <3>5. CASE Drain(t) \/ SessionEnd(t) \/ Done(t) \/ Unwake(t)
      BY <3>5 DEF Drain, SessionEnd, Done, Unwake, Step, Speaking, InLoop,
                  TypeOK, ThreadStates
    <3>6. CASE Clear(t)
      BY <3>6 DEF Clear, NoPlay, Speaking, InLoop, TypeOK
    <3> QED
      BY <1>10, <3>1, <3>2, <3>3, <3>4, <3>5, <3>6 DEF Play
  <2> QED
    BY <2>1, <2>2, <2>3, <2>4 DEF SessionInv, Speaking, InLoop
<1>11. CASE UNCHANGED vars
  <2>1. UNCHANGED <<main, session, th, hist>>
    BY <1>11 DEF vars, marks
  <2>2. DoneMeansQuiet'
    BY <2>1, Zenon DEF hist, SessionInv, DoneMeansQuiet
  <2> QED
    BY <2>1, <2>2 DEF SessionInv, Speaking, InLoop
<1> QED
  BY <1>1, <1>2, <1>3, <1>4, <1>5, <1>6, <1>7, <1>8, <1>9, <1>10, <1>11
     DEF Next, Loop, InCommand, StoppingStep

LEMMA InvHolds == Spec => []IInv
<1>1. IInv /\ [Next]_vars => IInv'
  BY TypeStep, HandleStep, SamplesStep, SessionStep DEF IInv
<1> QED
  BY InitInv, <1>1, PTL DEF Spec

\* At most one announcement is on the PCM device, in every order of commands
\* and whatever fails.
THEOREM OnlyOneSpeaks == Spec => []OneSpeaker
<1>1. IInv => OneSpeaker
  BY DEF IInv, HandleInv, Live, OneSpeaker, Speaking, InLoop
<1> QED
  BY InvHolds, <1>1, PTL

\* Every synthesised text reaches the thread that was started for it.
THEOREM TextsAreHandedOver == Spec => []TextIsHandedOver
<1>1. IInv => TextIsHandedOver
  BY DEF IInv, HandleInv, SamplesInv, Given, Quiet, Live, TextIsHandedOver
<1> QED
  BY InvHolds, <1>1, PTL

\* Nobody tells the player tts:done for anything else while a text is spoken,
\* but for the answer to a command without a path.
THEOREM DoneComesWithQuiet == Spec => []DoneMeansQuiet
<1>1. IInv => DoneMeansQuiet
  BY Zenon DEF IInv, SessionInv, DoneMeansQuiet
<1> QED
  BY InvHolds, <1>1, PTL

-----------------------------------------------------------------------------
(* A stop is prompt: what is noted about a thread counts from the stop, and   *)
(* while the flag stays up nobody enters another period.                      *)

NotCounting == {"free", "ended", "take_text", "take_wav", "open"}

Prompt(t) ==
  /\ th[t].pc \in NotCounting => th[t].after = 0
  /\ stop => /\ th[t].after <= 1
             /\ th[t].pc \in {"recheck", "write"} => th[t].after = 0

PromptInv == \A t \in Threads : Prompt(t)

\* Where a thread's step takes it, and what it has played since the stop.
LEMMA PlayCounts ==
  ASSUME NEW t \in Threads, Play(t), TypeOK
  PROVE  \/ th'[t].pc = "free" /\ th'[t].after = 0
         \/ /\ th'[t].after = th[t].after
            /\ th'[t].pc \in NotCounting => th[t].pc \in NotCounting
            /\ th'[t].pc \in {"recheck", "write"} => ~stop
         \/ /\ th[t].pc = "write" /\ th'[t].pc = "check"
            /\ th'[t].after \in {th[t].after + 1, 0}
<1> USE DEF NotCounting
<1>1. CASE TakeText(t) \/ TakeWav(t)
  BY <1>1 DEF TakeText, TakeWav, TypeOK, ThreadStates
<1>2. CASE Check(t) \/ Recheck(t)
  BY <1>2 DEF Check, Recheck, Step, Stopped, TypeOK, ThreadStates
<1>3. CASE Write(t)
  BY <1>3 DEF Write, TypeOK, ThreadStates
<1>4. CASE Open(t) \/ Drain(t) \/ SessionEnd(t) \/ Done(t) \/ Unwake(t)
  BY <1>4 DEF Open, Drain, SessionEnd, Done, Unwake, Step, TypeOK, ThreadStates
<1>5. CASE Clear(t)
  BY <1>5 DEF Clear, TypeOK, NoPlay
<1> QED
  BY <1>1, <1>2, <1>3, <1>4, <1>5 DEF Play

LEMMA PromptStep == TypeOK /\ PromptInv /\ [Next]_vars => PromptInv'
<1> SUFFICES ASSUME TypeOK, PromptInv, [Next]_vars, NEW t \in Threads
             PROVE  Prompt(t)'
    BY DEF PromptInv
<1>0. Prompt(t) /\ th[t] \in ThreadStates /\ Periods \in Nat
  BY TtsAssumption DEF PromptInv, TypeOK
<1>1. CASE StoppingStep
  <2>1. tts_playback_stop
    BY <1>1 DEF StoppingStep, PlayText, StopPlaying, PlayWakeResponse
  <2>2. CASE Over(t)
    <3>1. th'[t] = th[t]
      BY <2>1, <2>2 DEF tts_playback_stop
    <3> QED
      BY <1>0, <2>2, <3>1 DEF Prompt, Over, NotCounting
  <2>3. CASE ~Over(t)
    <3>1. th'[t] = [th[t] EXCEPT !.told = TRUE, !.after = 0]
      BY <2>1, <2>3 DEF tts_playback_stop
    <3>2. th'[t].after = 0
      BY <1>0, <3>1 DEF ThreadStates
    <3> QED
      BY <3>2 DEF Prompt
  <2> QED
    BY <2>2, <2>3
<1>2. CASE SilentStep \/ UNCHANGED vars
  <2>1. UNCHANGED th
    BY <1>2 DEF SilentStep, PlayAudioFile, WakeFile, JoinTest, JoinCall,
                RequestText, Put, WakePlaying, vars
  <2>2. stop' => stop
    BY <1>2 DEF SilentStep, PlayAudioFile, WakeFile, JoinTest, JoinCall,
                RequestText, Put, WakePlaying, vars, given
  <2> QED
    BY <1>0, <2>1, <2>2 DEF Prompt
<1>3. CASE JoinReturns \/ Create
  <2>1. /\ UNCHANGED stop
        /\ th'[t] = th[t] \/ th'[t].after = 0
    BY <1>3, <1>0 DEF JoinReturns, Create, Started, NoPlay, TypeOK, given
  <2>2. th'[t] = th[t] \/ th'[t].after = 0
    BY <2>1
  <2> QED
    BY <1>0, <2>1, <2>2 DEF Prompt
<1>4. CASE Respawn
  <2>1. th'[t].after = 0
    BY <1>4 DEF Respawn, NoPlay
  <2> QED
    BY <2>1 DEF Prompt
<1>5. ASSUME NEW u \in Threads, Play(u) PROVE Prompt(t)'
  <2>1. UNCHANGED stop
    BY <1>5, PlayStep
  <2>2. CASE u # t
    <3>1. th'[t] = th[t]
      BY <1>5, <2>2, PlayStep
    <3> QED
      BY <1>0, <2>1, <3>1 DEF Prompt
  <2>3. CASE u = t
    <3>1. th[t].after \in Nat
      BY <1>0 DEF ThreadStates
    <3>2. \/ th'[t].pc = "free" /\ th'[t].after = 0
          \/ /\ th'[t].after = th[t].after
             /\ th'[t].pc \in NotCounting => th[t].pc \in NotCounting
             /\ th'[t].pc \in {"recheck", "write"} => ~stop
          \/ /\ th[t].pc = "write" /\ th'[t].pc = "check"
             /\ th'[t].after \in {th[t].after + 1, 0}
      BY <1>5, <2>3, PlayCounts
    <3> QED
      BY <1>0, <2>1, <3>1, <3>2 DEF Prompt, NotCounting
  <2> QED
    BY <2>2, <2>3
<1> QED
  BY <1>1, <1>2, <1>3, <1>4, <1>5
     DEF Next, Loop, InCommand, StoppingStep, SilentStep

\* After a stop of the speech at most the period being written is played
\* (tts_playback_stop and the two looks at playback_should_stop).
THEOREM StopsArePrompt == Spec => []StopIsPrompt
<1>1. Init => PromptInv
  <2>1. ASSUME Init, NEW t \in Threads PROVE th[t] = NoPlay /\ stop = FALSE
    BY <2>1 DEF Init
  <2>2. NoPlay.after = 0
    BY DEF NoPlay
  <2> QED
    BY <2>1, <2>2 DEF PromptInv, Prompt
<1>2. TypeOK /\ PromptInv => StopIsPrompt
  BY DEF PromptInv, Prompt, StopIsPrompt
<1> QED
  BY <1>1, <1>2, PromptStep, TtsTypeCorrect, PTL DEF Spec

=============================================================================
