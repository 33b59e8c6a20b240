---------------------------- MODULE DialogueProofs ----------------------------
(***************************************************************************)
(* The audio focus always says what the player does, and nothing starts    *)
(* the music that the user has silenced, for any number of commands and    *)
(* events and in every order of the three processes.                       *)
(*                                                                         *)
(* The invariant says that silence is not what was asked for last while    *)
(* anything is under way that may yet start the music: a pause for an      *)
(* announcement, one that a song waits for, a search, an end of the list.  *)
(***************************************************************************)
EXTENDS Dialogue, TLAPS

\* The focus of the player x fits what it does.
Fits(x) ==
  /\ x.st = "stop"   => x.focus \in {"idle", "tts"}
  /\ x.st = "play"   => x.focus = "music"
  /\ x.st = "paused" => x.focus \in {"manual", "for_tts", "resuming"}
Good(x) == x \in Player /\ Fits(x)

\* The player x plays, or will.
Wants(x) == x.st = "play" \/ ShouldResume(x) \/ x.defer
StartsOnlyWhenAsked == Wants(p) \/ query # {} \/ eof => wish # "silence"

IInv == TypeOK /\ Good(p) /\ StartsOnlyWhenAsked

-----------------------------------------------------------------------------
(* The player's operators *)

LEMMA Resumption ==
  ASSUME NEW x, Good(x)
  PROVE  /\ Good(PrepareResume(x)) /\ PrepareResume(x).st = x.st
         /\ PrepareResume(x).defer = x.defer
         /\ ShouldResume(PrepareResume(x)) = ShouldResume(x)
         /\ Good(CancelResume(x)) /\ CancelResume(x).st = x.st
         /\ CancelResume(x).defer = x.defer /\ ~ShouldResume(CancelResume(x))
BY DEF Good, Fits, Player, Focus, ShouldResume, PrepareResume, CancelResume

LEMMA FollowUp ==
  ASSUME NEW x, Good(x), NEW b \in BOOLEAN
  PROVE  /\ Good([x EXCEPT !.follow = b]) /\ Wants([x EXCEPT !.follow = b]) = Wants(x)
         /\ ShouldResume([x EXCEPT !.follow = b]) = ShouldResume(x)
         /\ [x EXCEPT !.follow = b].st = x.st /\ [x EXCEPT !.follow = b].defer = x.defer
         /\ [x EXCEPT !.follow = b].focus = x.focus
BY DEF Good, Fits, Player, Focus, ShouldResume, Wants

LEMMA Deferring ==
  ASSUME NEW x, Good(x), NEW b \in BOOLEAN
  PROVE  /\ Good([x EXCEPT !.defer = b]) /\ (b = FALSE /\ Wants([x EXCEPT !.defer = b]) => Wants(x))
BY DEF Good, Fits, Player, Focus, ShouldResume, Wants

LEMMA Stopping ==
  ASSUME NEW x, Good(x)
  PROVE  /\ Good(Stopped(x)) /\ (Wants(Stopped(x)) <=> x.defer)
         /\ Good(StopPlay(x)) /\ (Wants(StopPlay(x)) <=> x.defer)
         /\ StopPlay(x).defer = x.defer
BY DEF Good, Fits, Player, Focus, ShouldResume, Wants, Stopped, StopPlay

LEMMA Starting ==
  ASSUME NEW x, Good(x)
  PROVE  /\ \A y \in StartPlay(x) : Good(y)
         /\ \A y \in SkipSong(x) : Good(y)
BY DEF Good, Fits, Player, Focus, StartPlay, SkipSong, Playing

LEMMA Suspending ==
  ASSUME NEW x, Good(x), NEW why \in {"manual", "for_tts"}
  PROVE  /\ Good(Suspend(x, why))
         /\ Wants(Suspend(x, why)) => Wants(x)
         /\ Wants(Suspend(x, "manual")) => x.defer \/ ShouldResume(x)
         /\ x.st = "play" => (Wants(Suspend(x, "manual")) <=> x.defer)
BY DEF Good, Fits, Player, Focus, ShouldResume, Wants, Suspend

-----------------------------------------------------------------------------
(* What is said *)

\* The part of the invariant that a command may disturb
CommandOK ==
  /\ Good(p) /\ StartsOnlyWhenAsked
  /\ tts_fifo \in Seq({"text", "file", "wake", "empty"})
  /\ asr_ctrl \in SUBSET {"online", "offline"} /\ online \in BOOLEAN
  /\ query \in SUBSET {"asked", "found"} /\ eof \in BOOLEAN /\ wish \in Wishes

LEMMA CommandOKNow == IInv => CommandOK
BY DEF IInv, CommandOK, TypeOK

LEMMA Saying ==
  ASSUME CommandOK, SayNothing \/ \E what \in {"text", "file"} : Say(what)
  PROVE  tts_fifo' \in Seq({"text", "file", "wake", "empty"})
BY DEF CommandOK, Say, SayNothing

LEMMA CommandStep ==
  ASSUME CommandOK, Good(p'), StartsOnlyWhenAsked', wish' \in Wishes, Elsewhere,
         SayNothing \/ \E what \in {"text", "file"} : Say(what)
  PROVE  CommandOK'
BY Saying DEF CommandOK, Elsewhere

LEMMA StopCommandOK == ASSUME CommandOK, StopCommand PROVE CommandOK'
<1>1. Good(p') /\ (Wants(p') <=> p.defer)
  BY Stopping DEF StopCommand, CommandOK
<1>2. StartsOnlyWhenAsked' /\ wish' \in Wishes
  BY <1>1 DEF StopCommand, Silence, Outstanding, Wishes, Elsewhere, StartsOnlyWhenAsked,
              CommandOK, Wants
<1> QED
  BY <1>1, <1>2, CommandStep DEF StopCommand

LEMMA PauseCommandOK == ASSUME CommandOK, PauseCommand PROVE CommandOK'
<1>1. Good(CancelResume(p)) /\ CancelResume(p).defer = p.defer
      /\ ~ShouldResume(CancelResume(p))
  BY Resumption DEF CommandOK
<1>2. Good(p') /\ (Wants(p') => p.defer)
  BY <1>1, Suspending DEF PauseCommand
<1>3. StartsOnlyWhenAsked' /\ wish' \in Wishes
  BY <1>2 DEF PauseCommand, Silence, Outstanding, Wishes, Elsewhere, StartsOnlyWhenAsked,
              CommandOK, Wants
<1> QED
  BY <1>2, <1>3, CommandStep DEF PauseCommand

LEMMA PlayCommandOK == ASSUME CommandOK, PlayCommand PROVE CommandOK'
<1>1. Good(p')
  BY Resumption, Starting DEF PlayCommand, CommandOK
<1> QED
  BY <1>1, CommandStep DEF PlayCommand, StartsOnlyWhenAsked, Music, Wishes

LEMMA AdjustCommandOK == ASSUME CommandOK, AdjustCommand PROVE CommandOK'
<1> DEFINE x == PrepareResume(Unheard(p))
<1>1. Good(p) /\ Good(Unheard(p)) /\ ShouldResume(Unheard(p)) = ShouldResume(p)
  BY FollowUp DEF CommandOK, Unheard
<1>2. Good(x)
  BY <1>1, Resumption
<1>3. \/ /\ p' = (IF ShouldResume(p) THEN x ELSE p)
         /\ \E what \in {"text", "file"} : Say(what)
      \/ p' \in (IF ShouldResume(p) THEN StartPlay(x) ELSE {p}) /\ SayNothing
  BY DEF AdjustCommand
<1> HIDE DEF x
<1>0. \/ ShouldResume(p) /\ (p' = x \/ p' \in StartPlay(x))
      \/ p' = p
  BY <1>3
<1>4. Good(p')
  BY <1>0, <1>1, <1>2, Starting
<1>5. wish' = wish /\ Elsewhere
  BY DEF AdjustCommand, Keep
<1>6. wish \in Wishes /\ StartsOnlyWhenAsked
  BY DEF CommandOK
<1>7. StartsOnlyWhenAsked'
  BY <1>0, <1>5, <1>6 DEF StartsOnlyWhenAsked, Wants, Elsewhere
<1> QED
  BY <1>3, <1>4, <1>5, <1>6, <1>7, CommandStep

\* A song is announced, or the search has failed.
LEMMA AnswerOK ==
  ASSUME CommandOK, Answer
  PROVE  Good(p') /\ (Wants(p') => Wants(p) \/ p'.defer)
         /\ \E what \in {"text", "file"} : Say(what)
<1>1. CASE p' = [p EXCEPT !.defer = TRUE] /\ Say("text")
  <2>1. p'.defer
    BY <1>1 DEF CommandOK, Good, Player
  <2> QED
    BY <1>1, <2>1, Deferring DEF CommandOK
<1>2. CASE p' = Unheard(p) /\ \E what \in {"text", "file"} : Say(what)
  BY <1>2, FollowUp DEF CommandOK, Unheard
<1> QED
  BY <1>1, <1>2 DEF Answer

LEMMA QueryCommandOK == ASSUME CommandOK, QueryCommand PROVE CommandOK'
<1>1. CASE query' = query \cup {"asked"} /\ Music
           /\ UNCHANGED <<p, tts_fifo, online, asr_ctrl, eof>>
  BY <1>1 DEF CommandOK, StartsOnlyWhenAsked, Music, Wishes
<1>2. CASE Answer /\ Music /\ Elsewhere
  BY <1>2, AnswerOK, CommandStep DEF StartsOnlyWhenAsked, Music, Wishes
<1>3. CASE p' = Unheard(p) /\ Say("file") /\ Keep /\ Elsewhere
  <2>1. Good(p') /\ Wants(p') = Wants(p)
    BY <1>3, FollowUp DEF CommandOK, Unheard
  <2>2. StartsOnlyWhenAsked' /\ wish' \in Wishes
    BY <1>3, <2>1 DEF CommandOK, StartsOnlyWhenAsked, Keep, Elsewhere
  <2> QED
    BY <1>3, <2>1, <2>2, CommandStep
<1> QED
  BY <1>1, <1>2, <1>3 DEF QueryCommand

LEMMA FallbackOK ==
  ASSUME NEW x, Good(x), Fallback(x)
  PROVE  Good(p') /\ (Wants(p') => Wants(x)) /\ Say("file")
<1>1. Good(Unheard(x)) /\ Wants(Unheard(x)) = Wants(x)
  BY FollowUp DEF Unheard
<1>2. p' = CancelResume(Unheard(x)) /\ Say("file")
  BY DEF Fallback
<1> QED
  BY <1>1, <1>2, Resumption DEF Wants

LEMMA HotCommandOK == ASSUME CommandOK, HotCommand PROVE CommandOK'
<1> DEFINE x == StopPlay(p)
<1>1. Good(x)
  BY Stopping DEF CommandOK
<1>2. /\ \/ p' = [x EXCEPT !.defer = TRUE] /\ Say("text")
         \/ p' = Unheard(x) /\ Say("text")
         \/ Fallback(x)
      /\ Music /\ Elsewhere
  BY DEF HotCommand
<1> HIDE DEF x
<1>3. Good(p') /\ \E what \in {"text", "file"} : Say(what)
  BY <1>1, <1>2, Deferring, FollowUp, FallbackOK DEF Unheard
<1> QED
  BY <1>2, <1>3, CommandStep DEF StartsOnlyWhenAsked, Music, Wishes

LEMMA ChatCommandOK == ASSUME CommandOK, ChatCommand \/ UnknownCommand PROVE CommandOK'
<1>1. Good(p') /\ (Wants(p') => Wants(p)) /\ \E what \in {"text", "file"} : Say(what)
  BY FollowUp, FallbackOK DEF ChatCommand, UnknownCommand, CommandOK, Unheard
<1>2. StartsOnlyWhenAsked' /\ wish' \in Wishes
  BY <1>1 DEF ChatCommand, UnknownCommand, CommandOK, StartsOnlyWhenAsked, Keep, Elsewhere
<1> QED
  BY <1>1, <1>2, CommandStep DEF ChatCommand, UnknownCommand

LEMMA NoopCommandOK == ASSUME CommandOK, NoopCommand PROVE CommandOK'
<1>1. Good(Unheard(p)) /\ Wants(Unheard(p)) = Wants(p)
  BY FollowUp DEF CommandOK, Unheard
<1>2. Good(p') /\ (Wants(p') => Wants(p))
  BY <1>1, Resumption DEF NoopCommand, Wants
<1>3. StartsOnlyWhenAsked' /\ wish' \in Wishes
  BY <1>2 DEF NoopCommand, CommandOK, StartsOnlyWhenAsked, Keep, Elsewhere
<1> QED
  BY <1>2, <1>3, CommandStep DEF NoopCommand

\* Both ways to switch the mode, spoken or not
LEMMA SwitchOK ==
  ASSUME CommandOK, SwitchOffline \/ SwitchOnline, UNCHANGED <<query, wish>>
  PROVE  CommandOK'
<1>1. /\ Good(p') /\ (Wants(p') => Wants(p))
      /\ Say("file") /\ online' \in BOOLEAN
      /\ asr_ctrl' \in SUBSET {"online", "offline"}
  BY Stopping DEF SwitchOffline, SwitchOnline, NoSwitch, GoOffline, GoOnline, CommandOK,
                  Wants
<1>2. eof' \in BOOLEAN /\ (eof' => eof)
  BY DEF SwitchOffline, SwitchOnline, CommandOK
<1> QED
  BY <1>1, <1>2, Saying DEF CommandOK, StartsOnlyWhenAsked

LEMMA UnderstoodOK ==
  ASSUME CommandOK, Understood, astray \subseteq {"lost", "cancelled"} PROVE CommandOK' /\ astray' \subseteq {"lost", "cancelled"}
<1>1. astray' \subseteq {"lost", "cancelled"}
  BY DEF Understood, Astray, Cancelled
<1>2. CASE ModeCommand
  BY <1>1, <1>2, SwitchOK DEF ModeCommand, Keep
<1>3. CASE StopCommand \/ PauseCommand \/ PlayCommand \/ AdjustCommand
  BY <1>1, <1>3, StopCommandOK, PauseCommandOK, PlayCommandOK, AdjustCommandOK
<1>4. CASE QueryCommand \/ HotCommand \/ ChatCommand \/ UnknownCommand \/ NoopCommand
  BY <1>1, <1>4, QueryCommandOK, HotCommandOK, ChatCommandOK, NoopCommandOK
<1>5. \/ ModeCommand \/ StopCommand \/ PauseCommand \/ PlayCommand \/ AdjustCommand
      \/ QueryCommand \/ HotCommand \/ ChatCommand \/ UnknownCommand \/ NoopCommand
  BY DEF Understood, Carried
<1> QED
  BY <1>1, <1>2, <1>3, <1>4, <1>5

LEMMA TimedOutOK == ASSUME CommandOK, TimedOut PROVE CommandOK'
<1> DEFINE x == PrepareResume(Unheard(p))
<1>1. Good(Unheard(p)) /\ Wants(Unheard(p)) = Wants(p)
      /\ ShouldResume(Unheard(p)) = ShouldResume(p)
  BY FollowUp DEF CommandOK, Unheard
<1>2. Good(x) /\ (Wants(x) => Wants(p))
  BY <1>1, Resumption DEF Wants
<1>3. p' \in (IF ShouldResume(p) THEN StartPlay(x) ELSE {x}) /\ SayNothing /\ Keep
      /\ Elsewhere
  BY DEF TimedOut
<1> HIDE DEF x
<1>4. Good(p')
  BY <1>2, <1>3, Starting
<1>5. ShouldResume(p) \/ p' = x
  BY <1>3
<1>6. StartsOnlyWhenAsked' /\ wish' \in Wishes
  BY <1>2, <1>3, <1>5 DEF CommandOK, StartsOnlyWhenAsked, Keep, Elsewhere, Wants
<1> QED
  BY <1>3, <1>4, <1>6, CommandStep

-----------------------------------------------------------------------------
(* Every step *)

LEMMA InitOK == ASSUME Init PROVE IInv
<1> USE DialogueAssumption
<1> DEFINE x == [st |-> "stop", focus |-> "idle", follow |-> FALSE, defer |-> FALSE]
<1>1. Good(x) /\ Good(Playing(x)) /\ ~Wants(x) /\ Playing(x).st = "play"
      /\ x.st = "stop"
  BY DEF Good, Fits, Player, Focus, Playing, Wants, ShouldResume
<1>2. p \in {x, Playing(x)}
      /\ wish = (IF p.st = "play" THEN "music" ELSE "silence") /\ query = {} /\ eof = FALSE
  BY DEF Init
<1> HIDE DEF x
<1>3. Good(p) /\ (Wants(p) => wish # "silence") /\ wish \in Wishes
  BY <1>1, <1>2 DEF Wishes
<1>4. StartsOnlyWhenAsked
  BY <1>2, <1>3 DEF StartsOnlyWhenAsked
<1>5. p \in Player
  BY <1>3 DEF Good
<1>6. /\ tts_fifo \in Seq({"text", "file", "wake", "empty"})
      /\ tts \in [cmd : {"none", "text", "file"}, plays : {"none", "text", "wav"},
                  wake : BOOLEAN]
      /\ left \in Nat
  BY DEF Init
<1>7. TypeOK
  BY <1>2, <1>3, <1>5, <1>6 DEF Init, TypeOK
<1> QED
  BY <1>3, <1>4, <1>7 DEF IInv

\* What leaves the player alone keeps the invariant as far as its own variables
\* are typed.
LEMMA PlayerUntouched ==
  ASSUME IInv, UNCHANGED plVars, TypeOK'
  PROVE  IInv'
BY DEF IInv, plVars, StartsOnlyWhenAsked, Wants, Good, Fits, ShouldResume

LEMMA EarOK ==
  ASSUME IInv, WakeUp \/ WakeDone \/ Listen \/ ProcessCtrl
  PROVE  IInv'
<1> USE DEF IInv, TypeOK, earVars, ttsVars, plVars
<1>1. CASE WakeUp
  <2>1. tts_fifo' \in Seq({"text", "file", "wake", "empty"})
    BY <1>1 DEF WakeUp
  <2> QED
    BY <1>1, <2>1, PlayerUntouched DEF WakeUp, Event
<1>2. CASE WakeDone
  BY <1>2, PlayerUntouched DEF WakeDone
<1>3. CASE Listen
  <2>1. PICK line \in {"text", "timeout"} : Heard(line)
    BY <1>3 DEF Listen, Recognised, check_asr_timeout
  <2>2. /\ ear' = "kws" /\ asr_fifo' \in {"text", "timeout"}
        /\ UNCHANGED <<hears, asr_ctrl, kws_fifo, ttsVars, plVars, left, astray>>
    BY <2>1 DEF Heard, Written
  <2> QED
    BY <2>2, PlayerUntouched
<1>4. CASE ProcessCtrl
  BY <1>4, PlayerUntouched DEF ProcessCtrl
<1> QED
  BY <1>1, <1>2, <1>3, <1>4

LEMMA NotifyOK ==
  ASSUME IInv, NotifyNobody \/ \E e \in {"start", "done"} : Notify(e)
  PROVE  /\ ctrl_fifo' \in SUBSET {"start", "done"}
         /\ ctrl_fd' \in {"open", "hup", "closed"} /\ astray' \subseteq {"lost", "cancelled"}
BY DEF IInv, TypeOK, NotifyNobody, Notify, Astray

LEMMA SpeakOK == ASSUME IInv, Speak PROVE IInv'
<1> DEFINE Tts == [cmd : {"none", "text", "file"}, plays : {"none", "text", "wav"},
                   wake : BOOLEAN]
<1>1. /\ UNCHANGED <<ear, hears, asr_ctrl, kws_fifo, asr_fifo, plVars, left>>
      /\ tts \in Tts /\ tts_fifo \in Seq({"text", "file", "wake", "empty"})
  BY DEF Speak, IInv, TypeOK
<1>2. /\ ctrl_fifo' \in SUBSET {"start", "done"}
      /\ ctrl_fd' \in {"open", "hup", "closed"} /\ astray' \subseteq {"lost", "cancelled"}
  <2>1. CASE RecvWake
    BY <2>1, NotifyOK DEF RecvWake, IInv, TypeOK, Astray
  <2>2. CASE ~RecvWake
    BY <2>2, NotifyOK DEF Speak, RecvText, PlayText, RecvFile, PlayWav, ThreadEnd
  <2> QED
    BY <2>1, <2>2
<1>3. tts' \in Tts
  BY <1>1 DEF Speak, RecvText, PlayText, RecvFile, RecvWake, PlayWav, ThreadEnd
<1>4. tts_fifo' \in Seq({"text", "file", "wake", "empty"})
  <2>1. tts_fifo' = tts_fifo \/ (tts_fifo # <<>> /\ tts_fifo' = Tail(tts_fifo))
    BY DEF Speak, RecvText, PlayText, RecvFile, RecvWake, PlayWav, ThreadEnd, Recv
  <2> QED
    BY <1>1, <2>1
<1>5. TypeOK'
  BY <1>1, <1>2, <1>3, <1>4 DEF IInv, TypeOK, plVars
<1> QED
  BY <1>1, <1>5, PlayerUntouched

\* What remains of the types beside CommandOK
LEMMA Assemble ==
  ASSUME IInv, CommandOK', UNCHANGED <<earVars, tts, ctrl_fd>>,
         kws_fifo' \in BOOLEAN, asr_fifo' \in {"none", "text", "timeout"},
         ctrl_fifo' \in SUBSET {"start", "done"}, left' \in Nat, astray' \subseteq {"lost", "cancelled"}
  PROVE  IInv'
BY DEF IInv, CommandOK, TypeOK, earVars, Good

LEMMA KwsOK == ASSUME IInv, select_read_kws PROVE IInv'
<1>1. CommandOK
  BY CommandOKNow
<1>2. p' = [p EXCEPT !.follow = TRUE]
      /\ UNCHANGED <<asr_ctrl, tts_fifo, online, query, eof, wish>>
  BY DEF select_read_kws, ttsVars
<1>3. Good(p') /\ Wants(p') = Wants(p)
  BY <1>1, <1>2, FollowUp DEF CommandOK
<1>4. CommandOK'
  BY <1>1, <1>2, <1>3 DEF CommandOK, StartsOnlyWhenAsked
<1> QED
  BY <1>4, Assemble DEF select_read_kws, IInv, TypeOK, ttsVars, earVars, Astray

LEMMA AsrOK == ASSUME IInv, select_read_asr PROVE IInv'
<1>1. CommandOK /\ astray \subseteq {"lost", "cancelled"}
  BY CommandOKNow DEF IInv, TypeOK
<1>2. CASE TimedOut
  BY <1>1, <1>2, TimedOutOK, Assemble DEF select_read_asr, TimedOut, Astray, IInv,
     TypeOK, earVars
<1>3. CASE Understood
  BY <1>1, <1>3, UnderstoodOK, Assemble DEF select_read_asr, IInv, TypeOK, earVars
<1> QED
  BY <1>2, <1>3 DEF select_read_asr

LEMMA TtsStartOK ==
  ASSUME CommandOK, TtsStart PROVE Good(p') /\ (Wants(p') => Wants(p))
<1> DEFINE x == IF p.defer THEN Unheard(p) ELSE p
<1>1. Good(x) /\ Wants(x) = Wants(p)
  BY FollowUp DEF CommandOK, Unheard
<1>2. p' = CASE x.focus = "music" -> Suspend(x, "for_tts")
             [] x.focus = "idle"  -> [x EXCEPT !.focus = "tts"]
             [] OTHER -> x
  BY DEF TtsStart
<1> HIDE DEF x
<1>3. CASE x.focus = "idle"
  BY <1>1, <1>2, <1>3 DEF Good, Fits, Player, Focus, Wants, ShouldResume
<1>4. CASE x.focus = "music"
  BY <1>1, <1>2, <1>4, Suspending
<1>5. CASE x.focus \notin {"idle", "music"}
  BY <1>1, <1>2, <1>5
<1> QED
  BY <1>3, <1>4, <1>5

LEMMA TtsDoneOK ==
  ASSUME CommandOK, TtsDone PROVE Good(p') /\ (Wants(p') => Wants(p))
<1>1. Good(p)
  BY DEF CommandOK
<1>2. CASE p.defer
  <2>1. Good([p EXCEPT !.defer = FALSE])
    BY <1>1, Deferring
  <2>2. Good(p')
    BY <1>2, <2>1, Stopping, Starting DEF TtsDone, Commit
  <2> QED
    BY <1>2, <2>2 DEF Wants
<1>3. CASE ~p.defer /\ ShouldResume(p) /\ p.st # "stop"
  <2>1. p' = p \/ p' \in StartPlay(PrepareResume(p))
    BY <1>3 DEF TtsDone
  <2> QED
    BY <1>1, <1>3, <2>1, Resumption, Starting DEF Wants
<1>4. CASE ~p.defer /\ ~(ShouldResume(p) /\ p.st # "stop")
  BY <1>1, <1>4 DEF TtsDone, Good, Fits, Player, Focus, Wants, ShouldResume
<1> QED
  BY <1>2, <1>3, <1>4

LEMMA PlayerCtrlOK == ASSUME IInv, select_read_player_ctrl PROVE IInv'
<1>1. CommandOK
  BY CommandOKNow
<1>2. Good(p') /\ (Wants(p') => Wants(p))
  BY <1>1, TtsStartOK, TtsDoneOK DEF select_read_player_ctrl
<1>3. UNCHANGED <<asr_ctrl, tts_fifo, online, query, eof, wish>>
  BY DEF select_read_player_ctrl
<1>4. CommandOK'
  BY <1>1, <1>2, <1>3 DEF CommandOK, StartsOnlyWhenAsked
<1>5. astray' \subseteq {"lost", "cancelled"}
  BY DEF select_read_player_ctrl, TtsStart, TtsDone, Commit, Astray, IInv, TypeOK
<1> QED
  BY <1>4, <1>5, Assemble DEF select_read_player_ctrl, IInv, TypeOK

LEMMA ReopenCtrlOK == ASSUME IInv, ReopenCtrl PROVE IInv'
BY PlayerUntouched DEF ReopenCtrl, CloseCtrl, init_player_ctrl_fifo, IInv, TypeOK, earVars, plVars

LEMMA SearchOK == ASSUME IInv, Searched \/ Deliver PROVE IInv'
<1>1. CommandOK
  BY CommandOKNow
<1>2. CASE Searched
  <2>1. CommandOK'
    BY <1>1, <1>2 DEF Searched, CommandOK, StartsOnlyWhenAsked, Wants, ttsVars
  <2> QED
    BY <1>2, <2>1, Assemble DEF Searched, ttsVars, IInv, TypeOK, earVars
<1>3. CASE Deliver
  <2>1. Good(p') /\ \E what \in {"text", "file"} : Say(what)
    BY <1>1, <1>3, AnswerOK DEF Deliver
  <2>2. wish # "silence" /\ wish' = wish
    BY <1>1, <1>3 DEF Deliver, CommandOK, StartsOnlyWhenAsked
  <2>3. CommandOK'
    BY <1>1, <1>3, <2>1, <2>2, Saying DEF Deliver, CommandOK, StartsOnlyWhenAsked
  <2> QED
    BY <1>3, <2>3, Assemble DEF Deliver, IInv, TypeOK, earVars, Astray
<1> QED
  BY <1>2, <1>3

LEMMA HandOK == ASSUME IInv, Hand PROVE IInv'
<1>1. CommandOK
  BY CommandOKNow
<1>2. UNCHANGED <<asr_ctrl, tts_fifo, online, query, eof>>
  BY DEF Hand, ttsVars
<1>3. Good(p') /\ wish' \in Wishes /\ StartsOnlyWhenAsked'
  <2>1. CASE HandStops
    <3>1. Good(p') /\ (Wants(p') => p.defer)
      BY <1>1, <2>1, Stopping DEF HandStops, CommandOK
    <3> QED
      BY <1>1, <1>2, <2>1, <3>1 DEF HandStops, CommandOK, StartsOnlyWhenAsked, Silence,
         Outstanding, Wishes, Wants
  <2>2. CASE HandPauses
    <3>1. Good(p') /\ (Wants(p') => p.defer \/ ShouldResume(p))
      BY <1>1, <2>2, Suspending DEF HandPauses, CommandOK
    <3> QED
      BY <1>1, <1>2, <2>2, <3>1 DEF HandPauses, CommandOK, StartsOnlyWhenAsked, Silence,
         Outstanding, Wishes, Wants
  <2>3. CASE HandStarts \/ HandSkips
    BY <1>1, <2>3, Starting DEF HandStarts, HandSkips, CommandOK, StartsOnlyWhenAsked,
       Music, Wishes
  <2> QED
    BY <2>1, <2>2, <2>3 DEF Hand, select_read_stdio, select_read_socket
<1>4. CommandOK'
  BY <1>1, <1>2, <1>3 DEF CommandOK
<1> QED
  BY <1>4, Assemble DEF Hand, Event, IInv, TypeOK, earVars, ttsVars, Astray

LEMMA InjectOK == ASSUME IInv, ipc_inject PROVE IInv'
<1>1. tts_fifo' \in Seq({"text", "file", "wake", "empty"}) /\ left' \in Nat
  BY DEF ipc_inject, Say, Event, IInv, TypeOK
<1> QED
  BY <1>1, PlayerUntouched DEF ipc_inject, IInv, TypeOK, earVars, plVars

LEMMA ModeOK == ASSUME IInv, Switch \/ Disconnect PROVE IInv'
<1>1. CommandOK
  BY CommandOKNow
<1>2. CommandOK'
  <2>1. CASE Switch
    BY <1>1, <2>1, SwitchOK DEF Switch
  <2>2. CASE Disconnect
    <3>1. Good(p') /\ (Wants(p') => Wants(p)) /\ Say("file")
      BY <1>1, <2>2, Stopping DEF Disconnect, GoOffline, CommandOK, Wants
    <3>2. StartsOnlyWhenAsked'
      BY <1>1, <2>2, <3>1 DEF Disconnect, CommandOK, StartsOnlyWhenAsked
    <3> QED
      BY <1>1, <2>2, <3>1, <3>2, Saying DEF Disconnect, GoOffline, CommandOK
  <2> QED
    BY <2>1, <2>2
<1> QED
  <2>1. left' \in Nat /\ astray' \subseteq {"lost", "cancelled"}
    <3>1. Event /\ Astray(p.follow)
      BY DEF Switch, Disconnect
    <3>2. left' \in Nat
      BY <3>1 DEF Event, IInv, TypeOK
    <3> QED
      BY <3>1, <3>2 DEF Astray
  <2>2. UNCHANGED <<earVars, tts, ctrl_fd, kws_fifo, asr_fifo, ctrl_fifo>>
    BY DEF Switch, Disconnect
  <2> QED
    BY <1>2, <2>1, <2>2, Assemble DEF IInv, TypeOK

LEMMA EofOK == ASSUME IInv, Eof PROVE IInv'
<1>1. CommandOK
  BY CommandOKNow
<1>2. UNCHANGED <<asr_ctrl, tts_fifo, online, query, wish>>
  BY DEF Eof, ttsVars
<1>3. Good(p') /\ eof' \in BOOLEAN /\ StartsOnlyWhenAsked'
  <2>1. CASE ListEnds
    BY <1>1, <1>2, <2>1, Stopping DEF ListEnds, CommandOK, StartsOnlyWhenAsked, Wants
  <2>2. CASE ListGoesOn
    BY <1>1, <1>2, <2>2, Starting DEF ListGoesOn, CommandOK, StartsOnlyWhenAsked
  <2> QED
    BY <2>1, <2>2 DEF Eof
<1>4. CommandOK'
  BY <1>1, <1>2, <1>3 DEF CommandOK
<1> QED
  BY <1>4, Assemble DEF Eof, ListEnds, ListGoesOn, Event, IInv, TypeOK, earVars,
     ttsVars, Astray

LEMMA StutterOK == ASSUME IInv, UNCHANGED vars PROVE IInv'
BY PlayerUntouched DEF vars, IInv, TypeOK, earVars, ttsVars, plVars

-----------------------------------------------------------------------------
(* The theorems *)

\* The invariant of this module holds for ever: focus, types and the reasons to
\* play of the whole dialogue.
THEOREM DialogueInvariant == Spec => []IInv
<1>1. Init => IInv
  BY InitOK
<1>2. IInv /\ [Next]_vars => IInv'
  BY EarOK, SpeakOK, AsrOK, KwsOK, PlayerCtrlOK, ReopenCtrlOK, SearchOK, HandOK, InjectOK, ModeOK,
     EofOK, StutterOK DEF Next
<1> QED
  BY <1>1, <1>2, PTL DEF Spec

\* The three processes, the FIFOs and the player are well typed.
THEOREM DialogueTypeCorrect == Spec => []TypeOK
<1>1. IInv => TypeOK
  BY DEF IInv
<1> QED
  BY <1>1, DialogueInvariant, PTL

\* The audio focus says what the player does, whoever stopped, paused, resumed or
\* skipped last (player_set_audio_focus beside g_current_state).
THEOREM FocusFits == Spec => []FocusMatches
<1>1. IInv => FocusMatches
  BY DEF IInv, Good, Fits, FocusMatches
<1> QED
  BY <1>1, DialogueInvariant, PTL

\* No announcement, late answer or sentinel starts the music after a pause or a stop
\* of the user, unless the pause was ignored, or a search, an announced song or an
\* end of the list was still to be dealt with when the user said so
\* (player_audio_focus_cancel_resume).
THEOREM NothingStartsUnasked == Spec => []SilentUntilAsked
<1>1. IInv => SilentUntilAsked
  BY DEF IInv, StartsOnlyWhenAsked, Wants, SilentUntilAsked
<1> QED
  BY <1>1, DialogueInvariant, PTL

=============================================================================
