---------------------------- MODULE TtsPlayback -----------------------------
(***************************************************************************)
(* The speech output process voice-assistant/main_tts: the command loop    *)
(* (handle_ipc_message) and the thread that plays one announcement, a text *)
(* that was synthesised or a WAV file.  They share playback_thread, the    *)
(* stop flag, the buffer and the file name handed over, and the marks of a *)
(* content session and of a wake response; all but the first mark and      *)
(* playback_thread itself are under playback_mutex, one access per step.   *)
(*                                                                         *)
(* An announcement is a number of periods.  What is told to the player     *)
(* (tts:start, tts:done) matters here only for when it is told.  The build *)
(* has no -O, so that "if (playback_thread != 0) pthread_join(...)" reads  *)
(* the variable twice, and joining thread 0 is a fault of the process,     *)
(* after which the supervisor starts it again.                             *)
(***************************************************************************)
EXTENDS Integers

CONSTANTS Threads,    \* playback threads
          NoThread,   \* playback_thread is 0
          Periods     \* periods of an announcement

ASSUME TtsAssumption ==
  /\ NoThread \notin Threads
  /\ Periods \in Nat \ {0}

VARIABLES main,       \* the command loop: where it is, in which command
          handle,     \* playback_thread
          stop,       \* playback_should_stop
          samples,    \* playback_samples is set
          file,       \* playback_wav_filename
          session,    \* s_tts_content_session
          wake,       \* s_wav_play_is_wake
          th,         \* the playback threads
          gaveUp,     \* history: a text thread has returned before its loop
          early       \* history: whose tts:done was told during another's text

marks == <<session, wake>>
given == <<stop, samples, file>>
hist  == <<gaveUp, early>>
vars  == <<main, handle, given, marks, th, hist>>

-----------------------------------------------------------------------------
Commands == {"none", "text", "file", "wake"}
Files    == {"none", "file", "wake"}
\* What a tts:done is told for; "empty" is a file command without a path.
Told     == Commands \cup {"empty"}

AtRecv   == [pc |-> "recv", cmd |-> "none", h |-> NoThread]
NoPlay   == [pc |-> "free", plays |-> "none", left |-> 0, told |-> FALSE,
             after |-> 0]
\* The thread's start routine depends on the command.
Started(cmd) ==
  [NoPlay EXCEPT !.pc = IF cmd = "text" THEN "take_text" ELSE "take_wav"]

Live(t)     == th[t].pc # "free"
Over(t)     == th[t].pc \in {"free", "ended"}
InLoop      == {"check", "recheck", "write"}
Speaking(t) == th[t].pc \in InLoop \cup {"open", "drain"}

Init ==
  /\ main = AtRecv
  /\ handle = NoThread
  /\ stop = FALSE
  /\ samples = FALSE
  /\ file = "none"
  /\ session = FALSE
  /\ wake = FALSE
  /\ th = [t \in Threads |-> NoPlay]
  /\ gaveUp = FALSE
  /\ early = {}

\* notify_player_tts_event("tts:done") by the loop (NoThread) or a thread, for
\* the command c.
TellDone(who, c) ==
  /\ early' = early \cup {x \in {c} : \E t \in Threads \ {who} :
                            Speaking(t) /\ th[t].plays = "text"}
  /\ UNCHANGED gaveUp

-----------------------------------------------------------------------------
(* The command loop. *)

Goto(pc)    == main' = [main EXCEPT !.pc = pc]
At(pc)      == main.pc = pc
Begin(c, pc) == At("recv") /\ main' = [AtRecv EXCEPT !.pc = pc, !.cmd = c]
Finish      == main' = AtRecv

\* tts_playback_stop. A thread notes how much it plays from here on.
tts_playback_stop ==
  /\ stop' = TRUE
  /\ th' = [t \in Threads |->
              IF Over(t) THEN th[t]
              ELSE [th[t] EXCEPT !.told = TRUE, !.after = 0]]

PlayText ==
  /\ Begin("text", "join")
  /\ tts_playback_stop
  /\ UNCHANGED <<handle, samples, file, marks, hist>>

\* Mutant: a file is played during a content session too.
PlayAudioFileAlways ==
  /\ \/ At("recv") /\ TellDone(NoThread, "empty") /\ UNCHANGED main
     \/ Begin("file", "put") /\ UNCHANGED hist
     \/ At("recv") /\ TellDone(NoThread, "file") /\ UNCHANGED main
  /\ UNCHANGED <<handle, given, marks, th>>

\* A command without a path is answered before the session is looked at;
\* another is dropped in a content session; its file exists or not.
PlayAudioFile ==
  /\ \/ At("recv") /\ TellDone(NoThread, "empty") /\ UNCHANGED main
     \/ ~session /\ Begin("file", "put") /\ UNCHANGED hist
     \/ ~session /\ At("recv") /\ TellDone(NoThread, "file") /\ UNCHANGED main
  /\ UNCHANGED <<handle, given, marks, th>>

StopPlaying ==
  /\ At("recv")
  /\ tts_playback_stop
  /\ UNCHANGED <<main, handle, samples, file, marks, hist>>

PlayWakeResponse ==
  /\ Begin("wake", "wake")
  /\ tts_playback_stop
  /\ UNCHANGED <<handle, samples, file, marks, hist>>

\* tts_playback_wake_response: one of the three files exists or not.
WakeFile ==
  /\ At("wake")
  /\ \/ Goto("put") /\ wake' = TRUE
     \/ Goto("playing") /\ UNCHANGED wake
  /\ UNCHANGED <<handle, given, session, th, hist>>

AfterJoin == Goto(IF main.cmd = "text" THEN "request" ELSE "create")

\* if (playback_thread != 0)
JoinTest ==
  /\ At("join")
  /\ IF handle = NoThread THEN AfterJoin ELSE Goto("join_call")
  /\ UNCHANGED <<handle, given, marks, th, hist>>

\* The argument of pthread_join is read once more.
JoinCall ==
  /\ At("join_call")
  /\ main' = IF handle = NoThread THEN [main EXCEPT !.pc = "dead"]
             ELSE [main EXCEPT !.pc = "wait", !.h = handle]
  /\ UNCHANGED <<handle, given, marks, th, hist>>

\* Mutant: the thread before is detached instead of joined.
JoinEarly ==
  /\ At("wait")
  /\ handle' = NoThread
  /\ AfterJoin
  /\ UNCHANGED <<given, marks, th, hist>>

JoinReturns ==
  /\ At("wait")
  /\ Over(main.h)
  /\ handle' = NoThread
  /\ th' = [th EXCEPT ![main.h] = NoPlay]
  /\ AfterJoin
  /\ UNCHANGED <<given, marks, hist>>

\* tts_playback_request_text: the session is marked, the text synthesised; on
\* failure the mark is taken back and tts:done told.
RequestText ==
  /\ At("request")
  /\ \/ Goto("put") /\ session' = TRUE /\ UNCHANGED hist
     \/ Finish /\ session' = FALSE /\ TellDone(NoThread, "text")
  /\ UNCHANGED <<handle, given, wake, th>>

\* A text is handed over after the join, a file before it; what was handed
\* over and not taken is freed.
Put ==
  /\ At("put")
  /\ stop' = FALSE
  /\ IF main.cmd = "text"
     THEN samples' = TRUE /\ Goto("create") /\ UNCHANGED file
     ELSE file' = main.cmd /\ Goto("join") /\ UNCHANGED samples
  /\ UNCHANGED <<handle, marks, th, hist>>

Create ==
  /\ At("create")
  /\ \E t \in Threads :
       /\ th[t].pc = "free"
       /\ th' = [th EXCEPT ![t] = Started(main.cmd)]
       /\ handle' = t
  /\ IF main.cmd = "wake" THEN Goto("playing") ELSE Finish
  /\ UNCHANGED <<given, marks, hist>>

\* Mutant: the loop waits for the wake response by is_playing.
WakeWaits ==
  /\ At("playing")
  /\ \/ handle = NoThread /\ Finish /\ TellDone(NoThread, "wake")
     \/ handle # NoThread /\ UNCHANGED <<main, hist>>
  /\ UNCHANGED <<handle, given, marks, th>>

\* if (!tts_playback_is_playing()) after a wake response
WakePlaying ==
  /\ At("playing")
  /\ Finish
  /\ IF handle = NoThread THEN TellDone(NoThread, "wake") ELSE UNCHANGED hist
  /\ UNCHANGED <<handle, given, marks, th>>

\* The process dies of SIGSEGV and the supervisor forks a new one.
Respawn ==
  /\ At("dead")
  /\ main' = AtRecv
  /\ handle' = NoThread
  /\ stop' = FALSE
  /\ samples' = FALSE
  /\ file' = "none"
  /\ session' = FALSE
  /\ wake' = FALSE
  /\ th' = [t \in Threads |-> NoPlay]
  /\ UNCHANGED hist

InCommand ==
  \/ WakeFile \/ JoinTest \/ JoinCall \/ JoinReturns \/ RequestText \/ Put
  \/ Create \/ WakePlaying \/ Respawn

Loop == PlayText \/ PlayAudioFile \/ StopPlaying \/ PlayWakeResponse \/ InCommand

-----------------------------------------------------------------------------
(* The playback threads: playback_text_thread and playback_wav_thread. *)

Running == main.pc # "dead"
Step(t, from, to) == Running /\ th[t].pc = from /\ th' = [th EXCEPT ![t].pc = to]

\* Mutant: the buffer stays where the next thread finds it again.
TakeTextCopy(t) ==
  /\ Running
  /\ th[t].pc = "take_text"
  /\ th' = [th EXCEPT ![t].pc = IF samples THEN "open" ELSE "ended",
                      ![t].plays = "text", ![t].left = Periods]
  /\ gaveUp' = (gaveUp \/ ~samples)
  /\ UNCHANGED <<main, handle, given, marks, early>>

TakeText(t) ==
  /\ Running
  /\ th[t].pc = "take_text"
  /\ samples' = FALSE
  /\ th' = [th EXCEPT ![t].pc = IF samples THEN "open" ELSE "ended",
                      ![t].plays = "text", ![t].left = Periods]
  /\ gaveUp' = (gaveUp \/ ~samples)
  /\ UNCHANGED <<main, handle, stop, file, marks, early>>

\* Without a file name, or with one that cannot be read, it just returns.
TakeWav(t) ==
  /\ Running
  /\ th[t].pc = "take_wav"
  /\ file' = "none"
  /\ th' = [th EXCEPT ![t].pc = IF file = "none" THEN "ended" ELSE "open",
                      ![t].plays = file, ![t].left = Periods]
  /\ UNCHANGED <<main, handle, stop, samples, marks, hist>>

\* The file is parsed, the device prepared, the memory allocated: or it returns
\* without a word to the player.
Open(t) ==
  /\ \/ Step(t, "open", "check") /\ UNCHANGED gaveUp
     \/ /\ Step(t, "open", "ended")
        /\ gaveUp' = (gaveUp \/ th[t].plays = "text")
  /\ UNCHANGED <<main, handle, given, marks, early>>

\* Mutant: the stop flag is not looked at.
NeverStopped == FALSE
Stopped == stop

\* The head of the loop.
Check(t) ==
  /\ Step(t, "check", IF th[t].left = 0 \/ Stopped THEN "drain" ELSE "recheck")
  /\ UNCHANGED <<main, handle, given, marks, hist>>

\* ... and once more when the period is ready.
Recheck(t) ==
  /\ Step(t, "recheck", IF Stopped THEN "drain" ELSE "write")
  /\ UNCHANGED <<main, handle, given, marks, hist>>

\* pcm_write_all, or an error of it (or of reading the file) ends the loop.
Write(t) ==
  /\ Running
  /\ th[t].pc = "write"
  /\ \/ th' = [th EXCEPT ![t].pc = "check", ![t].left = @ - 1,
                         ![t].after = IF th[t].told THEN @ + 1 ELSE 0]
     \/ th' = [th EXCEPT ![t].pc = "drain"]
  /\ UNCHANGED <<main, handle, given, marks, hist>>

\* snd_pcm_drop when stopped, else snd_pcm_drain, which takes its time.
Drain(t) ==
  /\ Step(t, "drain", IF th[t].plays = "text" THEN "session" ELSE "done")
  /\ UNCHANGED <<main, handle, given, marks, hist>>

\* Mutant: the end of a text leaves the session marked.
SessionStays(t) ==
  /\ Step(t, "session", "done")
  /\ UNCHANGED <<main, handle, given, marks, hist>>

SessionEnd(t) ==
  /\ Step(t, "session", "done")
  /\ session' = FALSE
  /\ UNCHANGED <<main, handle, given, wake, hist>>

\* A wake response is not followed by tts:done.
Done(t) ==
  /\ IF th[t].plays = "text"
     THEN Step(t, "done", "clear") /\ TellDone(t, "text")
     ELSE /\ Step(t, "done", "unwake")
          /\ IF wake THEN UNCHANGED hist ELSE TellDone(t, th[t].plays)
  /\ UNCHANGED <<main, handle, given, marks>>

Unwake(t) ==
  /\ Step(t, "unwake", "clear")
  /\ wake' = FALSE
  /\ UNCHANGED <<main, handle, given, session, hist>>

\* playback_thread = 0, whatever it is by then.
Clear(t) ==
  /\ Running
  /\ th[t].pc = "clear"
  /\ handle' = NoThread
  /\ th' = [th EXCEPT ![t] = NoPlay]
  /\ UNCHANGED <<main, given, marks, hist>>

Play(t) ==
  \/ TakeText(t) \/ TakeWav(t) \/ Open(t)
  \/ Check(t) \/ Recheck(t) \/ Write(t)
  \/ Drain(t) \/ SessionEnd(t) \/ Done(t) \/ Unwake(t) \/ Clear(t)

Next == Loop \/ \E t \in Threads : Play(t)

Spec == Init /\ [][Next]_vars

\* The scheduler runs the loop and every thread; the supervisor waits for its
\* children and starts them again. No command is owed.
Fairness == WF_vars(InCommand) /\ \A t \in Threads : WF_vars(Play(t))

FairSpec == Spec /\ Fairness

-----------------------------------------------------------------------------
LoopStates ==
  [pc : {"recv", "wake", "join", "join_call", "wait", "request", "put",
         "create", "playing", "dead"},
   cmd : Commands, h : Threads \cup {NoThread}]
ThreadStates ==
  [pc : {"free", "take_text", "take_wav", "open", "check", "recheck", "write",
         "drain", "session", "done", "unwake", "clear", "ended"},
   plays : Commands, left : 0 .. Periods, told : BOOLEAN, after : 0 .. Periods]

\* The types of the variables.
TypeOK ==
  /\ main \in LoopStates
  /\ handle \in Threads \cup {NoThread}
  /\ file \in Files
  /\ th \in [Threads -> ThreadStates]
  /\ stop \in BOOLEAN /\ samples \in BOOLEAN
  /\ session \in BOOLEAN /\ wake \in BOOLEAN
  /\ gaveUp \in BOOLEAN /\ early \subseteq Told

\* Only one announcement is on the PCM device, however the commands follow each
\* other, although playback_thread is read and cleared without an agreement
\* between the loop and the threads.
OneSpeaker == \A t, u \in Threads : Speaking(t) /\ Speaking(u) => t = u

\* A synthesised text reaches the thread that was started for it: the thread
\* finds the buffer, and the next text never finds one that nobody has taken.
TextIsHandedOver ==
  /\ \A t \in Threads : th[t].pc = "take_text" => samples
  /\ main.pc = "put" /\ main.cmd = "text" => ~samples

\* The player, which resumes the music at tts:done, is not told so for anything
\* else while a text is spoken: not at the end of a file or a wake response, not
\* for a file that is missing, not for a synthesis that fails.  That is what
\* s_tts_content_session is for.  It does not hold back the answer to a command
\* without a path, which handle_ipc_message gives before it looks at the mark.
DoneMeansQuiet == early \subseteq {"empty"}

\* As long as the stop flag stays, at most the period being written is played.
StopIsPrompt == stop => \A t \in Threads : th[t].after <= 1

\* Every command is finished, the joins included.
CommandsEnd == main.pc # "recv" ~> main.pc = "recv"

\* Unless a text thread gives up before its loop, a content session ends, so
\* that the player's announcements are not skipped for ever.
SessionEnds == []~gaveUp => (session ~> ~session)
=============================================================================
