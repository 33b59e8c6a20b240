------------------------------ MODULE Dialogue ------------------------------
(***************************************************************************)
(* A dialogue with the speaker: the wake word and recognition process      *)
(* main_asr_kws, the speech output process main_tts, and the handlers of   *)
(* the player (select.c, select_music_llm.c) that stop, defer and resume   *)
(* the music around what is said, with the FIFOs between the three.        *)
(*                                                                         *)
(* What is said is abstracted to the command the text rules find in it;    *)
(* the command is chosen when the text is read.  A FIFO of lines that is   *)
(* read at once and searched for words is the set of its lines.  STOP_     *)
(* PLAYING only makes an announcement end sooner, and an announcement may  *)
(* end at any time here: module TtsPlayback has it in detail, with the     *)
(* failures of devices and threads.  Module Playlist has what is played.   *)
(*                                                                         *)
(* A handler of the player is one step.  Its loop looks at the descriptors *)
(* before it handles them in their order, so that either of two that are   *)
(* ready now may come first.                                               *)
(***************************************************************************)
EXTENDS Naturals, Sequences

CONSTANTS MaxCommands,  \* bound: commands in the FIFO of main_tts
          MaxEvents     \* bound: what the user, the server and the list do

ASSUME DialogueAssumption == MaxCommands \in Nat \ {0} /\ MaxEvents \in Nat

VARIABLES
  ear,       \* current_state of main_asr_kws; "wait" for the end of a wake-up
  hears,     \* its g_current_online_mode is online
  asr_ctrl,  \* asr_ctrl_fifo: modes not yet read
  kws_fifo,  \* a keyword is not yet read
  asr_fifo,  \* "none", "timeout", or "text" if it is not the sentinel alone
  tts_fifo,  \* commands for main_tts
  tts,       \* main_tts: its command, what plays, s_wav_play_is_wake
  ctrl_fifo, \* player_ctrl_fifo: events not yet read
  ctrl_fd,   \* g_player_ctrl_fd: "open", "hup" when its writer left, "closed"
  p,         \* the player, see Player
  online,    \* g_current_online_mode of the player
  query,     \* searches: "asked" by a thread, "found" in the slot
  eof,       \* g_playlist_eof_flag
  wish,      \* history: what the user asked for last, see SilentUntilAsked
  left,      \* bound: events that may still come
  astray     \* history: why music may stay paused, see PausedIsResumed

earVars == <<ear, hears>>
ttsVars == <<tts_fifo, tts, ctrl_fifo, ctrl_fd>>
plVars  == <<p, online, query, eof, wish>>
vars == <<earVars, asr_ctrl, kws_fifo, asr_fifo, ttsVars, plVars, left, astray>>

-----------------------------------------------------------------------------
(* The player's state *)

\* st: g_current_state, with g_current_suspend; focus: g_audio_focus_state
\* follow: g_voice_cmd_followup_expected; defer: g_voice_intro_defer
Focus == {"idle", "music", "manual", "for_tts", "resuming", "tts"}
Player == [st : {"stop", "play", "paused"}, focus : Focus,
           follow : BOOLEAN, defer : BOOLEAN]

ShouldResume(x) == x.focus \in {"for_tts", "resuming"}
PrepareResume(x) == IF ShouldResume(x) THEN [x EXCEPT !.focus = "resuming"] ELSE x
CancelResume(x) ==
  IF ShouldResume(x) THEN [x EXCEPT !.focus = "manual"]
  ELSE IF x.focus = "tts" THEN [x EXCEPT !.focus = "idle"] ELSE x

Playing(x) == [x EXCEPT !.st = "play", !.focus = "music"]
Stopped(x) == [x EXCEPT !.st = "stop", !.focus = "idle"]
Unheard(x) == [x EXCEPT !.follow = FALSE]

\* player_stop_play leaves a stopped player alone.
StopPlay(x) == IF x.st = "stop" THEN x ELSE Stopped(x)

\* player_start_play, player_continue_play, player_next_song: the outcomes;
\* a stopped player may find no song, a next or previous song may be missing.
StartPlay(x) ==
  CASE x.st = "stop"   -> {x, Playing(x)}
    [] x.st = "paused" -> {Playing(x)}
    [] x.st = "play"   -> {x}
SkipSong(x) == {x, Playing(x)}

\* player_suspend_play, player_suspend_for_tts
Suspend(x, why) ==
  IF x.st = "play" THEN [x EXCEPT !.st = "paused", !.focus = why] ELSE x

\* The music may play already.
Init == LET x == [st |-> "stop", focus |-> "idle", follow |-> FALSE, defer |-> FALSE] IN
  /\ ear = "kws" /\ hears = TRUE /\ asr_ctrl = {}
  /\ kws_fifo = FALSE /\ asr_fifo = "none"
  /\ tts_fifo = <<>> /\ tts = [cmd |-> "none", plays |-> "none", wake |-> FALSE]
  /\ ctrl_fifo = {} /\ ctrl_fd = "open"
  /\ p \in {x, Playing(x)}
  /\ online = TRUE /\ query = {} /\ eof = FALSE
  /\ wish = (IF p.st = "play" THEN "music" ELSE "silence")
  /\ astray = {} /\ left = MaxEvents

-----------------------------------------------------------------------------
(* The history *)

\* "lost": the sentinel, or a done, that comes too early leaves music paused later
\* on.  "cancelled": player_audio_focus_cancel_resume has just ended the wait.
WakePending == "start" \in ctrl_fifo \/ \E i \in DOMAIN tts_fifo : tts_fifo[i] = "wake"
StillLost == /\ "lost" \in astray
             /\ p'.follow \/ p'.defer \/ ShouldResume(p') \/ WakePending
Astray(why)    == astray' = {x \in {"lost"} : why \/ StillLost}
Cancelled(why) == astray' = {"cancelled"} \cup {x \in {"lost"} : why \/ StillLost}

\* A pause or a stop asks for silence.  It goes unheeded if the code ignores it,
\* and while a search, an announced song or an end of the list is still to be
\* dealt with, which the code does not take back.
Wishes == {"music", "silence", "unheeded"}
Outstanding == query # {} \/ p.defer \/ eof
Silence(ignored) ==
  wish' = IF ignored \/ Outstanding THEN "unheeded" ELSE "silence"
Music == wish' = "music"
Keep  == wish' = wish

\* One of the MaxEvents events
Event == left > 0 /\ left' = left - 1

-----------------------------------------------------------------------------
(* main_asr_kws *)

\* The wake word: kws_fifo, IPC_CMD_PLAY_WAKE_RESPONSE, tts_wake_done_wait_close.
WakeUp ==
  /\ Event
  /\ ear = "kws" /\ ear' = "wait"
  /\ Len(tts_fifo) < MaxCommands
  /\ kws_fifo' = TRUE
  /\ tts_fifo' = Append(tts_fifo, "wake")
  /\ UNCHANGED <<hears, asr_ctrl, asr_fifo, tts, ctrl_fifo, ctrl_fd, plVars, astray>>

\* ... is answered through another FIFO, or 15 s are over: at any time.
WakeDone ==
  /\ ear = "wait" /\ ear' = "asr"
  /\ UNCHANGED <<hears, asr_ctrl, kws_fifo, asr_fifo, ttsVars, plVars, left, astray>>

\* asr_kws_pipe_write_text: the lines that are not read yet
Written(line) == asr_fifo' = IF asr_fifo = "none" THEN line ELSE "text"

\* process_asr_result and check_asr_timeout, called only while it is online: a
\* text, or nothing but the sentinel after 5 s.
Heard(line) ==
  /\ ear = "asr" /\ hears /\ ear' = "kws"
  /\ Written(line)
  /\ UNCHANGED <<hears, asr_ctrl, kws_fifo, ttsVars, plVars, left, astray>>
Recognised == Heard("text")
check_asr_timeout == Heard("text") \/ Heard("timeout")
Listen == Recognised \/ check_asr_timeout

\* asr_kws_pipe_process_ctrl
ProcessCtrl ==
  /\ ear # "wait" /\ asr_ctrl # {} /\ asr_ctrl' = {}
  /\ hears' = ("offline" \notin asr_ctrl)
  /\ UNCHANGED <<ear, kws_fifo, asr_fifo, ttsVars, plVars, left, astray>>

-----------------------------------------------------------------------------
(* main_tts *)

\* notify_player_tts_event: dropped while the player has closed its end.
Notify(e) ==
  /\ ctrl_fifo' = IF ctrl_fd = "closed" THEN ctrl_fifo ELSE ctrl_fifo \cup {e}
  /\ ctrl_fd' = IF ctrl_fd = "closed" THEN "closed" ELSE "hup"
  /\ Astray(ctrl_fd = "closed" /\ e = "done")
NotifyNobody == UNCHANGED <<ctrl_fifo, ctrl_fd, astray>>

Recv(c) == /\ tts.cmd = "none" /\ tts_fifo # <<>> /\ Head(tts_fifo) = c
           /\ tts_fifo' = Tail(tts_fifo)

\* IPC_CMD_PLAY_TEXT joins the thread of the announcement before.
RecvText ==
  /\ Recv("text")
  /\ tts' = [tts EXCEPT !.cmd = "text"]
  /\ NotifyNobody

\* Mutant: a synthesis that fails is not told to the player.
PlayTextUntold ==
  /\ tts.cmd = "text" /\ tts.plays = "none"
  /\ \/ tts' = [tts EXCEPT !.cmd = "none", !.plays = "text"] /\ Notify("start")
     \/ tts' = [tts EXCEPT !.cmd = "none"] /\ NotifyNobody
  /\ UNCHANGED tts_fifo

\* tts_playback_request_text: the synthesis may fail.
PlayText ==
  /\ tts.cmd = "text" /\ tts.plays = "none"
  /\ \/ tts' = [tts EXCEPT !.cmd = "none", !.plays = "text"] /\ Notify("start")
     \/ tts' = [tts EXCEPT !.cmd = "none"] /\ Notify("done")
  /\ UNCHANGED tts_fifo

\* IPC_CMD_PLAY_AUDIO_FILE: answered at once without a path; dropped while a text
\* is spoken (s_tts_content_session); the file may be missing.
RecvFile ==
  \/ Recv("empty") /\ UNCHANGED tts /\ Notify("done")
  \/ /\ Recv("file")
     /\ IF tts.plays = "text" THEN UNCHANGED tts /\ NotifyNobody
        ELSE \/ tts' = [tts EXCEPT !.cmd = "file"] /\ Notify("start")
             \/ UNCHANGED tts /\ Notify("done")

\* IPC_CMD_PLAY_WAKE_RESPONSE, tts_playback_wake_response: without its file a
\* done is sent if nothing plays.
RecvWake ==
  /\ Recv("wake")
  /\ \/ tts' = [tts EXCEPT !.cmd = "file", !.wake = TRUE] /\ Notify("start")
     \/ tts.plays # "none" /\ UNCHANGED tts /\ Notify("start")
     \/ /\ tts.plays = "none" /\ UNCHANGED tts
        /\ ctrl_fifo' = IF ctrl_fd = "closed" THEN ctrl_fifo
                        ELSE ctrl_fifo \cup {"start", "done"}
        /\ ctrl_fd' = IF ctrl_fd = "closed" THEN "closed" ELSE "hup"
        /\ Astray(ctrl_fd = "closed")

\* tts_playback_play_wav_file, after the join
PlayWav ==
  /\ tts.cmd = "file" /\ tts.plays = "none"
  /\ tts' = [tts EXCEPT !.cmd = "none", !.plays = "wav"]
  /\ UNCHANGED tts_fifo /\ NotifyNobody

\* The end of playback_text_thread and of playback_wav_thread, which says
\* nothing after a wake response.
ThreadEnd ==
  /\ tts.plays # "none"
  /\ IF tts.plays = "text"
     THEN tts' = [tts EXCEPT !.plays = "none"] /\ Notify("done")
     ELSE /\ tts' = [tts EXCEPT !.plays = "none", !.wake = FALSE]
          /\ IF tts.wake THEN NotifyNobody ELSE Notify("done")
  /\ UNCHANGED tts_fifo

Speak ==
  /\ UNCHANGED <<ear, hears, asr_ctrl, kws_fifo, asr_fifo, plVars, left>>
  /\ RecvText \/ PlayText \/ RecvFile \/ RecvWake \/ PlayWav \/ ThreadEnd

-----------------------------------------------------------------------------
(* The player *)

\* tts_play_text, tts_play_audio_file
Say(what) == Len(tts_fifo) < MaxCommands /\ tts_fifo' = Append(tts_fifo, what)
SayNothing == UNCHANGED tts_fifo

\* select_read_kws: the keyword of a dialogue that is over is answered by no
\* text.
select_read_kws ==
  /\ kws_fifo /\ kws_fifo' = FALSE
  /\ p' = [p EXCEPT !.follow = TRUE]
  /\ Astray(ear = "kws" /\ asr_fifo = "none")
  /\ UNCHANGED <<earVars, asr_ctrl, asr_fifo, ttsVars, online, query, eof, wish,
                 left>>

\* select_music_async_play_query_done, and a search whose thread could not be
\* started: found and announced, or not.
Answer ==
  \/ /\ p' = [p EXCEPT !.defer = TRUE] /\ Say("text")
  \/ /\ p' = Unheard(p)
     /\ \E what \in {"text", "file"} : Say(what)

\* The answer to what nobody understands
Fallback(x) == p' = CancelResume(Unheard(x)) /\ Say("file")

\* player_switch_offline_mode, player_switch_online_mode
GoOffline(x) == /\ online' = FALSE /\ asr_ctrl' = asr_ctrl \cup {"offline"}
                /\ p' = Stopped(x) /\ Say("file")
GoOnline(x)  == /\ online' = TRUE /\ asr_ctrl' = asr_ctrl \cup {"online"}
                /\ p' = Stopped(x) /\ Say("file")
NoSwitch(x)  == /\ p' = x /\ Say("file") /\ UNCHANGED <<online, asr_ctrl>>
SwitchOffline == IF ~online THEN NoSwitch(p) /\ UNCHANGED eof
                 ELSE (GoOffline(p) \/ NoSwitch(StopPlay(p))) /\ eof' = FALSE
\* Without a connection the offline state is set up again.
SwitchOnline  == IF online THEN NoSwitch(p) /\ UNCHANGED eof
                 ELSE (GoOnline(p) \/ GoOffline(p)) /\ eof' = FALSE

\* The commands of select_read_asr.  What they leave alone besides p, tts_fifo,
\* wish and astray:
Elsewhere == UNCHANGED <<online, asr_ctrl, query, eof>>

StopCommand  == p' = StopPlay(p) /\ Say("file") /\ Silence(FALSE) /\ Elsewhere
\* Mutant: the pause does not cancel the resumption.
PauseKeepsFocus == p' = Suspend(p, "manual") /\ Say("file") /\ Silence(FALSE) /\ Elsewhere
PauseCommand == /\ p' = Suspend(CancelResume(p), "manual")
                /\ Say("file") /\ Silence(FALSE) /\ Elsewhere
PlayCommand  == /\ p' \in StartPlay(p) \cup StartPlay(CancelResume(p)) \cup SkipSong(p)
                /\ SayNothing /\ Music /\ Elsewhere
\* Volume, answered by a text, and mode, by a file: the music goes on after the
\* reply, or at once without one.
AdjustCommand ==
  /\ LET x == PrepareResume(Unheard(p))
     IN  \/ /\ p' = (IF ShouldResume(p) THEN x ELSE p)
            /\ \E what \in {"text", "file"} : Say(what)
         \/ p' \in (IF ShouldResume(p) THEN StartPlay(x) ELSE {p}) /\ SayNothing
  /\ Keep /\ Elsewhere
\* A song, a playlist, or words that may be one
QueryCommand ==
  \/ /\ query' = query \cup {"asked"} /\ Music
     /\ UNCHANGED <<p, tts_fifo, online, asr_ctrl, eof>>
  \/ Answer /\ Music /\ Elsewhere
  \/ p' = Unheard(p) /\ Say("file") /\ Keep /\ Elsewhere
\* player_search_hot_random_prepare_for_tts
HotCommand ==
  LET x == StopPlay(p)
  IN  /\ \/ p' = [x EXCEPT !.defer = TRUE] /\ Say("text")
         \/ p' = Unheard(x) /\ Say("text")
         \/ Fallback(x)
      /\ Music /\ Elsewhere
\* run_llm_and_tts, and what it cannot answer, or nobody offline
ChatCommand    == p' = Unheard(p) /\ Say("text") /\ Keep /\ Elsewhere
UnknownCommand == Fallback(p) /\ Keep /\ Elsewhere
\* Mutant: the follow-up is not cleared.
NoopKeepsFollow == p' = PrepareResume(p) /\ Say("file") /\ Keep /\ Elsewhere
NoopCommand == p' = PrepareResume(Unheard(p)) /\ Say("file") /\ Keep /\ Elsewhere
ModeCommand == (SwitchOffline \/ SwitchOnline) /\ Keep /\ UNCHANGED query

\* These commands may leave the follow-up expected although it has come, or say
\* nothing whose end would resume what is paused, or a late wake-up will pause.
Carried == StopCommand \/ PlayCommand \/ ModeCommand \/ AdjustCommand
Understood ==
  \/ /\ Carried
     /\ Astray(p'.follow \/ WakePending \/ (tts_fifo' = tts_fifo /\ ShouldResume(p')))
  \/ PauseCommand /\ Cancelled(p'.follow \/ WakePending)
  \/ UnknownCommand /\ Cancelled(FALSE)
  \/ (QueryCommand \/ HotCommand \/ ChatCommand \/ NoopCommand) /\ Astray(FALSE)

\* Without words the music goes on; a wake-up that is announced only now will
\* pause it again.
TimedOut ==
  /\ p' \in (LET x == PrepareResume(Unheard(p))
             IN  IF ShouldResume(p) THEN StartPlay(x) ELSE {x})
  /\ SayNothing /\ Keep /\ Elsewhere
  /\ Astray(WakePending)

select_read_asr ==
  /\ asr_fifo # "none" /\ asr_fifo' = "none"
  /\ IF asr_fifo = "timeout" THEN TimedOut ELSE Understood
  /\ UNCHANGED <<earVars, kws_fifo, tts, ctrl_fifo, ctrl_fd, left>>

\* select_read_player_ctrl.  A read with both events is a start.
TtsStart ==
  LET x == IF p.defer THEN Unheard(p) ELSE p
  IN  /\ p' = CASE x.focus = "music" -> Suspend(x, "for_tts")
                [] x.focus = "idle"  -> [x EXCEPT !.focus = "tts"]
                [] OTHER -> x
      /\ Astray("done" \in ctrl_fifo)
\* player_voice_intro_commit_insert_play; a done that comes before the start of
\* the announcement is another's.
Commit ==
  /\ p' \in StartPlay(StopPlay([p EXCEPT !.defer = FALSE]))
  /\ Astray(p.follow)
TtsDone ==
  IF p.defer THEN Commit
  ELSE /\ IF ShouldResume(p) /\ p.st # "stop"
          THEN p' \in IF p.follow THEN {p} ELSE StartPlay(PrepareResume(p))
          ELSE p' = IF p.focus = "tts" THEN [p EXCEPT !.focus = "idle"] ELSE p
       /\ Astray(FALSE)
select_read_player_ctrl ==
  /\ ctrl_fd # "closed" /\ ctrl_fifo # {} /\ ctrl_fifo' = {}
  /\ IF "start" \in ctrl_fifo THEN TtsStart ELSE TtsDone
  /\ UNCHANGED <<earVars, asr_ctrl, kws_fifo, asr_fifo, tts_fifo, tts, ctrl_fd,
                 online, query, eof, wish, left>>

\* A FIFO whose writers are gone is closed and opened again.
CloseCtrl == ctrl_fd = "hup" /\ ctrl_fd' = "closed"
init_player_ctrl_fifo == ctrl_fd = "closed" /\ ctrl_fd' = "open"
ReopenCtrl ==
  /\ ctrl_fifo = {}
  /\ CloseCtrl \/ init_player_ctrl_fifo
  /\ UNCHANGED <<earVars, asr_ctrl, kws_fifo, asr_fifo, tts_fifo, tts, ctrl_fifo,
                 plVars, left, astray>>

\* The thread of a search, and the delivery of its answer
Searched ==
  /\ "asked" \in query /\ query' = {"found"}
  /\ UNCHANGED <<earVars, asr_ctrl, kws_fifo, asr_fifo, ttsVars, p, online, eof,
                 wish, left, astray>>
Deliver ==
  /\ "found" \in query /\ query' = query \ {"found"}
  /\ Answer /\ Astray(FALSE)
  /\ UNCHANGED <<earVars, asr_ctrl, kws_fifo, asr_fifo, tts, ctrl_fifo, ctrl_fd,
                 online, eof, wish, left>>

\* What the hand may ask for
HandStops  == p' = StopPlay(p) /\ Silence(FALSE)
\* ... and is ignored: music that is paused for an announcement stays so.
HandPauses == p' = Suspend(p, "manual") /\ Silence(ShouldResume(p))
HandStarts == p' \in StartPlay(p) /\ Music
HandSkips  == p' \in SkipSong(p) /\ Music

\* The keyboard and the app.  (main does not set up the button.)
select_read_stdio  == HandStarts \/ HandStops \/ HandPauses \/ HandSkips
select_read_socket == HandStarts \/ HandStops \/ HandPauses \/ HandSkips

\* What no process of the speaker sends: a file command without a path.
ipc_inject ==
  /\ Event
  /\ Say("empty")
  /\ UNCHANGED <<earVars, asr_ctrl, kws_fifo, asr_fifo, tts, ctrl_fifo, ctrl_fd, plVars,
                 astray>>

Hand ==
  /\ Event
  /\ select_read_stdio \/ select_read_socket
  /\ Astray(FALSE)
  /\ UNCHANGED <<earVars, asr_ctrl, kws_fifo, asr_fifo, ttsVars, online, query, eof>>
Switch ==
  /\ Event
  /\ SwitchOffline \/ SwitchOnline
  /\ Astray(p.follow)
  /\ UNCHANGED <<earVars, kws_fifo, asr_fifo, tts, ctrl_fifo, ctrl_fd, query, wish>>

\* socket_handle_disconnect
Disconnect ==
  /\ Event
  /\ online /\ query' = {}
  /\ GoOffline(p) /\ Astray(p.follow)
  /\ UNCHANGED <<earVars, kws_fifo, asr_fifo, tts, ctrl_fifo, ctrl_fd, eof, wish>>

\* The child's SIGUSR1 (player_handle_playlist_eof), and what the loop makes of
\* it (player_process_async_events)
EofFocusKept ==
  Event /\ p.st = "play" /\ p' = [p EXCEPT !.st = "stop"] /\ eof' = TRUE
ListEnds == Event /\ p.st = "play" /\ p' = Stopped(p) /\ eof' = TRUE
ListGoesOn == eof /\ p' \in StartPlay(p) /\ eof' = FALSE /\ UNCHANGED left
Eof ==
  /\ ListEnds \/ ListGoesOn
  /\ Astray(FALSE)
  /\ UNCHANGED <<earVars, asr_ctrl, kws_fifo, asr_fifo, ttsVars, online, query, wish>>

-----------------------------------------------------------------------------
Next ==
  \/ WakeUp \/ WakeDone \/ Listen \/ ProcessCtrl
  \/ Speak
  \/ select_read_asr \/ select_read_kws \/ select_read_player_ctrl \/ ReopenCtrl
  \/ Searched \/ Deliver \/ Hand \/ ipc_inject \/ Switch \/ Disconnect \/ Eof

Spec == Init /\ [][Next]_vars

\* The three processes go on, a search and a listening end by their timeouts, and
\* the player's loop handles every descriptor that is ready.  A handler that
\* speaks waits for room in tts_fifo only here.
FairSpec ==
  /\ Spec
  /\ WF_vars(WakeDone) /\ WF_vars(Listen) /\ WF_vars(ProcessCtrl) /\ WF_vars(Speak)
  /\ WF_vars(select_read_kws) /\ SF_vars(select_read_asr)
  /\ WF_vars(select_read_player_ctrl) /\ WF_vars(ReopenCtrl)
  /\ WF_vars(Searched) /\ SF_vars(Deliver)

-----------------------------------------------------------------------------
(* Properties *)

\* Every variable has its type.
TypeOK ==
  /\ ear \in {"kws", "wait", "asr"} /\ hears \in BOOLEAN
  /\ asr_ctrl \in SUBSET {"online", "offline"}
  /\ kws_fifo \in BOOLEAN
  /\ asr_fifo \in {"none", "text", "timeout"}
  /\ tts_fifo \in Seq({"text", "file", "wake", "empty"})
  /\ tts \in [cmd : {"none", "text", "file"}, plays : {"none", "text", "wav"},
              wake : BOOLEAN]
  /\ ctrl_fifo \in SUBSET {"start", "done"}
  /\ ctrl_fd \in {"open", "hup", "closed"}
  /\ p \in Player /\ online \in BOOLEAN
  /\ query \in SUBSET {"asked", "found"}
  /\ eof \in BOOLEAN /\ left \in Nat
  /\ wish \in Wishes /\ astray \subseteq {"lost", "cancelled"}

\* The audio focus says what the player does, whoever stopped, paused, resumed or
\* skipped last: otherwise the next announcement would pause nothing, or the next
\* done start nothing (player_set_audio_focus beside g_current_state).
FocusMatches ==
  /\ p.st = "stop"   => p.focus \in {"idle", "tts"}
  /\ p.st = "play"   => p.focus = "music"
  /\ p.st = "paused" => p.focus \in {"manual", "for_tts", "resuming"}

\* After the user has paused or stopped the music no announcement, late answer
\* or sentinel starts it again (player_audio_focus_cancel_resume).  The code does
\* not promise that, and neither does this, of a pause or stop that goes unheeded
\* (Silence): a pause by hand of music that an announcement has paused already,
\* and either of them while a search is under way, a song is announced or an end
\* of the list has not been dealt with.
SilentUntilAsked == p.st = "play" => wish # "silence"

\* Music that was paused for an announcement goes on or is stopped.  It stays
\* paused if the user says so, or says what nobody understands ("cancelled"); if
\* a done was lost or read together with a start, or the follow-up flag is left
\* set by a command that does not clear it or by a keyword that is read late
\* ("lost"); or if the recogniser is switched offline while it listens
\* (select_read_player_ctrl).
Deaf == ear = "asr" /\ (~hears \/ "offline" \in asr_ctrl)
PausedIsResumed == ShouldResume(p) ~> (p.st # "paused" \/ astray # {} \/ Deaf)

\* A song that was found and announced is played, or at least tried, after the
\* announcement (player_voice_intro_consume_deferred_play).
AnnouncedIsPlayed == p.defer ~> (~p.defer \/ "lost" \in astray)

\* The documentation: nobody spoke, the listening ends and the player is told, so
\* that the music does not stay paused (check_asr_timeout).
ListeningEnds == ear = "asr" ~> ear = "kws"
=============================================================================
