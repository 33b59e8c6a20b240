------------------------------ MODULE Playback ------------------------------
(***************************************************************************)
(* The three-process player of player/core: the parent (select loop and    *)
(* commands), the playback child it forks, and the grandchild the child    *)
(* forks for every track (GStreamer).  They share the record shm, signals  *)
(* and the command FIFO that the grandchild reads.                         *)
(*                                                                         *)
(* A process step ends where it touches something shared: shm_get and      *)
(* shm_set are single steps (module ShmLock is about that), but a          *)
(* get-modify-set is two, and whatever another process does in between is  *)
(* overwritten.  Sleeps and wait_pid_exit end nondeterministically.        *)
(*                                                                         *)
(* A track is its global index in the catalogue, as in                     *)
(* player_online_resolve_global_index; page p of the list shows PageSize   *)
(* of them.  Children and grandchildren are pids, reused only when nobody  *)
(* remembers them.                                                         *)
(***************************************************************************)
EXTENDS Integers, Sequences

CONSTANTS Kids,       \* pids of playback children
          Grands,     \* pids of grandchildren
          Nobody,     \* pid 0
          Pages,      \* pages of the catalogue
          PageSize,   \* tracks of a page
          Online,     \* g_current_online_mode
          Fetch,      \* outcomes of a request for a page or a URL
          Timely,     \* the short steps of others fit into the parent's sleeps
          Commands,   \* the commands that are given
          MaxFifo     \* commands that fit into the FIFO

ASSUME PlaybackAssumption ==
  /\ Nobody \notin Kids \cup Grands
  /\ Kids \cap Grands = {}
  /\ Pages \in Nat \ {0}
  /\ PageSize \in Nat \ {0}
  /\ Online \in BOOLEAN
  /\ Timely \in BOOLEAN
  /\ Fetch \subseteq BOOLEAN
  /\ MaxFifo \in Nat \ {0}

VARIABLES par,        \* the parent's command in progress and its locals
          state,      \* g_current_state
          susp,       \* g_current_suspend
          focus,      \* g_audio_focus_state
          eof,        \* g_playlist_eof_flag
          chld,       \* g_child_exit_flag
          suppressed, \* g_eof_autostart_suppressed
          caught,     \* history: an end of list has interrupted a pause or a
                      \* continue since the last start
          page,       \* current_page: the parent's list is this page
          wopen,      \* g_gst_cmd_fifo_fd is open
          fifo,       \* commands in GST_CMD_FIFO
          shm,        \* Shm_Data
          kid,        \* the playback children
          grand       \* the grandchildren

flags  == <<state, susp, focus>>
events == <<eof, chld, suppressed, caught>>
pipes  == <<wopen, fifo>>
vars   == <<par, flags, events, page, pipes, shm, kid, grand>>

-----------------------------------------------------------------------------
(* The list and the catalogue. *)

Total  == Pages * PageSize
Tracks == 0 .. Total - 1
NoTrack == Total                      \* current_song_id is empty
SongIds == 0 .. Total

First(p)  == (p - 1) * PageSize
Last(p)   == p * PageSize - 1
OnPage(p, t) == t \in First(p) .. Last(p)
\* Mutant: the page counter runs past the last page.
NextPageNoWrap(p) == p + 1
NextPage(p)  == IF p + 1 > Pages THEN 1 ELSE p + 1

\* player_online_next_track_cross_page
NextGlobal(t) == IF t + 1 >= Total THEN 0 ELSE t + 1

Modes == {"ORDER", "SINGLE"}

\* link_get_next_music on the list of page p: its result and the track.
LinkNext(p, t, mode, force) ==
  LET target == IF OnPage(p, t) THEN t ELSE First(p)
  IN  IF ~OnPage(p, t) /\ Online THEN [ret |-> -1, track |-> NoTrack]
      ELSE IF mode = "SINGLE" /\ ~force THEN [ret |-> 0, track |-> target]
      ELSE IF target = Last(p) THEN [ret |-> 1, track |-> NoTrack]
      ELSE [ret |-> 0, track |-> target + 1]

-----------------------------------------------------------------------------
(* Processes and the FIFO. *)

KidPids   == Kids \cup {Nobody}
GrandPids == Grands \cup {Nobody}
Shm    == [song : SongIds, mode : Modes, child : KidPids, grand : GrandPids]
NoCopy == [song |-> NoTrack, mode |-> "ORDER", child |-> Nobody,
           grand |-> Nobody]

Idle  == [pc |-> "idle", cmd |-> "none", s |-> NoCopy, seen |-> Nobody,
          track |-> NoTrack, retry |-> 0]
NoKid == [pc |-> "free", stop |-> FALSE, song |-> NoTrack, url |-> NoTrack,
          page |-> 1, s |-> NoCopy]
NoGrand == [pc |-> "free", kid |-> Nobody, song |-> NoTrack, url |-> NoTrack,
            page |-> 1, s |-> NoCopy, stopped |-> FALSE, paused |-> FALSE]

\* pid_is_alive: kill(pid, 0) succeeds for a zombie too.
Alive(pid) == \/ pid \in Kids /\ kid[pid].pc # "free"
              \/ pid \in Grands /\ grand[pid].pc # "free"

\* Pids still remembered in a copy of shm or by stop_active_grandchild.
Remembered(pid) ==
  LET In(s) == pid \in {s.child, s.grand}
  IN  \/ In(shm) \/ In(par.s) \/ par.seen = pid
      \/ \E c \in Kids : In(kid[c].s)
      \/ \E g \in Grands : In(grand[g].s) \/ grand[g].kid = pid
Fresh(pid) == ~Alive(pid) /\ ~Remembered(pid)

\* A grandchild that ends stays a zombie while its child can wait for it.
Ended(gr, g) ==
  [gr EXCEPT ![g] = IF @.kid = Nobody THEN NoGrand
                    ELSE [NoGrand EXCEPT !.pc = "zombie", !.kid = gr[g].kid]]
\* Mutant: without SIGKILL, a grandchild ends only by "quit".
EndByQuitOnly(pid) == grand
EndIfAlive(pid) == IF pid \in Grands /\ Alive(pid) THEN Ended(grand, pid)
                   ELSE grand

\* When a child ends, init adopts its grandchildren and reaps the dead ones.
Orphaned(c) ==
  [g \in Grands |-> IF grand[g].kid # c THEN grand[g]
                    ELSE IF grand[g].pc = "zombie" THEN NoGrand
                    ELSE [grand[g] EXCEPT !.kid = Nobody]]

Reading(g) == grand[g].pc = "play"
Readers    == {g \in Grands : Reading(g)}

\* The FIFO loses what is in it when nobody has it open any more.
Kept(f, w, gr) ==
  IF w \/ \E g \in Grands : gr[g].pc = "play" THEN f ELSE <<>>

\* Writing to a FIFO whose reader is gone raises SIGPIPE, which the player
\* neither handles nor ignores.
FifoBroken == wopen /\ Readers = {}

\* player_write_fifo: ENXIO without a reader, EAGAIN when it is full.
WriteFifo(command) ==
  /\ ~FifoBroken
  /\ wopen' = (Readers # {})
  /\ fifo' = IF Readers # {} /\ Len(fifo) < MaxFifo
             THEN Append(fifo, command) ELSE fifo

Resumed(pid) == IF pid \in Grands /\ Alive(pid)
                THEN [grand EXCEPT ![pid].stopped = FALSE] ELSE grand
Stopped(pid) == IF pid \in Kids /\ Alive(pid)
                THEN [kid EXCEPT ![pid].stop = TRUE] ELSE kid

\* A copy of shm is held for the few instructions between shm_get and shm_set;
\* with Timely nobody else's shm_get falls between them.  Copies held over a
\* request to the server ("next_late", "wrap_late", "late_set") are not short.
ShortCopy == \/ par.pc \in {"start_set", "clear_set", "pid_get", "pid_set",
                            "stop_clear", "wrap_set", "next_set", "mode_set"}
             \/ \E c \in Kids : kid[c].pc \in {"sync", "set"}
             \/ \E g \in Grands : grand[g].pc = "register"
PairFree == Timely => ~ShortCopy

\* What the loudspeaker plays.
Audible(g) == grand[g].pc = "play" /\ ~grand[g].stopped /\ ~grand[g].paused

Init ==
  /\ par = Idle
  /\ state = "STOP" /\ susp = "NO" /\ focus = "IDLE"
  /\ eof = FALSE /\ chld = FALSE /\ suppressed = FALSE /\ caught = FALSE
  /\ page = 1
  /\ wopen = FALSE /\ fifo = <<>>
  /\ shm = NoCopy
  /\ kid = [c \in Kids |-> NoKid]
  /\ grand = [g \in Grands |-> NoGrand]

-----------------------------------------------------------------------------
(* The parent: the events of a round of the select loop. *)

At(pc)   == par.pc = pc
GoTo(pc) == par' = [par EXCEPT !.pc = pc]
Return   == par' = Idle
Given(c) == At("idle") /\ c \in Commands

\* Killed by SIGPIPE in player_write_fifo; what it forked plays on.
Dies ==
  /\ FifoBroken
  /\ par' = [Idle EXCEPT !.pc = "dead"]
  /\ wopen' = FALSE
  /\ fifo' = <<>>
  /\ kid' = [c \in Kids |-> IF kid[c].pc = "zombie" THEN NoKid ELSE kid[c]]
  /\ UNCHANGED <<flags, events, page, shm, grand>>

\* Mutant: a dead child is noticed and never waited for.
ReapNobody ==
  /\ At("idle")
  /\ GoTo(IF chld THEN "reaped" ELSE "events")
  /\ UNCHANGED <<flags, events, page, pipes, shm, kid, grand>>

\* player_process_async_events, first in every round: dead children are
\* waited for ...
ReapChildren ==
  /\ At("idle")
  /\ IF chld
     THEN /\ kid' = [c \in Kids |-> IF kid[c].pc = "zombie" THEN NoKid ELSE kid[c]]
          /\ GoTo("reaped")
     ELSE GoTo("events") /\ UNCHANGED kid
  /\ UNCHANGED <<flags, events, page, pipes, shm, grand>>

\* ... then the flag is cleared, for a child that died since as well ...
ClearChildFlag ==
  /\ At("reaped")
  /\ chld' = FALSE
  /\ GoTo("events")
  /\ UNCHANGED <<flags, eof, suppressed, caught, page, pipes, shm, kid, grand>>

\* ... and then the end of the list is looked at.  After player_stop_play it
\* is dropped ...
EofDropped ==
  /\ At("events")
  /\ eof => suppressed
  /\ eof' = FALSE
  /\ suppressed' = (suppressed /\ ~eof)
  /\ Return
  /\ UNCHANGED <<flags, chld, caught, page, pipes, shm, kid, grand>>

\* ... else it turns the page, or wraps, and starts.
EofTurnPage ==
  /\ At("events")
  /\ eof /\ ~suppressed
  /\ eof' = FALSE
  /\ \/ /\ shm.mode = "SINGLE"
        /\ GoTo("start")
        /\ UNCHANGED page
     \/ /\ shm.mode # "SINGLE"
        /\ Online
        /\ TRUE \in Fetch
        /\ page' = NextPage(page)
        /\ GoTo("start")
     \/ /\ shm.mode # "SINGLE"
        /\ Online => FALSE \in Fetch
        /\ GoTo("wrap")
        /\ UNCHANGED page
  /\ UNCHANGED <<flags, chld, suppressed, caught, pipes, shm, kid, grand>>

\* player_eof_wrap_or_restart, as far as its shm_set.
Wrap ==
  /\ At("wrap")
  /\ PairFree
  /\ LET adv == LinkNext(page, shm.song, shm.mode, TRUE)
         to(pc, t) == par' = [par EXCEPT !.pc = pc,
                                         !.s = [shm EXCEPT !.song = t]]
     IN \/ shm.mode = "SINGLE" /\ GoTo("start")
        \/ shm.mode # "SINGLE" /\ adv.ret = 0 /\ to("wrap_set", adv.track)
        \/ shm.mode # "SINGLE" /\ adv.ret = 1 /\ to("wrap_set", First(page))
        \/ /\ shm.mode # "SINGLE" /\ adv.ret = -1
           /\ \/ /\ TRUE \in Fetch /\ shm.song # NoTrack
                 /\ to("wrap_late", NextGlobal(shm.song))
              \/ (FALSE \in Fetch \/ shm.song = NoTrack) /\ Return
  /\ UNCHANGED <<flags, events, page, pipes, shm, kid, grand>>

WrapSet ==
  /\ At("wrap_set") \/ (At("wrap_late") /\ PairFree)
  /\ shm' = par.s
  /\ par' = [Idle EXCEPT !.pc = "start"]
  /\ UNCHANGED <<flags, events, page, pipes, kid, grand>>

-----------------------------------------------------------------------------
(* The parent: start, and the processes it must end before it forks. *)

CmdStart ==
  /\ Given("start")
  /\ GoTo("start")
  /\ UNCHANGED <<flags, events, page, pipes, shm, kid, grand>>

StartPlay ==
  /\ At("start")
  /\ suppressed' = FALSE
  /\ \/ /\ state = "PLAY" /\ susp = "NO" /\ Alive(shm.child)
        /\ Return
     \/ /\ state = "PLAY" /\ susp = "YES"
        /\ GoTo("continue")
     \/ /\ ~(state = "PLAY" /\ (susp = "YES" \/ Alive(shm.child)))
        /\ PairFree
        /\ LET t == IF OnPage(page, shm.song) THEN shm.song ELSE First(page)
           IN  par' = [par EXCEPT !.pc = "start_set", !.track = t,
                                  !.s = [shm EXCEPT !.song = t]]
  /\ UNCHANGED <<flags, eof, chld, caught, page, pipes, shm, kid, grand>>

StartSet ==
  /\ At("start_set")
  /\ shm' = par.s
  /\ state' = "PLAY" /\ susp' = "NO" /\ focus' = "PLAYING"
  /\ par' = [par EXCEPT !.pc = "force", !.cmd = "force", !.s = NoCopy]
  /\ caught' = FALSE
  /\ UNCHANGED <<eof, chld, suppressed, page, pipes, kid, grand>>

\* One round of force_stop_playback_processes, up to its shm_get and SIGUSR1.
ForceStop ==
  /\ At("force")
  /\ \/ /\ par.retry < 3
        /\ Alive(shm.child) \/ Alive(shm.grand)
        /\ kid' = Stopped(shm.child)
        /\ par' = [par EXCEPT !.pc = "quit", !.s = shm]
     \/ /\ par.retry >= 3 \/ ~(Alive(shm.child) \/ Alive(shm.grand))
        /\ PairFree
        /\ par' = [par EXCEPT !.pc = "clear_set", !.retry = 0,
                     !.s = [shm EXCEPT !.child = Nobody, !.grand = Nobody]]
        /\ UNCHANGED kid
  /\ UNCHANGED <<flags, events, page, pipes, shm, grand>>

\* stop_active_grandchild: SIGCONT, "quit" ...
Quit ==
  /\ At("quit")
  /\ \/ /\ WriteFifo("quit")
        /\ grand' = Resumed(shm.grand)
        /\ par' = [par EXCEPT !.pc = "kill", !.seen = shm.grand]
        /\ UNCHANGED <<flags, events, page, shm, kid>>
     \/ Dies

\* The steps that take no time to speak of are done: a child between two
\* tracks has forked, a grandchild has registered, a reader has read.
Settled ==
  /\ \A c \in Kids : kid[c].pc \in {"free", "zombie", "fetch", "wait"}
  /\ \A g \in Grands :
        /\ grand[g].pc \notin {"born", "register"}
        /\ Reading(g) /\ ~grand[g].stopped => fifo = <<>>

\* Mutant: the grandchild is waited for without a limit.
KillNever ==
  /\ At("kill")
  /\ par.seen \in Grands => grand[par.seen].pc \in {"free", "zombie"}
  /\ IF par.cmd = "next" THEN Return
     ELSE par' = [par EXCEPT !.pc = "wait_child", !.seen = Nobody]
  /\ UNCHANGED <<flags, events, page, pipes, shm, kid, grand>>

\* ... and, two sleeps later, SIGKILL.  (SIGTERM only sets a flag that the
\* forked processes inherit and never look at.)
Kill ==
  /\ At("kill")
  /\ Timely => Settled
  /\ grand' = EndIfAlive(par.seen)
  /\ fifo' = Kept(fifo, wopen, grand')
  /\ IF par.cmd = "next" THEN Return
     ELSE par' = [par EXCEPT !.pc = "wait_child", !.seen = Nobody]
  /\ UNCHANGED <<flags, events, page, wopen, shm, kid>>

\* Mutant: a child that does not come is left behind.
WaitChildNoKill ==
  /\ At("wait_child")
  /\ kid' = [c \in Kids |-> IF c = par.s.child /\ kid[c].pc = "zombie"
                            THEN NoKid ELSE kid[c]]
  /\ GoTo(IF par.cmd = "stop" THEN "stop_last" ELSE "force_grand")
  /\ UNCHANGED <<flags, events, page, pipes, shm, grand>>

\* wait_pid_exit on the child, SIGKILL when it does not come.
WaitChild ==
  LET c == par.s.child
      running == Alive(c) /\ kid[c].pc # "zombie"
  IN  /\ At("wait_child")
      /\ IF running
         THEN /\ Timely => kid[c].pc = "fetch"
              /\ grand' = Orphaned(c)
              /\ fifo' = Kept(fifo, wopen, grand')
              /\ chld' = TRUE
         ELSE UNCHANGED <<grand, fifo, chld>>
      /\ kid' = IF Alive(c) THEN [kid EXCEPT ![c] = NoKid] ELSE kid
      /\ GoTo(IF par.cmd = "stop" THEN "stop_last" ELSE "force_grand")
      /\ UNCHANGED <<flags, eof, suppressed, caught, page, wopen, shm>>

ForceGrand ==
  /\ At("force_grand")
  /\ grand' = EndIfAlive(par.s.grand)
  /\ fifo' = Kept(fifo, wopen, grand')
  /\ par' = [par EXCEPT !.pc = "force", !.retry = @ + 1, !.s = NoCopy]
  /\ UNCHANGED <<flags, events, page, wopen, shm, kid>>

ClearSet ==
  /\ At("clear_set")
  /\ shm' = par.s
  /\ par' = [par EXCEPT !.pc = "fork", !.s = NoCopy]
  /\ UNCHANGED <<flags, events, page, pipes, kid, grand>>

\* fork, then the child's pid goes into a copy of shm ...
ForkChild ==
  /\ At("fork")
  /\ \E c \in Kids :
        /\ Fresh(c)
        /\ kid' = [kid EXCEPT ![c] = [NoKid EXCEPT !.pc = "top",
                     !.song = par.track, !.url = par.track, !.page = page]]
        /\ par' = [Idle EXCEPT !.pc = "pid_get", !.s = [NoCopy EXCEPT !.child = c]]
  /\ UNCHANGED <<flags, events, page, pipes, shm, grand>>

PidGet ==
  /\ At("pid_get")
  /\ par' = [par EXCEPT !.pc = "pid_set",
               !.s = [shm EXCEPT !.child = par.s.child, !.grand = Nobody]]
  /\ UNCHANGED <<flags, events, page, pipes, shm, kid, grand>>

\* Mutant: the child registers itself, when its first grandchild does.
PidForgotten ==
  /\ At("pid_set")
  /\ Return
  /\ UNCHANGED <<flags, events, page, pipes, shm, kid, grand>>

\* ... which is written back over whatever the grandchild wrote meanwhile.
PidSet ==
  /\ At("pid_set")
  /\ shm' = par.s
  /\ Return
  /\ UNCHANGED <<flags, events, page, pipes, kid, grand>>

-----------------------------------------------------------------------------
(* The parent: stop, pause, continue, the choice of a track, the mode. *)

StopPlay ==
  /\ Given("stop")
  /\ state # "STOP"
  /\ suppressed' = TRUE
  /\ kid' = Stopped(shm.child)
  /\ par' = [par EXCEPT !.pc = "quit", !.cmd = "stop", !.s = shm]
  /\ UNCHANGED <<flags, eof, chld, caught, page, pipes, shm, grand>>

StopLast ==
  /\ At("stop_last")
  /\ PairFree
  /\ grand' = EndIfAlive(shm.grand)
  /\ fifo' = Kept(fifo, wopen, grand')
  /\ state' = "STOP" /\ susp' = "YES" /\ focus' = "IDLE"
  /\ par' = [par EXCEPT !.pc = "stop_clear",
               !.s = [shm EXCEPT !.child = Nobody, !.grand = Nobody]]
  /\ UNCHANGED <<events, page, wopen, shm, kid>>

StopClear ==
  /\ At("stop_clear")
  /\ shm' = par.s
  /\ wopen' = FALSE
  /\ fifo' = Kept(fifo, FALSE, grand)
  /\ Return
  /\ UNCHANGED <<flags, events, page, kid, grand>>

\* player_suspend_play and player_suspend_for_tts test the state ...
CmdSuspend(command) ==
  /\ Given(command)
  /\ state # "STOP" /\ susp # "YES"
  /\ GoTo(command)
  /\ UNCHANGED <<flags, events, page, pipes, shm, kid, grand>>

\* ... and, whatever it is by then, send SIGSTOP to the grandchild, or "cycle
\* pause" when there is none.
Suspend(command, newFocus) ==
  /\ At(command)
  /\ \/ /\ Alive(shm.grand)
        /\ grand' = IF grand[shm.grand].pc = "zombie" THEN grand
                    ELSE [grand EXCEPT ![shm.grand].stopped = TRUE]
        /\ state' = "PLAY" /\ susp' = "YES" /\ focus' = newFocus
        /\ Return
        /\ UNCHANGED <<events, page, pipes, shm, kid>>
     \/ /\ ~Alive(shm.grand)
        /\ WriteFifo("cycle")
        /\ state' = "PLAY" /\ susp' = "YES" /\ focus' = newFocus
        /\ Return
        /\ UNCHANGED <<events, page, shm, kid, grand>>
     \/ ~Alive(shm.grand) /\ Dies

CmdContinue ==
  /\ Given("continue")
  /\ GoTo("continue")
  /\ UNCHANGED <<flags, events, page, pipes, shm, kid, grand>>

\* player_continue_play tests whether it is stopped ...
ContinuePlay ==
  /\ At("continue")
  /\ GoTo(IF state = "STOP" THEN "start" ELSE "resume")
  /\ UNCHANGED <<flags, events, page, pipes, shm, kid, grand>>

\* ... and then whether it is paused, as a player that stopped since also is.
Resume ==
  /\ At("resume")
  /\ \/ /\ susp = "YES"
        /\ \/ Alive(shm.grand) /\ grand' = Resumed(shm.grand) /\ UNCHANGED pipes
           \/ ~Alive(shm.grand) /\ WriteFifo("cycle") /\ UNCHANGED grand
        /\ state' = "PLAY" /\ susp' = "NO" /\ focus' = "PLAYING"
        /\ GoTo(IF Alive(shm.grand) \/ Alive(shm.child) THEN "idle" ELSE "start")
        /\ UNCHANGED <<events, page, shm, kid>>
     \/ /\ susp = "YES" /\ ~Alive(shm.grand)
        /\ Dies
     \/ /\ susp = "NO"
        /\ GoTo(IF Alive(shm.child) THEN "idle" ELSE "start")
        /\ UNCHANGED <<flags, events, page, pipes, shm, kid, grand>>

\* Track t was chosen; whether the player was stopped is remembered.
Choose(t, pc) ==
  par' = [par EXCEPT !.pc = pc, !.s = [shm EXCEPT !.song = t],
            !.cmd = IF state = "STOP" THEN "next_stopped" ELSE "next"]

\* player_next_song up to its first shm_set; the requests may fail.
NextSong ==
  /\ Given("next")
  /\ PairFree
  /\ LET adv == LinkNext(page, shm.song, shm.mode, TRUE)
     IN \/ adv.ret = 0 /\ Choose(adv.track, "next_set") /\ UNCHANGED page
        \/ /\ adv.ret = 1 /\ Online /\ TRUE \in Fetch
           /\ page' = NextPage(page)
           /\ Choose(First(page'), "next_late")
        \/ /\ adv.ret = 1 /\ ~Online
           /\ Choose(IF shm.mode = "SINGLE"
                     THEN LinkNext(page, shm.song, "SINGLE", FALSE).track
                     ELSE First(page), "next_set")
           /\ UNCHANGED page
        \/ /\ adv.ret = -1 /\ TRUE \in Fetch /\ shm.song # NoTrack
           /\ Choose(NextGlobal(shm.song), "next_late")
           /\ UNCHANGED page
        \/ /\ adv.ret = -1 /\ TRUE \in Fetch /\ shm.song = NoTrack
           /\ page' = 1
           /\ Choose(First(1), "next_late")
  /\ UNCHANGED <<flags, events, pipes, shm, kid, grand>>

\* player_switch_to_picked_song with a track of the list.
PickSong ==
  /\ Given("pick")
  /\ PairFree
  /\ \E t \in First(page) .. Last(page) :
        /\ ~(/\ state = "PLAY" /\ susp = "NO"
             /\ Alive(shm.child) /\ shm.song = t)
        /\ Choose(t, "next_set")
  /\ UNCHANGED <<flags, events, page, pipes, shm, kid, grand>>

NextSet ==
  /\ At("next_set") \/ (At("next_late") /\ PairFree)
  /\ IF par.cmd = "next_stopped"
     THEN /\ shm' = [par.s EXCEPT !.child = Nobody, !.grand = Nobody]
          /\ par' = [Idle EXCEPT !.pc = "start"]
     ELSE /\ shm' = par.s
          /\ par' = [Idle EXCEPT !.pc = "next_apply"]
  /\ UNCHANGED <<flags, events, page, pipes, kid, grand>>

NextApply ==
  /\ At("next_apply")
  /\ \/ /\ Alive(shm.child)
        /\ state' = "PLAY" /\ susp' = "NO" /\ focus' = "PLAYING"
        /\ par' = [par EXCEPT !.pc = "quit", !.cmd = "next"]
     \/ /\ ~Alive(shm.child)
        /\ GoTo("start")
        /\ UNCHANGED flags
  /\ UNCHANGED <<events, page, pipes, shm, kid, grand>>

SetModeGet ==
  /\ Given("mode")
  /\ PairFree
  /\ \E m \in Modes :
        par' = [par EXCEPT !.pc = "mode_set", !.s = [shm EXCEPT !.mode = m]]
  /\ UNCHANGED <<flags, events, page, pipes, shm, kid, grand>>

SetModeSet ==
  /\ At("mode_set")
  /\ shm' = par.s
  /\ Return
  /\ UNCHANGED <<flags, events, page, pipes, kid, grand>>

-----------------------------------------------------------------------------
(* The playback child: child_process. *)

KidAt(c, pc) == kid[c].pc = pc
KidGoTo(c, pc) == kid' = [kid EXCEPT ![c].pc = pc]

\* exit(0): a zombie until the parent waits, if there still is a parent.
KidExit(c) ==
  /\ kid' = [kid EXCEPT ![c] =
               IF At("dead") THEN NoKid ELSE [NoKid EXCEPT !.pc = "zombie"]]
  /\ chld' = (chld \/ ~At("dead"))
  /\ grand' = Orphaned(c)
  /\ fifo' = Kept(fifo, wopen, grand')
  /\ UNCHANGED <<par, flags, eof, suppressed, caught, page, wopen, shm>>

\* SIGUSR1 is looked at before a track, while waiting, and after the track.
KidStop(c) ==
  /\ kid[c].pc \in {"top", "wait", "after", "eof_sent"}
  /\ kid[c].stop \/ KidAt(c, "eof_sent")
  /\ KidExit(c)

KidFork(c) ==
  /\ KidAt(c, "top") /\ ~kid[c].stop
  /\ \E g \in Grands :
        /\ Fresh(g)
        /\ grand' = [grand EXCEPT ![g] = [NoGrand EXCEPT !.pc = "born",
                       !.kid = c, !.page = kid[c].page,
                       !.song = kid[c].song, !.url = kid[c].url]]
  /\ KidGoTo(c, "wait")
  /\ UNCHANGED <<par, flags, events, page, pipes, shm>>

\* wait_pid_exit returns the grandchild.
KidReap(c) ==
  /\ KidAt(c, "wait") /\ ~kid[c].stop
  /\ \E g \in Grands :
        /\ grand[g].kid = c /\ grand[g].pc = "zombie"
        /\ grand' = [grand EXCEPT ![g] = NoGrand]
  /\ KidGoTo(c, "after")
  /\ UNCHANGED <<par, flags, events, page, pipes, shm>>

KidGet(c) ==
  /\ KidAt(c, "after") /\ ~kid[c].stop
  /\ PairFree
  /\ kid' = [kid EXCEPT ![c].pc = "sync", ![c].s = shm]
  /\ UNCHANGED <<par, flags, events, page, pipes, shm, grand>>

\* The track to play next: the one in shm when it changed (without its URL
\* when it is not in the child's list), else the next one of the list.
KidSync(c) ==
  LET k == kid[c]
      next == LinkNext(k.page, k.s.song, k.s.mode, FALSE)
      play(song, url) == kid' = [kid EXCEPT ![c] = [NoKid EXCEPT !.pc = "top",
                  !.stop = k.stop, !.page = k.page, !.song = song, !.url = url]]
      changed == k.s.song # NoTrack /\ k.s.song # k.song
  IN  /\ KidAt(c, "sync")
      /\ \/ changed /\ OnPage(k.page, k.s.song) /\ play(k.s.song, k.s.song)
         \/ changed /\ ~OnPage(k.page, k.s.song) /\ play(k.s.song, k.url)
         \/ /\ ~changed /\ next.ret = 0
            /\ kid' = [kid EXCEPT ![c].pc = "set", ![c].song = next.track,
                                  ![c].url = next.track]
         \/ ~changed /\ next.ret = -1 /\ KidGoTo(c, "fetch")
         \/ ~changed /\ next.ret = 1 /\ KidGoTo(c, "eof")
      /\ UNCHANGED <<par, flags, events, page, pipes, shm, grand>>

\* The next track is on a page the child does not have; without an answer the
\* child ends and says nothing.
KidFetch(c) ==
  /\ KidAt(c, "fetch")
  /\ \/ /\ TRUE \in Fetch /\ kid[c].s.song # NoTrack
        /\ LET t == NextGlobal(kid[c].s.song)
           IN  kid' = [kid EXCEPT ![c].pc = "late_set", ![c].song = t,
                                  ![c].url = t]
        /\ UNCHANGED <<par, flags, events, page, pipes, shm, grand>>
     \/ /\ FALSE \in Fetch \/ kid[c].s.song = NoTrack
        /\ KidExit(c)

\* The copy of shm, made before the track was chosen, is written back.
KidSet(c) ==
  /\ KidAt(c, "set") \/ (KidAt(c, "late_set") /\ PairFree)
  /\ shm' = [kid[c].s EXCEPT !.song = kid[c].song]
  /\ kid' = [kid EXCEPT ![c].pc = "top", ![c].s = NoCopy]
  /\ UNCHANGED <<par, flags, events, page, pipes, grand>>

\* SIGUSR1 to the parent: player_handle_playlist_eof interrupts it anywhere.
KidEof(c) ==
  /\ KidAt(c, "eof")
  /\ IF At("dead") THEN UNCHANGED <<flags, eof>>
     ELSE /\ state' = "STOP" /\ susp' = "YES" /\ focus' = "IDLE"
          /\ eof' = TRUE
  /\ caught' = (caught \/ par.pc \in {"pause", "tts", "resume"})
  /\ kid' = [kid EXCEPT ![c].pc = "eof_sent", ![c].s = NoCopy]
  /\ UNCHANGED <<par, chld, suppressed, page, pipes, shm, grand>>

-----------------------------------------------------------------------------
(* The grandchild. *)

GrandAt(g, pc) == grand[g].pc = pc

\* Mutant: the new track's name is taken, its URL is not.
GrandGetNameOnly(g) ==
  /\ GrandAt(g, "born")
  /\ PairFree
  /\ grand' = [grand EXCEPT ![g].pc = "register", ![g].s = shm,
                 ![g].song = IF OnPage(grand[g].page, shm.song) THEN shm.song ELSE @]
  /\ UNCHANGED <<par, flags, events, page, pipes, shm, kid>>

\* It looks for a track chosen since the child picked one ...
GrandGet(g) ==
  LET chosen == OnPage(grand[g].page, shm.song)
  IN  /\ GrandAt(g, "born")
      /\ PairFree
      /\ grand' = [grand EXCEPT ![g].pc = "register", ![g].s = shm,
                     ![g].song = IF chosen THEN shm.song ELSE @,
                     ![g].url  = IF chosen /\ shm.song # grand[g].song
                                 THEN shm.song ELSE @]
      /\ UNCHANGED <<par, flags, events, page, pipes, shm, kid>>

\* Mutant: the grandchild does not register.
GrandSetUnnamed(g) ==
  /\ GrandAt(g, "register")
  /\ shm' = [grand[g].s EXCEPT !.child = grand[g].kid, !.song = grand[g].song]
  /\ grand' = [grand EXCEPT ![g].pc = "open", ![g].s = NoCopy]
  /\ UNCHANGED <<par, flags, events, page, pipes, kid>>

\* ... and writes its pid, its parent's and the track into shm.  The parent
\* of an adopted grandchild is pid 1, which is not one of the player's.
GrandSet(g) ==
  /\ GrandAt(g, "register")
  /\ shm' = [grand[g].s EXCEPT !.child = grand[g].kid, !.grand = g,
                               !.song = grand[g].song]
  /\ grand' = [grand EXCEPT ![g].pc = "open", ![g].s = NoCopy]
  /\ UNCHANGED <<par, flags, events, page, pipes, kid>>

\* The URL is resolved and GStreamer set up before the FIFO is opened.
GrandPlay(g) ==
  /\ GrandAt(g, "open") /\ ~grand[g].stopped
  /\ \/ TRUE \in Fetch /\ grand' = [grand EXCEPT ![g].pc = "play"]
     \/ FALSE \in Fetch /\ grand' = Ended(grand, g)
  /\ UNCHANGED <<par, flags, events, page, pipes, shm, kid>>

GrandRead(g) ==
  /\ Reading(g) /\ ~grand[g].stopped
  /\ fifo # <<>>
  /\ \/ /\ Head(fifo) = "quit"
        /\ grand' = Ended(grand, g)
     \/ /\ Head(fifo) = "cycle"
        /\ grand' = [grand EXCEPT ![g].paused = ~@]
  /\ fifo' = Kept(Tail(fifo), wopen, grand')
  /\ UNCHANGED <<par, flags, events, page, wopen, shm, kid>>

\* The end of the track, or an error of the stream.
GrandEos(g) ==
  /\ Audible(g)
  /\ grand' = Ended(grand, g)
  /\ fifo' = Kept(fifo, wopen, grand')
  /\ UNCHANGED <<par, flags, events, page, wopen, shm, kid>>

-----------------------------------------------------------------------------
Events == ReapChildren \/ ClearChildFlag \/ EofDropped \/ EofTurnPage

Command == \/ CmdStart \/ StopPlay \/ CmdContinue \/ NextSong \/ PickSong
           \/ CmdSuspend("pause") \/ CmdSuspend("tts") \/ SetModeGet

InCommand == \/ Wrap \/ WrapSet \/ StartPlay \/ StartSet \/ ForceStop \/ Quit
             \/ Kill \/ WaitChild \/ ForceGrand \/ ClearSet \/ ForkChild
             \/ PidGet \/ PidSet \/ StopLast \/ StopClear
             \/ Suspend("pause", "PAUSED_MANUAL")
             \/ Suspend("tts", "PAUSED_FOR_TTS")
             \/ ContinuePlay \/ Resume \/ NextSet \/ NextApply \/ SetModeSet

Kid(c) == \/ KidStop(c) \/ KidFork(c) \/ KidReap(c) \/ KidGet(c) \/ KidSync(c)
          \/ KidFetch(c) \/ KidSet(c) \/ KidEof(c)

GrandSetup(g) == GrandGet(g) \/ GrandSet(g) \/ GrandPlay(g) \/ GrandRead(g)
Grand(g) == GrandSetup(g) \/ GrandEos(g)

Next == \/ Events \/ Command \/ InCommand
        \/ \E c \in Kids : Kid(c)
        \/ \E g \in Grands : Grand(g)

Spec == Init /\ [][Next]_vars

\* The kernel runs every process that can run; commands and the end of a track
\* owe nobody anything.
Fairness ==
  /\ WF_vars(ClearChildFlag \/ EofDropped \/ EofTurnPage \/ InCommand)
  /\ \A c \in Kids : WF_vars(Kid(c))
  /\ \A g \in Grands : WF_vars(GrandSetup(g))

FairSpec == Spec /\ Fairness

ParRecs ==
  [pc : {"idle", "dead", "reaped", "events", "wrap", "wrap_set", "wrap_late",
         "start", "start_set", "force", "quit", "kill", "wait_child",
         "force_grand", "clear_set", "fork", "pid_get", "pid_set",
         "stop_last", "stop_clear", "pause", "tts", "continue", "resume",
         "next_set", "next_late", "next_apply", "mode_set"},
   cmd : {"none", "force", "stop", "next", "next_stopped"},
   s : Shm, seen : GrandPids, track : SongIds, retry : 0 .. 3]
KidRecs ==
  [pc : {"free", "zombie", "top", "wait", "after", "sync", "fetch", "set",
         "late_set", "eof", "eof_sent"},
   stop : BOOLEAN, song : SongIds, url : SongIds, page : 1 .. Pages, s : Shm]
GrandRecs ==
  [pc : {"free", "zombie", "born", "register", "open", "play"},
   kid : KidPids, song : SongIds, url : SongIds, page : 1 .. Pages,
   s : Shm, stopped : BOOLEAN, paused : BOOLEAN]

\* The types of the variables and of the copies of shm the processes hold.
TypeOK ==
  /\ par \in ParRecs
  /\ state \in {"STOP", "PLAY"}
  /\ susp \in {"NO", "YES"}
  /\ focus \in {"IDLE", "PLAYING", "PAUSED_MANUAL", "PAUSED_FOR_TTS"}
  /\ eof \in BOOLEAN /\ chld \in BOOLEAN /\ suppressed \in BOOLEAN
  /\ caught \in BOOLEAN
  /\ page \in 1 .. Pages
  /\ wopen \in BOOLEAN
  /\ fifo \in Seq({"quit", "cycle"})
  /\ shm \in Shm
  /\ kid \in [Kids -> KidRecs]
  /\ grand \in [Grands -> GrandRecs]

Quiet == par.pc = "idle"

\* Never two tracks at once (baseline document 8.1): whatever commands, track
\* ends and page turns overlap, at most one grandchild has its output open.
OneOutput == \A g, h \in Readers : g = h

\* player_start_play never forks a second child beside one that still chooses
\* tracks (one that was told to stop, or has signalled the end, only leaves).
Scheduling(c) == /\ kid[c].pc \notin {"free", "zombie", "eof_sent"}
                 /\ ~kid[c].stop
OneChild == \A c, d \in Kids : Scheduling(c) /\ Scheduling(d) => c = d

\* A grandchild plays the track whose name it wrote into shm: after a switch
\* the new track, not the old one under the new name.
NameMatchesUrl == \A g \in Readers : grand[g].url = grand[g].song

\* After player_stop_play nothing sounds, and nothing will: whenever the
\* parent is back in its loop and stopped, there is no audible grandchild.
StopSilences == Quiet /\ state = "STOP" => \A g \in Grands : ~Audible(g)

\* While the loop waits for a command, what sounds is the grandchild that shm
\* names, of the child that shm names: the next stop or pause will reach it.
OutputIsNamed ==
  Quiet => \A g \in Grands :
     Audible(g) => shm.grand = g /\ shm.child = grand[g].kid

\* The pids of shm are cleared by a stop (baseline document 8.1).
StopClearsPids ==
  Quiet /\ state = "STOP" /\ suppressed =>
     shm.child = Nobody /\ shm.grand = Nobody

\* A player that says it plays has a child that will choose the next track, or
\* the end of the list is still to be handled.  This is false, until the next
\* start, when an end has fallen between the test of a pause or a continue and
\* what it sets: the end then meets a player that says it is paused, continues
\* it, and takes the child that is about to leave for one that plays.
PlayingHasChild ==
  Quiet /\ state = "PLAY" /\ susp = "NO" /\ ~eof /\ ~caught =>
     \E c \in Kids : Scheduling(c)

\* Every command ends, however long the sleeps of the parent and the steps of
\* the others take: no wait in force_stop_playback_processes is unbounded.
CommandsEnd == ~Quiet ~> Quiet \/ par.pc = "dead"
=============================================================================
