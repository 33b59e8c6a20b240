# Verification of the smart speaker

TLA+ modules that model the smart speaker of this repository, TLC configurations that check them on small
instances, and TLAPS proofs of their central properties for every value of the constants. Every definition is
translated from the C sources; `PROJECT.json` maps it to the lines it stands for.

## 1. The system

### Components

| Component | Sources | State | Operations | Correct when |
| --- | --- | --- | --- | --- |
| Player control | `player/core/player.c`, `main.c` | `g_current_state`, `g_current_suspend`, `g_audio_focus_state`, flags set by signal handlers, page context, descriptor of the command FIFO | start, stop, pause, pause for TTS, continue, next, previous, pick, mode, end of list | one output, silent after a stop, every command ends |
| Playback child | `child_process` | its forked copy of list, track and flags | fork a grandchild per track, choose the next track, signal the end of the list | plays the list of the parent, ends when told |
| Grandchild | `play_music_node`, `player_gst.c` | pipeline, pause, FIFO reader | register in shm, play, quit, cycle pause | plays the track it registered |
| Shared record | `shm.c` | one `Shm_Data`, one System V semaphore | `shm_get`, `shm_set` | atomic, survives the death of a holder |
| Asynchronous query | `music_server_async.c`, `select_music_llm.c` | token, one-answer slot, pipe | start, publish or drop, cancel, deliver | latest query answered once, nothing leaked or freed twice |
| Select loop | `select.c`, `select_text.c`, `player_fifo.c` | descriptor set, FIFOs | dispatch of voice, socket, keyboard, TTS events | no event lost or acted on out of order |
| Playlist, paging | `link.c`, page functions of `player.c` | doubly linked list, page context | next, previous, insert, turn page | order kept, page in range |
| Server link, online mode | `net/socket.c` | socket, online mode | connect, receive, reply, disconnect | one mode at a time, queries of a lost server withdrawn |
| State report | `net/socket_report.c` | a thread | periodic report | sees a consistent player |
| Music sources | `music_source_*.c`, `music_lib_bridge.c` | none of their own | HTTP and directory searches | outcome or failure |
| Rules | `rule_match.c` | none | text to command | pure |
| Buttons, volume | `device.c` | click timer, mixer | adjust; the buttons are not set up (`key_init` is commented out in `core/main.c:208-213`) | the volume asked for |
| Speech output | `voice-assistant/main_tts` | playback thread, stop flag, sample and file buffers | play text, play file, wake response, stop | one announcement at a time, start and done events paired |
| Wake word and recognition | `voice-assistant/main_asr_kws` | KWS or ASR mode, last text, deadlines | wake, recognise, time out | music resumes after a dialogue |
| IPC framing | `ipc/ipc_message.c` | none | send, receive a framed message | messages whole |
| Supervisor | `supervisor/main.c` | three pids | spawn, respawn, shut down | every process runs again |
| Relay server | `smart-speaker-server/src/server.cpp`, `player.cpp` | devices, apps, timers | login, bind, relay, heartbeat | messages to the bound peer only |
| Accounts | `database.cpp` | MySQL tables | register, login, bind | one account per device |
| Qt app | `smart-speaker-qtApp` | windows, the connection, who reads it | log in, bind, report, command, reconnect | shows and steers the speaker of its account |
| Music service, music library, tools | | | | not part of the protocol modelled here |

### How they interact

The parent of the player runs one select loop. It forks a playback child; the child forks one grandchild per track.
The three share `Shm_Data` (track, mode, pids) under a semaphore, signal each other (SIGUSR1 from the parent tells
the child to stop, SIGUSR1 from the child tells the parent that the list has ended, SIGSTOP/SIGCONT/SIGKILL go to
the grandchild) and the parent writes commands to a FIFO that the grandchild reads. Searches run in detached
threads of the parent which leave their answer in a slot and wake the loop through a pipe. The speech processes talk
to the player by FIFOs: recognised text, wake words, and `tts:start` / `tts:done`. A TCP link connects the player to
the relay server and through it to the app.

### What is hard

* `shm_get` ... `shm_set` is not one transaction: whatever another process writes in between is overwritten, and some
  copies are held during a request to the server.
* The child and grandchild work on forked copies of the list; pages turned by the parent are unknown to them.
* Signals interrupt the parent anywhere: SIGUSR1 changes its state in the middle of a command, and a `semop` fails with
  EINTR.
* Waits are bounded and end with SIGKILL, which may hit a process inside `shm_set`.
* Late threads, drains outside the mutex, a pipe and a slot that are filled in separate steps.
* Announcements, pauses and user commands overlap; events travel by FIFOs that may be read in one piece.
* The list shown, the source behind it, the child's copy of it and the app's snapshot are four things that page turns,
  insertions and failing requests change at different times.
* The server knows its clients by their last connection; ends, silence and late reports of older ones arrive in any order.

`PROJECT.json` lists these under "hazards", each with its line and the properties that cover it; the ones that are not
covered say why.

## 2. Modules

| Module | Models | Checked by |
| --- | --- | --- |
| `Playback` | parent, child and grandchild: commands, end of list, forks, signals, waits, FIFO, the record shm | `MCPlayback`, `Playback_*.cfg` |
| `PlaybackProofs` | type correctness for all constants, the operators on lists and processes | tlapm |
| `PlaybackSafetyProofs` | all other safety properties of `Playback` | tlapm |
| `ShmLock` | the inside of `shm_get` / `shm_set`: semaphore, SEM_UNDO, EINTR, SIGKILL, a copy of two words | `ShmLock_*.cfg` |
| `AtomicShm` | what they promise: an atomic record, until a process dies in the middle of `shm_set` or goes on without the lock | as a property of `ShmLock` |
| `ShmLockProofs` | mutual exclusion, survival of death, the refinement | tlapm |
| `AsyncQuery` | threads, slot, token, pipe, one round of the loop | `MCAsyncQuery`, `AsyncQuery_*.cfg` |
| `AsyncQueryProofs` | no lost wake-up, single ownership, order, no list lost unless overtaken | tlapm |
| `TtsPlayback` | the speech output process: command loop, playback thread, stop flag, content session, events | `TtsPlayback_*.cfg` |
| `Playlist` | the list, its pages, the context, insertions, next and previous, the end of the list, modes, the app's snapshot | `MCPlaylist`, `Playlist_queue.cfg` |
| `PlaylistProofs` | types, the app's list, the announced song, the successor of next | tlapm |
| `Dialogue` | recogniser, speech output and player with the FIFOs between them: what is stopped, deferred and resumed around what is said | `Dialogue_*.cfg` |
| `DialogueProofs` | types, focus, no start that was not asked for | tlapm |
| `Relay` | the relay server, its accounts, speakers and apps as its clients | `Relay_*.cfg` |
| `RelayProofs` | all safety properties of `Relay` | tlapm |
| `TtsPlaybackProofs` | types, one speaker, the hand-over of a text, no `tts:done` during a text, a prompt stop | tlapm |

`Playback` uses the record as one variable that is read and written in single steps; `ShmLock` shows what that rests
on (its refinement of `AtomicShm`) and where it fails (an interrupted `semop`, a death inside `shm_set`). `Dialogue` takes from
`Playlist` that a start may find no song and from `TtsPlayback` that an announcement ends; `Playlist` takes from `Dialogue`
that an announcement is over (`CommitIntro`) and from `Playback` that the child goes to the track which shm names.

### Playback

State: `par` is the parent's program counter with the locals of the command it executes (its copy `s` of shm, the pid
`seen` that `stop_active_grandchild` remembers, the retry counter); `state`, `susp`, `focus`, `eof`, `chld`,
`suppressed`, `page`, `wopen` are the globals of `player.c`; `kid` and `grand` are the processes with their program
counters, forked copies and signal state; `fifo` is the command FIFO. A pid may be reused when nobody remembers it.

Every command is cut where it touches something shared: `StartPlay` reads shm, `StartSet` writes it, `ForceStop`,
`Quit`, `Kill`, `WaitChild`, `ForceGrand`, `ClearSet` are the rounds of `force_stop_playback_processes`, `ForkChild`,
`PidGet`, `PidSet` are `player_play_music`, `CmdSuspend` and `Suspend` the test and the effect of a pause, `ContinuePlay`
and `Resume` those of a continue. The child is `KidFork`, `KidReap`, `KidGet`, `KidSync`, `KidFetch`,
`KidSet`, `KidEof`, `KidStop`; the grandchild `GrandGet`, `GrandSet`, `GrandPlay`, `GrandRead`, `GrandEos`. SIGUSR1 of a
child (`KidEof`) may interrupt the parent between any two of its steps; the history variable `caught` notes that it fell
between the test and the effect of a pause or a continue since the last start.

Assumptions, all stated as constants or guards:

* `Timely`: the parent's sleeps while it stops others (150 ms and 150 ms in `stop_active_grandchild`, 100 ms between the
  rounds of `force_stop_playback_processes`, waits of up to 500 ms) are longer than the short steps of the others (`Settled`), and no
  other process's `shm_get` falls into the few instructions between a `shm_get` and its `shm_set` (`ShortCopy`). Copies
  held over a request to the server are not short and overlap with everything. Without `Timely` the pids are lost
  even in sequences of start and stop.
* A track is its index in the catalogue. Names, singers and sources are not modelled, nor the choice among tracks with
  equal names.
* The list is not empty. The two consecutive `shm_set` calls of `player_next_song` on a stopped player are one step.
* The assignments of `state`, `susp` and `focus` by one command are one step, and so are the two tests of
  `player_start_play`; SIGUSR1 may fall between a test and the assignments (`CmdSuspend` and `Suspend`, `ContinuePlay` and
  `Resume`), not among the assignments.
* `force_advance` of a failed track matters only when the mode is not SINGLE, where it has no effect on the order.

### AsyncQuery

`thread[j]` runs `Search`, `PublishOrDrop` (its critical section) and `NotifyWrite`. The loop's round is `Select` (which
fixes the descriptor set), socket, ASR, async pipe, in this order. `CancelPending` and `CancelDrain`, and
`OnReadableDrain`, `OnReadableTake` and `Deliver`, are separate steps, as they are in the code. `freed` and `answered`
are history variables.

### ShmLock

Processes call `shm_get` or `shm_set`, wait, copy two words one at a time, and leave. `Kill` may hit anywhere and gives
the SEM_UNDO adjustment back; `SemInterrupted` is a `semop` that fails with EINTR, after which the code copies all the
same. `cut` records a death between the two words of a `shm_set`, `bare` an interrupt: from the first of either on, the
record is not promised to be atomic; the lock is promised to be exclusive until the first interrupt. That every caller gets
through is promised in any case. The signal handlers of the players call neither `shm_get` nor `shm_set`; `button_handler` of
`device.c` would, but is never installed.

### TtsPlayback

The process has one command loop and starts a thread per announcement. `main` is the loop's place in the command it
handles, `handle` is `playback_thread`, `stop`, `samples` and `file` are the stop flag, the buffer and the WAV name handed
over, `session` and `wake` the marks `s_tts_content_session` and `s_wav_play_is_wake`, and `th` the threads with what they
play and how many periods are left. `PlayText`, `PlayAudioFile`, `StopPlaying` and `PlayWakeResponse` are the four
messages of `handle_ipc_message`; what a command does after it is cut where it touches something shared: `WakeFile`,
`JoinTest`, `JoinCall`, `JoinReturns`, `RequestText`, `Put`, `Create`, `WakePlaying`. A thread does `TakeText` or `TakeWav`,
`Open`, then `Check`, `Recheck` and `Write` for each period, and `Drain`, `SessionEnd`, `Done`, `Unwake`, `Clear`. `gaveUp` and
`early`, and the counts `told` and `after` of a thread, are history: `early` names the commands for which `tts:done` was told while
another's text was spoken. A file command without a path (`"empty"`) is answered before the content session is looked at, and so
may be in it; no process of the speaker sends one (`tts_play_audio_file` refuses an empty path), but `tools/ipc_inject.c` can.

The makefile has no `-O`: the test of `playback_thread` and the argument of `pthread_join` are two reads, between which the
thread may clear it. A join of thread 0 is a fault of the process; `Respawn` is the supervisor's new one. Left out:
the signal handlers of SIGINT and SIGUSR1, a failing `pthread_create`, and the way the events take to the player.


### Playlist

`q` is the list with the page context, the current track of shm and `pub`, the list the app was sent last; `kid` is what the
child knows: its forked copy of the list and of the context. Songs are identities (`source` and `song_id`), the music service
is the constant `Catalog`, and a request fails, finds nothing (with or without the number of pages) or finds its page
(`Replies`). A page turn is cut at every request (`Turn`, `TryPage`), an insertion between the list and shm (`InsertSongs`,
`AfterInsert`): between these the child may go on (`KidNext`). Every other handler is one step, as the loop of the parent runs
nothing else meanwhile; the child's interleavings with shm are in `Playback`. The environment variable that forces offline mode
and the code that nothing calls (`socket_update_music`, `link_read_udisk_music`, a search by singer) are left out.

### Dialogue

`ear`, `hears`, `asr_ctrl` belong to `main_asr_kws`, `tts` and its FIFO to `main_tts`, `p` to the player; a FIFO of lines that is read at
once is the set of its lines. The command that is found in a text is chosen when the text is read: `Understood` has one
disjunct per kind of command of `select_read_asr`, with its reply, its focus and its treatment of the follow-up flag.
`WakeUp`, `WakeDone`, `Listen`, `ProcessCtrl` are the recogniser, `RecvText` to `ThreadEnd` the speech process, `select_read_kws`,
`select_read_asr`, `select_read_player_ctrl`, `ReopenCtrl`, `Searched` and `Deliver` the player's handlers; `Hand`, `Switch`,
`Disconnect` and `Eof` are what keyboard, app, server and child do meanwhile, and `ipc_inject` is the tool of that name with a file
command without a path. The crash of a process is not in this module. Two variables are history:

* `wish` is what the user asked for last: music, silence, or a pause or stop that went unheeded. Unheeded is, first, a pause by
  hand of music that an announcement has paused already: `player_suspend_play` does nothing then, and the `tts:done` starts the
  music. And, second, any pause or stop while a search, an announced song or an end of the list is still to be dealt with
  (`Outstanding`), which the code does not take back. `SilentUntilAsked` is about every other pause and stop.
* `astray` is why music may stay paused although nobody asked for it: `"lost"` stands for a done that was dropped or read together
  with a start, and for a follow-up flag that is left set; `"cancelled"` for the pause command and for the fallback answer, both of
  which call `player_audio_focus_cancel_resume`. `PausedIsResumed` excepts both, `AnnouncedIsPlayed` the first.

### Relay

Each callback of the server's event loop is one action on `reg` (`m_player_list`), `db` and the connections `cs`. A client has at
most one connection that it uses and one whose end the server has not seen; what it sends waits in `toSrv`. What the server
sends is acted on at once: delaying it equals delaying what the client sends next. `Handler` says which window of the app
takes a message: the one that was connected to `readyRead` first. An app's connection ends when the server frees it, when the user
closes the app (`AppQuit`), or when the app loses it before the server has noticed (`AppLost`), which leaves an unowned window open. Lists are known by a version. Music requests of speakers
take time only, which makes everyone late for the timer (`TimerCb`).

## 3. Runs

| Run | Shows | Bounds |
| --- | --- | --- |
| `AsyncQuery_queries` | no lost wake-up, single ownership, leak only when overtaken, order, the latest query answered | 2 queries, 4 tokens: an older, a newer and two disconnects |
| `Playback_offline` | one output, stop silences it, output named in shm, right URL, a playing player has a child | 2 children, 3 grandchildren, 2 tracks, all commands |
| `Playback_online` | one output with pages and failing requests; every command ends; no deadlock | 2 children, 3 grandchildren, 2 pages of 2, all commands but next and pick |
| `Playback_pages` | types, one choosing child, pids cleared by a stop, with next over page boundaries | 2 children, 2 grandchildren, 2 pages of 1 |
| `Playback_twice` (violation) | next over a page boundary, then stop and start: two outputs | 2 pages of 2 |
| `ShmLock_kill` | mutual exclusion until an interrupt, the lock survives death, callers get through, the record refines `AtomicShm` | 2 processes, 2 records; deaths and interrupts |
| `TtsPlayback_commands` | one announcement at a time, texts handed over once, no `tts:done` during a text but for a file command without a path, a stop is prompt, commands and sessions end | 2 threads, 3 periods, any sequence of commands |
| `Playlist_queue` | the app has the speaker's list, an inserted song is the one announced, next follows the source across pages, the end of the list is not the end of the music | a source of two pages, one that shares a song with it, a playlist, two local songs; insertions into lists of 0 and 2 songs |
| `Relay_registry` | types, no freed connection in the registry, commands and lists are those of the speaker the window shows, one account per speaker | 1 app that uses 2 accounts, 2 speakers, 1 message and 1 end under way |
| `Relay_reports` | an attached app has the server's list; speakers and windows that stay connected are registered and attached in the end | 1 app, 1 speaker, 2 versions, 2 messages and 2 ends under way |
| `Dialogue_resume` | the focus fits the player, nothing starts after a pause or stop that the code heeds, paused music goes on unless the pause command or the fallback answer ends that, announced songs are played | 2 commands in the FIFO, 2 events of user, server and list |
| `Dialogue_offline` (violation) | after a wake-up in offline mode the recogniser never listens for the wake word again | 1 command, 2 events |

Two children are enough for "old and new", three grandchildren for an old one, a running one and one being forked; a
third page or track adds no new relation between the list, the record and a process. `MaxFifo` bounds the commands in
the FIFO (EAGAIN beyond it). Pids of one kind are symmetric and none of the properties under symmetry is a liveness
property. In `Relay` two connections per client are an old and a new one; two speakers and two accounts are what is needed to
mix them up, and the theorems hold for any number. `Extensible` keeps repeated insertions from growing the list for ever: lists
of 0 and 2 songs are the empty one and a full page. In `Dialogue` two events already let a pause, a stop, a mode switch or a
second wake-up fall anywhere into a dialogue; three take more than five minutes.
`CHECK_DEADLOCK FALSE` is set where the system may stop for good: in the `Playback` runs whose parent may be
killed by SIGPIPE, in `ShmLock_kill`, where all processes may be dead, and in `Dialogue`, when the events are used up.

Fairness. `AsyncQuery`: the scheduler runs the loop and every thread, and the socket timeouts of
`music_source_server.c` end a search. `Playback`: weak fairness of the command in progress, of each child and of each
grandchild except for the end of its track; commands are never owed. `ShmLock`: weak fairness of a holder, strong
fairness of taking the semaphore, because the kernel serves its waiters in order.
`TtsPlayback`: weak fairness of the command in progress (and of the respawn) and of each thread. `Playlist`: the handler under way
goes on, and the loop looks at the flag of the end of the list in every round (strong, as a handler may be under way whenever
the scheduler looks). `Relay`: the server's loop reads what has come (weak) and the timers of speakers and windows report (strong:
a full channel of the model may delay them). `Dialogue`: weak fairness of the three processes, of searches, which end by their
timeouts, and of the handlers; strong where a handler speaks, because the bound on the FIFO may disable it now and then. No
fairness on deaths, signals, disconnects, wake-ups, queries or commands.

Disagreements between the code and its documents are listed under "findings" in `PROJECT.json`, one per
violation run. What else the modelling has shown of the code, stated in the exceptions of the properties rather than in runs of
their own:

* Asynchronous queries: a byte written between the drain and the look at the slot makes a second delivery of an empty slot,
  which is taken for a failed query.
* Playback: a pause before the new grandchild has registered reaches nobody; a write to the FIFO of a dead reader kills the
  player with SIGPIPE; the child writes back a copy of shm that the parent changed during the child's request (`KidFetch`,
  `KidSet`), and a track outside the child's page is played with the old URL (`KidSync`), which is why `NameMatchesUrl` is
  checked offline only. With an interrupted `semop` two processes copy at once. An end of the list between the test of a pause
  or a continue (`player.c:815`, `player.c:787`) and what it then sets leaves a player in PLAY without a child when the loop
  handles the end; `PlayingHasChild` excepts it with `caught`, which lasts until the next start.
* Speech output: a stop followed by the next file before the thread looks is undone, and the old file is played on; the mark
  of a wake response is set before the old announcement has been joined, so that the old file ends without its `tts:done`; a
  wake response without its file, with nothing playing, sends start and done at once; a file command without a path is answered
  with `tts:done` even while a text is spoken (`tts_ipc_handler.c:36`).
* Dialogue: a command that is carried out without clearing the follow-up flag ("already online", a failed next, stop, pause), or a
  keyword that is read after its text, makes the next `tts:done` resume nothing; a done is lost while the player reopens its
  FIFO, or swallowed by a start in the same read; an app's pause while the music is paused for an announcement is ignored; a
  search is not cancelled by a pause or a stop and plays later; a deferred song may be started by another announcement's done;
  the fallback answer turns the pause into a manual one and the music stays paused (`select.c:387-427`), although
  the documents of the voice state machine (line 54: playback is resumed when the language model's fallback returns and
  `g_need_continue` is set) and of the play modes (line 129: a command is carried out by rule or language model, after control
  commands playback is resumed) let one expect that it goes on. `mode:offline` wins when both modes are read at once.
* Playlist: a song inserted by voice may repeat one of the list, and order play then loops between the two and never reaches
  the songs behind; when the current track is not in the list but among the inserted ones, the song behind it is
  announced instead of the one asked for; the end of the list after an app's page turn continues behind the page shown; a
  next on a stopped player whose track is on another page starts the first song of the shown one; a failed keyword search
  leaves the new keyword with the old list; previous stays at the head online; filling a page clears the list even if the reply is empty.
* Relay: `device_offline` is never sent, as the connection is freed before the loop runs again; ends by an error are ignored, and
  connections that no entry names are never freed; an upload before the first report is dropped; a reply that finds the
  app gone ends the server (`ReplyToNull`); `user_bind` overwrites an older device of the account, so that a window that still
  shows that device goes on steering it when another account has bound it; after a successful binding
  the unowned player window stays first in line for messages and swallows the reply to a later login; a
  speaker does not reconnect by itself.

## 4. Proofs

Every safety property that a passing run checks, invariant or action property, is stated by a theorem; the hypotheses, where
there are any, are named below. For any number of processes, queries, pages and FIFO slots:

* `AsyncQueryProofs`: `TypeCorrect`, `WakeupsArrive`, `ListsOwnedOnce`, `AnswersKeepOrder`,
  `ListsLostOnlyIfOvertaken`. Ownership needs that a thread's list
  exists only while its counter says so and that slot and copy hold answers of threads that have published; the order
  needs that tokens of published answers are at most `latest` and that taken answers are not newer than it. That a list is lost only when it
  was overtaken needs that every published one is in the slot, in the copy, freed or older than another (`ListsAccounted`).
* `ShmLockProofs`: the inductive invariant says that exactly the process in the copy holds the SEM_UNDO adjustment, that
  adjustment and semaphore add up to 1 and that there is at most one such process. `LockExcludes`,
  `LockSurvivesDeath`; `ShmIsAtomic` adds the relation between the words of the record and of the copies. None assumes
  that nobody is killed or interrupted; the run has two processes, the theorems any number.
* `PlaybackProofs`: `PlaybackTypeCorrect`. `TypeOK` alone is not inductive: that the retry counter stays in 0..3 needs that
  it is counted only inside the rounds of `force_stop_playback_processes` (`RetryInv`).
* `PlaybackSafetyProofs`: the other safety properties of `Playback`, on the invariants below, each of which TLC has
  checked on the instances of the runs.
  * `SInv`, kept by every step if `Timely`: where the parent may be in which command (`ParInv`); a child that may still touch
    shm is the one that shm, the parent's copies and its own copy name, and the state is PLAY (`ChildInv`); a child has one
    grandchild and waits for it (`WaitedInv`); a grandchild that will write shm has its child, unless a stop is going on
    (`SettingInv`); after a stop shm and its copies name nobody until the next start (`SuppressedInv`). `StartForksOneChild` and
    `StopForgetsPids` follow.
  * `OutInv`: at most one grandchild is left (`OnlyGrand`), one without its child is left behind only by a stop or by the
    parent's death (`OrphanInv`), and one that plays is named by shm and by every copy that will be written back (`NamedInv`,
    `PairInv`). It is kept unless a copy of shm that the parent holds over a request to the server is overtaken by a child or
    a grandchild that registers, which is what the run `Playback_twice` shows to happen. `NotOvertaken` says that none is, and
    `OneOutputUnlessOvertaken`, `StopSilencesUnlessOvertaken` and `OutputNamedUnlessOvertaken` are about the behaviours in which
    that always holds. Two theorems say when it need not be supposed. `OfflineOutput`: offline there are no such copies.
    `OutputWithoutNext`: if the command `next` is not used, the parent holds a copy over a request only in the wrap, and only
    when no child is left (`PageInv`: a child that was forked while an end of the list was still to be handled is on the
    parent's page until that end has been handled, so that the wrap finds its track). So one output, silence after a stop
    and an output that shm names hold for every player but one that is online and is told `next`.
  * `PlayInv`, offline: when no child is active and the state is PLAY, the end of the list is still to be handled, and nothing
    on the way to the next start is taken for a running child (`EndedInv`); the copies of the parent name the child (`CopyInv`).
    It is kept unless an end of the list has come within a pause or a continue (`Undisturbed`); that mark is kept (`NotedKept`)
    until the next start clears it (`StartIsFresh`). `OfflinePlayingHasChild`. Online it is false, as TLC shows: a child or a wrap whose request fails ends without a word.
  * `NameInv`, on a list of one page: child and grandchild change the URL of a track together with its name.
    `OnePageNameMatchesUrl` needs no timing. With more pages it is false (`KidSync`).

  `Timely` is the only hypothesis about time and the one the runs use; the others choose commands, the mode or the list.
* `PlaylistProofs`: `PlaylistTypeCorrect`, `ListIsPublished`, `AnnouncedWasRequested`, `NextGoesToSuccessor`, for any catalogue and any
  outcome of requests. `PublishedUnlessFailed` needs that list and context fit each other and that no two handlers are under way
  (`IInv`); the announced song needs its place in the list while the child goes on (`IntroInv`), which rests on what an
  insertion does to the first occurrence of a song; the successor of next needs what the request under way is for (`CallInv`)
  and that the pages cut the source without a gap.
* `TtsPlaybackProofs`: `TtsTypeCorrect`, `OnlyOneSpeaks`, `TextsAreHandedOver`, `DoneComesWithQuiet`, `StopsArePrompt`. The centre is `HandleInv`:
  `playback_thread` names every thread that has not cleared it, and the loop comes to `Create` only when there is none,
  so that clearing the variable without a lock never loses a thread. `SamplesInv` and `SessionInv` follow the buffer and
  the mark from the hand-over to the thread; `RangeInv` bounds the periods that are left. A stop is prompt
  because a thread that has passed both looks at the flag has counted nothing since the stop (`PromptInv`). Any number of
  threads and periods.
* `RelayProofs`: all four safety properties of `Relay` and its types. They are not inductive, because an entry was a message before:
  `Owners` says whose a connection is, `Senders` who sends what, `Freed` that a freed connection has neither messages nor entries,
  `Entries` what an entry names, `OneReport` that all an app's connection reports, read or waiting, is one speaker, and `Shows` that
  it is the one of the app's window. `OneOwner` and `Coherent` are inductive beside it.
* `DialogueProofs`: `DialogueTypeCorrect`, `FocusFits`, `NothingStartsUnasked`. That the music does not play after a pause or stop
  needs that `wish` is not `"silence"` as long as there is a reason for which it may yet start: a pause for an announcement, an
  announced song, a search, an end of the list (`StartsOnlyWhenAsked`); the pause command and the stop must therefore end
  the first of these, whatever announcement is under way. One lemma per command and per handler; any number of events and of commands in the FIFO.

Not in the prover's reach, and only model-checked: liveness under fairness (`LatestIsAnswered`, `CommandsEnd`,
`CallReturns`, `SessionEnds`, `EndGoesOn`, `DeviceRegisters`, `AppAttaches`, `PausedIsResumed`, `AnnouncedIsPlayed`), and absence of
deadlock, which is about ENABLED.

## 5. Plan

Done: `Playback`, `ShmLock` with `AtomicShm`, `AsyncQuery`, `TtsPlayback`, `Dialogue`, `Playlist`, `Relay`, and the proofs above. Left, in this order:

1. Proofs: an abstract `LatestQuery` refined by `AsyncQuery`; `PlayingHasChild` online, with failed requests of child and wrap as
   its exception; `NameMatchesUrl` on several pages for a child that stays on its page.
2. `OnlineMode`: the report thread against the list's nodes, reconnection on the user's command, `PlayingHasChild` online.
3. `IpcFraming` and `Supervisor`: two writers of one FIFO, partial reads, a full FIFO; respawn and shutdown.
4. The text rules (`rule_match.c`, `select_text.c`) as operators over bounded inputs, where a property is about them.

## 6. Not modelled

Signal processing and speech models (sherpa-onnx, ALSA, resampling), HTTP and JSON with their framing, the text rules,
configuration files, the GStreamer pipeline beyond its commands and its end, the start and the shutdown of the processes,
the supervisor but for the respawn of the speech process, the buttons (not set up by `main`) and the mixer, the look of the app's windows, the JavaScript music service, the Rust
music library, tools and examples. In `Dialogue` no process crashes and messages are whole; in `Playlist` no two names of one
song are told apart; in `Relay` errors of TCP are ends that come late. The reasons are under "components" in `PROJECT.json`.
