------------------------ MODULE PlaybackSafetyProofs ------------------------
(***************************************************************************)
(* What the three processes of Playback owe each other, for any number of  *)
(* pids and pages: one child that chooses tracks, one output that shm      *)
(* names, silence and no pids after a stop, a child for every player that  *)
(* says it plays, the URL of the track that is named.                      *)
(*                                                                         *)
(* Every step keeps SInv when the parent's sleeps are long enough          *)
(* (Timely); OutInv, unless a copy of shm that the parent holds over a     *)
(* request is overtaken (NotOvertaken); PlayInv, offline, unless the end   *)
(* of the list has come within a pause or a continue.  PageInv, kept by    *)
(* players that are never told "next", says why they are not overtaken.    *)
(* One lemma per action, named after it, says that it keeps the first      *)
(* three: its step <1>1 collects the effects of the action, the others     *)
(* take one conjunct each.                                                 *)
(***************************************************************************)
EXTENDS PlaybackProofs

-----------------------------------------------------------------------------
(* The invariants.                                                           *)

\* A child that may still touch shm, a grandchild that still will, and one
\* that somebody waits for or that plays on without a parent.
Active(c)  == kid[c].pc \notin {"free", "zombie", "eof_sent"}
Setting(g) == grand[g].pc \in {"born", "register"}
Live(g)    == grand[g].pc # "free"

\* Where the parent is: ending what plays, about to fork, between its fork and
\* the pid in shm, with a copy of shm, where no child is active.
Stopping == par.cmd = "stop" /\ par.pc \in {"quit", "kill", "wait_child"}
Forcing  == \/ par.pc \in {"force", "force_grand", "clear_set", "fork"}
            \/ par.cmd = "force" /\ par.pc \in {"quit", "kill", "wait_child"}
Forking  == par.pc \in {"pid_get", "pid_set"}
Copying  == par.pc \in {"wrap_set", "wrap_late", "next_set", "next_late", "mode_set"}
Childless == \/ Forcing \/ par.pc \in {"start_set", "stop_last", "stop_clear"}
             \/ par.pc \in {"next_set", "next_late"} /\ par.cmd = "next_stopped"

ParInv ==
  /\ par.pc \in {"quit", "kill"} => par.cmd \in {"force", "stop", "next"}
  /\ par.pc = "wait_child" => par.cmd \in {"force", "stop"}
  /\ par.pc \in {"force", "force_grand"} => par.cmd = "force"
  /\ par.pc \in {"next_set", "next_late"} => par.cmd \in {"next", "next_stopped"}
  /\ par.pc = "next_apply" => par.cmd = "none"
  /\ par.pc \in {"wrap_late", "next_late"} => Online
  /\ Forcing => state = "PLAY"

\* An active child is the one that shm, the copies of the parent and its own
\* name, and the player says that it plays.
ChildInv == \A c \in Kids : Active(c) =>
  /\ state = "PLAY" /\ ~Childless
  /\ (IF Forking THEN par.s.child ELSE shm.child) = c
  /\ Copying \/ Stopping => par.s.child = c
  /\ Stopping => kid[c].stop
  /\ kid[c].stop => Stopping \/ At("dead")
  /\ kid[c].pc \in {"sync", "fetch", "set", "late_set"} => kid[c].s.child = c /\ ~Forking

\* A child waits for one grandchild, and has none when it does not wait.
WaitedInv ==
  /\ \A g \in Grands : Live(g) =>
       \/ grand[g].kid = Nobody
       \/ grand[g].kid \in Kids /\ kid[grand[g].kid].pc = "wait"
  /\ \A g, h \in Grands :
       Live(g) /\ Live(h) /\ grand[g].kid = grand[h].kid /\ grand[g].kid # Nobody => g = h

\* A grandchild that will write to shm has its child, unless the parent is
\* ending them, or has died.
SettingInv == \A g \in Grands : Setting(g) =>
  /\ par.pc # "wait_child"
  /\ grand[g].kid = Nobody => /\ Stopping \/ At("dead")
                              /\ \A c \in Kids : ~Active(c)

\* After a stop, until the next start, shm and its copies name nobody.
Named(s) == s.child # Nobody \/ s.grand # Nobody
SuppressedInv == suppressed /\ ~At("dead") =>
  \/ Stopping \/ At("stop_last")
  \/ At("stop_clear") /\ state = "STOP" /\ ~Named(par.s)
  \/ /\ par.pc \in {"idle", "reaped", "events", "start", "continue", "next_set",
                     "next_late", "mode_set"}
     /\ state = "STOP" /\ ~Named(shm)
     /\ Copying => ~Named(par.s)
     /\ par.pc \in {"next_set", "next_late"} => par.cmd = "next_stopped"

SInv == ParInv /\ ChildInv /\ WaitedInv /\ SettingInv /\ SuppressedInv
Safe == Timely /\ IInv /\ SInv

\* A copy of shm that the parent holds over a request to the server still
\* names the pids that shm names.
Late == par.pc \in {"wrap_late", "next_late"}
NotOvertaken == Late => par.s.child = shm.child /\ par.s.grand = shm.grand

\* At most one grandchild is left.  One without its child was left behind by
\* a stop or by the parent's death; one that is set up is the one that shm, and
\* every copy of the parent that will be written back, names.
OnlyGrand == \A g, h \in Grands : Live(g) /\ Live(h) => g = h
OrphanInv == \A g \in Grands : Live(g) /\ grand[g].kid = Nobody =>
  /\ \A c \in Kids : ~Active(c)
  /\ grand[g].pc # "zombie"
  /\ Stopping \/ par.pc \in {"stop_last", "dead"}
NamedInv == \A g \in Grands : grand[g].pc \in {"open", "play"} =>
  /\ shm.grand = g /\ ~Forking
  /\ Copying => par.s.grand = g
PairInv == \A g \in Grands : grand[g].pc = "register" => ~Forking /\ (Copying => Late)
OutInv == OnlyGrand /\ OrphanInv /\ NamedInv /\ PairInv

\* A step keeps OutInv unless a late copy of the parent is overtaken.
OutKept == OutInv /\ NotOvertaken /\ NotOvertaken' => OutInv'

\* The child that shm names has been waited for, has ended and will be, or has
\* signalled the end of the list and is about to end.
ChildGone   == shm.child \notin Kids \/ kid[shm.child].pc = "free"
ChildZombie == shm.child \in Kids /\ kid[shm.child].pc = "zombie" /\ chld
ChildSent   == shm.child \in Kids /\ kid[shm.child].pc = "eof_sent"
Skipping    == /\ par.pc \in {"next_set", "next_apply", "quit", "kill"}
               /\ par.cmd \in {"next", "none"}

\* Offline, the parent's copies of shm name its child, and no child waits for the
\* server.  When no child is active, a player that says it plays still has the
\* end of the list to handle, and on the way to the next start nothing that it
\* could take for a running child.
CopyInv == par.pc \in {"wrap_set", "next_set", "mode_set"} =>
  /\ par.s.child = shm.child
  /\ \A c \in Kids : kid[c].pc \notin {"sync", "set"}
FetchInv == \A c \in Kids : kid[c].pc \notin {"fetch", "late_set"}
EndedInv == (\A c \in Kids : ~Active(c)) =>
  /\ state = "PLAY" =>
       /\ par.pc \in {"idle", "mode_set", "pause", "tts"} =>
            eof /\ (ChildGone \/ ChildZombie)
       /\ par.pc \in {"start", "continue", "resume"} => ChildGone \/ (eof /\ ChildZombie)
       /\ par.pc \in {"reaped", "events"} => eof /\ ChildGone
       /\ par.pc \in {"wrap", "wrap_set"} => ChildGone
       /\ par.pc \notin {"pid_get", "pid_set", "stop_clear"}
  /\ Skipping => eof /\ (ChildGone \/ ChildZombie \/ ChildSent)
PlayInv == CopyInv /\ FetchInv /\ EndedInv

\* No end of the list has come since a pause or a continue in progress saw a
\* player that was not stopped.
Undisturbed == par.pc \in {"pause", "tts", "resume"} => state = "PLAY"

\* An offline step keeps PlayInv.
PlayKept == ~Online /\ OutInv /\ Undisturbed /\ PlayInv => PlayInv'

\* There is one active child at most.
LEMMA OneActive ==
  ASSUME Safe, NEW c \in Kids, NEW d \in Kids, Active(c), Active(d)
  PROVE  c = d
BY DEF Safe, SInv, ChildInv

\* No grandchild is left when no child is and no stop is going on, or when a
\* child is at work between two grandchildren.
LEMMA NoneLeft ==
  ASSUME Safe, OutInv, ~Stopping, par.pc \notin {"stop_last", "dead"},
         \A c \in Kids : ~Active(c)
  PROVE  \A g \in Grands : ~Live(g)
BY DEF Safe, SInv, WaitedInv, OutInv, OrphanInv, Active

LEMMA NoneYet ==
  ASSUME Safe, OutInv, NEW c \in Kids, Active(c), kid[c].pc # "wait"
  PROVE  \A g \in Grands : ~Live(g)
<1>1. \A d \in Kids : Active(d) => kid[d].pc # "wait"
  BY OneActive
<1> QED
  BY <1>1 DEF Safe, SInv, WaitedInv, OutInv, OrphanInv, Active

\* A grandchild that was ended, and may be waited for.
Gone(g) == /\ Live(g) /\ grand'[g].pc \in {"free", "zombie"}
           /\ grand'[g].pc = "zombie" => /\ grand'[g].kid = grand[g].kid
                                      /\ grand[g].kid # Nobody

\* ... that plays on, or that its child leaves behind.
PlaysOn(g) == /\ grand[g].pc \in {"open", "play"} /\ grand'[g].pc = "play"
              /\ grand'[g].kid = grand[g].kid
LeftBy(g)  == /\ grand'[g].pc \in {grand[g].pc, "free"} \ {"zombie"}
              /\ grand'[g].kid = Nobody

LEMMA SongKept ==
  ASSUME Safe, NEW t
  PROVE  /\ [shm EXCEPT !.song = t].child = shm.child
         /\ [shm EXCEPT !.song = t].grand = shm.grand
BY DEF Safe, IInv, TypeOK, Shm

LEMMA ChosenSteps ==
  ASSUME Safe, NEW pc, NEW t, Choose(t, pc)
  PROVE  /\ par'.pc = pc
         /\ par'.cmd = IF state = "STOP" THEN "next_stopped" ELSE "next"
         /\ par'.s.child = shm.child /\ par'.s.grand = shm.grand
BY SongKept DEF Choose, Safe, IInv, TypeOK, ParRecs

LEMMA ParSteps ==
  ASSUME Safe
  PROVE  /\ par' = Idle => par'.pc = "idle"
         /\ \A pc : par' = [par EXCEPT !.pc = pc] =>
              par'.pc = pc /\ par'.cmd = par.cmd /\ par'.s = par.s
         /\ \A pc, t : par' = [par EXCEPT !.pc = pc, !.s = [shm EXCEPT !.song = t]] =>
              /\ par'.pc = pc /\ par'.cmd = par.cmd
              /\ par'.s.child = shm.child /\ par'.s.grand = shm.grand
<1>1. par' = Idle => par'.pc = "idle"
  BY DEF Idle
<1>2. ASSUME NEW pc, par' = [par EXCEPT !.pc = pc]
      PROVE  par'.pc = pc /\ par'.cmd = par.cmd /\ par'.s = par.s
  BY <1>2 DEF Safe, IInv, TypeOK, ParRecs
<1>3. ASSUME NEW pc, NEW t, par' = [par EXCEPT !.pc = pc, !.s = [shm EXCEPT !.song = t]]
      PROVE  /\ par'.pc = pc /\ par'.cmd = par.cmd
             /\ par'.s.child = shm.child /\ par'.s.grand = shm.grand
  BY <1>3, SongKept DEF Safe, IInv, TypeOK, ParRecs
<1> QED
  BY <1>1, <1>2, <1>3

LEMMA AliveKid ==
  ASSUME TypeOK
  PROVE  Alive(shm.child) <=> shm.child \in Kids /\ kid[shm.child].pc # "free"
<1>1. shm.child \notin Grands
  BY PlaybackAssumption DEF TypeOK, Shm, KidPids
<1> QED
  BY <1>1 DEF Alive

LEMMA LinkNextOffline ==
  ASSUME ~Online, NEW p, NEW t, NEW mode, NEW force
  PROVE  LinkNext(p, t, mode, force).ret # -1
BY DEF LinkNext

LEMMA EndedIsGone ==
  ASSUME TypeOK, NEW g \in Grands, NEW h \in Grands, Live(h), grand' = Ended(grand, h)
  PROVE  grand'[g] = grand[g] \/ Gone(g)
BY DEF TypeOK, GrandRecs, Ended, NoGrand, Gone, Live

LEMMA EndIfAliveIsGone ==
  ASSUME TypeOK, NEW g \in Grands, NEW pid, grand' = EndIfAlive(pid)
  PROVE  grand'[g] = grand[g] \/ Gone(g)
<1>1. pid \in Grands /\ Alive(pid) => Live(pid)
  BY PlaybackAssumption DEF Alive, Live
<1> QED
  BY <1>1, EndedIsGone DEF EndIfAlive

LEMMA EndIfAliveEnds ==
  ASSUME TypeOK, NEW g \in Grands, grand' = EndIfAlive(g)
  PROVE  grand'[g].pc \in {"free", "zombie"}
BY DEF TypeOK, GrandRecs, EndIfAlive, Ended, NoGrand, Alive

LEMMA StoppedKeeps ==
  ASSUME TypeOK, NEW c \in Kids, NEW pid, kid' = Stopped(pid)
  PROVE  /\ kid'[c].pc = kid[c].pc /\ kid'[c].s = kid[c].s
         /\ kid[c].stop => kid'[c].stop
         /\ c = pid /\ kid[c].pc # "free" => kid'[c].stop
BY DEF TypeOK, KidRecs, Stopped, Alive

LEMMA ResumedKeeps ==
  ASSUME TypeOK, NEW g \in Grands, NEW pid, grand' = Resumed(pid)
  PROVE  grand'[g].pc = grand[g].pc /\ grand'[g].kid = grand[g].kid
BY DEF TypeOK, GrandRecs, Resumed

LEMMA PausedKeeps ==
  ASSUME TypeOK, NEW g \in Grands, NEW pid, grand' = [grand EXCEPT ![pid].stopped = TRUE]
  PROVE  grand'[g].pc = grand[g].pc /\ grand'[g].kid = grand[g].kid
BY DEF TypeOK, GrandRecs

-----------------------------------------------------------------------------
(* The parent.                                                               *)

LEMMA ReapChildren_Safe ==
  ASSUME Safe, ReapChildren
  PROVE  SInv' /\ OutKept /\ PlayKept
<1>1. /\ par.pc = "idle" /\ par'.pc \in {"reaped", "events"}
      /\ shm' = shm /\ state' = state /\ suppressed' = suppressed
      /\ eof' = eof /\ chld' = chld /\ grand' = grand
      /\ \A c \in Kids : kid'[c] = kid[c] \/ (kid[c].pc = "zombie" /\ kid'[c].pc = "free")
      /\ chld => \A c \in Kids : kid'[c].pc # "zombie"
  BY DEF Safe, IInv, TypeOK, ParRecs, ReapChildren, At, GoTo, NoKid, flags,
     events
<1>2. ParInv'
  BY <1>1
     DEF Safe, SInv, ParInv, ChildInv, Forcing, Childless, Active
<1>3. ChildInv'
  BY <1>1
     DEF Safe, SInv, ParInv, ChildInv, Active, Stopping, Forcing, Forking,
     Copying, Childless, At
<1>4. WaitedInv'
  BY <1>1
     DEF Safe, SInv, WaitedInv, Live
<1>5. SettingInv'
  BY <1>1
     DEF Safe, SInv, ParInv, ChildInv, WaitedInv, SettingInv, Active, Setting,
     Live, Stopping, Forcing, Childless, At
<1>6. SuppressedInv'
  BY <1>1
     DEF Safe, SInv, ParInv, ChildInv, SuppressedInv, Active, Stopping,
     Forcing, Childless, Copying, Named, At
<1>7. ASSUME OutInv, NotOvertaken, NotOvertaken'
      PROVE  OutInv'
  <2>1. OnlyGrand'
    BY <1>1, <1>7
       DEF OutInv, OnlyGrand, Live
  <2>2. OrphanInv'
    BY <1>1, <1>7
       DEF OutInv, OrphanInv, Live, Active, Stopping, At
  <2>3. NamedInv'
    BY <1>1, <1>7
       DEF OutInv, NamedInv, Forking, Copying, NotOvertaken, Late
  <2>4. PairInv'
    BY <1>1, <1>7
       DEF OutInv, PairInv, Forking, Copying, Late
  <2> QED
    BY <2>1, <2>2, <2>3, <2>4 DEF OutInv
<1>8. ASSUME ~Online, OutInv, PlayInv
      PROVE  PlayInv'
  <2>1. CopyInv'
    BY <1>1, <1>8
       DEF PlayInv, CopyInv
  <2>2. FetchInv'
    BY <1>1, <1>8
       DEF PlayInv, FetchInv
  <2>3. EndedInv'
    BY <1>1, <1>8
       DEF PlayInv, EndedInv, ChildGone, ChildZombie, ChildSent, Skipping,
       Active
  <2> QED
    BY <2>1, <2>2, <2>3 DEF PlayInv
<1> QED
  BY <1>2, <1>3, <1>4, <1>5, <1>6, <1>7, <1>8 DEF SInv, OutKept, PlayKept

LEMMA ClearChildFlag_Safe ==
  ASSUME Safe, ClearChildFlag
  PROVE  SInv' /\ OutKept /\ PlayKept
<1>1. /\ par.pc = "reaped" /\ par'.pc = "events"
      /\ kid' = kid /\ grand' = grand
      /\ shm' = shm /\ state' = state /\ suppressed' = suppressed /\ eof' = eof
  BY DEF Safe, IInv, TypeOK, ParRecs, ClearChildFlag, At, GoTo, flags
<1>2. ParInv'
  BY <1>1
     DEF Safe, SInv, ParInv, ChildInv, Forcing, Childless, Active
<1>3. ChildInv'
  BY <1>1
     DEF Safe, SInv, ParInv, ChildInv, Active, Stopping, Forcing, Forking,
     Copying, Childless, At
<1>4. WaitedInv'
  BY <1>1
     DEF Safe, SInv, WaitedInv, Live
<1>5. SettingInv'
  BY <1>1
     DEF Safe, SInv, ParInv, ChildInv, WaitedInv, SettingInv, Active, Setting,
     Live, Stopping, Forcing, Childless, At
<1>6. SuppressedInv'
  BY <1>1
     DEF Safe, SInv, ParInv, ChildInv, SuppressedInv, Active, Stopping,
     Forcing, Childless, Copying, Named, At
<1>7. ASSUME OutInv, NotOvertaken, NotOvertaken'
      PROVE  OutInv'
  <2>1. OnlyGrand'
    BY <1>1, <1>7
       DEF OutInv, OnlyGrand, Live
  <2>2. OrphanInv'
    BY <1>1, <1>7
       DEF OutInv, OrphanInv, Live, Active, Stopping, At
  <2>3. NamedInv'
    BY <1>1, <1>7
       DEF OutInv, NamedInv, Forking, Copying, NotOvertaken, Late
  <2>4. PairInv'
    BY <1>1, <1>7
       DEF OutInv, PairInv, Forking, Copying, Late
  <2> QED
    BY <2>1, <2>2, <2>3, <2>4 DEF OutInv
<1>8. ASSUME ~Online, OutInv, PlayInv
      PROVE  PlayInv'
  <2>1. CopyInv'
    BY <1>1, <1>8
       DEF PlayInv, CopyInv
  <2>2. FetchInv'
    BY <1>1, <1>8
       DEF PlayInv, FetchInv
  <2>3. EndedInv'
    BY <1>1, <1>8
       DEF PlayInv, EndedInv, ChildGone, ChildZombie, ChildSent, Skipping,
       Active
  <2> QED
    BY <2>1, <2>2, <2>3 DEF PlayInv
<1> QED
  BY <1>2, <1>3, <1>4, <1>5, <1>6, <1>7, <1>8 DEF SInv, OutKept, PlayKept

LEMMA EofDropped_Safe ==
  ASSUME Safe, EofDropped
  PROVE  SInv' /\ OutKept /\ PlayKept
<1>1. /\ par.pc = "events" /\ par'.pc = "idle" /\ (eof => suppressed)
      /\ kid' = kid /\ grand' = grand
      /\ shm' = shm /\ state' = state /\ (suppressed' => suppressed)
  BY DEF Safe, IInv, TypeOK, ParRecs, EofDropped, At, Return, Idle, flags
<1>2. ParInv'
  BY <1>1
     DEF Safe, SInv, ParInv, ChildInv, Forcing, Childless, Active
<1>3. ChildInv'
  BY <1>1
     DEF Safe, SInv, ParInv, ChildInv, Active, Stopping, Forcing, Forking,
     Copying, Childless, At
<1>4. WaitedInv'
  BY <1>1
     DEF Safe, SInv, WaitedInv, Live
<1>5. SettingInv'
  BY <1>1
     DEF Safe, SInv, ParInv, ChildInv, WaitedInv, SettingInv, Active, Setting,
     Live, Stopping, Forcing, Childless, At
<1>6. SuppressedInv'
  BY <1>1
     DEF Safe, SInv, ParInv, ChildInv, SuppressedInv, Active, Stopping,
     Forcing, Childless, Copying, Named, At
<1>7. ASSUME OutInv, NotOvertaken, NotOvertaken'
      PROVE  OutInv'
  <2>1. OnlyGrand'
    BY <1>1, <1>7
       DEF OutInv, OnlyGrand, Live
  <2>2. OrphanInv'
    BY <1>1, <1>7
       DEF OutInv, OrphanInv, Live, Active, Stopping, At
  <2>3. NamedInv'
    BY <1>1, <1>7
       DEF OutInv, NamedInv, Forking, Copying, NotOvertaken, Late
  <2>4. PairInv'
    BY <1>1, <1>7
       DEF OutInv, PairInv, Forking, Copying, Late
  <2> QED
    BY <2>1, <2>2, <2>3, <2>4 DEF OutInv
<1>8. ASSUME ~Online, OutInv, PlayInv
      PROVE  PlayInv'
  <2>1. CopyInv'
    BY <1>1, <1>8
       DEF PlayInv, CopyInv
  <2>2. FetchInv'
    BY <1>1, <1>8
       DEF PlayInv, FetchInv
  <2>3. EndedInv'
    BY <1>1, <1>8
       DEF PlayInv, EndedInv, ChildGone, ChildZombie, ChildSent, Skipping,
       Active, Safe, SInv, SuppressedInv, Stopping, At
  <2> QED
    BY <2>1, <2>2, <2>3 DEF PlayInv
<1> QED
  BY <1>2, <1>3, <1>4, <1>5, <1>6, <1>7, <1>8 DEF SInv, OutKept, PlayKept

LEMMA EofTurnPage_Safe ==
  ASSUME Safe, EofTurnPage
  PROVE  SInv' /\ OutKept /\ PlayKept
<1>1. /\ par.pc = "events" /\ par'.pc \in {"start", "wrap"}
      /\ kid' = kid /\ grand' = grand
      /\ shm' = shm /\ state' = state /\ suppressed' = suppressed /\ ~suppressed
  BY DEF Safe, IInv, TypeOK, ParRecs, EofTurnPage, At, GoTo, flags
<1>2. ParInv'
  BY <1>1
     DEF Safe, SInv, ParInv, ChildInv, Forcing, Childless, Active
<1>3. ChildInv'
  BY <1>1
     DEF Safe, SInv, ParInv, ChildInv, Active, Stopping, Forcing, Forking,
     Copying, Childless, At
<1>4. WaitedInv'
  BY <1>1
     DEF Safe, SInv, WaitedInv, Live
<1>5. SettingInv'
  BY <1>1
     DEF Safe, SInv, ParInv, ChildInv, WaitedInv, SettingInv, Active, Setting,
     Live, Stopping, Forcing, Childless, At
<1>6. SuppressedInv'
  BY <1>1
     DEF Safe, SInv, ParInv, ChildInv, SuppressedInv, Active, Stopping,
     Forcing, Childless, Copying, Named, At
<1>7. ASSUME OutInv, NotOvertaken, NotOvertaken'
      PROVE  OutInv'
  <2>1. OnlyGrand'
    BY <1>1, <1>7
       DEF OutInv, OnlyGrand, Live
  <2>2. OrphanInv'
    BY <1>1, <1>7
       DEF OutInv, OrphanInv, Live, Active, Stopping, At
  <2>3. NamedInv'
    BY <1>1, <1>7
       DEF OutInv, NamedInv, Forking, Copying, NotOvertaken, Late
  <2>4. PairInv'
    BY <1>1, <1>7
       DEF OutInv, PairInv, Forking, Copying, Late
  <2> QED
    BY <2>1, <2>2, <2>3, <2>4 DEF OutInv
<1>8. ASSUME ~Online, OutInv, PlayInv
      PROVE  PlayInv'
  <2>1. CopyInv'
    BY <1>1, <1>8
       DEF PlayInv, CopyInv
  <2>2. FetchInv'
    BY <1>1, <1>8
       DEF PlayInv, FetchInv
  <2>3. EndedInv'
    BY <1>1, <1>8
       DEF PlayInv, EndedInv, ChildGone, ChildZombie, ChildSent, Skipping,
       Active
  <2> QED
    BY <2>1, <2>2, <2>3 DEF PlayInv
<1> QED
  BY <1>2, <1>3, <1>4, <1>5, <1>6, <1>7, <1>8 DEF SInv, OutKept, PlayKept

LEMMA Wrap_Safe ==
  ASSUME Safe, Wrap
  PROVE  SInv' /\ OutKept /\ PlayKept
<1>1. /\ par.pc = "wrap"
      /\ \/ par'.pc \in {"start", "idle"}
         \/ /\ par'.pc \in {"wrap_set", "wrap_late"}
            /\ par'.s.child = shm.child /\ par'.s.grand = shm.grand
      /\ kid' = kid /\ grand' = grand
      /\ shm' = shm /\ state' = state /\ suppressed' = suppressed
      /\ eof' = eof /\ chld' = chld
      /\ \A g \in Grands : grand[g].pc # "register"
      /\ \A c \in Kids : kid[c].pc \notin {"sync", "set"}
      /\ ~Online => par'.pc \notin {"idle", "wrap_late"}
  <2>1. \/ par' = Idle \/ par' = [par EXCEPT !.pc = "start"]
        \/ \E pc \in {"wrap_set", "wrap_late"} : \E t :
             par' = [par EXCEPT !.pc = pc, !.s = [shm EXCEPT !.song = t]]
    BY DEF Wrap, GoTo, Return
  <2>2. ~Online => \/ par' = [par EXCEPT !.pc = "start"]
                   \/ \E t : par' = [par EXCEPT !.pc = "wrap_set",
                                          !.s = [shm EXCEPT !.song = t]]
    BY LinkNextOffline DEF Wrap, GoTo
  <2>3. ~Online => par'.pc \in {"start", "wrap_set"}
    BY <2>2, ParSteps
  <2>4. par.pc = "wrap" /\ kid' = kid /\ grand' = grand
    BY DEF Wrap, At
  <2>5. /\ \A g \in Grands : grand[g].pc # "register"
        /\ \A c \in Kids : kid[c].pc \notin {"sync", "set"}
    BY DEF Safe, Wrap, PairFree, ShortCopy
  <2>6. /\ shm' = shm /\ state' = state /\ suppressed' = suppressed
        /\ eof' = eof /\ chld' = chld
    BY DEF Wrap, flags, events
  <2>7. par'.pc \in {"start", "idle"} \/ (/\ par'.pc \in {"wrap_set", "wrap_late"}
          /\ par'.s.child = shm.child /\ par'.s.grand = shm.grand)
    BY <2>1, ParSteps
  <2> QED
    BY <2>3, <2>4, <2>5, <2>6, <2>7
<1>2. ParInv'
  BY <1>1
     DEF Safe, SInv, ParInv, ChildInv, Forcing, Childless, Active
<1>3. ChildInv'
  BY <1>1
     DEF Safe, SInv, ParInv, ChildInv, Active, Stopping, Forcing, Forking,
     Copying, Childless, At
<1>4. WaitedInv'
  BY <1>1
     DEF Safe, SInv, WaitedInv, Live
<1>5. SettingInv'
  BY <1>1
     DEF Safe, SInv, ParInv, ChildInv, WaitedInv, SettingInv, Active, Setting,
     Live, Stopping, Forcing, Childless, At
<1>6. SuppressedInv'
  BY <1>1
     DEF Safe, SInv, ParInv, ChildInv, SuppressedInv, Active, Stopping,
     Forcing, Childless, Copying, Named, At
<1>7. ASSUME OutInv, NotOvertaken, NotOvertaken'
      PROVE  OutInv'
  <2>1. OnlyGrand'
    BY <1>1, <1>7
       DEF OutInv, OnlyGrand, Live
  <2>2. OrphanInv'
    BY <1>1, <1>7
       DEF OutInv, OrphanInv, Live, Active, Stopping, At
  <2>3. NamedInv'
    BY <1>1, <1>7
       DEF OutInv, NamedInv, Forking, Copying, NotOvertaken, Late
  <2>4. PairInv'
    BY <1>1, <1>7
       DEF OutInv, PairInv, Forking, Copying, Late
  <2> QED
    BY <2>1, <2>2, <2>3, <2>4 DEF OutInv
<1>8. ASSUME ~Online, OutInv, PlayInv
      PROVE  PlayInv'
  <2>1. CopyInv'
    BY <1>1, <1>8
       DEF PlayInv, CopyInv
  <2>2. FetchInv'
    BY <1>1, <1>8
       DEF PlayInv, FetchInv
  <2>3. EndedInv'
    BY <1>1, <1>8
       DEF PlayInv, EndedInv, ChildGone, ChildZombie, ChildSent, Skipping,
       Active
  <2> QED
    BY <2>1, <2>2, <2>3 DEF PlayInv
<1> QED
  BY <1>2, <1>3, <1>4, <1>5, <1>6, <1>7, <1>8 DEF SInv, OutKept, PlayKept

LEMMA WrapSet_Safe ==
  ASSUME Safe, WrapSet
  PROVE  SInv' /\ OutKept /\ PlayKept
<1>1. /\ par.pc \in {"wrap_set", "wrap_late"} /\ par'.pc = "start"
      /\ kid' = kid /\ grand' = grand
      /\ shm' = par.s /\ state' = state /\ suppressed' = suppressed
      /\ eof' = eof /\ chld' = chld
  BY DEF Safe, IInv, TypeOK, ParRecs, WrapSet, At, Idle, flags, events
<1>2. ParInv'
  BY <1>1
     DEF Safe, SInv, ParInv, ChildInv, Forcing, Childless, Active
<1>3. ChildInv'
  BY <1>1
     DEF Safe, SInv, ParInv, ChildInv, Active, Stopping, Forcing, Forking,
     Copying, Childless, At
<1>4. WaitedInv'
  BY <1>1
     DEF Safe, SInv, WaitedInv, Live
<1>5. SettingInv'
  BY <1>1
     DEF Safe, SInv, ParInv, ChildInv, WaitedInv, SettingInv, Active, Setting,
     Live, Stopping, Forcing, Childless, At
<1>6. SuppressedInv'
  BY <1>1
     DEF Safe, SInv, ParInv, ChildInv, SuppressedInv, Active, Stopping,
     Forcing, Childless, Copying, Named, At
<1>7. ASSUME OutInv, NotOvertaken, NotOvertaken'
      PROVE  OutInv'
  <2>1. OnlyGrand'
    BY <1>1, <1>7
       DEF OutInv, OnlyGrand, Live
  <2>2. OrphanInv'
    BY <1>1, <1>7
       DEF OutInv, OrphanInv, Live, Active, Stopping, At
  <2>3. NamedInv'
    BY <1>1, <1>7
       DEF OutInv, NamedInv, Forking, Copying, NotOvertaken, Late
  <2>4. PairInv'
    BY <1>1, <1>7
       DEF OutInv, PairInv, Forking, Copying, Late
  <2> QED
    BY <2>1, <2>2, <2>3, <2>4 DEF OutInv
<1>8. ASSUME ~Online, OutInv, PlayInv
      PROVE  PlayInv'
  <2>1. CopyInv'
    BY <1>1, <1>8
       DEF PlayInv, CopyInv
  <2>2. FetchInv'
    BY <1>1, <1>8
       DEF PlayInv, FetchInv
  <2>3. EndedInv'
    BY <1>1, <1>8
       DEF PlayInv, EndedInv, ChildGone, ChildZombie, ChildSent, Skipping,
       Active, Safe, SInv, ParInv, CopyInv
  <2> QED
    BY <2>1, <2>2, <2>3 DEF PlayInv
<1> QED
  BY <1>2, <1>3, <1>4, <1>5, <1>6, <1>7, <1>8 DEF SInv, OutKept, PlayKept

LEMMA CmdStart_Safe ==
  ASSUME Safe, CmdStart
  PROVE  SInv' /\ OutKept /\ PlayKept
<1>1. /\ par.pc = "idle" /\ par'.pc = "start"
      /\ kid' = kid /\ grand' = grand
      /\ shm' = shm /\ state' = state /\ suppressed' = suppressed
      /\ eof' = eof /\ chld' = chld
  BY DEF Safe, IInv, TypeOK, ParRecs, CmdStart, At, Given, GoTo, flags, events
<1>2. ParInv'
  BY <1>1
     DEF Safe, SInv, ParInv, ChildInv, Forcing, Childless, Active
<1>3. ChildInv'
  BY <1>1
     DEF Safe, SInv, ParInv, ChildInv, Active, Stopping, Forcing, Forking,
     Copying, Childless, At
<1>4. WaitedInv'
  BY <1>1
     DEF Safe, SInv, WaitedInv, Live
<1>5. SettingInv'
  BY <1>1
     DEF Safe, SInv, ParInv, ChildInv, WaitedInv, SettingInv, Active, Setting,
     Live, Stopping, Forcing, Childless, At
<1>6. SuppressedInv'
  BY <1>1
     DEF Safe, SInv, ParInv, ChildInv, SuppressedInv, Active, Stopping,
     Forcing, Childless, Copying, Named, At
<1>7. ASSUME OutInv, NotOvertaken, NotOvertaken'
      PROVE  OutInv'
  <2>1. OnlyGrand'
    BY <1>1, <1>7
       DEF OutInv, OnlyGrand, Live
  <2>2. OrphanInv'
    BY <1>1, <1>7
       DEF OutInv, OrphanInv, Live, Active, Stopping, At
  <2>3. NamedInv'
    BY <1>1, <1>7
       DEF OutInv, NamedInv, Forking, Copying, NotOvertaken, Late
  <2>4. PairInv'
    BY <1>1, <1>7
       DEF OutInv, PairInv, Forking, Copying, Late
  <2> QED
    BY <2>1, <2>2, <2>3, <2>4 DEF OutInv
<1>8. ASSUME ~Online, OutInv, PlayInv
      PROVE  PlayInv'
  <2>1. CopyInv'
    BY <1>1, <1>8
       DEF PlayInv, CopyInv
  <2>2. FetchInv'
    BY <1>1, <1>8
       DEF PlayInv, FetchInv
  <2>3. EndedInv'
    BY <1>1, <1>8
       DEF PlayInv, EndedInv, ChildGone, ChildZombie, ChildSent, Skipping,
       Active
  <2> QED
    BY <2>1, <2>2, <2>3 DEF PlayInv
<1> QED
  BY <1>2, <1>3, <1>4, <1>5, <1>6, <1>7, <1>8 DEF SInv, OutKept, PlayKept

LEMMA StartPlay_Safe ==
  ASSUME Safe, StartPlay
  PROVE  SInv' /\ OutKept /\ PlayKept
<1>1. /\ par.pc = "start"
      /\ \/ par'.pc \in {"idle", "continue"}
         \/ par'.pc = "start_set" /\ ~(state = "PLAY" /\ Alive(shm.child))
      /\ kid' = kid /\ grand' = grand
      /\ shm' = shm /\ state' = state /\ ~suppressed'
      /\ eof' = eof /\ chld' = chld /\ (par'.pc = "idle" => Alive(shm.child))
  <2>1. /\ par.pc = "start" /\ kid' = kid /\ grand' = grand
        /\ shm' = shm /\ state' = state /\ eof' = eof /\ chld' = chld
    BY DEF StartPlay, At, flags
  <2>2. suppressed' = FALSE
    BY DEF StartPlay
  <2>3. \/ par' = Idle /\ Alive(shm.child)
        \/ par' = [par EXCEPT !.pc = "continue"]
        \/ /\ ~(state = "PLAY" /\ Alive(shm.child))
           /\ \E t, s : par' = [par EXCEPT !.pc = "start_set", !.track = t, !.s = s]
    BY DEF StartPlay, GoTo, Return
  <2>4. ASSUME NEW t, NEW s, par' = [par EXCEPT !.pc = "start_set", !.track = t, !.s = s]
        PROVE  par'.pc = "start_set"
    BY <2>4 DEF Safe, IInv, TypeOK, ParRecs
  <2>5. \/ par'.pc = "idle" /\ Alive(shm.child)
        \/ par'.pc = "continue"
        \/ par'.pc = "start_set" /\ ~(state = "PLAY" /\ Alive(shm.child))
    <3>1. CASE par' = Idle /\ Alive(shm.child)
      BY <3>1, ParSteps
    <3>2. CASE par' = [par EXCEPT !.pc = "continue"]
      BY <3>2, ParSteps
    <3> QED
      BY <2>3, <2>4, <3>1, <3>2
  <2> QED
    BY <2>1, <2>2, <2>5
<1>2. ParInv'
  BY <1>1
     DEF Safe, SInv, ParInv, ChildInv, Forcing, Childless, Active
<1>3. ChildInv'
  BY <1>1
     DEF Safe, SInv, ParInv, ChildInv, Active, Stopping, Forcing, Forking,
     Copying, Childless, At, Alive
<1>4. WaitedInv'
  BY <1>1
     DEF Safe, SInv, WaitedInv, Live
<1>5. SettingInv'
  BY <1>1
     DEF Safe, SInv, ParInv, ChildInv, WaitedInv, SettingInv, Active, Setting,
     Live, Stopping, Forcing, Childless, At
<1>6. SuppressedInv'
  BY <1>1
     DEF Safe, SInv, ParInv, ChildInv, SuppressedInv, Active, Stopping,
     Forcing, Childless, Copying, Named, At
<1>7. ASSUME OutInv, NotOvertaken, NotOvertaken'
      PROVE  OutInv'
  <2>1. OnlyGrand'
    BY <1>1, <1>7
       DEF OutInv, OnlyGrand, Live
  <2>2. OrphanInv'
    BY <1>1, <1>7
       DEF OutInv, OrphanInv, Live, Active, Stopping, At
  <2>3. NamedInv'
    BY <1>1, <1>7
       DEF OutInv, NamedInv, Forking, Copying, NotOvertaken, Late
  <2>4. PairInv'
    BY <1>1, <1>7
       DEF OutInv, PairInv, Forking, Copying, Late
  <2> QED
    BY <2>1, <2>2, <2>3, <2>4 DEF OutInv
<1>8. ASSUME ~Online, OutInv, PlayInv
      PROVE  PlayInv'
  <2>1. CopyInv'
    BY <1>1, <1>8
       DEF PlayInv, CopyInv
  <2>2. FetchInv'
    BY <1>1, <1>8
       DEF PlayInv, FetchInv
  <2>3. EndedInv'
    BY <1>1, <1>8, AliveKid
       DEF PlayInv, EndedInv, ChildGone, ChildZombie, ChildSent, Skipping,
       Active, Safe, IInv
  <2> QED
    BY <2>1, <2>2, <2>3 DEF PlayInv
<1> QED
  BY <1>2, <1>3, <1>4, <1>5, <1>6, <1>7, <1>8 DEF SInv, OutKept, PlayKept

LEMMA StartSet_Safe ==
  ASSUME Safe, StartSet
  PROVE  SInv' /\ OutKept /\ PlayKept
<1>1. /\ par.pc = "start_set" /\ par'.pc = "force" /\ par'.cmd = "force"
      /\ kid' = kid /\ grand' = grand
      /\ state' = "PLAY" /\ suppressed' = suppressed
  BY DEF Safe, IInv, TypeOK, ParRecs, StartSet, At, events
<1>2. ParInv'
  BY <1>1
     DEF Safe, SInv, ParInv, ChildInv, Forcing, Childless, Active
<1>3. ChildInv'
  BY <1>1
     DEF Safe, SInv, ParInv, ChildInv, Active, Stopping, Forcing, Forking,
     Copying, Childless, At
<1>4. WaitedInv'
  BY <1>1
     DEF Safe, SInv, WaitedInv, Live
<1>5. SettingInv'
  BY <1>1
     DEF Safe, SInv, ParInv, ChildInv, WaitedInv, SettingInv, Active, Setting,
     Live, Stopping, Forcing, Childless, At
<1>6. SuppressedInv'
  BY <1>1
     DEF Safe, SInv, ParInv, ChildInv, SuppressedInv, Active, Stopping,
     Forcing, Childless, Copying, Named, At
<1>7. ASSUME OutInv, NotOvertaken, NotOvertaken'
      PROVE  OutInv'
  <2>0. \A g \in Grands : ~Live(g)
    BY <1>1, <1>7, NoneLeft
       DEF Safe, SInv, ChildInv, Active, Childless, Forcing, Stopping, At
  <2>1. OnlyGrand'
    BY <1>1, <1>7, <2>0
       DEF OutInv, OnlyGrand, Live, Live
  <2>2. OrphanInv'
    BY <1>1, <1>7, <2>0
       DEF OutInv, OrphanInv, Live, Active, Stopping, At
  <2>3. NamedInv'
    BY <1>1, <1>7, <2>0
       DEF OutInv, NamedInv, Forking, Copying, NotOvertaken, Late, Live
  <2>4. PairInv'
    BY <1>1, <1>7, <2>0
       DEF OutInv, PairInv, Forking, Copying, Late, Live
  <2> QED
    BY <2>1, <2>2, <2>3, <2>4 DEF OutInv
<1>8. ASSUME ~Online, OutInv, PlayInv
      PROVE  PlayInv'
  <2>1. CopyInv'
    BY <1>1, <1>8
       DEF PlayInv, CopyInv
  <2>2. FetchInv'
    BY <1>1, <1>8
       DEF PlayInv, FetchInv
  <2>3. EndedInv'
    BY <1>1, <1>8
       DEF PlayInv, EndedInv, ChildGone, ChildZombie, ChildSent, Skipping,
       Active
  <2> QED
    BY <2>1, <2>2, <2>3 DEF PlayInv
<1> QED
  BY <1>2, <1>3, <1>4, <1>5, <1>6, <1>7, <1>8 DEF SInv, OutKept, PlayKept

LEMMA ForceStop_Safe ==
  ASSUME Safe, ForceStop
  PROVE  SInv' /\ OutKept /\ PlayKept
<1>1. /\ par.pc = "force" /\ par'.pc \in {"quit", "clear_set"} /\ par'.cmd = par.cmd
      /\ shm' = shm /\ state' = state /\ suppressed' = suppressed
      /\ eof' = eof /\ chld' = chld /\ grand' = grand
      /\ \A c \in Kids : kid'[c].pc = kid[c].pc
  <2>1. kid' = kid \/ kid' = Stopped(shm.child)
    BY DEF ForceStop
  <2>2. \A c \in Kids : kid'[c].pc = kid[c].pc
    BY <2>1, StoppedKeeps DEF Safe, IInv
  <2> QED
    BY <2>2 DEF Safe, IInv, TypeOK, ParRecs, ForceStop, At, flags, events
<1>2. ParInv'
  BY <1>1
     DEF Safe, SInv, ParInv, ChildInv, Forcing, Childless, Active
<1>3. ChildInv'
  BY <1>1
     DEF Safe, SInv, ParInv, ChildInv, Active, Stopping, Forcing, Forking,
     Copying, Childless, At
<1>4. WaitedInv'
  BY <1>1
     DEF Safe, SInv, WaitedInv, Live
<1>5. SettingInv'
  BY <1>1
     DEF Safe, SInv, ParInv, ChildInv, WaitedInv, SettingInv, Active, Setting,
     Live, Stopping, Forcing, Childless, At
<1>6. SuppressedInv'
  BY <1>1
     DEF Safe, SInv, ParInv, ChildInv, SuppressedInv, Active, Stopping,
     Forcing, Childless, Copying, Named, At
<1>7. ASSUME OutInv, NotOvertaken, NotOvertaken'
      PROVE  OutInv'
  <2>1. OnlyGrand'
    BY <1>1, <1>7
       DEF OutInv, OnlyGrand, Live
  <2>2. OrphanInv'
    BY <1>1, <1>7
       DEF OutInv, OrphanInv, Live, Active, Stopping, At
  <2>3. NamedInv'
    BY <1>1, <1>7
       DEF OutInv, NamedInv, Forking, Copying, NotOvertaken, Late
  <2>4. PairInv'
    BY <1>1, <1>7
       DEF OutInv, PairInv, Forking, Copying, Late
  <2> QED
    BY <2>1, <2>2, <2>3, <2>4 DEF OutInv
<1>8. ASSUME ~Online, OutInv, PlayInv
      PROVE  PlayInv'
  <2>1. CopyInv'
    BY <1>1, <1>8
       DEF PlayInv, CopyInv
  <2>2. FetchInv'
    BY <1>1, <1>8
       DEF PlayInv, FetchInv
  <2>3. EndedInv'
    BY <1>1, <1>8
       DEF PlayInv, EndedInv, ChildGone, ChildZombie, ChildSent, Skipping,
       Active, Safe, SInv, ParInv
  <2> QED
    BY <2>1, <2>2, <2>3 DEF PlayInv
<1> QED
  BY <1>2, <1>3, <1>4, <1>5, <1>6, <1>7, <1>8 DEF SInv, OutKept, PlayKept

\* The parent dies of SIGPIPE; its children go on.
LEMMA Dies_Safe ==
  ASSUME Safe, ~Forking, Dies
  PROVE  SInv' /\ OutKept /\ PlayKept
<1>1. /\ par'.pc = "dead"
      /\ shm' = shm /\ state' = state /\ suppressed' = suppressed
      /\ eof' = eof /\ chld' = chld /\ grand' = grand
      /\ \A c \in Kids : kid'[c] = kid[c] \/ (kid[c].pc = "zombie" /\ kid'[c].pc = "free")
  BY DEF Safe, IInv, TypeOK, ParRecs, Dies, Idle, NoKid, flags, events
<1>2. ParInv'
  BY <1>1
     DEF Safe, SInv, ParInv, ChildInv, Forcing, Childless, Active
<1>3. ChildInv'
  BY <1>1
     DEF Safe, SInv, ParInv, ChildInv, Active, Stopping, Forcing, Forking,
     Copying, Childless, At
<1>4. WaitedInv'
  BY <1>1
     DEF Safe, SInv, WaitedInv, Live
<1>5. SettingInv'
  BY <1>1
     DEF Safe, SInv, ParInv, ChildInv, WaitedInv, SettingInv, Active, Setting,
     Live, Stopping, Forcing, Childless, At
<1>6. SuppressedInv'
  BY <1>1
     DEF Safe, SInv, ParInv, ChildInv, SuppressedInv, Active, Stopping,
     Forcing, Childless, Copying, Named, At
<1>7. ASSUME OutInv, NotOvertaken, NotOvertaken'
      PROVE  OutInv'
  <2>1. OnlyGrand'
    BY <1>1, <1>7
       DEF OutInv, OnlyGrand, Live
  <2>2. OrphanInv'
    BY <1>1, <1>7
       DEF OutInv, OrphanInv, Live, Active, Stopping, At
  <2>3. NamedInv'
    BY <1>1, <1>7
       DEF OutInv, NamedInv, Forking, Copying, NotOvertaken, Late
  <2>4. PairInv'
    BY <1>1, <1>7
       DEF OutInv, PairInv, Forking, Copying, Late
  <2> QED
    BY <2>1, <2>2, <2>3, <2>4 DEF OutInv
<1>8. ASSUME ~Online, OutInv, PlayInv
      PROVE  PlayInv'
  <2>1. CopyInv'
    BY <1>1, <1>8
       DEF PlayInv, CopyInv
  <2>2. FetchInv'
    BY <1>1, <1>8
       DEF PlayInv, FetchInv
  <2>3. EndedInv'
    BY <1>1, <1>8
       DEF PlayInv, EndedInv, ChildGone, ChildZombie, ChildSent, Skipping,
       Active
  <2> QED
    BY <2>1, <2>2, <2>3 DEF PlayInv
<1> QED
  BY <1>2, <1>3, <1>4, <1>5, <1>6, <1>7, <1>8 DEF SInv, OutKept, PlayKept

LEMMA Quit_Safe ==
  ASSUME Safe, ~Dies, Quit
  PROVE  SInv' /\ OutKept /\ PlayKept
<1>1. /\ par.pc = "quit" /\ par'.pc = "kill" /\ par'.cmd = par.cmd /\ par'.s = par.s
      /\ shm' = shm /\ state' = state /\ suppressed' = suppressed
      /\ eof' = eof /\ chld' = chld /\ kid' = kid
      /\ \A g \in Grands : grand'[g].pc = grand[g].pc /\ grand'[g].kid = grand[g].kid
  <2>1. \A g \in Grands : grand'[g].pc = grand[g].pc /\ grand'[g].kid = grand[g].kid
    BY ResumedKeeps DEF Safe, IInv, Quit
  <2> QED
    BY <2>1 DEF Safe, IInv, TypeOK, ParRecs, Quit, At, flags, events
<1>2. ParInv'
  BY <1>1
     DEF Safe, SInv, ParInv, ChildInv, Forcing, Childless, Active
<1>3. ChildInv'
  BY <1>1
     DEF Safe, SInv, ParInv, ChildInv, Active, Stopping, Forcing, Forking,
     Copying, Childless, At
<1>4. WaitedInv'
  BY <1>1
     DEF Safe, SInv, WaitedInv, Live
<1>5. SettingInv'
  BY <1>1
     DEF Safe, SInv, ParInv, ChildInv, WaitedInv, SettingInv, Active, Setting,
     Live, Stopping, Forcing, Childless, At
<1>6. SuppressedInv'
  BY <1>1
     DEF Safe, SInv, ParInv, ChildInv, SuppressedInv, Active, Stopping,
     Forcing, Childless, Copying, Named, At
<1>7. ASSUME OutInv, NotOvertaken, NotOvertaken'
      PROVE  OutInv'
  <2>1. OnlyGrand'
    BY <1>1, <1>7
       DEF OutInv, OnlyGrand, Live
  <2>2. OrphanInv'
    BY <1>1, <1>7
       DEF OutInv, OrphanInv, Live, Active, Stopping, At
  <2>3. NamedInv'
    BY <1>1, <1>7
       DEF OutInv, NamedInv, Forking, Copying, NotOvertaken, Late
  <2>4. PairInv'
    BY <1>1, <1>7
       DEF OutInv, PairInv, Forking, Copying, Late
  <2> QED
    BY <2>1, <2>2, <2>3, <2>4 DEF OutInv
<1>8. ASSUME ~Online, OutInv, PlayInv
      PROVE  PlayInv'
  <2>1. CopyInv'
    BY <1>1, <1>8
       DEF PlayInv, CopyInv
  <2>2. FetchInv'
    BY <1>1, <1>8
       DEF PlayInv, FetchInv
  <2>3. EndedInv'
    BY <1>1, <1>8
       DEF PlayInv, EndedInv, ChildGone, ChildZombie, ChildSent, Skipping,
       Active
  <2> QED
    BY <2>1, <2>2, <2>3 DEF PlayInv
<1> QED
  BY <1>2, <1>3, <1>4, <1>5, <1>6, <1>7, <1>8 DEF SInv, OutKept, PlayKept

LEMMA Kill_Safe ==
  ASSUME Safe, Kill
  PROVE  SInv' /\ OutKept /\ PlayKept
<1>1. /\ par.pc = "kill" /\ ~(\E g \in Grands : Setting(g))
      /\ \/ par.cmd = "next" /\ par'.pc = "idle"
         \/ /\ par.cmd # "next" /\ par'.pc = "wait_child"
            /\ par'.cmd = par.cmd /\ par'.s = par.s
      /\ shm' = shm /\ state' = state /\ suppressed' = suppressed
      /\ eof' = eof /\ chld' = chld /\ kid' = kid
      /\ \A g \in Grands : grand'[g] = grand[g] \/ Gone(g)
      /\ \A c \in Kids : kid[c].pc # "eof_sent"
  <2>1. \A g \in Grands : grand'[g] = grand[g] \/ Gone(g)
    BY EndIfAliveIsGone DEF Safe, IInv, Kill
  <2>2. /\ ~(\E g \in Grands : Setting(g))
        /\ \A c \in Kids : kid[c].pc # "eof_sent"
    BY DEF Safe, Kill, Settled, Setting
  <2>3. /\ par.pc = "kill" /\ kid' = kid /\ shm' = shm /\ state' = state
        /\ suppressed' = suppressed /\ eof' = eof /\ chld' = chld
    BY DEF Kill, At, flags, events
  <2>4. IF par.cmd = "next" THEN par' = Idle
        ELSE par' = [par EXCEPT !.pc = "wait_child", !.seen = Nobody]
    BY DEF Kill, Return
  <2>5. \/ par.cmd = "next" /\ par'.pc = "idle"
        \/ /\ par.cmd # "next" /\ par'.pc = "wait_child"
           /\ par'.cmd = par.cmd /\ par'.s = par.s
    BY <2>4, ParSteps DEF Safe, IInv, TypeOK, ParRecs
  <2> QED
    BY <2>1, <2>2, <2>3, <2>5
<1>2. ParInv'
  BY <1>1
     DEF Safe, SInv, ParInv, ChildInv, Forcing, Childless, Active
<1>3. ChildInv'
  BY <1>1
     DEF Safe, SInv, ParInv, ChildInv, Active, Stopping, Forcing, Forking,
     Copying, Childless, At
<1>4. WaitedInv'
  BY <1>1
     DEF Safe, SInv, WaitedInv, Live, Gone
<1>5. SettingInv'
  BY <1>1
     DEF Safe, SInv, ParInv, ChildInv, WaitedInv, SettingInv, Active, Setting,
     Live, Stopping, Forcing, Childless, At, Gone
<1>6. SuppressedInv'
  BY <1>1
     DEF Safe, SInv, ParInv, ChildInv, SuppressedInv, Active, Stopping,
     Forcing, Childless, Copying, Named, At
<1>7. ASSUME OutInv, NotOvertaken, NotOvertaken'
      PROVE  OutInv'
  <2>1. OnlyGrand'
    BY <1>1, <1>7
       DEF OutInv, OnlyGrand, Live, Gone
  <2>2. OrphanInv'
    BY <1>1, <1>7
       DEF OutInv, OrphanInv, Live, Active, Stopping, At, Gone
  <2>3. NamedInv'
    BY <1>1, <1>7
       DEF OutInv, NamedInv, Forking, Copying, NotOvertaken, Late, Gone
  <2>4. PairInv'
    BY <1>1, <1>7
       DEF OutInv, PairInv, Forking, Copying, Late, Gone
  <2> QED
    BY <2>1, <2>2, <2>3, <2>4 DEF OutInv
<1>8. ASSUME ~Online, OutInv, PlayInv
      PROVE  PlayInv'
  <2>1. CopyInv'
    BY <1>1, <1>8
       DEF PlayInv, CopyInv
  <2>2. FetchInv'
    BY <1>1, <1>8
       DEF PlayInv, FetchInv
  <2>3. EndedInv'
    BY <1>1, <1>8
       DEF PlayInv, EndedInv, ChildGone, ChildZombie, ChildSent, Skipping,
       Active
  <2> QED
    BY <2>1, <2>2, <2>3 DEF PlayInv
<1> QED
  BY <1>2, <1>3, <1>4, <1>5, <1>6, <1>7, <1>8 DEF SInv, OutKept, PlayKept

LEMMA ForceGrand_Safe ==
  ASSUME Safe, ForceGrand
  PROVE  SInv' /\ OutKept /\ PlayKept
<1>1. /\ par.pc = "force_grand" /\ par'.pc = "force" /\ par'.cmd = par.cmd
      /\ shm' = shm /\ state' = state /\ suppressed' = suppressed
      /\ eof' = eof /\ chld' = chld /\ kid' = kid
      /\ \A g \in Grands : grand'[g] = grand[g] \/ Gone(g)
  BY EndIfAliveIsGone DEF Safe, IInv, TypeOK, ParRecs, ForceGrand, At, flags, events
<1>2. ParInv'
  BY <1>1
     DEF Safe, SInv, ParInv, ChildInv, Forcing, Childless, Active
<1>3. ChildInv'
  BY <1>1
     DEF Safe, SInv, ParInv, ChildInv, Active, Stopping, Forcing, Forking,
     Copying, Childless, At
<1>4. WaitedInv'
  BY <1>1
     DEF Safe, SInv, WaitedInv, Live, Gone
<1>5. SettingInv'
  BY <1>1
     DEF Safe, SInv, ParInv, ChildInv, WaitedInv, SettingInv, Active, Setting,
     Live, Stopping, Forcing, Childless, At, Gone
<1>6. SuppressedInv'
  BY <1>1
     DEF Safe, SInv, ParInv, ChildInv, SuppressedInv, Active, Stopping,
     Forcing, Childless, Copying, Named, At
<1>7. ASSUME OutInv, NotOvertaken, NotOvertaken'
      PROVE  OutInv'
  <2>1. OnlyGrand'
    BY <1>1, <1>7
       DEF OutInv, OnlyGrand, Live, Gone
  <2>2. OrphanInv'
    BY <1>1, <1>7
       DEF OutInv, OrphanInv, Live, Active, Stopping, At, Gone
  <2>3. NamedInv'
    BY <1>1, <1>7
       DEF OutInv, NamedInv, Forking, Copying, NotOvertaken, Late, Gone
  <2>4. PairInv'
    BY <1>1, <1>7
       DEF OutInv, PairInv, Forking, Copying, Late, Gone
  <2> QED
    BY <2>1, <2>2, <2>3, <2>4 DEF OutInv
<1>8. ASSUME ~Online, OutInv, PlayInv
      PROVE  PlayInv'
  <2>1. CopyInv'
    BY <1>1, <1>8
       DEF PlayInv, CopyInv
  <2>2. FetchInv'
    BY <1>1, <1>8
       DEF PlayInv, FetchInv
  <2>3. EndedInv'
    BY <1>1, <1>8
       DEF PlayInv, EndedInv, ChildGone, ChildZombie, ChildSent, Skipping,
       Active
  <2> QED
    BY <2>1, <2>2, <2>3 DEF PlayInv
<1> QED
  BY <1>2, <1>3, <1>4, <1>5, <1>6, <1>7, <1>8 DEF SInv, OutKept, PlayKept

LEMMA ClearSet_Safe ==
  ASSUME Safe, ClearSet
  PROVE  SInv' /\ OutKept /\ PlayKept
<1>1. /\ par.pc = "clear_set" /\ par'.pc = "fork"
      /\ kid' = kid /\ grand' = grand
      /\ state' = state /\ suppressed' = suppressed
  BY DEF Safe, IInv, TypeOK, ParRecs, ClearSet, At, flags, events
<1>2. ParInv'
  BY <1>1
     DEF Safe, SInv, ParInv, ChildInv, Forcing, Childless, Active
<1>3. ChildInv'
  BY <1>1
     DEF Safe, SInv, ParInv, ChildInv, Active, Stopping, Forcing, Forking,
     Copying, Childless, At
<1>4. WaitedInv'
  BY <1>1
     DEF Safe, SInv, WaitedInv, Live
<1>5. SettingInv'
  BY <1>1
     DEF Safe, SInv, ParInv, ChildInv, WaitedInv, SettingInv, Active, Setting,
     Live, Stopping, Forcing, Childless, At
<1>6. SuppressedInv'
  BY <1>1
     DEF Safe, SInv, ParInv, ChildInv, SuppressedInv, Active, Stopping,
     Forcing, Childless, Copying, Named, At
<1>7. ASSUME OutInv, NotOvertaken, NotOvertaken'
      PROVE  OutInv'
  <2>0. \A g \in Grands : ~Live(g)
    BY <1>1, <1>7, NoneLeft
       DEF Safe, SInv, ChildInv, Active, Childless, Forcing, Stopping, At
  <2>1. OnlyGrand'
    BY <1>1, <1>7, <2>0
       DEF OutInv, OnlyGrand, Live, Live
  <2>2. OrphanInv'
    BY <1>1, <1>7, <2>0
       DEF OutInv, OrphanInv, Live, Active, Stopping, At
  <2>3. NamedInv'
    BY <1>1, <1>7, <2>0
       DEF OutInv, NamedInv, Forking, Copying, NotOvertaken, Late, Live
  <2>4. PairInv'
    BY <1>1, <1>7, <2>0
       DEF OutInv, PairInv, Forking, Copying, Late, Live
  <2> QED
    BY <2>1, <2>2, <2>3, <2>4 DEF OutInv
<1>8. ASSUME ~Online, OutInv, PlayInv
      PROVE  PlayInv'
  <2>1. CopyInv'
    BY <1>1, <1>8
       DEF PlayInv, CopyInv
  <2>2. FetchInv'
    BY <1>1, <1>8
       DEF PlayInv, FetchInv
  <2>3. EndedInv'
    BY <1>1, <1>8
       DEF PlayInv, EndedInv, ChildGone, ChildZombie, ChildSent, Skipping,
       Active
  <2> QED
    BY <2>1, <2>2, <2>3 DEF PlayInv
<1> QED
  BY <1>2, <1>3, <1>4, <1>5, <1>6, <1>7, <1>8 DEF SInv, OutKept, PlayKept

LEMMA PidGet_Safe ==
  ASSUME Safe, PidGet
  PROVE  SInv' /\ OutKept /\ PlayKept
<1>1. /\ par.pc = "pid_get" /\ par'.pc = "pid_set" /\ par'.s.child = par.s.child
      /\ kid' = kid /\ grand' = grand
      /\ shm' = shm /\ state' = state /\ suppressed' = suppressed
      /\ eof' = eof /\ chld' = chld
  BY DEF Safe, IInv, TypeOK, ParRecs, PidGet, At, Shm, flags, events
<1>2. ParInv'
  BY <1>1
     DEF Safe, SInv, ParInv, ChildInv, Forcing, Childless, Active
<1>3. ChildInv'
  BY <1>1
     DEF Safe, SInv, ParInv, ChildInv, Active, Stopping, Forcing, Forking,
     Copying, Childless, At
<1>4. WaitedInv'
  BY <1>1
     DEF Safe, SInv, WaitedInv, Live
<1>5. SettingInv'
  BY <1>1
     DEF Safe, SInv, ParInv, ChildInv, WaitedInv, SettingInv, Active, Setting,
     Live, Stopping, Forcing, Childless, At
<1>6. SuppressedInv'
  BY <1>1
     DEF Safe, SInv, ParInv, ChildInv, SuppressedInv, Active, Stopping,
     Forcing, Childless, Copying, Named, At
<1>7. ASSUME OutInv, NotOvertaken, NotOvertaken'
      PROVE  OutInv'
  <2>1. OnlyGrand'
    BY <1>1, <1>7
       DEF OutInv, OnlyGrand, Live
  <2>2. OrphanInv'
    BY <1>1, <1>7
       DEF OutInv, OrphanInv, Live, Active, Stopping, At
  <2>3. NamedInv'
    BY <1>1, <1>7
       DEF OutInv, NamedInv, Forking, Copying, NotOvertaken, Late
  <2>4. PairInv'
    BY <1>1, <1>7
       DEF OutInv, PairInv, Forking, Copying, Late
  <2> QED
    BY <2>1, <2>2, <2>3, <2>4 DEF OutInv
<1>8. ASSUME ~Online, OutInv, PlayInv
      PROVE  PlayInv'
  <2>1. CopyInv'
    BY <1>1, <1>8
       DEF PlayInv, CopyInv
  <2>2. FetchInv'
    BY <1>1, <1>8
       DEF PlayInv, FetchInv
  <2>3. EndedInv'
    BY <1>1, <1>8
       DEF PlayInv, EndedInv, ChildGone, ChildZombie, ChildSent, Skipping,
       Active
  <2> QED
    BY <2>1, <2>2, <2>3 DEF PlayInv
<1> QED
  BY <1>2, <1>3, <1>4, <1>5, <1>6, <1>7, <1>8 DEF SInv, OutKept, PlayKept

LEMMA PidSet_Safe ==
  ASSUME Safe, PidSet
  PROVE  SInv' /\ OutKept /\ PlayKept
<1>1. /\ par.pc = "pid_set" /\ par'.pc = "idle"
      /\ kid' = kid /\ grand' = grand
      /\ shm' = par.s /\ state' = state /\ suppressed' = suppressed
  BY DEF Safe, IInv, TypeOK, ParRecs, PidSet, At, Return, Idle, flags, events
<1>2. ParInv'
  BY <1>1
     DEF Safe, SInv, ParInv, ChildInv, Forcing, Childless, Active
<1>3. ChildInv'
  BY <1>1
     DEF Safe, SInv, ParInv, ChildInv, Active, Stopping, Forcing, Forking,
     Copying, Childless, At
<1>4. WaitedInv'
  BY <1>1
     DEF Safe, SInv, WaitedInv, Live
<1>5. SettingInv'
  BY <1>1
     DEF Safe, SInv, ParInv, ChildInv, WaitedInv, SettingInv, Active, Setting,
     Live, Stopping, Forcing, Childless, At
<1>6. SuppressedInv'
  BY <1>1
     DEF Safe, SInv, ParInv, ChildInv, SuppressedInv, Active, Stopping,
     Forcing, Childless, Copying, Named, At
<1>7. ASSUME OutInv, NotOvertaken, NotOvertaken'
      PROVE  OutInv'
  <2>1. OnlyGrand'
    BY <1>1, <1>7
       DEF OutInv, OnlyGrand, Live
  <2>2. OrphanInv'
    BY <1>1, <1>7
       DEF OutInv, OrphanInv, Live, Active, Stopping, At
  <2>3. NamedInv'
    BY <1>1, <1>7
       DEF OutInv, NamedInv, Forking, Copying, NotOvertaken, Late
  <2>4. PairInv'
    BY <1>1, <1>7
       DEF OutInv, PairInv, Forking, Copying, Late
  <2> QED
    BY <2>1, <2>2, <2>3, <2>4 DEF OutInv
<1>8. ASSUME ~Online, OutInv, PlayInv
      PROVE  PlayInv'
  <2>1. CopyInv'
    BY <1>1, <1>8
       DEF PlayInv, CopyInv
  <2>2. FetchInv'
    BY <1>1, <1>8
       DEF PlayInv, FetchInv
  <2>3. EndedInv'
    BY <1>1, <1>8
       DEF PlayInv, EndedInv, ChildGone, ChildZombie, ChildSent, Skipping,
       Active
  <2> QED
    BY <2>1, <2>2, <2>3 DEF PlayInv
<1> QED
  BY <1>2, <1>3, <1>4, <1>5, <1>6, <1>7, <1>8 DEF SInv, OutKept, PlayKept

LEMMA StopPlay_Safe ==
  ASSUME Safe, StopPlay
  PROVE  SInv' /\ OutKept /\ PlayKept
<1>1. /\ par.pc = "idle" /\ par'.pc = "quit" /\ par'.cmd = "stop" /\ par'.s = shm
      /\ grand' = grand /\ shm' = shm /\ state' = state
      /\ \A c \in Kids : kid'[c].pc = kid[c].pc
      /\ \A c \in Kids : kid'[c].s = kid[c].s
      /\ \A c \in Kids : c = shm.child /\ kid[c].pc # "free" => kid'[c].stop
  BY StoppedKeeps DEF Safe, IInv, TypeOK, ParRecs, StopPlay, At, Given, flags
<1>2. ParInv'
  BY <1>1
     DEF Safe, SInv, ParInv, ChildInv, Forcing, Childless, Active
<1>3. ChildInv'
  BY <1>1
     DEF Safe, SInv, ParInv, ChildInv, Active, Stopping, Forcing, Forking,
     Copying, Childless, At
<1>4. WaitedInv'
  BY <1>1
     DEF Safe, SInv, WaitedInv, Live
<1>5. SettingInv'
  BY <1>1
     DEF Safe, SInv, ParInv, ChildInv, WaitedInv, SettingInv, Active, Setting,
     Live, Stopping, Forcing, Childless, At
<1>6. SuppressedInv'
  BY <1>1
     DEF Safe, SInv, ParInv, ChildInv, SuppressedInv, Active, Stopping,
     Forcing, Childless, Copying, Named, At
<1>7. ASSUME OutInv, NotOvertaken, NotOvertaken'
      PROVE  OutInv'
  <2>1. OnlyGrand'
    BY <1>1, <1>7
       DEF OutInv, OnlyGrand, Live
  <2>2. OrphanInv'
    BY <1>1, <1>7
       DEF OutInv, OrphanInv, Live, Active, Stopping, At
  <2>3. NamedInv'
    BY <1>1, <1>7
       DEF OutInv, NamedInv, Forking, Copying, NotOvertaken, Late
  <2>4. PairInv'
    BY <1>1, <1>7
       DEF OutInv, PairInv, Forking, Copying, Late
  <2> QED
    BY <2>1, <2>2, <2>3, <2>4 DEF OutInv
<1>8. ASSUME ~Online, OutInv, PlayInv
      PROVE  PlayInv'
  <2>1. CopyInv'
    BY <1>1, <1>8
       DEF PlayInv, CopyInv
  <2>2. FetchInv'
    BY <1>1, <1>8
       DEF PlayInv, FetchInv
  <2>3. EndedInv'
    BY <1>1, <1>8
       DEF PlayInv, EndedInv, ChildGone, ChildZombie, ChildSent, Skipping,
       Active
  <2> QED
    BY <2>1, <2>2, <2>3 DEF PlayInv
<1> QED
  BY <1>2, <1>3, <1>4, <1>5, <1>6, <1>7, <1>8 DEF SInv, OutKept, PlayKept

LEMMA StopLast_Safe ==
  ASSUME Safe, StopLast
  PROVE  SInv' /\ OutKept /\ PlayKept
<1>1. /\ par.pc = "stop_last" /\ par'.pc = "stop_clear" /\ ~Named(par'.s)
      /\ kid' = kid /\ state' = "STOP" /\ suppressed' = suppressed
      /\ \A g \in Grands : grand'[g] = grand[g] \/ Gone(g)
      /\ \A g \in Grands : g = shm.grand => grand'[g].pc \in {"free", "zombie"}
  BY EndIfAliveIsGone, EndIfAliveEnds DEF Safe, IInv, TypeOK, ParRecs, StopLast, At, Named, Shm, events
<1>2. ParInv'
  BY <1>1
     DEF Safe, SInv, ParInv, ChildInv, Forcing, Childless, Active
<1>3. ChildInv'
  BY <1>1
     DEF Safe, SInv, ParInv, ChildInv, Active, Stopping, Forcing, Forking,
     Copying, Childless, At
<1>4. WaitedInv'
  BY <1>1
     DEF Safe, SInv, WaitedInv, Live, Gone
<1>5. SettingInv'
  BY <1>1
     DEF Safe, SInv, ParInv, ChildInv, WaitedInv, SettingInv, Active, Setting,
     Live, Stopping, Forcing, Childless, At, Gone
<1>6. SuppressedInv'
  BY <1>1
     DEF Safe, SInv, ParInv, ChildInv, SuppressedInv, Active, Stopping,
     Forcing, Childless, Copying, Named, At
<1>7. ASSUME OutInv, NotOvertaken, NotOvertaken'
      PROVE  OutInv'
  <2>0. \A g \in Grands : grand'[g].pc = "free"
    <3> TAKE g \in Grands
    <3>1. CASE ~Live(g)
      BY <1>1, <3>1 DEF Gone, Live
    <3>2. CASE Live(g)
      <4>1. \A c \in Kids : ~Active(c)
        BY <1>1 DEF Safe, SInv, ChildInv, Childless
      <4>2. grand[g].kid = Nobody
        BY <3>2, <4>1 DEF Safe, SInv, WaitedInv, Active
      <4>3. ~Setting(g)
        BY <1>1, <4>2 DEF Safe, SInv, SettingInv, Stopping, At
      <4>4. grand[g].pc \in {"open", "play"}
        BY <1>7, <3>2, <4>2, <4>3
           DEF Safe, IInv, TypeOK, GrandRecs, OutInv, OrphanInv, Live, Setting
      <4>5. shm.grand = g
        BY <1>7, <4>4 DEF OutInv, NamedInv
      <4> QED
        BY <1>1, <4>2, <4>4, <4>5 DEF Gone, Live
    <3> QED
      BY <3>1, <3>2
  <2>1. OnlyGrand'
    BY <1>1, <1>7, <2>0
       DEF OutInv, OnlyGrand, Live, Live
  <2>2. OrphanInv'
    BY <1>1, <1>7, <2>0
       DEF OutInv, OrphanInv, Live, Active, Stopping, At
  <2>3. NamedInv'
    BY <1>1, <1>7, <2>0
       DEF OutInv, NamedInv, Forking, Copying, NotOvertaken, Late, Live
  <2>4. PairInv'
    BY <1>1, <1>7, <2>0
       DEF OutInv, PairInv, Forking, Copying, Late, Live
  <2> QED
    BY <2>1, <2>2, <2>3, <2>4 DEF OutInv
<1>8. ASSUME ~Online, OutInv, PlayInv
      PROVE  PlayInv'
  <2>1. CopyInv'
    BY <1>1, <1>8
       DEF PlayInv, CopyInv
  <2>2. FetchInv'
    BY <1>1, <1>8
       DEF PlayInv, FetchInv
  <2>3. EndedInv'
    BY <1>1, <1>8
       DEF PlayInv, EndedInv, ChildGone, ChildZombie, ChildSent, Skipping,
       Active
  <2> QED
    BY <2>1, <2>2, <2>3 DEF PlayInv
<1> QED
  BY <1>2, <1>3, <1>4, <1>5, <1>6, <1>7, <1>8 DEF SInv, OutKept, PlayKept

LEMMA StopClear_Safe ==
  ASSUME Safe, StopClear
  PROVE  SInv' /\ OutKept /\ PlayKept
<1>1. /\ par.pc = "stop_clear" /\ par'.pc = "idle"
      /\ kid' = kid /\ grand' = grand
      /\ shm' = par.s /\ state' = state /\ suppressed' = suppressed
  BY DEF Safe, IInv, TypeOK, ParRecs, StopClear, At, Return, Idle, flags,
     events
<1>2. ParInv'
  BY <1>1
     DEF Safe, SInv, ParInv, ChildInv, Forcing, Childless, Active
<1>3. ChildInv'
  BY <1>1
     DEF Safe, SInv, ParInv, ChildInv, Active, Stopping, Forcing, Forking,
     Copying, Childless, At
<1>4. WaitedInv'
  BY <1>1
     DEF Safe, SInv, WaitedInv, Live
<1>5. SettingInv'
  BY <1>1
     DEF Safe, SInv, ParInv, ChildInv, WaitedInv, SettingInv, Active, Setting,
     Live, Stopping, Forcing, Childless, At
<1>6. SuppressedInv'
  BY <1>1
     DEF Safe, SInv, ParInv, ChildInv, SuppressedInv, Active, Stopping,
     Forcing, Childless, Copying, Named, At
<1>7. ASSUME OutInv, NotOvertaken, NotOvertaken'
      PROVE  OutInv'
  <2>0. \A g \in Grands : ~Live(g)
    BY <1>1, <1>7, NoneLeft
       DEF Safe, SInv, ChildInv, Active, Childless, Forcing, Stopping, At
  <2>1. OnlyGrand'
    BY <1>1, <1>7, <2>0
       DEF OutInv, OnlyGrand, Live, Live
  <2>2. OrphanInv'
    BY <1>1, <1>7, <2>0
       DEF OutInv, OrphanInv, Live, Active, Stopping, At
  <2>3. NamedInv'
    BY <1>1, <1>7, <2>0
       DEF OutInv, NamedInv, Forking, Copying, NotOvertaken, Late, Live
  <2>4. PairInv'
    BY <1>1, <1>7, <2>0
       DEF OutInv, PairInv, Forking, Copying, Late, Live
  <2> QED
    BY <2>1, <2>2, <2>3, <2>4 DEF OutInv
<1>8. ASSUME ~Online, OutInv, PlayInv
      PROVE  PlayInv'
  <2>1. CopyInv'
    BY <1>1, <1>8
       DEF PlayInv, CopyInv
  <2>2. FetchInv'
    BY <1>1, <1>8
       DEF PlayInv, FetchInv
  <2>3. EndedInv'
    BY <1>1, <1>8
       DEF PlayInv, EndedInv, ChildGone, ChildZombie, ChildSent, Skipping,
       Active
  <2> QED
    BY <2>1, <2>2, <2>3 DEF PlayInv
<1> QED
  BY <1>2, <1>3, <1>4, <1>5, <1>6, <1>7, <1>8 DEF SInv, OutKept, PlayKept

LEMMA CmdContinue_Safe ==
  ASSUME Safe, CmdContinue
  PROVE  SInv' /\ OutKept /\ PlayKept
<1>1. /\ par.pc = "idle" /\ par'.pc = "continue"
      /\ kid' = kid /\ grand' = grand
      /\ shm' = shm /\ state' = state /\ suppressed' = suppressed
      /\ eof' = eof /\ chld' = chld
  BY DEF Safe, IInv, TypeOK, ParRecs, CmdContinue, At, Given, GoTo, flags,
     events
<1>2. ParInv'
  BY <1>1
     DEF Safe, SInv, ParInv, ChildInv, Forcing, Childless, Active
<1>3. ChildInv'
  BY <1>1
     DEF Safe, SInv, ParInv, ChildInv, Active, Stopping, Forcing, Forking,
     Copying, Childless, At
<1>4. WaitedInv'
  BY <1>1
     DEF Safe, SInv, WaitedInv, Live
<1>5. SettingInv'
  BY <1>1
     DEF Safe, SInv, ParInv, ChildInv, WaitedInv, SettingInv, Active, Setting,
     Live, Stopping, Forcing, Childless, At
<1>6. SuppressedInv'
  BY <1>1
     DEF Safe, SInv, ParInv, ChildInv, SuppressedInv, Active, Stopping,
     Forcing, Childless, Copying, Named, At
<1>7. ASSUME OutInv, NotOvertaken, NotOvertaken'
      PROVE  OutInv'
  <2>1. OnlyGrand'
    BY <1>1, <1>7
       DEF OutInv, OnlyGrand, Live
  <2>2. OrphanInv'
    BY <1>1, <1>7
       DEF OutInv, OrphanInv, Live, Active, Stopping, At
  <2>3. NamedInv'
    BY <1>1, <1>7
       DEF OutInv, NamedInv, Forking, Copying, NotOvertaken, Late
  <2>4. PairInv'
    BY <1>1, <1>7
       DEF OutInv, PairInv, Forking, Copying, Late
  <2> QED
    BY <2>1, <2>2, <2>3, <2>4 DEF OutInv
<1>8. ASSUME ~Online, OutInv, PlayInv
      PROVE  PlayInv'
  <2>1. CopyInv'
    BY <1>1, <1>8
       DEF PlayInv, CopyInv
  <2>2. FetchInv'
    BY <1>1, <1>8
       DEF PlayInv, FetchInv
  <2>3. EndedInv'
    BY <1>1, <1>8
       DEF PlayInv, EndedInv, ChildGone, ChildZombie, ChildSent, Skipping,
       Active
  <2> QED
    BY <2>1, <2>2, <2>3 DEF PlayInv
<1> QED
  BY <1>2, <1>3, <1>4, <1>5, <1>6, <1>7, <1>8 DEF SInv, OutKept, PlayKept

LEMMA NextSong_Safe ==
  ASSUME Safe, NextSong
  PROVE  SInv' /\ OutKept /\ PlayKept
<1>1. /\ par.pc = "idle" /\ par'.pc \in {"next_set", "next_late"}
      /\ par'.cmd = IF state = "STOP" THEN "next_stopped" ELSE "next"
      /\ par'.s.child = shm.child /\ par'.s.grand = shm.grand
      /\ kid' = kid /\ grand' = grand
      /\ shm' = shm /\ state' = state /\ suppressed' = suppressed
      /\ eof' = eof /\ chld' = chld
      /\ \A g \in Grands : grand[g].pc # "register"
      /\ \A c \in Kids : kid[c].pc \notin {"sync", "set"}
      /\ ~Online => par'.pc # "next_late"
  <2>1. \E t : \E pc \in {"next_set", "next_late"} : Choose(t, pc)
    BY DEF NextSong
  <2>2. par.pc = "idle" /\ /\ kid' = kid /\ grand' = grand
    BY DEF NextSong, Given, At
  <2>3. /\ shm' = shm /\ state' = state /\ suppressed' = suppressed
        /\ eof' = eof /\ chld' = chld
    BY DEF NextSong, flags, events
  <2>4. /\ \A g \in Grands : grand[g].pc # "register"
        /\ \A c \in Kids : kid[c].pc \notin {"sync", "set"}
    BY DEF Safe, NextSong, PairFree, ShortCopy
  <2>5. ~Online => \E t : Choose(t, "next_set")
    BY LinkNextOffline DEF NextSong
  <2>6. ~Online => par'.pc # "next_late"
    BY <2>5, ChosenSteps
  <2>7. /\ par'.pc \in {"next_set", "next_late"}
        /\ par'.cmd = IF state = "STOP" THEN "next_stopped" ELSE "next"
        /\ par'.s.child = shm.child /\ par'.s.grand = shm.grand
    BY <2>1, ChosenSteps
  <2> QED
    BY <2>2, <2>3, <2>4, <2>6, <2>7
<1>2. ParInv'
  BY <1>1
     DEF Safe, SInv, ParInv, ChildInv, Forcing, Childless, Active
<1>3. ChildInv'
  BY <1>1
     DEF Safe, SInv, ParInv, ChildInv, Active, Stopping, Forcing, Forking,
     Copying, Childless, At
<1>4. WaitedInv'
  BY <1>1
     DEF Safe, SInv, WaitedInv, Live
<1>5. SettingInv'
  BY <1>1
     DEF Safe, SInv, ParInv, ChildInv, WaitedInv, SettingInv, Active, Setting,
     Live, Stopping, Forcing, Childless, At
<1>6. SuppressedInv'
  BY <1>1
     DEF Safe, SInv, ParInv, ChildInv, SuppressedInv, Active, Stopping,
     Forcing, Childless, Copying, Named, At
<1>7. ASSUME OutInv, NotOvertaken, NotOvertaken'
      PROVE  OutInv'
  <2>1. OnlyGrand'
    BY <1>1, <1>7
       DEF OutInv, OnlyGrand, Live
  <2>2. OrphanInv'
    BY <1>1, <1>7
       DEF OutInv, OrphanInv, Live, Active, Stopping, At
  <2>3. NamedInv'
    BY <1>1, <1>7
       DEF OutInv, NamedInv, Forking, Copying, NotOvertaken, Late
  <2>4. PairInv'
    BY <1>1, <1>7
       DEF OutInv, PairInv, Forking, Copying, Late
  <2> QED
    BY <2>1, <2>2, <2>3, <2>4 DEF OutInv
<1>8. ASSUME ~Online, OutInv, PlayInv
      PROVE  PlayInv'
  <2>1. CopyInv'
    BY <1>1, <1>8
       DEF PlayInv, CopyInv
  <2>2. FetchInv'
    BY <1>1, <1>8
       DEF PlayInv, FetchInv
  <2>3. EndedInv'
    BY <1>1, <1>8
       DEF PlayInv, EndedInv, ChildGone, ChildZombie, ChildSent, Skipping,
       Active, Safe, SInv, ChildInv, Childless, IInv, TypeOK
  <2> QED
    BY <2>1, <2>2, <2>3 DEF PlayInv
<1> QED
  BY <1>2, <1>3, <1>4, <1>5, <1>6, <1>7, <1>8 DEF SInv, OutKept, PlayKept

LEMMA PickSong_Safe ==
  ASSUME Safe, PickSong
  PROVE  SInv' /\ OutKept /\ PlayKept
<1>1. /\ par.pc = "idle" /\ par'.pc \in {"next_set", "next_late"}
      /\ par'.cmd = IF state = "STOP" THEN "next_stopped" ELSE "next"
      /\ par'.s.child = shm.child /\ par'.s.grand = shm.grand
      /\ kid' = kid /\ grand' = grand
      /\ shm' = shm /\ state' = state /\ suppressed' = suppressed
      /\ eof' = eof /\ chld' = chld
      /\ \A g \in Grands : grand[g].pc # "register"
      /\ \A c \in Kids : kid[c].pc \notin {"sync", "set"}
      /\ ~Online => par'.pc # "next_late"
  <2>1. \E t : \E pc \in {"next_set", "next_late"} : Choose(t, pc)
    BY DEF PickSong
  <2>2. par.pc = "idle" /\ /\ kid' = kid /\ grand' = grand
    BY DEF PickSong, Given, At
  <2>3. /\ shm' = shm /\ state' = state /\ suppressed' = suppressed
        /\ eof' = eof /\ chld' = chld
    BY DEF PickSong, flags, events
  <2>4. /\ \A g \in Grands : grand[g].pc # "register"
        /\ \A c \in Kids : kid[c].pc \notin {"sync", "set"}
    BY DEF Safe, PickSong, PairFree, ShortCopy
  <2>5. ~Online => \E t : Choose(t, "next_set")
    BY LinkNextOffline DEF PickSong
  <2>6. ~Online => par'.pc # "next_late"
    BY <2>5, ChosenSteps
  <2>7. /\ par'.pc \in {"next_set", "next_late"}
        /\ par'.cmd = IF state = "STOP" THEN "next_stopped" ELSE "next"
        /\ par'.s.child = shm.child /\ par'.s.grand = shm.grand
    BY <2>1, ChosenSteps
  <2> QED
    BY <2>2, <2>3, <2>4, <2>6, <2>7
<1>2. ParInv'
  BY <1>1
     DEF Safe, SInv, ParInv, ChildInv, Forcing, Childless, Active
<1>3. ChildInv'
  BY <1>1
     DEF Safe, SInv, ParInv, ChildInv, Active, Stopping, Forcing, Forking,
     Copying, Childless, At
<1>4. WaitedInv'
  BY <1>1
     DEF Safe, SInv, WaitedInv, Live
<1>5. SettingInv'
  BY <1>1
     DEF Safe, SInv, ParInv, ChildInv, WaitedInv, SettingInv, Active, Setting,
     Live, Stopping, Forcing, Childless, At
<1>6. SuppressedInv'
  BY <1>1
     DEF Safe, SInv, ParInv, ChildInv, SuppressedInv, Active, Stopping,
     Forcing, Childless, Copying, Named, At
<1>7. ASSUME OutInv, NotOvertaken, NotOvertaken'
      PROVE  OutInv'
  <2>1. OnlyGrand'
    BY <1>1, <1>7
       DEF OutInv, OnlyGrand, Live
  <2>2. OrphanInv'
    BY <1>1, <1>7
       DEF OutInv, OrphanInv, Live, Active, Stopping, At
  <2>3. NamedInv'
    BY <1>1, <1>7
       DEF OutInv, NamedInv, Forking, Copying, NotOvertaken, Late
  <2>4. PairInv'
    BY <1>1, <1>7
       DEF OutInv, PairInv, Forking, Copying, Late
  <2> QED
    BY <2>1, <2>2, <2>3, <2>4 DEF OutInv
<1>8. ASSUME ~Online, OutInv, PlayInv
      PROVE  PlayInv'
  <2>1. CopyInv'
    BY <1>1, <1>8
       DEF PlayInv, CopyInv
  <2>2. FetchInv'
    BY <1>1, <1>8
       DEF PlayInv, FetchInv
  <2>3. EndedInv'
    BY <1>1, <1>8
       DEF PlayInv, EndedInv, ChildGone, ChildZombie, ChildSent, Skipping,
       Active, Safe, SInv, ChildInv, Childless, IInv, TypeOK
  <2> QED
    BY <2>1, <2>2, <2>3 DEF PlayInv
<1> QED
  BY <1>2, <1>3, <1>4, <1>5, <1>6, <1>7, <1>8 DEF SInv, OutKept, PlayKept

LEMMA NextSet_Safe ==
  ASSUME Safe, NextSet
  PROVE  SInv' /\ OutKept /\ PlayKept
<1>1. /\ par.pc \in {"next_set", "next_late"}
      /\ \/ par.cmd = "next_stopped" /\ par'.pc = "start" /\ ~Named(shm')
         \/ /\ par.cmd # "next_stopped" /\ par'.pc = "next_apply" /\ par'.cmd = "none"
            /\ shm' = par.s
      /\ kid' = kid /\ grand' = grand
      /\ state' = state /\ suppressed' = suppressed /\ eof' = eof /\ chld' = chld
  BY DEF Safe, IInv, TypeOK, ParRecs, NextSet, At, Idle, Named, Shm, flags,
     events
<1>2. ParInv'
  BY <1>1
     DEF Safe, SInv, ParInv, ChildInv, Forcing, Childless, Active
<1>3. ChildInv'
  BY <1>1
     DEF Safe, SInv, ParInv, ChildInv, Active, Stopping, Forcing, Forking,
     Copying, Childless, At
<1>4. WaitedInv'
  BY <1>1
     DEF Safe, SInv, WaitedInv, Live
<1>5. SettingInv'
  BY <1>1
     DEF Safe, SInv, ParInv, ChildInv, WaitedInv, SettingInv, Active, Setting,
     Live, Stopping, Forcing, Childless, At
<1>6. SuppressedInv'
  BY <1>1
     DEF Safe, SInv, ParInv, ChildInv, SuppressedInv, Active, Stopping,
     Forcing, Childless, Copying, Named, At
<1>7. ASSUME OutInv, NotOvertaken, NotOvertaken'
      PROVE  OutInv'
  <2>1. OnlyGrand'
    BY <1>1, <1>7
       DEF OutInv, OnlyGrand, Live
  <2>2. OrphanInv'
    BY <1>1, <1>7
       DEF OutInv, OrphanInv, Live, Active, Stopping, At
  <2>3. NamedInv'
    <3>1. CASE par.cmd = "next_stopped"
      <4>1. \A g \in Grands : ~Live(g)
        BY <1>1, <1>7, <3>1, NoneLeft
           DEF Safe, SInv, ChildInv, Active, Childless, Forcing, Stopping, At
      <4> QED
        BY <1>1, <4>1 DEF NamedInv, Live
    <3>2. CASE par.cmd # "next_stopped"
      BY <1>1, <1>7, <3>2
         DEF OutInv, NamedInv, Forking, Copying, NotOvertaken, Late
    <3> QED
      BY <3>1, <3>2
  <2>4. PairInv'
    BY <1>1, <1>7
       DEF OutInv, PairInv, Forking, Copying, Late
  <2> QED
    BY <2>1, <2>2, <2>3, <2>4 DEF OutInv
<1>8. ASSUME ~Online, OutInv, PlayInv
      PROVE  PlayInv'
  <2>1. CopyInv'
    BY <1>1, <1>8
       DEF PlayInv, CopyInv
  <2>2. FetchInv'
    BY <1>1, <1>8
       DEF PlayInv, FetchInv
  <2>3. EndedInv'
    <3>1. CASE par.cmd = "next_stopped"
      BY <1>1, <3>1, PlaybackAssumption
         DEF EndedInv, ChildGone, Skipping, Named
    <3>2. CASE par.cmd # "next_stopped"
      <4>1. par.pc = "next_set" /\ shm'.child = shm.child
        BY <1>1, <1>8, <3>2 DEF Safe, SInv, ParInv, PlayInv, CopyInv
      <4>2. Skipping
        BY <4>1, <3>2 DEF Safe, SInv, ParInv, Skipping
      <4> QED
        BY <1>1, <1>8, <3>2, <4>1, <4>2
           DEF PlayInv, EndedInv, ChildGone, ChildZombie, ChildSent, Skipping,
           Active
    <3> QED
      BY <3>1, <3>2
  <2> QED
    BY <2>1, <2>2, <2>3 DEF PlayInv
<1> QED
  BY <1>2, <1>3, <1>4, <1>5, <1>6, <1>7, <1>8 DEF SInv, OutKept, PlayKept

LEMMA NextApply_Safe ==
  ASSUME Safe, NextApply
  PROVE  SInv' /\ OutKept /\ PlayKept
<1>1. /\ par.pc = "next_apply"
      /\ \/ par'.pc = "quit" /\ par'.cmd = "next" /\ state' = "PLAY"
         \/ par'.pc = "start" /\ state' = state /\ ~Alive(shm.child)
      /\ kid' = kid /\ grand' = grand
      /\ shm' = shm /\ suppressed' = suppressed /\ eof' = eof /\ chld' = chld
  BY DEF Safe, IInv, TypeOK, ParRecs, NextApply, At, GoTo, flags, events
<1>2. ParInv'
  BY <1>1
     DEF Safe, SInv, ParInv, ChildInv, Forcing, Childless, Active
<1>3. ChildInv'
  BY <1>1
     DEF Safe, SInv, ParInv, ChildInv, Active, Stopping, Forcing, Forking,
     Copying, Childless, At
<1>4. WaitedInv'
  BY <1>1
     DEF Safe, SInv, WaitedInv, Live
<1>5. SettingInv'
  BY <1>1
     DEF Safe, SInv, ParInv, ChildInv, WaitedInv, SettingInv, Active, Setting,
     Live, Stopping, Forcing, Childless, At
<1>6. SuppressedInv'
  BY <1>1
     DEF Safe, SInv, ParInv, ChildInv, SuppressedInv, Active, Stopping,
     Forcing, Childless, Copying, Named, At
<1>7. ASSUME OutInv, NotOvertaken, NotOvertaken'
      PROVE  OutInv'
  <2>1. OnlyGrand'
    BY <1>1, <1>7
       DEF OutInv, OnlyGrand, Live
  <2>2. OrphanInv'
    BY <1>1, <1>7
       DEF OutInv, OrphanInv, Live, Active, Stopping, At
  <2>3. NamedInv'
    BY <1>1, <1>7
       DEF OutInv, NamedInv, Forking, Copying, NotOvertaken, Late
  <2>4. PairInv'
    BY <1>1, <1>7
       DEF OutInv, PairInv, Forking, Copying, Late
  <2> QED
    BY <2>1, <2>2, <2>3, <2>4 DEF OutInv
<1>8. ASSUME ~Online, OutInv, PlayInv
      PROVE  PlayInv'
  <2>1. CopyInv'
    BY <1>1, <1>8
       DEF PlayInv, CopyInv
  <2>2. FetchInv'
    BY <1>1, <1>8
       DEF PlayInv, FetchInv
  <2>3. EndedInv'
    <3>1. Skipping
      BY <1>1 DEF Safe, SInv, ParInv, Skipping
    <3> QED
      BY <1>1, <1>8, <3>1, AliveKid
         DEF PlayInv, EndedInv, ChildGone, ChildZombie, ChildSent, Skipping,
         Active, Safe, IInv
  <2> QED
    BY <2>1, <2>2, <2>3 DEF PlayInv
<1> QED
  BY <1>2, <1>3, <1>4, <1>5, <1>6, <1>7, <1>8 DEF SInv, OutKept, PlayKept

LEMMA SetModeGet_Safe ==
  ASSUME Safe, SetModeGet
  PROVE  SInv' /\ OutKept /\ PlayKept
<1>1. /\ par.pc = "idle" /\ par'.pc = "mode_set" /\ par'.s.child = shm.child /\ par'.s.grand = shm.grand
      /\ kid' = kid /\ grand' = grand
      /\ shm' = shm /\ state' = state /\ suppressed' = suppressed
      /\ eof' = eof /\ chld' = chld
      /\ \A g \in Grands : grand[g].pc # "register"
      /\ \A c \in Kids : kid[c].pc \notin {"sync", "set"}
  BY DEF Safe, IInv, TypeOK, ParRecs, SetModeGet, At, Given, Shm, PairFree,
     ShortCopy, flags, events
<1>2. ParInv'
  BY <1>1
     DEF Safe, SInv, ParInv, ChildInv, Forcing, Childless, Active
<1>3. ChildInv'
  BY <1>1
     DEF Safe, SInv, ParInv, ChildInv, Active, Stopping, Forcing, Forking,
     Copying, Childless, At
<1>4. WaitedInv'
  BY <1>1
     DEF Safe, SInv, WaitedInv, Live
<1>5. SettingInv'
  BY <1>1
     DEF Safe, SInv, ParInv, ChildInv, WaitedInv, SettingInv, Active, Setting,
     Live, Stopping, Forcing, Childless, At
<1>6. SuppressedInv'
  BY <1>1
     DEF Safe, SInv, ParInv, ChildInv, SuppressedInv, Active, Stopping,
     Forcing, Childless, Copying, Named, At
<1>7. ASSUME OutInv, NotOvertaken, NotOvertaken'
      PROVE  OutInv'
  <2>1. OnlyGrand'
    BY <1>1, <1>7
       DEF OutInv, OnlyGrand, Live
  <2>2. OrphanInv'
    BY <1>1, <1>7
       DEF OutInv, OrphanInv, Live, Active, Stopping, At
  <2>3. NamedInv'
    BY <1>1, <1>7
       DEF OutInv, NamedInv, Forking, Copying, NotOvertaken, Late
  <2>4. PairInv'
    BY <1>1, <1>7
       DEF OutInv, PairInv, Forking, Copying, Late
  <2> QED
    BY <2>1, <2>2, <2>3, <2>4 DEF OutInv
<1>8. ASSUME ~Online, OutInv, PlayInv
      PROVE  PlayInv'
  <2>1. CopyInv'
    BY <1>1, <1>8
       DEF PlayInv, CopyInv
  <2>2. FetchInv'
    BY <1>1, <1>8
       DEF PlayInv, FetchInv
  <2>3. EndedInv'
    BY <1>1, <1>8
       DEF PlayInv, EndedInv, ChildGone, ChildZombie, ChildSent, Skipping,
       Active
  <2> QED
    BY <2>1, <2>2, <2>3 DEF PlayInv
<1> QED
  BY <1>2, <1>3, <1>4, <1>5, <1>6, <1>7, <1>8 DEF SInv, OutKept, PlayKept

LEMMA SetModeSet_Safe ==
  ASSUME Safe, SetModeSet
  PROVE  SInv' /\ OutKept /\ PlayKept
<1>1. /\ par.pc = "mode_set" /\ par'.pc = "idle"
      /\ kid' = kid /\ grand' = grand
      /\ shm' = par.s /\ state' = state /\ suppressed' = suppressed
      /\ eof' = eof /\ chld' = chld
  BY DEF Safe, IInv, TypeOK, ParRecs, SetModeSet, At, Return, Idle, flags,
     events
<1>2. ParInv'
  BY <1>1
     DEF Safe, SInv, ParInv, ChildInv, Forcing, Childless, Active
<1>3. ChildInv'
  BY <1>1
     DEF Safe, SInv, ParInv, ChildInv, Active, Stopping, Forcing, Forking,
     Copying, Childless, At
<1>4. WaitedInv'
  BY <1>1
     DEF Safe, SInv, WaitedInv, Live
<1>5. SettingInv'
  BY <1>1
     DEF Safe, SInv, ParInv, ChildInv, WaitedInv, SettingInv, Active, Setting,
     Live, Stopping, Forcing, Childless, At
<1>6. SuppressedInv'
  BY <1>1
     DEF Safe, SInv, ParInv, ChildInv, SuppressedInv, Active, Stopping,
     Forcing, Childless, Copying, Named, At
<1>7. ASSUME OutInv, NotOvertaken, NotOvertaken'
      PROVE  OutInv'
  <2>1. OnlyGrand'
    BY <1>1, <1>7
       DEF OutInv, OnlyGrand, Live
  <2>2. OrphanInv'
    BY <1>1, <1>7
       DEF OutInv, OrphanInv, Live, Active, Stopping, At
  <2>3. NamedInv'
    BY <1>1, <1>7
       DEF OutInv, NamedInv, Forking, Copying, NotOvertaken, Late
  <2>4. PairInv'
    BY <1>1, <1>7
       DEF OutInv, PairInv, Forking, Copying, Late
  <2> QED
    BY <2>1, <2>2, <2>3, <2>4 DEF OutInv
<1>8. ASSUME ~Online, OutInv, PlayInv
      PROVE  PlayInv'
  <2>1. CopyInv'
    BY <1>1, <1>8
       DEF PlayInv, CopyInv
  <2>2. FetchInv'
    BY <1>1, <1>8
       DEF PlayInv, FetchInv
  <2>3. EndedInv'
    BY <1>1, <1>8
       DEF PlayInv, EndedInv, ChildGone, ChildZombie, ChildSent, Skipping,
       Active, CopyInv
  <2> QED
    BY <2>1, <2>2, <2>3 DEF PlayInv
<1> QED
  BY <1>2, <1>3, <1>4, <1>5, <1>6, <1>7, <1>8 DEF SInv, OutKept, PlayKept

LEMMA CmdSuspend_Safe ==
  ASSUME Safe, NEW command \in {"pause", "tts"}, CmdSuspend(command)
  PROVE  SInv' /\ OutKept /\ PlayKept
<1>1. /\ par.pc = "idle" /\ par'.pc = command /\ state # "STOP"
      /\ kid' = kid /\ grand' = grand
      /\ shm' = shm /\ state' = state /\ suppressed' = suppressed
      /\ eof' = eof /\ chld' = chld
  BY DEF Safe, IInv, TypeOK, ParRecs, CmdSuspend, At, Given, GoTo, flags,
     events
<1>2. ParInv'
  BY <1>1
     DEF Safe, SInv, ParInv, ChildInv, Forcing, Childless, Active
<1>3. ChildInv'
  BY <1>1
     DEF Safe, SInv, ParInv, ChildInv, Active, Stopping, Forcing, Forking,
     Copying, Childless, At
<1>4. WaitedInv'
  BY <1>1
     DEF Safe, SInv, WaitedInv, Live
<1>5. SettingInv'
  BY <1>1
     DEF Safe, SInv, ParInv, ChildInv, WaitedInv, SettingInv, Active, Setting,
     Live, Stopping, Forcing, Childless, At
<1>6. SuppressedInv'
  BY <1>1
     DEF Safe, SInv, ParInv, ChildInv, SuppressedInv, Active, Stopping,
     Forcing, Childless, Copying, Named, At
<1>7. ASSUME OutInv, NotOvertaken, NotOvertaken'
      PROVE  OutInv'
  <2>1. OnlyGrand'
    BY <1>1, <1>7
       DEF OutInv, OnlyGrand, Live
  <2>2. OrphanInv'
    BY <1>1, <1>7
       DEF OutInv, OrphanInv, Live, Active, Stopping, At
  <2>3. NamedInv'
    BY <1>1, <1>7
       DEF OutInv, NamedInv, Forking, Copying, NotOvertaken, Late
  <2>4. PairInv'
    BY <1>1, <1>7
       DEF OutInv, PairInv, Forking, Copying, Late
  <2> QED
    BY <2>1, <2>2, <2>3, <2>4 DEF OutInv
<1>8. ASSUME ~Online, OutInv, PlayInv
      PROVE  PlayInv'
  <2>1. CopyInv'
    BY <1>1, <1>8
       DEF PlayInv, CopyInv
  <2>2. FetchInv'
    BY <1>1, <1>8
       DEF PlayInv, FetchInv
  <2>3. EndedInv'
    BY <1>1, <1>8
       DEF PlayInv, EndedInv, ChildGone, ChildZombie, ChildSent, Skipping,
       Active
  <2> QED
    BY <2>1, <2>2, <2>3 DEF PlayInv
<1> QED
  BY <1>2, <1>3, <1>4, <1>5, <1>6, <1>7, <1>8 DEF SInv, OutKept, PlayKept

LEMMA Suspend_Safe ==
  ASSUME Safe, NEW command \in {"pause", "tts"}, NEW newFocus, ~Dies,
         Suspend(command, newFocus)
  PROVE  SInv' /\ OutKept /\ PlayKept
<1>1. /\ par.pc = command /\ par'.pc = "idle" /\ kid' = kid
      /\ shm' = shm /\ state' = "PLAY" /\ suppressed' = suppressed
      /\ eof' = eof /\ chld' = chld
      /\ \A g \in Grands : grand'[g].pc = grand[g].pc
      /\ \A g \in Grands : grand'[g].kid = grand[g].kid
  <2>1. /\ \A g \in Grands : grand'[g].pc = grand[g].pc
        /\ \A g \in Grands : grand'[g].kid = grand[g].kid
    <3>1. grand' = grand \/ grand' = [grand EXCEPT ![shm.grand].stopped = TRUE]
      BY DEF Suspend
    <3> QED
      BY <3>1, PausedKeeps DEF Safe, IInv
  <2>2. /\ par.pc = command /\ kid' = kid /\ shm' = shm
        /\ state' = "PLAY" /\ par' = Idle
    BY DEF Suspend, At, Return
  <2>3. suppressed' = suppressed /\ eof' = eof /\ chld' = chld
    BY DEF Suspend, events
  <2> QED
    BY <2>1, <2>2, <2>3, ParSteps
<1>2. ParInv'
  BY <1>1
     DEF Safe, SInv, ParInv, ChildInv, Forcing, Childless, Active
<1>3. ChildInv'
  BY <1>1
     DEF Safe, SInv, ParInv, ChildInv, Active, Stopping, Forcing, Forking,
     Copying, Childless, At
<1>4. WaitedInv'
  BY <1>1
     DEF Safe, SInv, WaitedInv, Live
<1>5. SettingInv'
  BY <1>1
     DEF Safe, SInv, ParInv, ChildInv, WaitedInv, SettingInv, Active, Setting,
     Live, Stopping, Forcing, Childless, At
<1>6. SuppressedInv'
  BY <1>1
     DEF Safe, SInv, ParInv, ChildInv, SuppressedInv, Active, Stopping,
     Forcing, Childless, Copying, Named, At
<1>7. ASSUME OutInv, NotOvertaken, NotOvertaken'
      PROVE  OutInv'
  <2>1. OnlyGrand'
    BY <1>1, <1>7
       DEF OutInv, OnlyGrand, Live
  <2>2. OrphanInv'
    BY <1>1, <1>7
       DEF OutInv, OrphanInv, Live, Active, Stopping, At
  <2>3. NamedInv'
    BY <1>1, <1>7
       DEF OutInv, NamedInv, Forking, Copying, NotOvertaken, Late
  <2>4. PairInv'
    BY <1>1, <1>7
       DEF OutInv, PairInv, Forking, Copying, Late
  <2> QED
    BY <2>1, <2>2, <2>3, <2>4 DEF OutInv
<1>8. ASSUME ~Online, OutInv, Undisturbed, PlayInv
      PROVE  PlayInv'
  <2>1. CopyInv'
    BY <1>1, <1>8
       DEF PlayInv, CopyInv
  <2>2. FetchInv'
    BY <1>1, <1>8
       DEF PlayInv, FetchInv
  <2>3. EndedInv'
    BY <1>1, <1>8
       DEF PlayInv, EndedInv, ChildGone, ChildZombie, ChildSent, Skipping,
       Active, Undisturbed
  <2> QED
    BY <2>1, <2>2, <2>3 DEF PlayInv
<1> QED
  BY <1>2, <1>3, <1>4, <1>5, <1>6, <1>7, <1>8 DEF SInv, OutKept, PlayKept

LEMMA ContinuePlay_Safe ==
  ASSUME Safe, ContinuePlay
  PROVE  SInv' /\ OutKept /\ PlayKept
<1>1. /\ par.pc = "continue" /\ par'.pc \in {"start", "resume"}
      /\ par'.pc = "resume" => state # "STOP"
      /\ kid' = kid /\ grand' = grand
      /\ shm' = shm /\ state' = state /\ suppressed' = suppressed
      /\ eof' = eof /\ chld' = chld
  BY DEF Safe, IInv, TypeOK, ParRecs, ContinuePlay, At, GoTo, flags, events
<1>2. ParInv'
  BY <1>1
     DEF Safe, SInv, ParInv, ChildInv, Forcing, Childless, Active
<1>3. ChildInv'
  BY <1>1
     DEF Safe, SInv, ParInv, ChildInv, Active, Stopping, Forcing, Forking,
     Copying, Childless, At
<1>4. WaitedInv'
  BY <1>1
     DEF Safe, SInv, WaitedInv, Live
<1>5. SettingInv'
  BY <1>1
     DEF Safe, SInv, ParInv, ChildInv, WaitedInv, SettingInv, Active, Setting,
     Live, Stopping, Forcing, Childless, At
<1>6. SuppressedInv'
  BY <1>1
     DEF Safe, SInv, ParInv, ChildInv, SuppressedInv, Active, Stopping,
     Forcing, Childless, Copying, Named, At
<1>7. ASSUME OutInv, NotOvertaken, NotOvertaken'
      PROVE  OutInv'
  <2>1. OnlyGrand'
    BY <1>1, <1>7
       DEF OutInv, OnlyGrand, Live
  <2>2. OrphanInv'
    BY <1>1, <1>7
       DEF OutInv, OrphanInv, Live, Active, Stopping, At
  <2>3. NamedInv'
    BY <1>1, <1>7
       DEF OutInv, NamedInv, Forking, Copying, NotOvertaken, Late
  <2>4. PairInv'
    BY <1>1, <1>7
       DEF OutInv, PairInv, Forking, Copying, Late
  <2> QED
    BY <2>1, <2>2, <2>3, <2>4 DEF OutInv
<1>8. ASSUME ~Online, OutInv, PlayInv
      PROVE  PlayInv'
  <2>1. CopyInv'
    BY <1>1, <1>8
       DEF PlayInv, CopyInv
  <2>2. FetchInv'
    BY <1>1, <1>8
       DEF PlayInv, FetchInv
  <2>3. EndedInv'
    BY <1>1, <1>8
       DEF PlayInv, EndedInv, ChildGone, ChildZombie, ChildSent, Skipping,
       Active
  <2> QED
    BY <2>1, <2>2, <2>3 DEF PlayInv
<1> QED
  BY <1>2, <1>3, <1>4, <1>5, <1>6, <1>7, <1>8 DEF SInv, OutKept, PlayKept

LEMMA Resume_Safe ==
  ASSUME Safe, ~Dies, Resume
  PROVE  SInv' /\ OutKept /\ PlayKept
<1>1. /\ par.pc = "resume" /\ par'.pc \in {"idle", "start"}
      /\ shm' = shm /\ state' \in {state, "PLAY"} /\ suppressed' = suppressed
      /\ eof' = eof /\ chld' = chld /\ kid' = kid
      /\ \A g \in Grands : grand'[g].pc = grand[g].pc
      /\ \A g \in Grands : grand'[g].kid = grand[g].kid
      /\ par'.pc = "idle" => Alive(shm.grand) \/ Alive(shm.child)
  <2>1. /\ \A g \in Grands : grand'[g].pc = grand[g].pc
        /\ \A g \in Grands : grand'[g].kid = grand[g].kid
    BY ResumedKeeps DEF Safe, IInv, Resume
  <2>2. par.pc = "resume" /\ kid' = kid /\ shm' = shm
    BY DEF Resume, At
  <2>3. suppressed' = suppressed /\ eof' = eof /\ chld' = chld
    BY DEF Resume, events
  <2>4. state' \in {state, "PLAY"}
    BY DEF Resume, flags
  <2>5. \/ GoTo("idle") /\ (Alive(shm.grand) \/ Alive(shm.child))
        \/ GoTo("start")
    BY DEF Resume
  <2>6. \/ par'.pc = "idle" /\ (Alive(shm.grand) \/ Alive(shm.child))
        \/ par'.pc = "start"
    BY <2>5, ParSteps DEF GoTo
  <2> QED
    BY <2>2, <2>1, <2>3, <2>4, <2>6
<1>2. ParInv'
  BY <1>1
     DEF Safe, SInv, ParInv, ChildInv, Forcing, Childless, Active
<1>3. ChildInv'
  BY <1>1
     DEF Safe, SInv, ParInv, ChildInv, Active, Stopping, Forcing, Forking,
     Copying, Childless, At
<1>4. WaitedInv'
  BY <1>1
     DEF Safe, SInv, WaitedInv, Live
<1>5. SettingInv'
  BY <1>1
     DEF Safe, SInv, ParInv, ChildInv, WaitedInv, SettingInv, Active, Setting,
     Live, Stopping, Forcing, Childless, At
<1>6. SuppressedInv'
  BY <1>1
     DEF Safe, SInv, ParInv, ChildInv, SuppressedInv, Active, Stopping,
     Forcing, Childless, Copying, Named, At
<1>7. ASSUME OutInv, NotOvertaken, NotOvertaken'
      PROVE  OutInv'
  <2>1. OnlyGrand'
    BY <1>1, <1>7
       DEF OutInv, OnlyGrand, Live
  <2>2. OrphanInv'
    BY <1>1, <1>7
       DEF OutInv, OrphanInv, Live, Active, Stopping, At
  <2>3. NamedInv'
    BY <1>1, <1>7
       DEF OutInv, NamedInv, Forking, Copying, NotOvertaken, Late
  <2>4. PairInv'
    BY <1>1, <1>7
       DEF OutInv, PairInv, Forking, Copying, Late
  <2> QED
    BY <2>1, <2>2, <2>3, <2>4 DEF OutInv
<1>8. ASSUME ~Online, OutInv, Undisturbed, PlayInv
      PROVE  PlayInv'
  <2>1. CopyInv'
    BY <1>1, <1>8
       DEF PlayInv, CopyInv
  <2>2. FetchInv'
    BY <1>1, <1>8
       DEF PlayInv, FetchInv
  <2>3. EndedInv'
    <3>1. (\A c \in Kids : ~Active(c)) => ~Alive(shm.grand)
      <4>1. (\A c \in Kids : ~Active(c)) => \A g \in Grands : ~Live(g)
        BY <1>1, <1>8, NoneLeft DEF Stopping
      <4>2. shm.grand \notin Kids
        BY PlaybackAssumption DEF Safe, IInv, TypeOK, Shm, GrandPids
      <4> QED
        BY <4>1, <4>2 DEF Alive, Live
    <3> QED
      BY <1>1, <1>8, <3>1, AliveKid
         DEF PlayInv, EndedInv, ChildGone, ChildZombie, ChildSent, Skipping,
         Active, Undisturbed, Safe, IInv
  <2> QED
    BY <2>1, <2>2, <2>3 DEF PlayInv
<1> QED
  BY <1>2, <1>3, <1>4, <1>5, <1>6, <1>7, <1>8 DEF SInv, OutKept, PlayKept

LEMMA WaitChild_Safe ==
  ASSUME Safe, WaitChild
  PROVE  SInv' /\ OutKept /\ PlayKept
<1>1. /\ par.pc = "wait_child" /\ par'.cmd = par.cmd /\ par'.s = par.s
      /\ par'.pc = IF par.cmd = "stop" THEN "stop_last" ELSE "force_grand"
      /\ shm' = shm /\ state' = state /\ suppressed' = suppressed
      /\ \A c \in Kids : IF c = par.s.child THEN kid'[c].pc = "free" ELSE kid'[c] = kid[c]
      /\ \A g \in Grands :
           IF /\ par.s.child \in Kids /\ kid[par.s.child].pc \notin {"free", "zombie"}
              /\ grand[g].kid = par.s.child
           THEN LeftBy(g) ELSE grand'[g] = grand[g]
  <2>1. par.pc = "wait_child" /\ shm' = shm /\ state' = state /\ suppressed' = suppressed
    BY DEF WaitChild, At, flags
  <2>2. par' = [par EXCEPT !.pc = IF par.cmd = "stop" THEN "stop_last" ELSE "force_grand"]
    BY DEF WaitChild, GoTo
  <2>3. \A c \in Kids : IF c = par.s.child THEN kid'[c].pc = "free" ELSE kid'[c] = kid[c]
    BY DEF Safe, IInv, TypeOK, WaitChild, Alive, NoKid
  <2>4. \A g \in Grands :
          IF /\ par.s.child \in Kids /\ kid[par.s.child].pc \notin {"free", "zombie"}
             /\ grand[g].kid = par.s.child
          THEN LeftBy(g) ELSE grand'[g] = grand[g]
    <3>1. par.s.child \in KidPids
      BY DEF Safe, IInv, TypeOK, ParRecs, Shm
    <3>2. par.s.child \notin Grands
      BY <3>1, PlaybackAssumption DEF KidPids
    <3>3. par.s.child \in Kids /\ kid[par.s.child].pc \notin {"free", "zombie"}
          <=> Alive(par.s.child) /\ kid[par.s.child].pc # "zombie"
      BY <3>2 DEF Alive
    <3>4. grand' = IF Alive(par.s.child) /\ kid[par.s.child].pc # "zombie"
                   THEN Orphaned(par.s.child) ELSE grand
      BY DEF WaitChild
    <3>5. \A g \in Grands : Orphaned(par.s.child)[g] =
            IF grand[g].kid # par.s.child THEN grand[g]
            ELSE IF grand[g].pc = "zombie" THEN NoGrand
            ELSE [grand[g] EXCEPT !.kid = Nobody]
      BY DEF Orphaned
    <3>6. NoGrand.pc = "free" /\ NoGrand.kid = Nobody
      BY DEF NoGrand
    <3>7. ASSUME NEW g \in Grands, grand[g].kid = par.s.child, grand'[g] = Orphaned(par.s.child)[g]
          PROVE  LeftBy(g)
      <4>1. CASE grand[g].pc = "zombie"
        BY <3>5, <3>6, <3>7, <4>1 DEF LeftBy
      <4>2. CASE grand[g].pc # "zombie"
        <5>1. grand'[g] = [grand[g] EXCEPT !.kid = Nobody]
          BY <3>5, <3>7, <4>2
        <5>2. grand'[g].pc = grand[g].pc /\ grand'[g].kid = Nobody
          BY <5>1 DEF Safe, IInv, TypeOK, GrandRecs
        <5> QED
          BY <4>2, <5>2 DEF LeftBy
      <4> QED
        BY <4>1, <4>2
    <3> QED
      BY <3>3, <3>4, <3>5, <3>7
  <2> QED
    BY <2>1, <2>2, <2>3, <2>4, ParSteps
<1>2. ParInv'
  BY <1>1
     DEF Safe, SInv, ParInv, ChildInv, Forcing, Childless, Active
<1>3. ChildInv'
  BY <1>1
     DEF Safe, SInv, ParInv, ChildInv, Active, Stopping, Forcing, Forking,
     Copying, Childless, At
<1>4. WaitedInv'
  BY <1>1
     DEF Safe, SInv, WaitedInv, Live, LeftBy
<1>5. SettingInv'
  BY <1>1
     DEF Safe, SInv, ParInv, ChildInv, WaitedInv, SettingInv, Active, Setting,
     Live, Stopping, Forcing, Childless, At, LeftBy
<1>6. SuppressedInv'
  BY <1>1
     DEF Safe, SInv, ParInv, ChildInv, SuppressedInv, Active, Stopping,
     Forcing, Childless, Copying, Named, At
<1>7. ASSUME OutInv, NotOvertaken, NotOvertaken'
      PROVE  OutInv'
  <2>1. OnlyGrand'
    BY <1>1, <1>7
       DEF OutInv, OnlyGrand, Live, LeftBy
  <2>2. OrphanInv'
    <3>1. par.cmd = "stop" \/ \A c \in Kids : ~Active(c)
      BY <1>1 DEF Safe, SInv, ParInv, ChildInv, Childless, Forcing
    <3>2. par.cmd = "stop" => \A c \in Kids : ~Active(c)'
      BY <1>1 DEF Safe, SInv, ChildInv, Stopping, Active
    <3>3. \A c \in Kids : Active(c)' => Active(c)
      BY <1>1 DEF Active
    <3>4. par.s.child \in Kids /\ kid[par.s.child].pc \notin {"free", "zombie"} =>
            par.cmd = "stop" \/ \A g \in Grands : Live(g) => grand[g].kid # par.s.child
      <4>1. \A g \in Grands : Live(g) /\ grand[g].kid = par.s.child
              /\ par.s.child \in Kids => Active(par.s.child)
        BY PlaybackAssumption DEF Safe, SInv, WaitedInv, Active
      <4> QED
        BY <3>1, <4>1
    <3> QED
      BY <1>1, <1>7, <3>1, <3>2, <3>3, <3>4
         DEF OutInv, OrphanInv, Live, LeftBy, Stopping, At
  <2>3. NamedInv'
    BY <1>1, <1>7
       DEF OutInv, NamedInv, Forking, Copying, NotOvertaken, Late, LeftBy
  <2>4. PairInv'
    BY <1>1, <1>7
       DEF OutInv, PairInv, Forking, Copying, Late, LeftBy
  <2> QED
    BY <2>1, <2>2, <2>3, <2>4 DEF OutInv
<1>8. ASSUME ~Online, OutInv, PlayInv
      PROVE  PlayInv'
  <2>1. CopyInv'
    BY <1>1, <1>8
       DEF PlayInv, CopyInv
  <2>2. FetchInv'
    BY <1>1, <1>8
       DEF PlayInv, FetchInv
  <2>3. EndedInv'
    BY <1>1, <1>8
       DEF PlayInv, EndedInv, ChildGone, ChildZombie, ChildSent, Skipping,
       Active
  <2> QED
    BY <2>1, <2>2, <2>3 DEF PlayInv
<1> QED
  BY <1>2, <1>3, <1>4, <1>5, <1>6, <1>7, <1>8 DEF SInv, OutKept, PlayKept

LEMMA ForkChild_Safe ==
  ASSUME Safe, ForkChild
  PROVE  SInv' /\ OutKept /\ PlayKept
<1>1. \E c \in Kids :
        /\ par.pc = "fork" /\ par'.pc = "pid_get" /\ par'.s.child = c
        /\ kid[c].pc = "free" /\ kid'[c].pc = "top" /\ ~kid'[c].stop
        /\ \A d \in Kids : d # c => kid'[d] = kid[d]
        /\ grand' = grand /\ shm' = shm /\ state' = state /\ suppressed' = suppressed
  <2>1. PICK c \in Kids :
          /\ Fresh(c)
          /\ kid' = [kid EXCEPT ![c] = [NoKid EXCEPT !.pc = "top",
                       !.song = par.track, !.url = par.track, !.page = page]]
          /\ par' = [Idle EXCEPT !.pc = "pid_get", !.s = [NoCopy EXCEPT !.child = c]]
    BY DEF ForkChild
  <2>2. kid[c].pc = "free"
    BY <2>1 DEF Fresh, Alive
  <2>3. kid'[c].pc = "top" /\ ~kid'[c].stop /\ \A d \in Kids : d # c => kid'[d] = kid[d]
    BY <2>1 DEF Safe, IInv, TypeOK, NoKid
  <2>4. par'.pc = "pid_get" /\ par'.s.child = c
    BY <2>1 DEF Idle, NoCopy
  <2>5. par.pc = "fork" /\ grand' = grand /\ shm' = shm /\ state' = state /\ suppressed' = suppressed
    BY DEF ForkChild, At, flags, events
  <2> QED
    BY <2>2, <2>3, <2>4, <2>5
<1>2. ParInv'
  BY <1>1
     DEF Safe, SInv, ParInv, ChildInv, Forcing, Childless, Active
<1>3. ChildInv'
  BY <1>1
     DEF Safe, SInv, ParInv, ChildInv, Active, Stopping, Forcing, Forking,
     Copying, Childless, At
<1>4. WaitedInv'
  BY <1>1
     DEF Safe, SInv, WaitedInv, Live
<1>5. SettingInv'
  BY <1>1
     DEF Safe, SInv, ParInv, ChildInv, WaitedInv, SettingInv, Active, Setting,
     Live, Stopping, Forcing, Childless, At
<1>6. SuppressedInv'
  BY <1>1
     DEF Safe, SInv, ParInv, ChildInv, SuppressedInv, Active, Stopping,
     Forcing, Childless, Copying, Named, At
<1>7. ASSUME OutInv, NotOvertaken, NotOvertaken'
      PROVE  OutInv'
  <2>0. \A g \in Grands : ~Live(g)
    BY <1>1, <1>7, NoneLeft
       DEF Safe, SInv, ChildInv, Active, Childless, Forcing, Stopping, At
  <2>1. OnlyGrand'
    BY <1>1, <1>7, <2>0
       DEF OutInv, OnlyGrand, Live, Live
  <2>2. OrphanInv'
    BY <1>1, <1>7, <2>0
       DEF OutInv, OrphanInv, Live, Active, Stopping, At
  <2>3. NamedInv'
    BY <1>1, <1>7, <2>0
       DEF OutInv, NamedInv, Forking, Copying, NotOvertaken, Late, Live
  <2>4. PairInv'
    BY <1>1, <1>7, <2>0
       DEF OutInv, PairInv, Forking, Copying, Late, Live
  <2> QED
    BY <2>1, <2>2, <2>3, <2>4 DEF OutInv
<1>8. ASSUME ~Online, OutInv, PlayInv
      PROVE  PlayInv'
  <2>1. CopyInv'
    BY <1>1, <1>8
       DEF PlayInv, CopyInv
  <2>2. FetchInv'
    BY <1>1, <1>8
       DEF PlayInv, FetchInv
  <2>3. EndedInv'
    BY <1>1, <1>8
       DEF PlayInv, EndedInv, ChildGone, ChildZombie, ChildSent, Skipping,
       Active
  <2> QED
    BY <2>1, <2>2, <2>3 DEF PlayInv
<1> QED
  BY <1>2, <1>3, <1>4, <1>5, <1>6, <1>7, <1>8 DEF SInv, OutKept, PlayKept

-----------------------------------------------------------------------------
(* The playback child.                                                       *)

LEMMA KidExit_Safe ==
  ASSUME Safe, NEW c \in Kids, kid[c].stop \/ kid[c].pc \in {"fetch", "eof_sent"},
         kid[c].pc \notin {"free", "zombie"}, KidExit(c)
  PROVE  SInv' /\ OutKept /\ PlayKept
<1>1. /\ kid'[c].pc \in {"free", "zombie"}
      /\ \A d \in Kids : d # c => kid'[d] = kid[d]
      /\ \A g \in Grands : IF grand[g].kid = c THEN LeftBy(g) ELSE grand'[g] = grand[g]
      /\ par' = par
      /\ shm' = shm /\ state' = state /\ suppressed' = suppressed
      /\ eof' = eof /\ (~At("dead") => chld' = TRUE) /\ (At("dead") => kid'[c].pc = "free")
      /\ ~At("dead") => kid'[c].pc = "zombie"
  BY DEF Safe, IInv, TypeOK, KidRecs, KidExit, At, NoKid, NoGrand, GrandRecs,
     Orphaned, LeftBy, flags, events
<1>2. ParInv'
  BY <1>1
     DEF Safe, SInv, ParInv, ChildInv, Forcing, Childless, Active
<1>3. ChildInv'
  BY <1>1
     DEF Safe, SInv, ParInv, ChildInv, Active, Stopping, Forcing, Forking,
     Copying, Childless, At
<1>4. WaitedInv'
  BY <1>1
     DEF Safe, SInv, WaitedInv, Live, LeftBy
<1>5. SettingInv'
  BY <1>1
     DEF Safe, SInv, ParInv, ChildInv, WaitedInv, SettingInv, Active, Setting,
     Live, Stopping, Forcing, Childless, At, LeftBy
<1>6. SuppressedInv'
  BY <1>1
     DEF Safe, SInv, ParInv, ChildInv, SuppressedInv, Active, Stopping,
     Forcing, Childless, Copying, Named, At
<1>7. ASSUME OutInv, NotOvertaken, NotOvertaken'
      PROVE  OutInv'
  <2>1. OnlyGrand'
    BY <1>1, <1>7
       DEF OutInv, OnlyGrand, Live, LeftBy
  <2>2. OrphanInv'
    <3>1. \A d \in Kids : ~Active(d)' \/ (Active(d) /\ d # c)
      BY <1>1 DEF Active
    <3>2. ASSUME NEW g \in Grands, Live(g), grand[g].kid = c
          PROVE  (Stopping \/ At("dead")) /\ \A d \in Kids : ~Active(d)'
      BY <3>1, <3>2, PlaybackAssumption, OneActive
         DEF Safe, SInv, ChildInv, WaitedInv, Active
    <3> QED
      BY <1>1, <1>7, <3>1, <3>2
         DEF OutInv, OrphanInv, Live, LeftBy, Stopping, At
  <2>3. NamedInv'
    BY <1>1, <1>7
       DEF OutInv, NamedInv, Forking, Copying, NotOvertaken, Late, LeftBy
  <2>4. PairInv'
    BY <1>1, <1>7
       DEF OutInv, PairInv, Forking, Copying, Late, LeftBy
  <2> QED
    BY <2>1, <2>2, <2>3, <2>4 DEF OutInv
<1>8. ASSUME ~Online, OutInv, PlayInv
      PROVE  PlayInv'
  <2>1. CopyInv'
    BY <1>1, <1>8
       DEF PlayInv, CopyInv
  <2>2. FetchInv'
    BY <1>1, <1>8
       DEF PlayInv, FetchInv
  <2>3. EndedInv'
    <3>1. CASE Active(c)
      <4>1. Stopping \/ At("dead")
        BY <1>8, <3>1 DEF Safe, SInv, ChildInv, PlayInv, FetchInv, Active
      <4> QED
        BY <1>1, <4>1 DEF EndedInv, Stopping, Skipping, At
    <3>2. CASE ~Active(c)
      <4>1. (\A d \in Kids : ~Active(d)') => \A d \in Kids : ~Active(d)
        BY <1>1, <3>2 DEF Active
      <4>2. kid[c].pc = "eof_sent"
        BY <3>2 DEF Active
      <4>3. ChildGone => ChildGone'
        BY <1>1, <4>2 DEF ChildGone
      <4>4. ChildZombie /\ ~At("dead") => ChildZombie'
        BY <1>1, <4>2 DEF ChildZombie
      <4>5. ChildSent /\ ~At("dead") => ChildSent' \/ ChildZombie'
        BY <1>1, <4>2 DEF ChildSent, ChildZombie
      <4>6. CASE At("dead")
        BY <1>1, <4>6 DEF At, EndedInv, Skipping
      <4>7. CASE ~At("dead")
        BY <1>1, <1>8, <4>1, <4>3, <4>4, <4>5, <4>7
           DEF PlayInv, EndedInv, Skipping
      <4> QED
        BY <4>6, <4>7
    <3> QED
      BY <3>1, <3>2
  <2> QED
    BY <2>1, <2>2, <2>3 DEF PlayInv
<1> QED
  BY <1>2, <1>3, <1>4, <1>5, <1>6, <1>7, <1>8 DEF SInv, OutKept, PlayKept

LEMMA KidFork_Safe ==
  ASSUME Safe, NEW c \in Kids, KidFork(c)
  PROVE  SInv' /\ OutKept /\ PlayKept
<1>1. /\ kid[c].pc = "top" /\ kid'[c].pc = "wait"
      /\ kid'[c].stop = kid[c].stop
      /\ \A d \in Kids : d # c => kid'[d] = kid[d]
      /\ ~kid[c].stop
      /\ par' = par
      /\ shm' = shm /\ state' = state /\ suppressed' = suppressed
      /\ eof' = eof /\ chld' = chld
      /\ \E g \in Grands :
           /\ grand'[g].pc = "born" /\ grand'[g].kid = c
           /\ \A h \in Grands : h # g => grand'[h] = grand[h]
  <2>1. PICK g \in Grands :
          grand' = [grand EXCEPT ![g] = [NoGrand EXCEPT !.pc = "born",
                     !.kid = c, !.page = kid[c].page,
                     !.song = kid[c].song, !.url = kid[c].url]]
    BY DEF KidFork
  <2>2. /\ grand'[g].pc = "born" /\ grand'[g].kid = c
        /\ \A h \in Grands : h # g => grand'[h] = grand[h]
    BY <2>1 DEF Safe, IInv, TypeOK, NoGrand
  <2>3. /\ kid[c].pc = "top" /\ ~kid[c].stop /\ kid'[c].pc = "wait"
        /\ kid'[c].stop = kid[c].stop /\ \A d \in Kids : d # c => kid'[d] = kid[d]
    BY DEF Safe, IInv, TypeOK, KidRecs, KidFork, KidAt, KidGoTo
  <2>4. /\ par' = par /\ shm' = shm /\ state' = state
        /\ suppressed' = suppressed /\ eof' = eof /\ chld' = chld
    BY DEF KidFork, flags, events
  <2> QED
    BY <2>2, <2>3, <2>4
<1>2. ParInv'
  BY <1>1
     DEF Safe, SInv, ParInv, ChildInv, Forcing, Childless, Active
<1>3. ChildInv'
  BY <1>1
     DEF Safe, SInv, ParInv, ChildInv, Active, Stopping, Forcing, Forking,
     Copying, Childless, At
<1>4. WaitedInv'
  BY <1>1
     DEF Safe, SInv, WaitedInv, Live
<1>5. SettingInv'
  <2>1. Active(c) /\ par.pc # "wait_child"
    BY <1>1 DEF Safe, SInv, ParInv, ChildInv, Active, Stopping, Forcing, Childless
  <2>2. \A h \in Grands : Setting(h) => grand[h].kid # Nobody
    BY <2>1 DEF Safe, SInv, SettingInv
  <2>3. c # Nobody
    BY PlaybackAssumption
  <2> QED
    BY <1>1, <2>1, <2>2, <2>3 DEF SettingInv, Setting
<1>6. SuppressedInv'
  BY <1>1
     DEF Safe, SInv, ParInv, ChildInv, SuppressedInv, Active, Stopping,
     Forcing, Childless, Copying, Named, At
<1>7. ASSUME OutInv, NotOvertaken, NotOvertaken'
      PROVE  OutInv'
  <2>0. \A g \in Grands : ~Live(g)
    BY <1>1, <1>7, NoneYet DEF Active
  <2>1. OnlyGrand'
    BY <1>1, <1>7, <2>0
       DEF OutInv, OnlyGrand, Live, Live
  <2>2. OrphanInv'
    <3>1. c # Nobody
      BY PlaybackAssumption
    <3> QED
      BY <1>1, <2>0, <3>1 DEF OrphanInv, Live
  <2>3. NamedInv'
    BY <1>1, <1>7, <2>0
       DEF OutInv, NamedInv, Forking, Copying, NotOvertaken, Late, Live
  <2>4. PairInv'
    BY <1>1, <1>7, <2>0
       DEF OutInv, PairInv, Forking, Copying, Late, Live
  <2> QED
    BY <2>1, <2>2, <2>3, <2>4 DEF OutInv
<1>8. ASSUME ~Online, OutInv, PlayInv
      PROVE  PlayInv'
  <2>1. CopyInv'
    BY <1>1, <1>8
       DEF PlayInv, CopyInv
  <2>2. FetchInv'
    BY <1>1, <1>8
       DEF PlayInv, FetchInv
  <2>3. EndedInv'
    BY <1>1, <1>8
       DEF PlayInv, EndedInv, ChildGone, ChildZombie, ChildSent, Skipping,
       Active
  <2> QED
    BY <2>1, <2>2, <2>3 DEF PlayInv
<1> QED
  BY <1>2, <1>3, <1>4, <1>5, <1>6, <1>7, <1>8 DEF SInv, OutKept, PlayKept

LEMMA KidReap_Safe ==
  ASSUME Safe, NEW c \in Kids, KidReap(c)
  PROVE  SInv' /\ OutKept /\ PlayKept
<1>1. /\ kid[c].pc = "wait" /\ kid'[c].pc = "after"
      /\ kid'[c].stop = kid[c].stop
      /\ \A d \in Kids : d # c => kid'[d] = kid[d]
      /\ par' = par
      /\ shm' = shm /\ state' = state /\ suppressed' = suppressed
      /\ eof' = eof /\ chld' = chld
      /\ \E g \in Grands :
           /\ grand[g].kid = c /\ grand[g].pc = "zombie" /\ grand'[g].pc = "free"
           /\ \A h \in Grands : h # g => grand'[h] = grand[h]
  <2>1. PICK g \in Grands :
          /\ grand[g].kid = c /\ grand[g].pc = "zombie"
          /\ grand' = [grand EXCEPT ![g] = NoGrand]
    BY DEF KidReap
  <2>2. grand'[g].pc = "free" /\ \A h \in Grands : h # g => grand'[h] = grand[h]
    BY <2>1 DEF Safe, IInv, TypeOK, NoGrand
  <2>3. /\ kid[c].pc = "wait" /\ kid'[c].pc = "after"
        /\ kid'[c].stop = kid[c].stop /\ \A d \in Kids : d # c => kid'[d] = kid[d]
    BY DEF Safe, IInv, TypeOK, KidRecs, KidReap, KidAt, KidGoTo
  <2>4. /\ par' = par /\ shm' = shm /\ state' = state
        /\ suppressed' = suppressed /\ eof' = eof /\ chld' = chld
    BY DEF KidReap, flags, events
  <2> QED
    BY <2>1, <2>2, <2>3, <2>4
<1>2. ParInv'
  BY <1>1
     DEF Safe, SInv, ParInv, ChildInv, Forcing, Childless, Active
<1>3. ChildInv'
  BY <1>1
     DEF Safe, SInv, ParInv, ChildInv, Active, Stopping, Forcing, Forking,
     Copying, Childless, At
<1>4. WaitedInv'
  BY <1>1
     DEF Safe, SInv, WaitedInv, Live
<1>5. SettingInv'
  BY <1>1
     DEF Safe, SInv, ParInv, ChildInv, WaitedInv, SettingInv, Active, Setting,
     Live, Stopping, Forcing, Childless, At
<1>6. SuppressedInv'
  BY <1>1
     DEF Safe, SInv, ParInv, ChildInv, SuppressedInv, Active, Stopping,
     Forcing, Childless, Copying, Named, At
<1>7. ASSUME OutInv, NotOvertaken, NotOvertaken'
      PROVE  OutInv'
  <2>1. OnlyGrand'
    BY <1>1, <1>7
       DEF OutInv, OnlyGrand, Live
  <2>2. OrphanInv'
    BY <1>1, <1>7
       DEF OutInv, OrphanInv, Live, Active, Stopping, At
  <2>3. NamedInv'
    BY <1>1, <1>7
       DEF OutInv, NamedInv, Forking, Copying, NotOvertaken, Late
  <2>4. PairInv'
    BY <1>1, <1>7
       DEF OutInv, PairInv, Forking, Copying, Late
  <2> QED
    BY <2>1, <2>2, <2>3, <2>4 DEF OutInv
<1>8. ASSUME ~Online, OutInv, PlayInv
      PROVE  PlayInv'
  <2>1. CopyInv'
    BY <1>1, <1>8
       DEF PlayInv, CopyInv
  <2>2. FetchInv'
    BY <1>1, <1>8
       DEF PlayInv, FetchInv
  <2>3. EndedInv'
    BY <1>1, <1>8
       DEF PlayInv, EndedInv, ChildGone, ChildZombie, ChildSent, Skipping,
       Active
  <2> QED
    BY <2>1, <2>2, <2>3 DEF PlayInv
<1> QED
  BY <1>2, <1>3, <1>4, <1>5, <1>6, <1>7, <1>8 DEF SInv, OutKept, PlayKept

LEMMA KidGet_Safe ==
  ASSUME Safe, NEW c \in Kids, KidGet(c)
  PROVE  SInv' /\ OutKept /\ PlayKept
<1>1. /\ kid[c].pc = "after" /\ kid'[c].pc = "sync"
      /\ kid'[c].stop = kid[c].stop
      /\ \A d \in Kids : d # c => kid'[d] = kid[d]
      /\ kid'[c].s = shm /\ ~Forking
      /\ par' = par
      /\ shm' = shm /\ state' = state /\ suppressed' = suppressed
      /\ eof' = eof /\ chld' = chld /\ grand' = grand
      /\ par.pc \notin {"wrap_set", "next_set", "mode_set"}
  BY DEF Safe, IInv, TypeOK, KidRecs, KidGet, KidAt, PairFree, ShortCopy,
     Forking, flags, events
<1>2. ParInv'
  BY <1>1
     DEF Safe, SInv, ParInv, ChildInv, Forcing, Childless, Active
<1>3. ChildInv'
  BY <1>1
     DEF Safe, SInv, ParInv, ChildInv, Active, Stopping, Forcing, Forking,
     Copying, Childless, At
<1>4. WaitedInv'
  BY <1>1
     DEF Safe, SInv, WaitedInv, Live
<1>5. SettingInv'
  BY <1>1
     DEF Safe, SInv, ParInv, ChildInv, WaitedInv, SettingInv, Active, Setting,
     Live, Stopping, Forcing, Childless, At
<1>6. SuppressedInv'
  BY <1>1
     DEF Safe, SInv, ParInv, ChildInv, SuppressedInv, Active, Stopping,
     Forcing, Childless, Copying, Named, At
<1>7. ASSUME OutInv, NotOvertaken, NotOvertaken'
      PROVE  OutInv'
  <2>1. OnlyGrand'
    BY <1>1, <1>7
       DEF OutInv, OnlyGrand, Live
  <2>2. OrphanInv'
    BY <1>1, <1>7
       DEF OutInv, OrphanInv, Live, Active, Stopping, At
  <2>3. NamedInv'
    BY <1>1, <1>7
       DEF OutInv, NamedInv, Forking, Copying, NotOvertaken, Late
  <2>4. PairInv'
    BY <1>1, <1>7
       DEF OutInv, PairInv, Forking, Copying, Late
  <2> QED
    BY <2>1, <2>2, <2>3, <2>4 DEF OutInv
<1>8. ASSUME ~Online, OutInv, PlayInv
      PROVE  PlayInv'
  <2>1. CopyInv'
    BY <1>1, <1>8
       DEF PlayInv, CopyInv
  <2>2. FetchInv'
    BY <1>1, <1>8
       DEF PlayInv, FetchInv
  <2>3. EndedInv'
    BY <1>1, <1>8
       DEF PlayInv, EndedInv, ChildGone, ChildZombie, ChildSent, Skipping,
       Active
  <2> QED
    BY <2>1, <2>2, <2>3 DEF PlayInv
<1> QED
  BY <1>2, <1>3, <1>4, <1>5, <1>6, <1>7, <1>8 DEF SInv, OutKept, PlayKept

LEMMA KidSync_Safe ==
  ASSUME Safe, NEW c \in Kids, KidSync(c)
  PROVE  SInv' /\ OutKept /\ PlayKept
<1>1. /\ kid[c].pc = "sync" /\ kid'[c].pc \in {"top", "set", "fetch", "eof"}
      /\ kid'[c].stop = kid[c].stop
      /\ \A d \in Kids : d # c => kid'[d] = kid[d]
      /\ kid'[c].pc \in {"set", "fetch"} => kid'[c].s = kid[c].s
      /\ kid'[c].pc = "fetch" => Online
      /\ par' = par
      /\ shm' = shm /\ state' = state /\ suppressed' = suppressed
      /\ eof' = eof /\ chld' = chld /\ grand' = grand
  <2>1. kid[c].pc = "sync" /\ par' = par /\ shm' = shm /\ grand' = grand
    BY DEF KidSync, KidAt
  <2>2. state' = state /\ suppressed' = suppressed /\ eof' = eof /\ chld' = chld
    BY DEF KidSync, flags, events
  <2>3. \/ \E song, url, p : kid' = [kid EXCEPT ![c] = [NoKid EXCEPT !.pc = "top",
                !.stop = kid[c].stop, !.page = p, !.song = song, !.url = url]]
        \/ \E t : kid' = [kid EXCEPT ![c].pc = "set", ![c].song = t, ![c].url = t]
        \/ Online /\ KidGoTo(c, "fetch")
        \/ KidGoTo(c, "eof")
    BY LinkNextOffline DEF KidSync
  <2>4. /\ kid'[c].pc \in {"top", "set", "fetch", "eof"}
        /\ kid'[c].stop = kid[c].stop /\ \A d \in Kids : d # c => kid'[d] = kid[d]
        /\ kid'[c].pc \in {"set", "fetch"} => kid'[c].s = kid[c].s
        /\ kid'[c].pc = "fetch" => Online
    <3>1. CASE \E song, url, p : kid' = [kid EXCEPT ![c] = [NoKid EXCEPT !.pc = "top",
                   !.stop = kid[c].stop, !.page = p, !.song = song, !.url = url]]
      BY <3>1 DEF Safe, IInv, TypeOK, NoKid
    <3>2. CASE \E t : kid' = [kid EXCEPT ![c].pc = "set", ![c].song = t, ![c].url = t]
      BY <3>2 DEF Safe, IInv, TypeOK, KidRecs
    <3>3. CASE KidGoTo(c, "eof")
      BY <3>3 DEF KidGoTo, Safe, IInv, TypeOK, KidRecs
    <3>4. CASE Online /\ KidGoTo(c, "fetch")
      BY <3>4 DEF KidGoTo, Safe, IInv, TypeOK, KidRecs
    <3> QED
      BY <2>3, <3>1, <3>2, <3>3, <3>4
  <2> QED
    BY <2>1, <2>2, <2>4
<1>2. ParInv'
  BY <1>1
     DEF Safe, SInv, ParInv, ChildInv, Forcing, Childless, Active
<1>3. ChildInv'
  BY <1>1
     DEF Safe, SInv, ParInv, ChildInv, Active, Stopping, Forcing, Forking,
     Copying, Childless, At
<1>4. WaitedInv'
  BY <1>1
     DEF Safe, SInv, WaitedInv, Live
<1>5. SettingInv'
  BY <1>1
     DEF Safe, SInv, ParInv, ChildInv, WaitedInv, SettingInv, Active, Setting,
     Live, Stopping, Forcing, Childless, At
<1>6. SuppressedInv'
  BY <1>1
     DEF Safe, SInv, ParInv, ChildInv, SuppressedInv, Active, Stopping,
     Forcing, Childless, Copying, Named, At
<1>7. ASSUME OutInv, NotOvertaken, NotOvertaken'
      PROVE  OutInv'
  <2>1. OnlyGrand'
    BY <1>1, <1>7
       DEF OutInv, OnlyGrand, Live
  <2>2. OrphanInv'
    BY <1>1, <1>7
       DEF OutInv, OrphanInv, Live, Active, Stopping, At
  <2>3. NamedInv'
    BY <1>1, <1>7
       DEF OutInv, NamedInv, Forking, Copying, NotOvertaken, Late
  <2>4. PairInv'
    BY <1>1, <1>7
       DEF OutInv, PairInv, Forking, Copying, Late
  <2> QED
    BY <2>1, <2>2, <2>3, <2>4 DEF OutInv
<1>8. ASSUME ~Online, OutInv, PlayInv
      PROVE  PlayInv'
  <2>1. CopyInv'
    BY <1>1, <1>8
       DEF PlayInv, CopyInv
  <2>2. FetchInv'
    BY <1>1, <1>8
       DEF PlayInv, FetchInv
  <2>3. EndedInv'
    BY <1>1, <1>8
       DEF PlayInv, EndedInv, ChildGone, ChildZombie, ChildSent, Skipping,
       Active
  <2> QED
    BY <2>1, <2>2, <2>3 DEF PlayInv
<1> QED
  BY <1>2, <1>3, <1>4, <1>5, <1>6, <1>7, <1>8 DEF SInv, OutKept, PlayKept

LEMMA KidFetch_Safe ==
  ASSUME Safe, NEW c \in Kids, ~KidExit(c), KidFetch(c)
  PROVE  SInv' /\ OutKept /\ PlayKept
<1>1. /\ kid[c].pc = "fetch" /\ kid'[c].pc = "late_set"
      /\ kid'[c].stop = kid[c].stop
      /\ \A d \in Kids : d # c => kid'[d] = kid[d]
      /\ kid'[c].s = kid[c].s
      /\ par' = par
      /\ shm' = shm /\ state' = state /\ suppressed' = suppressed
      /\ eof' = eof /\ chld' = chld /\ grand' = grand
  <2>1. PICK t : kid' = [kid EXCEPT ![c].pc = "late_set", ![c].song = t, ![c].url = t]
    BY DEF KidFetch
  <2>2. /\ kid'[c].pc = "late_set" /\ kid'[c].stop = kid[c].stop /\ kid'[c].s = kid[c].s
        /\ \A d \in Kids : d # c => kid'[d] = kid[d]
    BY <2>1 DEF Safe, IInv, TypeOK, KidRecs
  <2>3. /\ kid[c].pc = "fetch" /\ par' = par /\ shm' = shm /\ grand' = grand
        /\ state' = state /\ suppressed' = suppressed /\ eof' = eof /\ chld' = chld
    BY DEF KidFetch, KidAt, flags, events
  <2> QED
    BY <2>2, <2>3
<1>2. ParInv'
  BY <1>1
     DEF Safe, SInv, ParInv, ChildInv, Forcing, Childless, Active
<1>3. ChildInv'
  BY <1>1
     DEF Safe, SInv, ParInv, ChildInv, Active, Stopping, Forcing, Forking,
     Copying, Childless, At
<1>4. WaitedInv'
  BY <1>1
     DEF Safe, SInv, WaitedInv, Live
<1>5. SettingInv'
  BY <1>1
     DEF Safe, SInv, ParInv, ChildInv, WaitedInv, SettingInv, Active, Setting,
     Live, Stopping, Forcing, Childless, At
<1>6. SuppressedInv'
  BY <1>1
     DEF Safe, SInv, ParInv, ChildInv, SuppressedInv, Active, Stopping,
     Forcing, Childless, Copying, Named, At
<1>7. ASSUME OutInv, NotOvertaken, NotOvertaken'
      PROVE  OutInv'
  <2>1. OnlyGrand'
    BY <1>1, <1>7
       DEF OutInv, OnlyGrand, Live
  <2>2. OrphanInv'
    BY <1>1, <1>7
       DEF OutInv, OrphanInv, Live, Active, Stopping, At
  <2>3. NamedInv'
    BY <1>1, <1>7
       DEF OutInv, NamedInv, Forking, Copying, NotOvertaken, Late
  <2>4. PairInv'
    BY <1>1, <1>7
       DEF OutInv, PairInv, Forking, Copying, Late
  <2> QED
    BY <2>1, <2>2, <2>3, <2>4 DEF OutInv
<1>8. ASSUME ~Online, OutInv, PlayInv
      PROVE  PlayInv'
  <2>1. CopyInv'
    BY <1>1, <1>8
       DEF PlayInv, CopyInv
  <2>2. FetchInv'
    BY <1>1, <1>8
       DEF PlayInv, FetchInv
  <2>3. EndedInv'
    BY <1>1, <1>8
       DEF PlayInv, EndedInv, ChildGone, ChildZombie, ChildSent, Skipping,
       Active
  <2> QED
    BY <2>1, <2>2, <2>3 DEF PlayInv
<1> QED
  BY <1>2, <1>3, <1>4, <1>5, <1>6, <1>7, <1>8 DEF SInv, OutKept, PlayKept

LEMMA KidSet_Safe ==
  ASSUME Safe, NEW c \in Kids, KidSet(c)
  PROVE  SInv' /\ OutKept /\ PlayKept
<1>1. /\ kid[c].pc \in {"set", "late_set"} /\ kid'[c].pc = "top"
      /\ kid'[c].stop = kid[c].stop
      /\ \A d \in Kids : d # c => kid'[d] = kid[d]
      /\ par' = par
      /\ shm'.child = kid[c].s.child /\ state' = state /\ suppressed' = suppressed
      /\ eof' = eof /\ chld' = chld /\ grand' = grand
  BY DEF Safe, IInv, TypeOK, KidRecs, KidSet, KidAt, Shm, flags, events
<1>2. ParInv'
  BY <1>1
     DEF Safe, SInv, ParInv, ChildInv, Forcing, Childless, Active
<1>3. ChildInv'
  BY <1>1
     DEF Safe, SInv, ParInv, ChildInv, Active, Stopping, Forcing, Forking,
     Copying, Childless, At
<1>4. WaitedInv'
  BY <1>1
     DEF Safe, SInv, WaitedInv, Live
<1>5. SettingInv'
  BY <1>1
     DEF Safe, SInv, ParInv, ChildInv, WaitedInv, SettingInv, Active, Setting,
     Live, Stopping, Forcing, Childless, At
<1>6. SuppressedInv'
  BY <1>1
     DEF Safe, SInv, ParInv, ChildInv, SuppressedInv, Active, Stopping,
     Forcing, Childless, Copying, Named, At
<1>7. ASSUME OutInv, NotOvertaken, NotOvertaken'
      PROVE  OutInv'
  <2>0. \A g \in Grands : ~Live(g)
    BY <1>1, <1>7, NoneYet DEF Active
  <2>1. OnlyGrand'
    BY <1>1, <1>7, <2>0
       DEF OutInv, OnlyGrand, Live, Live
  <2>2. OrphanInv'
    BY <1>1, <1>7, <2>0
       DEF OutInv, OrphanInv, Live, Active, Stopping, At
  <2>3. NamedInv'
    BY <1>1, <1>7, <2>0
       DEF OutInv, NamedInv, Forking, Copying, NotOvertaken, Late, Live
  <2>4. PairInv'
    BY <1>1, <1>7, <2>0
       DEF OutInv, PairInv, Forking, Copying, Late, Live
  <2> QED
    BY <2>1, <2>2, <2>3, <2>4 DEF OutInv
<1>8. ASSUME ~Online, OutInv, PlayInv
      PROVE  PlayInv'
  <2>1. CopyInv'
    BY <1>1, <1>8
       DEF PlayInv, CopyInv, FetchInv
  <2>2. FetchInv'
    BY <1>1, <1>8
       DEF PlayInv, FetchInv
  <2>3. EndedInv'
    BY <1>1, <1>8
       DEF PlayInv, EndedInv, ChildGone, ChildZombie, ChildSent, Skipping,
       Active
  <2> QED
    BY <2>1, <2>2, <2>3 DEF PlayInv
<1> QED
  BY <1>2, <1>3, <1>4, <1>5, <1>6, <1>7, <1>8 DEF SInv, OutKept, PlayKept

LEMMA KidEof_Safe ==
  ASSUME Safe, NEW c \in Kids, KidEof(c)
  PROVE  SInv' /\ OutKept /\ PlayKept
<1>1. /\ kid[c].pc = "eof" /\ kid'[c].pc = "eof_sent"
      /\ kid'[c].stop = kid[c].stop
      /\ \A d \in Kids : d # c => kid'[d] = kid[d]
      /\ par' = par
      /\ shm' = shm /\ (IF At("dead") THEN state' = state ELSE state' = "STOP" /\ eof' = TRUE)
      /\ chld' = chld /\ suppressed' = suppressed /\ grand' = grand
  BY DEF Safe, IInv, TypeOK, KidRecs, KidEof, KidAt, flags, events
<1>2. ParInv'
  BY <1>1
     DEF Safe, SInv, ParInv, ChildInv, Forcing, Childless, Active
<1>3. ChildInv'
  BY <1>1
     DEF Safe, SInv, ParInv, ChildInv, Active, Stopping, Forcing, Forking,
     Copying, Childless, At
<1>4. WaitedInv'
  BY <1>1
     DEF Safe, SInv, WaitedInv, Live
<1>5. SettingInv'
  BY <1>1
     DEF Safe, SInv, ParInv, ChildInv, WaitedInv, SettingInv, Active, Setting,
     Live, Stopping, Forcing, Childless, At
<1>6. SuppressedInv'
  BY <1>1
     DEF Safe, SInv, ParInv, ChildInv, SuppressedInv, Active, Stopping,
     Forcing, Childless, Copying, Named, At
<1>7. ASSUME OutInv, NotOvertaken, NotOvertaken'
      PROVE  OutInv'
  <2>1. OnlyGrand'
    BY <1>1, <1>7
       DEF OutInv, OnlyGrand, Live
  <2>2. OrphanInv'
    BY <1>1, <1>7
       DEF OutInv, OrphanInv, Live, Active, Stopping, At
  <2>3. NamedInv'
    BY <1>1, <1>7
       DEF OutInv, NamedInv, Forking, Copying, NotOvertaken, Late
  <2>4. PairInv'
    BY <1>1, <1>7
       DEF OutInv, PairInv, Forking, Copying, Late
  <2> QED
    BY <2>1, <2>2, <2>3, <2>4 DEF OutInv
<1>8. ASSUME ~Online, OutInv, PlayInv
      PROVE  PlayInv'
  <2>1. CopyInv'
    BY <1>1, <1>8
       DEF PlayInv, CopyInv
  <2>2. FetchInv'
    BY <1>1, <1>8
       DEF PlayInv, FetchInv
  <2>3. EndedInv'
    <3>1. Active(c) /\ (Skipping => shm.child = c)
      BY <1>1 DEF Safe, SInv, ChildInv, Active, Forking, Skipping
    <3> QED
      BY <1>1, <3>1 DEF EndedInv, ChildSent, Skipping, At
  <2> QED
    BY <2>1, <2>2, <2>3 DEF PlayInv
<1> QED
  BY <1>2, <1>3, <1>4, <1>5, <1>6, <1>7, <1>8 DEF SInv, OutKept, PlayKept

-----------------------------------------------------------------------------
(* The grandchild.                                                           *)

LEMMA GrandGet_Safe ==
  ASSUME Safe, NEW g \in Grands, GrandGet(g)
  PROVE  SInv' /\ OutKept /\ PlayKept
<1>1. /\ grand[g].pc = "born" /\ grand'[g].pc = "register" /\ grand'[g].kid = grand[g].kid
      /\ \A h \in Grands : h # g => grand'[h] = grand[h]
      /\ par' = par /\ kid' = kid
      /\ shm' = shm /\ state' = state /\ suppressed' = suppressed
      /\ eof' = eof /\ chld' = chld
      /\ par.pc \notin {"wrap_set", "next_set", "mode_set", "pid_get", "pid_set"}
  BY DEF Safe, IInv, TypeOK, GrandRecs, GrandGet, GrandAt, PairFree,
     ShortCopy, flags, events
<1>2. ParInv'
  BY <1>1
     DEF Safe, SInv, ParInv, ChildInv, Forcing, Childless, Active
<1>3. ChildInv'
  BY <1>1
     DEF Safe, SInv, ParInv, ChildInv, Active, Stopping, Forcing, Forking,
     Copying, Childless, At
<1>4. WaitedInv'
  BY <1>1
     DEF Safe, SInv, WaitedInv, Live
<1>5. SettingInv'
  BY <1>1
     DEF Safe, SInv, ParInv, ChildInv, WaitedInv, SettingInv, Active, Setting,
     Live, Stopping, Forcing, Childless, At
<1>6. SuppressedInv'
  BY <1>1
     DEF Safe, SInv, ParInv, ChildInv, SuppressedInv, Active, Stopping,
     Forcing, Childless, Copying, Named, At
<1>7. ASSUME OutInv, NotOvertaken, NotOvertaken'
      PROVE  OutInv'
  <2>1. OnlyGrand'
    BY <1>1, <1>7
       DEF OutInv, OnlyGrand, Live
  <2>2. OrphanInv'
    BY <1>1, <1>7
       DEF OutInv, OrphanInv, Live, Active, Stopping, At
  <2>3. NamedInv'
    BY <1>1, <1>7
       DEF OutInv, NamedInv, Forking, Copying, NotOvertaken, Late
  <2>4. PairInv'
    BY <1>1, <1>7
       DEF OutInv, PairInv, Forking, Copying, Late
  <2> QED
    BY <2>1, <2>2, <2>3, <2>4 DEF OutInv
<1>8. ASSUME ~Online, OutInv, PlayInv
      PROVE  PlayInv'
  <2>1. CopyInv'
    BY <1>1, <1>8
       DEF PlayInv, CopyInv
  <2>2. FetchInv'
    BY <1>1, <1>8
       DEF PlayInv, FetchInv
  <2>3. EndedInv'
    BY <1>1, <1>8
       DEF PlayInv, EndedInv, ChildGone, ChildZombie, ChildSent, Skipping,
       Active
  <2> QED
    BY <2>1, <2>2, <2>3 DEF PlayInv
<1> QED
  BY <1>2, <1>3, <1>4, <1>5, <1>6, <1>7, <1>8 DEF SInv, OutKept, PlayKept

LEMMA GrandSet_Safe ==
  ASSUME Safe, NEW g \in Grands, GrandSet(g)
  PROVE  SInv' /\ OutKept /\ PlayKept
<1>1. /\ grand[g].pc = "register" /\ grand'[g].pc = "open" /\ grand'[g].kid = grand[g].kid
      /\ \A h \in Grands : h # g => grand'[h] = grand[h]
      /\ par' = par /\ kid' = kid
      /\ shm'.child = grand[g].kid /\ shm'.grand = g
      /\ state' = state /\ suppressed' = suppressed
      /\ eof' = eof /\ chld' = chld
  BY DEF Safe, IInv, TypeOK, GrandRecs, GrandSet, GrandAt, Shm, flags, events
<1>0. \/ grand[g].kid \in Kids /\ Active(grand[g].kid)
      \/ (Stopping \/ At("dead")) /\ \A c \in Kids : ~Active(c)
  BY <1>1 DEF Safe, SInv, WaitedInv, SettingInv, Setting, Live, Active
<1>2. ParInv'
  BY <1>1
     DEF Safe, SInv, ParInv, ChildInv, Forcing, Childless, Active
<1>3. ChildInv'
  BY <1>1, <1>0
     DEF Safe, SInv, ParInv, ChildInv, Active, Stopping, Forcing, Forking,
     Copying, Childless, At
<1>4. WaitedInv'
  BY <1>1
     DEF Safe, SInv, WaitedInv, Live
<1>5. SettingInv'
  BY <1>1
     DEF Safe, SInv, ParInv, ChildInv, WaitedInv, SettingInv, Active, Setting,
     Live, Stopping, Forcing, Childless, At
<1>6. SuppressedInv'
  BY <1>1, <1>0
     DEF Safe, SInv, ParInv, ChildInv, SuppressedInv, Active, Stopping,
     Forcing, Childless, Copying, Named, At
<1>7. ASSUME OutInv, NotOvertaken, NotOvertaken'
      PROVE  OutInv'
  <2>1. OnlyGrand'
    BY <1>1, <1>7
       DEF OutInv, OnlyGrand, Live
  <2>2. OrphanInv'
    BY <1>1, <1>7
       DEF OutInv, OrphanInv, Live, Active, Stopping, At
  <2>3. NamedInv'
    BY <1>1, <1>7
       DEF OutInv, NamedInv, Forking, Copying, NotOvertaken, Late, OnlyGrand,
       PairInv, Live
  <2>4. PairInv'
    BY <1>1, <1>7
       DEF OutInv, PairInv, Forking, Copying, Late
  <2> QED
    BY <2>1, <2>2, <2>3, <2>4 DEF OutInv
<1>8. ASSUME ~Online, OutInv, PlayInv
      PROVE  PlayInv'
  <2>1. CopyInv'
    <3>1. par.pc \notin {"wrap_set", "next_set", "mode_set"}
      BY <1>1, <1>8 DEF OutInv, PairInv, Copying, Late
    <3> QED
      BY <1>1, <3>1 DEF CopyInv
  <2>2. FetchInv'
    BY <1>1, <1>8
       DEF PlayInv, FetchInv
  <2>3. EndedInv'
    <3>1. CASE grand[g].kid \in Kids /\ Active(grand[g].kid)
      BY <1>1, <3>1 DEF EndedInv, Active
    <3>2. CASE Stopping \/ At("dead")
      BY <1>1, <3>2 DEF EndedInv, Stopping, Skipping, At
    <3> QED
      BY <1>0, <3>1, <3>2
  <2> QED
    BY <2>1, <2>2, <2>3 DEF PlayInv
<1> QED
  BY <1>2, <1>3, <1>4, <1>5, <1>6, <1>7, <1>8 DEF SInv, OutKept, PlayKept

LEMMA GrandPlay_Safe ==
  ASSUME Safe, NEW g \in Grands, GrandPlay(g)
  PROVE  SInv' /\ OutKept /\ PlayKept
<1>1. /\ \A h \in Grands : grand'[h] = grand[h] \/ Gone(h) \/ PlaysOn(h)
      /\ par' = par /\ kid' = kid
      /\ shm' = shm /\ state' = state /\ suppressed' = suppressed
      /\ eof' = eof /\ chld' = chld
  <2>1. grand[g].pc = "open" /\ Live(g) /\ par' = par /\ kid' = kid /\ shm' = shm
    BY DEF GrandPlay, GrandAt, Live
  <2>2. state' = state /\ suppressed' = suppressed /\ eof' = eof /\ chld' = chld
    BY DEF GrandPlay, flags, events
  <2>3. CASE grand' = Ended(grand, g)
    BY <2>1, <2>2, <2>3, EndedIsGone DEF Safe, IInv
  <2>4. CASE grand' = [grand EXCEPT ![g].pc = "play"]
    BY <2>1, <2>2, <2>4 DEF Safe, IInv, TypeOK, GrandRecs, PlaysOn
  <2> QED
    BY <2>3, <2>4 DEF GrandPlay
<1>2. ParInv'
  BY <1>1
     DEF Safe, SInv, ParInv, ChildInv, Forcing, Childless, Active
<1>3. ChildInv'
  BY <1>1
     DEF Safe, SInv, ParInv, ChildInv, Active, Stopping, Forcing, Forking,
     Copying, Childless, At
<1>4. WaitedInv'
  BY <1>1
     DEF Safe, SInv, WaitedInv, Live, Gone, PlaysOn
<1>5. SettingInv'
  BY <1>1
     DEF Safe, SInv, ParInv, ChildInv, WaitedInv, SettingInv, Active, Setting,
     Live, Stopping, Forcing, Childless, At, Gone, PlaysOn
<1>6. SuppressedInv'
  BY <1>1
     DEF Safe, SInv, ParInv, ChildInv, SuppressedInv, Active, Stopping,
     Forcing, Childless, Copying, Named, At
<1>7. ASSUME OutInv, NotOvertaken, NotOvertaken'
      PROVE  OutInv'
  <2>1. OnlyGrand'
    BY <1>1, <1>7
       DEF OutInv, OnlyGrand, Live, Gone, PlaysOn
  <2>2. OrphanInv'
    BY <1>1, <1>7
       DEF OutInv, OrphanInv, Live, Active, Stopping, At, Gone, PlaysOn
  <2>3. NamedInv'
    BY <1>1, <1>7
       DEF OutInv, NamedInv, Forking, Copying, NotOvertaken, Late, Gone,
       PlaysOn
  <2>4. PairInv'
    BY <1>1, <1>7
       DEF OutInv, PairInv, Forking, Copying, Late, Gone, PlaysOn
  <2> QED
    BY <2>1, <2>2, <2>3, <2>4 DEF OutInv
<1>8. ASSUME ~Online, OutInv, PlayInv
      PROVE  PlayInv'
  <2>1. CopyInv'
    BY <1>1, <1>8
       DEF PlayInv, CopyInv
  <2>2. FetchInv'
    BY <1>1, <1>8
       DEF PlayInv, FetchInv
  <2>3. EndedInv'
    BY <1>1, <1>8
       DEF PlayInv, EndedInv, ChildGone, ChildZombie, ChildSent, Skipping,
       Active
  <2> QED
    BY <2>1, <2>2, <2>3 DEF PlayInv
<1> QED
  BY <1>2, <1>3, <1>4, <1>5, <1>6, <1>7, <1>8 DEF SInv, OutKept, PlayKept

LEMMA GrandRead_Safe ==
  ASSUME Safe, NEW g \in Grands, GrandRead(g)
  PROVE  SInv' /\ OutKept /\ PlayKept
<1>1. /\ \A h \in Grands : grand'[h] = grand[h] \/ Gone(h) \/ PlaysOn(h)
      /\ par' = par /\ kid' = kid
      /\ shm' = shm /\ state' = state /\ suppressed' = suppressed
      /\ eof' = eof /\ chld' = chld
  BY EndedIsGone DEF Safe, IInv, TypeOK, GrandRecs, GrandRead, Reading, Live, PlaysOn,
     flags, events
<1>2. ParInv'
  BY <1>1
     DEF Safe, SInv, ParInv, ChildInv, Forcing, Childless, Active
<1>3. ChildInv'
  BY <1>1
     DEF Safe, SInv, ParInv, ChildInv, Active, Stopping, Forcing, Forking,
     Copying, Childless, At
<1>4. WaitedInv'
  BY <1>1
     DEF Safe, SInv, WaitedInv, Live, Gone, PlaysOn
<1>5. SettingInv'
  BY <1>1
     DEF Safe, SInv, ParInv, ChildInv, WaitedInv, SettingInv, Active, Setting,
     Live, Stopping, Forcing, Childless, At, Gone, PlaysOn
<1>6. SuppressedInv'
  BY <1>1
     DEF Safe, SInv, ParInv, ChildInv, SuppressedInv, Active, Stopping,
     Forcing, Childless, Copying, Named, At
<1>7. ASSUME OutInv, NotOvertaken, NotOvertaken'
      PROVE  OutInv'
  <2>1. OnlyGrand'
    BY <1>1, <1>7
       DEF OutInv, OnlyGrand, Live, Gone, PlaysOn
  <2>2. OrphanInv'
    BY <1>1, <1>7
       DEF OutInv, OrphanInv, Live, Active, Stopping, At, Gone, PlaysOn
  <2>3. NamedInv'
    BY <1>1, <1>7
       DEF OutInv, NamedInv, Forking, Copying, NotOvertaken, Late, Gone,
       PlaysOn
  <2>4. PairInv'
    BY <1>1, <1>7
       DEF OutInv, PairInv, Forking, Copying, Late, Gone, PlaysOn
  <2> QED
    BY <2>1, <2>2, <2>3, <2>4 DEF OutInv
<1>8. ASSUME ~Online, OutInv, PlayInv
      PROVE  PlayInv'
  <2>1. CopyInv'
    BY <1>1, <1>8
       DEF PlayInv, CopyInv
  <2>2. FetchInv'
    BY <1>1, <1>8
       DEF PlayInv, FetchInv
  <2>3. EndedInv'
    BY <1>1, <1>8
       DEF PlayInv, EndedInv, ChildGone, ChildZombie, ChildSent, Skipping,
       Active
  <2> QED
    BY <2>1, <2>2, <2>3 DEF PlayInv
<1> QED
  BY <1>2, <1>3, <1>4, <1>5, <1>6, <1>7, <1>8 DEF SInv, OutKept, PlayKept

LEMMA GrandEos_Safe ==
  ASSUME Safe, NEW g \in Grands, GrandEos(g)
  PROVE  SInv' /\ OutKept /\ PlayKept
<1>1. /\ \A h \in Grands : grand'[h] = grand[h] \/ Gone(h) \/ PlaysOn(h)
      /\ par' = par /\ kid' = kid
      /\ shm' = shm /\ state' = state /\ suppressed' = suppressed
      /\ eof' = eof /\ chld' = chld
  BY EndedIsGone DEF Safe, IInv, TypeOK, GrandRecs, GrandEos, Audible, Live, PlaysOn,
     flags, events
<1>2. ParInv'
  BY <1>1
     DEF Safe, SInv, ParInv, ChildInv, Forcing, Childless, Active
<1>3. ChildInv'
  BY <1>1
     DEF Safe, SInv, ParInv, ChildInv, Active, Stopping, Forcing, Forking,
     Copying, Childless, At
<1>4. WaitedInv'
  BY <1>1
     DEF Safe, SInv, WaitedInv, Live, Gone, PlaysOn
<1>5. SettingInv'
  BY <1>1
     DEF Safe, SInv, ParInv, ChildInv, WaitedInv, SettingInv, Active, Setting,
     Live, Stopping, Forcing, Childless, At, Gone, PlaysOn
<1>6. SuppressedInv'
  BY <1>1
     DEF Safe, SInv, ParInv, ChildInv, SuppressedInv, Active, Stopping,
     Forcing, Childless, Copying, Named, At
<1>7. ASSUME OutInv, NotOvertaken, NotOvertaken'
      PROVE  OutInv'
  <2>1. OnlyGrand'
    BY <1>1, <1>7
       DEF OutInv, OnlyGrand, Live, Gone, PlaysOn
  <2>2. OrphanInv'
    BY <1>1, <1>7
       DEF OutInv, OrphanInv, Live, Active, Stopping, At, Gone, PlaysOn
  <2>3. NamedInv'
    BY <1>1, <1>7
       DEF OutInv, NamedInv, Forking, Copying, NotOvertaken, Late, Gone,
       PlaysOn
  <2>4. PairInv'
    BY <1>1, <1>7
       DEF OutInv, PairInv, Forking, Copying, Late, Gone, PlaysOn
  <2> QED
    BY <2>1, <2>2, <2>3, <2>4 DEF OutInv
<1>8. ASSUME ~Online, OutInv, PlayInv
      PROVE  PlayInv'
  <2>1. CopyInv'
    BY <1>1, <1>8
       DEF PlayInv, CopyInv
  <2>2. FetchInv'
    BY <1>1, <1>8
       DEF PlayInv, FetchInv
  <2>3. EndedInv'
    BY <1>1, <1>8
       DEF PlayInv, EndedInv, ChildGone, ChildZombie, ChildSent, Skipping,
       Active
  <2> QED
    BY <2>1, <2>2, <2>3 DEF PlayInv
<1> QED
  BY <1>2, <1>3, <1>4, <1>5, <1>6, <1>7, <1>8 DEF SInv, OutKept, PlayKept

-----------------------------------------------------------------------------
(* Every step.                                                               *)

LEMMA Init_Safe == Init => SInv /\ OutInv /\ PlayInv
BY DEF Init, SInv, ParInv, ChildInv, WaitedInv, SettingInv, SuppressedInv, Active,
       Setting, Live, Forcing, Idle, NoKid, NoGrand, OutInv, OnlyGrand, OrphanInv,
       NamedInv, PairInv, PlayInv, CopyInv, FetchInv, EndedInv, Skipping

LEMMA KidStep_Safe ==
  ASSUME Safe, NEW c \in Kids, Kid(c)
  PROVE  SInv' /\ OutKept /\ PlayKept
<1>1. CASE KidExit(c) /\ (KidStop(c) \/ KidFetch(c))
  <2>1. /\ kid[c].stop \/ kid[c].pc \in {"fetch", "eof_sent"}
        /\ kid[c].pc \notin {"free", "zombie"}
    BY <1>1 DEF KidStop, KidFetch, KidAt
  <2> QED
    BY <1>1, <2>1, KidExit_Safe
<1>2. KidStop(c) => KidExit(c)
  BY DEF KidStop
<1> QED
  BY <1>1, <1>2, KidFork_Safe, KidReap_Safe, KidGet_Safe, KidSync_Safe,
     KidFetch_Safe, KidSet_Safe, KidEof_Safe DEF Kid

LEMMA SafeStep ==
  ASSUME Safe, [Next]_vars
  PROVE  SInv' /\ OutKept /\ PlayKept
<1>1. CASE Events
  BY <1>1, ReapChildren_Safe, ClearChildFlag_Safe, EofDropped_Safe,
     EofTurnPage_Safe DEF Events
<1>2. Dies /\ par.pc \in {"quit", "pause", "tts", "resume"} => SInv' /\ OutKept /\ PlayKept
  BY Dies_Safe DEF Forking
<1>3. CASE Command
  BY <1>3, CmdStart_Safe, StopPlay_Safe, CmdContinue_Safe, NextSong_Safe,
     PickSong_Safe, CmdSuspend_Safe, SetModeGet_Safe
     DEF Command
<1>4. CASE InCommand
  BY <1>2, <1>4, Wrap_Safe, WrapSet_Safe, StartPlay_Safe, StartSet_Safe,
     ForceStop_Safe, Quit_Safe, Kill_Safe, WaitChild_Safe, ForceGrand_Safe,
     ClearSet_Safe, ForkChild_Safe, PidGet_Safe, PidSet_Safe, StopLast_Safe,
     StopClear_Safe, Suspend_Safe, ContinuePlay_Safe, Resume_Safe, NextSet_Safe,
     NextApply_Safe, SetModeSet_Safe
     DEF InCommand, Quit, Suspend, Resume, At
<1>5. CASE \E c \in Kids : Kid(c)
  BY <1>5, KidStep_Safe
<1>6. CASE \E g \in Grands : Grand(g)
  BY <1>6, GrandGet_Safe, GrandSet_Safe, GrandPlay_Safe, GrandRead_Safe,
     GrandEos_Safe DEF Grand, GrandSetup
<1>7. CASE UNCHANGED vars
  <2>1. OutKept
    BY <1>7 DEF OutKept, OutInv, OnlyGrand, OrphanInv, NamedInv, PairInv, Late,
       Active, Live, Stopping, Forking, Copying, At, vars, pipes
  <2>2. SInv'
    BY <1>7 DEF Safe, SInv, ParInv, ChildInv, WaitedInv, SettingInv, SuppressedInv,
       Active, Setting, Live, Stopping, Forcing, Forking, Copying, Childless, Named,
       At, vars, flags, events, pipes
  <2>3. PlayKept
    BY <1>7 DEF PlayKept, PlayInv, CopyInv, FetchInv, EndedInv, ChildGone, ChildZombie,
       ChildSent, Skipping, Active, vars, flags, events
  <2> QED
    BY <2>1, <2>2, <2>3
<1> QED
  BY <1>1, <1>3, <1>4, <1>5, <1>6, <1>7 DEF Next

LEMMA SafetyInductive ==
  ASSUME Timely
  PROVE  Spec => []SInv
<1>1. IInv /\ SInv /\ [Next]_vars => SInv'
  BY SafeStep DEF Safe
<1> QED
  BY <1>1, Init_Safe, PlaybackInductive, PTL DEF Spec

LEMMA OutputInductive ==
  ASSUME Timely
  PROVE  Spec /\ []NotOvertaken => []OutInv
<1>1. /\ IInv /\ SInv /\ OutInv /\ NotOvertaken /\ NotOvertaken' /\ [Next]_vars
      => OutInv'
  BY SafeStep DEF Safe, OutKept
<1> QED
  BY <1>1, Init_Safe, PlaybackInductive, SafetyInductive, PTL DEF Spec

LEMMA OfflineNeverLate ==
  ASSUME ~Online, SInv
  PROVE  NotOvertaken
BY DEF SInv, ParInv, NotOvertaken, Late

\* An end of the list that disturbs a pause or a continue is noted in caught,
\* which only the next start clears.
Noted == caught \/ Undisturbed

LEMMA NotedKept ==
  ASSUME IInv, Noted, [Next]_vars
  PROVE  Noted' /\ (caught => caught' \/ StartSet)
<1>1. par \in ParRecs /\ state \in {"STOP", "PLAY"}
  BY DEF IInv, TypeOK
<1>0. par = [pc |-> par.pc, cmd |-> par.cmd, s |-> par.s, seen |-> par.seen,
            track |-> par.track, retry |-> par.retry]
  BY <1>1 DEF ParRecs
<1>2. CASE CmdSuspend("pause") \/ CmdSuspend("tts") \/ ContinuePlay
  <2>1. state' = state /\ caught' = caught
    BY <1>2 DEF CmdSuspend, ContinuePlay, flags, events
  <2>2. par'.pc \in {"pause", "tts", "resume"} => state # "STOP"
    BY <1>1, <1>2 DEF CmdSuspend, ContinuePlay, GoTo, ParRecs
  <2> QED
    BY <1>1, <2>1, <2>2 DEF Noted, Undisturbed
<1>3. CASE \/ ReapChildren \/ ClearChildFlag \/ EofDropped \/ EofTurnPage
           \/ CmdStart \/ StopPlay \/ CmdContinue \/ NextSong \/ PickSong \/ SetModeGet
           \/ WrapSet \/ StartPlay \/ StartSet \/ ForceStop \/ Kill
           \/ WaitChild \/ ForceGrand \/ ClearSet \/ ForkChild \/ PidGet \/ PidSet
           \/ StopLast \/ StopClear \/ NextSet \/ NextApply \/ SetModeSet
  <2>1. caught' = caught \/ StartSet
    BY <1>3 DEF ReapChildren, ClearChildFlag, EofDropped, EofTurnPage, CmdStart,
       StopPlay, CmdContinue, NextSong, PickSong, SetModeGet, WrapSet,
       StartPlay, ForceStop, Kill, WaitChild, ForceGrand, ClearSet, ForkChild,
       PidGet, PidSet, StopLast, StopClear, NextSet, NextApply, SetModeSet, events
  <2>2. par'.pc \notin {"pause", "tts", "resume"}
    <3>1. CASE ReapChildren \/ ClearChildFlag
      BY <1>1, <3>1 DEF ParRecs, ReapChildren, ClearChildFlag, GoTo
    <3>2. CASE EofDropped \/ EofTurnPage
      <4>1. Return \/ GoTo("start") \/ GoTo("wrap")
        BY <3>2 DEF EofDropped, EofTurnPage
      <4> QED
        BY <1>1, <4>1 DEF ParRecs, Return, GoTo, Idle
    <3>3. CASE CmdStart \/ CmdContinue \/ StopPlay
      BY <1>1, <3>3 DEF ParRecs, CmdStart, CmdContinue, StopPlay, GoTo
    <3>4. CASE WrapSet \/ StartSet
      BY <1>1, <3>4 DEF ParRecs, WrapSet, StartSet, Idle
    <3>5. CASE StartPlay
      <4>1. ASSUME NEW t, NEW s,
                   par' = [par EXCEPT !.pc = "start_set", !.track = t, !.s = s]
            PROVE  par'.pc \notin {"pause", "tts", "resume"}
        BY <1>1, <4>1 DEF ParRecs
      <4>2. CASE Return \/ GoTo("continue")
        BY <1>1, <4>2 DEF ParRecs, Return, GoTo, Idle
      <4> QED
        BY <3>5, <4>1, <4>2 DEF StartPlay
    <3>6. CASE ForceStop \/ ClearSet
      BY <1>1, <3>6 DEF ParRecs, ForceStop, ClearSet
    <3>7. CASE Kill \/ ForceGrand
      <4>1. ASSUME NEW r, NEW s, par' = [par EXCEPT !.pc = "force", !.retry = r, !.s = s]
            PROVE  par'.pc \notin {"pause", "tts", "resume"}
        BY <1>1, <4>1 DEF ParRecs
      <4>2. CASE Return
        BY <4>2 DEF Return, Idle
      <4>3. CASE par' = [par EXCEPT !.pc = "wait_child", !.seen = Nobody]
        BY <1>1, <4>3 DEF ParRecs
      <4> QED
        BY <3>7, <4>1, <4>2, <4>3 DEF Kill, ForceGrand
    <3>8. CASE WaitChild
      BY <1>1, <3>8 DEF ParRecs, WaitChild, GoTo
    <3>9. CASE ForkChild
      BY <1>1, <3>9 DEF ParRecs, ForkChild, Idle
    <3>10. CASE PidGet \/ PidSet
      <4>1. ASSUME NEW s, par' = [par EXCEPT !.pc = "pid_set", !.s = s]
            PROVE  par'.pc \notin {"pause", "tts", "resume"}
        BY <1>1, <4>1 DEF ParRecs
      <4>2. CASE Return
        BY <4>2 DEF Return, Idle
      <4> QED
        BY <3>10, <4>1, <4>2 DEF PidGet, PidSet
    <3>11. CASE StopLast \/ StopClear
      <4>1. ASSUME NEW s, par' = [par EXCEPT !.pc = "stop_clear", !.s = s]
            PROVE  par'.pc \notin {"pause", "tts", "resume"}
        BY <1>1, <4>1 DEF ParRecs
      <4>2. CASE Return
        BY <4>2 DEF Return, Idle
      <4> QED
        BY <3>11, <4>1, <4>2 DEF StopLast, StopClear
    <3>12. CASE NextSet \/ NextApply
      BY <1>1, <3>12 DEF ParRecs, NextSet, NextApply, GoTo, Idle
    <3>13. CASE SetModeSet
      BY <1>1, <3>13 DEF ParRecs, SetModeSet, Return, Idle
    <3>14. CASE NextSong \/ PickSong \/ SetModeGet
      <4>1. ASSUME NEW t, NEW pc \in {"next_set", "next_late"}, Choose(t, pc)
            PROVE  par'.pc \notin {"pause", "tts", "resume"}
        BY <1>1, <4>1 DEF Choose, ParRecs
      <4>2. ASSUME NEW s, par' = [par EXCEPT !.pc = "mode_set", !.s = s]
            PROVE  par'.pc \notin {"pause", "tts", "resume"}
        BY <1>1, <4>2 DEF ParRecs
      <4>3. \/ \E t : Choose(t, "next_set") \/ Choose(t, "next_late")
            \/ \E s : par' = [par EXCEPT !.pc = "mode_set", !.s = s]
        BY <3>14, Zenon DEF NextSong, PickSong, SetModeGet
      <4> QED
        BY <4>1, <4>2, <4>3
    <3> QED
      BY <1>3, <3>1, <3>2, <3>3, <3>4, <3>5, <3>6, <3>7, <3>8, <3>9, <3>10, <3>11, <3>12, <3>13, <3>14
  <2> QED
    BY <2>1, <2>2 DEF Noted, Undisturbed
<1>4. CASE Dies
  BY <1>4 DEF Dies, events, Noted, Undisturbed, Idle
<1>5. ASSUME NEW command, NEW newFocus, Suspend(command, newFocus)
      PROVE  Noted' /\ (caught => caught' \/ StartSet)
  BY <1>4, <1>5 DEF Suspend, events, Noted, Undisturbed
<1>6. CASE Wrap
  <2>1. caught' = caught
    BY <1>6 DEF Wrap, events
  <2>2. \/ Return \/ GoTo("start")
        \/ \E s : \/ par' = [par EXCEPT !.pc = "wrap_set", !.s = s]
                 \/ par' = [par EXCEPT !.pc = "wrap_late", !.s = s]
    BY <1>6, Zenon DEF Wrap
  <2>3. par'.pc \notin {"pause", "tts", "resume"}
    <3>1. ASSUME NEW s, NEW pc \in {"wrap_set", "wrap_late"},
                 par' = [par EXCEPT !.pc = pc, !.s = s]
          PROVE  par'.pc \notin {"pause", "tts", "resume"}
      BY <1>1, <3>1 DEF ParRecs
    <3>2. CASE Return \/ GoTo("start")
      BY <1>1, <3>2 DEF ParRecs, Return, GoTo, Idle
    <3> QED
      BY <2>2, <3>1, <3>2
  <2> QED
    BY <2>1, <2>3 DEF Noted, Undisturbed
<1>7. CASE (Quit \/ Resume) /\ ~Dies
  <2>1. caught' = caught
    BY <1>7 DEF Quit, Resume, events
  <2>2. par'.pc \notin {"pause", "tts", "resume"}
    BY <1>1, <1>7 DEF Quit, Resume, GoTo, ParRecs
  <2> QED
    BY <2>1, <2>2 DEF Noted, Undisturbed
<1>8. ASSUME NEW c \in Kids, Kid(c)
      PROVE  Noted' /\ (caught => caught' \/ StartSet)
  <2>1. CASE KidEof(c)
    BY <2>1 DEF KidEof, Noted, Undisturbed
  <2>2. CASE ~KidEof(c)
    <3>1. par' = par /\ state' = state /\ caught' = caught
      BY <1>8, <2>2 DEF Kid, KidStop, KidFork, KidReap, KidGet, KidSync, KidFetch,
         KidSet, KidExit, flags, events
    <3> QED
      BY <3>1 DEF Noted, Undisturbed
  <2> QED
    BY <2>1, <2>2
<1>9. ASSUME NEW g \in Grands, Grand(g)
      PROVE  Noted' /\ (caught => caught' \/ StartSet)
  <2>1. par' = par /\ state' = state /\ caught' = caught
    BY <1>9 DEF Grand, GrandSetup, GrandGet, GrandSet, GrandPlay, GrandRead,
       GrandEos, flags, events
  <2> QED
    BY <2>1 DEF Noted, Undisturbed
<1>10. CASE UNCHANGED vars
  BY <1>10 DEF vars, flags, events, Noted, Undisturbed
<1>11. CASE Events \/ Command
  BY <1>2, <1>3, <1>11 DEF Events, Command
<1>12. CASE InCommand
  BY <1>2, <1>3, <1>4, <1>5, <1>6, <1>7, <1>12 DEF InCommand
<1> QED
  BY <1>8, <1>9, <1>10, <1>11, <1>12 DEF Next

\* A start begins without a child that chooses tracks.
LEMMA StartIsFresh ==
  ASSUME Safe, StartSet
  PROVE  PlayInv'
<1>1. par.pc = "start_set" /\ par'.pc = "force" /\ par'.cmd = "force" /\ kid' = kid
  BY DEF StartSet, At, Safe, IInv, TypeOK, ParRecs
<1>2. \A c \in Kids : ~Active(c)
  BY <1>1 DEF Safe, SInv, ChildInv, Childless
<1>3. CopyInv' /\ FetchInv'
  BY <1>1, <1>2 DEF CopyInv, FetchInv, Active
<1>4. EndedInv'
  BY <1>1 DEF EndedInv, Skipping
<1> QED
  BY <1>3, <1>4 DEF PlayInv

LEMMA OfflineInductive ==
  ASSUME Timely, ~Online
  PROVE  Spec => [](OutInv /\ (caught \/ PlayInv))
<1>1. SInv => NotOvertaken
  BY OfflineNeverLate
<1>2. Init => Noted /\ (caught \/ PlayInv)
  BY Init_Safe DEF Init, Idle, Noted, Undisturbed
<1>3. IInv /\ Noted /\ [Next]_vars => Noted'
  BY NotedKept
<1>4. /\ IInv /\ SInv /\ OutInv /\ Noted /\ (caught \/ PlayInv) /\ [Next]_vars
      => (caught \/ PlayInv)'
  <2> SUFFICES ASSUME IInv, SInv, OutInv, Noted, caught \/ PlayInv, [Next]_vars, ~caught'
               PROVE  PlayInv'
    OBVIOUS
  <2>1. Safe
    BY DEF Safe
  <2>2. CASE StartSet
    BY <2>1, <2>2, StartIsFresh
  <2>3. CASE ~StartSet
    <3>1. ~caught
      BY <2>3, NotedKept
    <3> QED
      BY <2>1, <3>1, SafeStep DEF PlayKept, Noted
  <2> QED
    BY <2>2, <2>3
<1> QED
  BY <1>1, <1>2, <1>3, <1>4, Init_Safe, PlaybackInductive, SafetyInductive,
     OutputInductive, PTL DEF Spec

\* player_start_play and the wrap of player_process_async_events never leave
\* two children that choose tracks, online or not, however commands, ends of
\* tracks, page turns and failing requests interleave.
THEOREM StartForksOneChild ==
  ASSUME Timely
  PROVE  Spec => []OneChild
<1>1. SInv => OneChild
  BY DEF SInv, ChildInv, OneChild, Scheduling, Active
<1> QED
  BY <1>1, SafetyInductive, PTL

\* After player_stop_play the pids of shm stay cleared until the next start,
\* online or not: no grandchild that was already forked, and no copy of shm that
\* the parent or a child still held, brings one of them back.
THEOREM StopForgetsPids ==
  ASSUME Timely
  PROVE  Spec => []StopClearsPids
<1>1. SInv => StopClearsPids
  BY DEF SInv, SuppressedInv, StopClearsPids, Quiet, Stopping, At, Named
<1> QED
  BY <1>1, SafetyInductive, PTL

\* What OutInv says of a parent that is back in its loop.
LEMMA QuietOutput ==
  ASSUME IInv, SInv, OutInv
  PROVE  OneOutput /\ StopSilences /\ OutputIsNamed
<1>1. OneOutput
  BY DEF OutInv, OnlyGrand, Live, OneOutput, Readers, Reading
<1>2. ASSUME Quiet, NEW g \in Grands, Audible(g)
      PROVE  state = "PLAY" /\ shm.grand = g /\ shm.child = grand[g].kid
  <2>1. grand[g].pc = "play" /\ Live(g)
    BY <1>2 DEF Audible, Live
  <2>2. shm.grand = g
    BY <2>1 DEF OutInv, NamedInv
  <2>3. grand[g].kid # Nobody
    BY <1>2, <2>1 DEF OutInv, OrphanInv, Quiet, Stopping
  <2>4. grand[g].kid \in Kids /\ Active(grand[g].kid)
    BY <2>1, <2>3 DEF SInv, WaitedInv, Active
  <2> QED
    BY <1>2, <2>2, <2>4 DEF SInv, ChildInv, Quiet, Forking
<1>3. StopSilences
  BY <1>2 DEF StopSilences
<1>4. OutputIsNamed
  BY <1>2 DEF OutputIsNamed
<1> QED
  BY <1>1, <1>3, <1>4

\* Two tracks never sound at once, online or not, as long as no copy of shm
\* that the parent holds over a request to the server is overtaken by a child or
\* a grandchild that registers: only the copies of player_next_song and of
\* player_eof_wrap_or_restart that live that long can break this.
THEOREM OneOutputUnlessOvertaken ==
  ASSUME Timely
  PROVE  Spec /\ []NotOvertaken => []OneOutput
<1>1. IInv /\ SInv /\ OutInv => OneOutput
  BY QuietOutput
<1> QED
  BY <1>1, OutputInductive, PlaybackInductive, SafetyInductive, PTL

\* Under the same condition, when player_stop_play has returned nothing sounds ...
THEOREM StopSilencesUnlessOvertaken ==
  ASSUME Timely
  PROVE  Spec /\ []NotOvertaken => []StopSilences
<1>1. IInv /\ SInv /\ OutInv => StopSilences
  BY QuietOutput
<1> QED
  BY <1>1, OutputInductive, PlaybackInductive, SafetyInductive, PTL

\* ... and what sounds while the loop waits is what shm names, so that the next
\* stop or pause reaches it.
THEOREM OutputNamedUnlessOvertaken ==
  ASSUME Timely
  PROVE  Spec /\ []NotOvertaken => []OutputIsNamed
<1>1. IInv /\ SInv /\ OutInv => OutputIsNamed
  BY QuietOutput
<1> QED
  BY <1>1, OutputInductive, PlaybackInductive, SafetyInductive, PTL

\* Offline no copy is held over a request: one output at most, none after a
\* stop, and the one there is is named in shm, without any further condition.
THEOREM OfflineOutput ==
  ASSUME Timely, ~Online
  PROVE  Spec => [](OneOutput /\ StopSilences /\ OutputIsNamed)
<1>1. IInv /\ SInv /\ OutInv => OneOutput /\ StopSilences /\ OutputIsNamed
  BY QuietOutput
<1> QED
  BY <1>1, OfflineInductive, PlaybackInductive, SafetyInductive, PTL

\* Offline the player is never stuck in PLAY: when the loop waits and the state
\* says that a track plays, a child will choose the next one, or the signal of
\* the end of the list is still to be handled, even when that signal came in the
\* middle of a command that then set the state to PLAY again.  Only a signal
\* between the test of a pause or a continue and what it sets is excepted.
THEOREM OfflinePlayingHasChild ==
  ASSUME Timely, ~Online
  PROVE  Spec => []PlayingHasChild
<1>1. SInv /\ (caught \/ PlayInv) => PlayingHasChild
  <2> SUFFICES ASSUME SInv, PlayInv, Quiet, state = "PLAY", ~eof
               PROVE  \E c \in Kids : Scheduling(c)
    BY DEF PlayingHasChild
  <2>1. PICK c \in Kids : Active(c)
    BY DEF PlayInv, EndedInv, Quiet
  <2>2. Scheduling(c)
    BY <2>1 DEF SInv, ChildInv, Scheduling, Active, Stopping, At, Quiet
  <2> QED
    BY <2>2
<1> QED
  BY <1>1, OfflineInductive, SafetyInductive, PTL

-----------------------------------------------------------------------------
(* Without "next", no copy of the parent is overtaken, online or not.        *)

\* The parent starts a track of its page.
StartPage ==
  /\ At("start_set") \/ Forcing => OnPage(page, par.track)
  /\ At("start_set") \/ At("clear_set") => OnPage(page, par.s.song)
  /\ Forcing => OnPage(page, shm.song)

\* The end of a list is still to be handled, or is being handled without an
\* answer of the server.  A child that was forked since then has the page of the
\* parent and has not left it: the page is turned where the flag is cleared.
Ending == eof \/ At("wrap")
KidOnPage(c) ==
  /\ kid[c].page = page /\ OnPage(page, kid[c].song)
  /\ kid[c].pc \notin {"fetch", "late_set"}
  /\ kid[c].pc \in {"sync", "set"} => OnPage(page, kid[c].s.song)
GrandOnPage(g) == grand[g].page = page /\ OnPage(page, grand[g].song)
KidsOnPage   == Ending => \A c \in Kids : Active(c) => KidOnPage(c)
GrandsOnPage == Ending =>
  \A g \in Grands : Setting(g) /\ grand[g].kid # Nobody => GrandOnPage(g)
ShmOnPage    == Ending /\ (\E c \in Kids : Active(c)) =>
  /\ OnPage(page, shm.song)
  /\ Copying \/ At("pid_set") => OnPage(page, par.s.song)

\* So the wrap asks the server only when no child is left to overtake it.
LateInv ==
  /\ ~At("next_late")
  /\ At("wrap_late") => /\ par.s.child = shm.child /\ par.s.grand = shm.grand
                        /\ \A c \in Kids : ~Active(c)

PageInv == StartPage /\ KidsOnPage /\ GrandsOnPage /\ ShmOnPage /\ LateInv

\* What active children and starting grandchildren know stays as it is.
KidsKept == \A c \in Kids : Active(c)' =>
  /\ kid'[c].pc = kid[c].pc /\ kid'[c].page = kid[c].page
  /\ kid'[c].song = kid[c].song /\ kid'[c].s = kid[c].s
GrandsKept == \A g \in Grands : Setting(g)' =>
  /\ Setting(g) /\ grand'[g].page = grand[g].page /\ grand'[g].song = grand[g].song
  /\ grand'[g].kid = grand[g].kid \/ grand'[g].kid = Nobody

LEMMA KeptOnPage ==
  ASSUME PageInv, page' = page, Ending' => Ending
  PROVE  /\ KidsKept => KidsOnPage'
         /\ GrandsKept => GrandsOnPage'
<1>1. ASSUME KidsKept, Ending', NEW c \in Kids, Active(c)'
      PROVE  KidOnPage(c)'
  <2>1. Active(c) /\ KidOnPage(c)
    BY <1>1 DEF KidsKept, Active, PageInv, KidsOnPage
  <2> QED
    BY <1>1, <2>1 DEF KidsKept, KidOnPage
<1>2. ASSUME GrandsKept, Ending', NEW g \in Grands, Setting(g)', grand'[g].kid # Nobody
      PROVE  GrandOnPage(g)'
  <2>1. Setting(g) /\ grand[g].kid # Nobody /\ GrandOnPage(g)
    BY <1>2 DEF GrandsKept, PageInv, GrandsOnPage
  <2> QED
    BY <1>2, <2>1 DEF GrandsKept, GrandOnPage
<1> QED
  BY <1>1, <1>2 DEF KidsOnPage, GrandsOnPage

LEMMA UnchangedKept == /\ kid' = kid => KidsKept
                       /\ grand' = grand => GrandsKept
BY DEF KidsKept, GrandsKept, Setting

LEMMA UpdatesKept ==
  ASSUME TypeOK
  PROVE  /\ \A pid : kid' = Stopped(pid) => KidsKept
         /\ kid' = [c \in Kids |-> IF kid[c].pc = "zombie" THEN NoKid ELSE kid[c]]
              => KidsKept
         /\ \A c \in Kids : kid' = [kid EXCEPT ![c] = NoKid] => KidsKept
         /\ \A pid : grand' = EndIfAlive(pid) => GrandsKept
         /\ \A pid : grand' = Resumed(pid) => GrandsKept
         /\ \A c : grand' = Orphaned(c) => GrandsKept
         /\ \A g \in Grands : grand' = Ended(grand, g) => GrandsKept
<1> USE DEF TypeOK, KidsKept, GrandsKept
<1>1. ASSUME NEW pid, kid' = Stopped(pid) PROVE KidsKept
  BY <1>1 DEF Stopped, KidRecs
<1>2. ASSUME kid' = [c \in Kids |-> IF kid[c].pc = "zombie" THEN NoKid ELSE kid[c]]
      PROVE  KidsKept
  BY <1>2 DEF NoKid, Active
<1>3. ASSUME NEW c \in Kids, kid' = [kid EXCEPT ![c] = NoKid] PROVE KidsKept
  BY <1>3 DEF NoKid, Active
<1>4. ASSUME NEW g \in Grands, grand' = Ended(grand, g) PROVE GrandsKept
  BY <1>4 DEF Ended, NoGrand, Setting
<1>5. ASSUME NEW pid, grand' = EndIfAlive(pid) PROVE GrandsKept
  BY <1>4, <1>5, UnchangedKept DEF EndIfAlive
<1>6. ASSUME NEW pid, grand' = Resumed(pid) PROVE GrandsKept
  BY <1>6 DEF Resumed, GrandRecs, Setting
<1>7. ASSUME NEW c, grand' = Orphaned(c) PROVE GrandsKept
  BY <1>7 DEF Orphaned, NoGrand, GrandRecs, Setting
<1> QED
  BY <1>1, <1>2, <1>3, <1>4, <1>5, <1>6, <1>7

\* The tracks of a page.
LEMMA FirstIsOnPage ==
  ASSUME NEW p \in 1 .. Pages
  PROVE  OnPage(p, First(p))
BY PageBounds DEF OnPage

LEMMA NextIsOnPage ==
  ASSUME NEW p \in 1 .. Pages, NEW t \in SongIds, NEW mode \in Modes,
         NEW force \in BOOLEAN
  PROVE  /\ LinkNext(p, t, mode, force).ret = 0
              => OnPage(p, LinkNext(p, t, mode, force).track)
         /\ OnPage(p, t) => LinkNext(p, t, mode, force).ret # -1
<1>1. /\ Last(p) \in Int /\ First(p) \in Int /\ First(p) =< Last(p) /\ t \in Int
  BY PageBounds, TotalType DEF SongIds
<1> DEFINE target == IF OnPage(p, t) THEN t ELSE First(p)
<1>2. target \in First(p) .. Last(p)
  BY <1>1 DEF OnPage
<1>3. target # Last(p) => target + 1 \in First(p) .. Last(p)
  BY <1>1, <1>2
<1> QED
  BY <1>2, <1>3 DEF LinkNext, OnPage

\* Where no child is active, nothing that is said of one is lost, and what is
\* about to be started is not touched by another process.
LEMMA NoActiveOnPage ==
  ASSUME SInv, par.pc \notin {"dead", "quit", "kill", "wait_child"},
         \A c \in Kids : ~Active(c)
  PROVE  \A g \in Grands : ~Setting(g)
BY DEF SInv, WaitedInv, SettingInv, Setting, Live, Active, Stopping, At

\* Steps of the parent that copy nothing.
CopiesNothing ==
  /\ par'.pc \notin {"start_set", "clear_set", "pid_set", "wrap"}
  /\ ~Copying'
  /\ Forcing' => Forcing /\ par'.track = par.track

LEMMA KeptPageInv ==
  ASSUME PageInv, CopiesNothing, KidsKept, GrandsKept, page' = page, shm' = shm,
         eof' => eof
  PROVE  PageInv'
<1>1. Ending' => Ending
  BY DEF CopiesNothing, Ending, At
<1>2. KidsOnPage' /\ GrandsOnPage'
  BY <1>1, KeptOnPage
<1>3. \A c \in Kids : Active(c)' => Active(c)
  BY DEF KidsKept, Active
<1>4. ShmOnPage'
  BY <1>1, <1>3 DEF PageInv, ShmOnPage, CopiesNothing, At
<1>5. StartPage' /\ LateInv'
  BY DEF PageInv, StartPage, LateInv, CopiesNothing, At, Copying
<1> QED
  BY <1>2, <1>4, <1>5 DEF PageInv

LEMMA EventOnPage ==
  ASSUME Safe, PageInv, Events
  PROVE  PageInv'
<1>1. TypeOK
  BY DEF Safe, IInv
<1>2. CASE ReapChildren
  <2>1. KidsKept /\ GrandsKept /\ page' = page /\ shm' = shm /\ eof' = eof
    BY <1>1, <1>2, UpdatesKept, UnchangedKept DEF events, ReapChildren
  <2>2. CopiesNothing
    BY <1>1, <1>2 DEF ReapChildren, CopiesNothing, TypeOK, ParRecs, GoTo, Copying, Forcing, At
  <2> QED
    BY <2>1, <2>2, KeptPageInv
<1>3. CASE ClearChildFlag \/ EofDropped
  <2>1. KidsKept /\ GrandsKept /\ page' = page /\ shm' = shm /\ (eof' => eof)
    BY <1>3, UnchangedKept DEF events, ClearChildFlag, EofDropped
  <2>2. CopiesNothing
    BY <1>1, <1>3 DEF ClearChildFlag, EofDropped, CopiesNothing, TypeOK, ParRecs, GoTo,
       Return, Idle, Copying, Forcing, At
  <2> QED
    BY <2>1, <2>2, KeptPageInv
<1>4. CASE EofTurnPage
  <2>1. /\ par' = [par EXCEPT !.pc = "start"] \/ par' = [par EXCEPT !.pc = "wrap"]
        /\ par.pc = "events" /\ par \in ParRecs
        /\ shm' = shm /\ eof /\ ~eof' /\ kid' = kid /\ grand' = grand
    BY <1>1, <1>4 DEF EofTurnPage, TypeOK, GoTo, At
  <2>2. par'.pc \in {"start", "wrap"} /\ par'.cmd = par.cmd
    BY <2>1 DEF ParRecs
  <2>3. StartPage' /\ LateInv'
    BY <2>2 DEF StartPage, LateInv, Forcing, At
  <2>4. CASE par'.pc = "start"
    <3>1. ~Ending'
      BY <2>1, <2>4 DEF Ending, At
    <3> QED
      BY <2>3, <3>1 DEF PageInv, KidsOnPage, GrandsOnPage, ShmOnPage
  <2>5. CASE par'.pc = "wrap"
    <3>1. page' = page
      BY <1>1, <1>4, <2>5 DEF EofTurnPage, GoTo, TypeOK, ParRecs
    <3>2. KidsOnPage' /\ GrandsOnPage'
      BY <2>1, <3>1, KeptOnPage, UnchangedKept DEF events, Ending
    <3>3. ShmOnPage'
      BY <2>1, <2>5, <3>1 DEF PageInv, ShmOnPage, Active, Ending, Copying, At
    <3> QED
      BY <2>3, <3>2, <3>3 DEF PageInv
  <2> QED
    BY <2>2, <2>4, <2>5
<1> QED
  BY <1>2, <1>3, <1>4 DEF Events

LEMMA DiesOnPage ==
  ASSUME Safe, PageInv, Dies
  PROVE  PageInv'
<1>1. TypeOK
  BY DEF Safe, IInv
<1>2. KidsKept /\ GrandsKept /\ page' = page /\ shm' = shm /\ eof' = eof
  BY <1>1, UpdatesKept, UnchangedKept DEF events, Dies
<1>3. CopiesNothing
  BY DEF Dies, CopiesNothing, Idle, Copying, Forcing, At
<1> QED
  BY <1>2, <1>3, KeptPageInv

\* The commands and their steps that neither copy shm nor write it.
LEMMA PlainOnPage ==
  ASSUME Safe, PageInv,
         \/ CmdStart \/ StopPlay \/ CmdContinue \/ CmdSuspend("pause")
         \/ CmdSuspend("tts") \/ Suspend("pause", "PAUSED_MANUAL")
         \/ Suspend("tts", "PAUSED_FOR_TTS") \/ ContinuePlay \/ Resume \/ Quit \/ Kill
         \/ WaitChild \/ ForceGrand \/ StopLast \/ NextApply
  PROVE  PageInv'
<1>1. TypeOK /\ par \in ParRecs
  BY DEF Safe, IInv, TypeOK
<1>2. ParInv
  BY DEF Safe, SInv
<1>3. CASE CmdStart
  <2>1. KidsKept /\ GrandsKept /\ page' = page /\ shm' = shm /\ eof' = eof
    BY <1>1, <1>3, UpdatesKept, UnchangedKept DEF events, CmdStart
  <2>2. CopiesNothing
    BY <1>1, <1>2, <1>3 DEF CmdStart, ParInv, CopiesNothing, ParRecs, GoTo, Return, Idle,
       Given, Copying, Forcing, At
  <2> QED
    BY <2>1, <2>2, KeptPageInv
<1>4. CASE CmdContinue
  <2>1. KidsKept /\ GrandsKept /\ page' = page /\ shm' = shm /\ eof' = eof
    BY <1>1, <1>4, UpdatesKept, UnchangedKept DEF events, CmdContinue
  <2>2. CopiesNothing
    BY <1>1, <1>2, <1>4 DEF CmdContinue, ParInv, CopiesNothing, ParRecs, GoTo, Return, Idle,
       Given, Copying, Forcing, At
  <2> QED
    BY <2>1, <2>2, KeptPageInv
<1>5. CASE StopPlay
  <2>1. KidsKept /\ GrandsKept /\ page' = page /\ shm' = shm /\ eof' = eof
    BY <1>1, <1>5, UpdatesKept, UnchangedKept DEF events, StopPlay
  <2>2. CopiesNothing
    BY <1>1, <1>2, <1>5 DEF StopPlay, ParInv, CopiesNothing, ParRecs, GoTo, Return, Idle,
       Given, Copying, Forcing, At
  <2> QED
    BY <2>1, <2>2, KeptPageInv
<1>6. CASE Kill
  <2>1. KidsKept /\ GrandsKept /\ page' = page /\ shm' = shm /\ eof' = eof
    BY <1>1, <1>6, UpdatesKept, UnchangedKept DEF events, Kill
  <2>2. \/ par' = Idle
        \/ par' = [par EXCEPT !.pc = "wait_child", !.seen = Nobody]
    BY <1>6 DEF Kill, Return
  <2>3. par.pc = "kill"
    BY <1>6 DEF Kill, At
  <2>4. par' = Idle => CopiesNothing
    BY DEF Idle, CopiesNothing, Copying, Forcing, At
  <2>5. par' = [par EXCEPT !.pc = "wait_child", !.seen = Nobody] => CopiesNothing
    BY <1>1, <2>3 DEF ParRecs, CopiesNothing, Copying, Forcing
  <2> QED
    BY <2>1, <2>2, <2>4, <2>5, KeptPageInv
<1>7. CASE ForceGrand
  <2>1. KidsKept /\ GrandsKept /\ page' = page /\ shm' = shm /\ eof' = eof
    BY <1>1, <1>7, UpdatesKept, UnchangedKept DEF events, ForceGrand
  <2>2. CopiesNothing
    BY <1>1, <1>2, <1>7 DEF ForceGrand, ParInv, CopiesNothing, ParRecs, GoTo, Return, Idle,
       Given, Copying, Forcing, At
  <2> QED
    BY <2>1, <2>2, KeptPageInv
<1>8. CASE StopLast
  <2>1. KidsKept /\ GrandsKept /\ page' = page /\ shm' = shm /\ eof' = eof
    BY <1>1, <1>8, UpdatesKept, UnchangedKept DEF events, StopLast
  <2>2. CopiesNothing
    BY <1>1, <1>2, <1>8 DEF StopLast, ParInv, CopiesNothing, ParRecs, GoTo, Return, Idle,
       Given, Copying, Forcing, At
  <2> QED
    BY <2>1, <2>2, KeptPageInv
<1>9. CASE NextApply
  <2>1. KidsKept /\ GrandsKept /\ page' = page /\ shm' = shm /\ eof' = eof
    BY <1>1, <1>9, UpdatesKept, UnchangedKept DEF events, NextApply
  <2>2. CopiesNothing
    BY <1>1, <1>2, <1>9 DEF NextApply, ParInv, CopiesNothing, ParRecs, GoTo, Return, Idle,
       Given, Copying, Forcing, At
  <2> QED
    BY <2>1, <2>2, KeptPageInv
<1>10. CASE Quit /\ ~Dies
  <2>1. KidsKept /\ GrandsKept /\ page' = page /\ shm' = shm /\ eof' = eof
    BY <1>1, <1>10, UpdatesKept, UnchangedKept DEF events, Quit
  <2>2. CopiesNothing
    BY <1>1, <1>2, <1>10 DEF Quit, ParInv, CopiesNothing, ParRecs, GoTo, Return, Idle,
       Given, Copying, Forcing, At
  <2> QED
    BY <2>1, <2>2, KeptPageInv
<1>11. CASE Resume /\ ~Dies
  <2>1. KidsKept /\ GrandsKept /\ page' = page /\ shm' = shm /\ eof' = eof
    BY <1>1, <1>11, UpdatesKept, UnchangedKept DEF events, Resume
  <2>2. CopiesNothing
    BY <1>1, <1>2, <1>11 DEF Resume, ParInv, CopiesNothing, ParRecs, GoTo, Return, Idle,
       Given, Copying, Forcing, At
  <2> QED
    BY <2>1, <2>2, KeptPageInv
<1>12. CASE WaitChild
  <2>1. KidsKept
    BY <1>1, <1>12, UpdatesKept, UnchangedKept, PlaybackAssumption
       DEF events, WaitChild, Alive, Shm, KidPids, ParRecs
  <2>2. GrandsKept /\ page' = page /\ shm' = shm /\ eof' = eof
    BY <1>1, <1>12, UpdatesKept, UnchangedKept DEF events, WaitChild
  <2>3. CopiesNothing
    BY <1>1, <1>2, <1>12 DEF WaitChild, ParInv, CopiesNothing, ParRecs, GoTo, Copying, Forcing, At
  <2> QED
    BY <2>1, <2>2, <2>3, KeptPageInv
<1>13. ASSUME NEW command, NEW newFocus, Suspend(command, newFocus), ~Dies
      PROVE  PageInv'
  <2>1. KidsKept /\ page' = page /\ shm' = shm /\ eof' = eof /\ par' = Idle
    BY <1>13, UnchangedKept DEF events, Suspend, Return
  <2>2. GrandsKept
    <3>1. grand' = grand \/ grand' = [grand EXCEPT ![shm.grand].stopped = TRUE]
      BY <1>13 DEF Suspend
    <3>2. CASE grand' = grand
      BY <3>2, UnchangedKept
    <3>3. CASE grand' = [grand EXCEPT ![shm.grand].stopped = TRUE]
      BY <1>1, <3>3 DEF GrandsKept, TypeOK, GrandRecs, Setting
    <3> QED
      BY <3>1, <3>2, <3>3
  <2>3. CopiesNothing
    BY <2>1 DEF CopiesNothing, Copying, Forcing, At, Idle
  <2> QED
    BY <2>1, <2>2, <2>3, KeptPageInv
<1>14. CASE ContinuePlay
  <2>1. KidsKept /\ GrandsKept /\ page' = page /\ shm' = shm /\ eof' = eof
    BY <1>1, <1>14, UpdatesKept, UnchangedKept DEF events, ContinuePlay
  <2>2. CopiesNothing
    BY <1>1, <1>2, <1>14 DEF ContinuePlay, ParInv, CopiesNothing, ParRecs, GoTo,
       Copying, Forcing, At
  <2> QED
    BY <2>1, <2>2, KeptPageInv
<1>15. CASE CmdSuspend("pause") \/ CmdSuspend("tts")
  <2>1. KidsKept /\ GrandsKept /\ page' = page /\ shm' = shm /\ eof' = eof
    BY <1>1, <1>15, UpdatesKept, UnchangedKept DEF events, CmdSuspend
  <2>2. CopiesNothing
    BY <1>1, <1>2, <1>15 DEF CmdSuspend, ParInv, CopiesNothing, ParRecs, GoTo,
       Given, Copying, Forcing, At
  <2> QED
    BY <2>1, <2>2, KeptPageInv
<1> QED
  BY <1>3, <1>4, <1>5, <1>6, <1>7, <1>8, <1>9, <1>10, <1>11, <1>12, <1>13, <1>14,
     <1>15, DiesOnPage

\* The steps that copy shm or write it back.
LEMMA WrapOnPage ==
  ASSUME Safe, PageInv, Wrap
  PROVE  PageInv'
<1>1. TypeOK /\ par \in ParRecs /\ shm \in Shm /\ page \in 1 .. Pages
  BY DEF Safe, IInv, TypeOK
<1>2. page' = page /\ shm' = shm /\ eof' = eof /\ kid' = kid /\ grand' = grand /\ At("wrap")
  BY DEF Wrap, events
<1>3. KidsOnPage' /\ GrandsOnPage'
  BY <1>2, KeptOnPage, UnchangedKept DEF Ending
<1> DEFINE adv == LinkNext(page, shm.song, shm.mode, TRUE)
<1>4. CASE \E t \in SongIds : OnPage(page, t) /\ par' = [par EXCEPT !.pc = "wrap_set",
                                                          !.s = [shm EXCEPT !.song = t]]
  <2>1. /\ par'.pc = "wrap_set" /\ OnPage(page, par'.s.song)
    BY <1>1, <1>4 DEF ParRecs, Shm
  <2>2. ShmOnPage'
    BY <1>2, <2>1 DEF PageInv, ShmOnPage, Ending, Active
  <2>3. StartPage' /\ LateInv'
    BY <2>1 DEF StartPage, LateInv, Forcing, At
  <2> QED
    BY <1>3, <2>2, <2>3 DEF PageInv
<1>5. CASE /\ adv.ret = -1
           /\ \E t : par' = [par EXCEPT !.pc = "wrap_late", !.s = [shm EXCEPT !.song = t]]
  <2>1. ~OnPage(page, shm.song)
    BY <1>1, <1>5, NextIsOnPage DEF Shm
  <2>2. \A c \in Kids : ~Active(c)
    BY <1>2, <2>1 DEF PageInv, ShmOnPage, Ending
  <2>3. par'.pc = "wrap_late" /\ par'.s.child = shm.child /\ par'.s.grand = shm.grand
    BY <1>1, <1>5 DEF ParRecs, Shm
  <2>4. ShmOnPage' /\ LateInv' /\ StartPage'
    BY <1>2, <2>2, <2>3 DEF ShmOnPage, LateInv, StartPage, Active, Forcing, At
  <2> QED
    BY <1>3, <2>4 DEF PageInv
<1>6. CASE par' = [par EXCEPT !.pc = "start"] \/ par' = Idle
  <2>1. CopiesNothing
    BY <1>1, <1>6 DEF ParRecs, Idle, CopiesNothing, Copying, Forcing, At
  <2> QED
    BY <1>2, <2>1, KeptPageInv, UnchangedKept
<1>7. First(page) \in SongIds /\ OnPage(page, First(page))
  BY <1>1, FirstType, FirstIsOnPage
<1>8. adv.ret = 0 => adv.track \in SongIds /\ OnPage(page, adv.track)
  BY <1>1, LinkNextType, NextIsOnPage DEF Shm
<1>9. \/ \E t \in SongIds : OnPage(page, t) /\ par' = [par EXCEPT !.pc = "wrap_set",
                                                          !.s = [shm EXCEPT !.song = t]]
      \/ /\ adv.ret = -1
         /\ \E t : par' = [par EXCEPT !.pc = "wrap_late", !.s = [shm EXCEPT !.song = t]]
      \/ par' = [par EXCEPT !.pc = "start"] \/ par' = Idle
  <2> HIDE DEF adv
  <2>1. \/ par' = [par EXCEPT !.pc = "start"] \/ par' = Idle
        \/ /\ adv.ret = 0
           /\ par' = [par EXCEPT !.pc = "wrap_set", !.s = [shm EXCEPT !.song = adv.track]]
        \/ par' = [par EXCEPT !.pc = "wrap_set", !.s = [shm EXCEPT !.song = First(page)]]
        \/ /\ adv.ret = -1
           /\ \E t : par' = [par EXCEPT !.pc = "wrap_late", !.s = [shm EXCEPT !.song = t]]
    BY DEF Wrap, GoTo, Return, adv
  <2> QED
    BY <1>7, <1>8, <2>1
<1> QED
  BY <1>4, <1>5, <1>6, <1>9

\* A step back into the loop, or on to the next one, that writes a copy back.
LEMMA WriteOnPage ==
  ASSUME Safe, PageInv, kid' = kid, grand' = grand, page' = page, eof' = eof,
         shm'.song = par.s.song,
         \/ At("wrap_set") \/ At("wrap_late") \/ At("start_set") \/ At("clear_set")
         \/ At("pid_set") \/ At("stop_clear") \/ At("next_set") \/ At("mode_set"),
         par'.pc \notin {"start_set", "clear_set", "pid_set", "wrap"}, ~Copying',
         Forcing' => OnPage(page, par'.track) /\ OnPage(page, shm'.song)
  PROVE  PageInv'
<1>1. Ending' => Ending
  BY DEF Ending, At
<1>2. KidsOnPage' /\ GrandsOnPage'
  BY <1>1, KeptOnPage, UnchangedKept
<1>3. SInv
  BY DEF Safe
<1>4. ShmOnPage'
  <2> SUFFICES ASSUME Ending', NEW c \in Kids, Active(c)
               PROVE  OnPage(page, shm'.song)
    BY DEF ShmOnPage, Active, At
  <2>1. par.pc \notin {"wrap_late", "start_set", "clear_set", "stop_clear"}
    BY <1>3 DEF SInv, ChildInv, Childless, Forcing, PageInv, LateInv, At
  <2> QED
    BY <1>1, <2>1 DEF PageInv, ShmOnPage, Copying, At
<1>5. StartPage' /\ LateInv'
  BY DEF StartPage, LateInv, Copying, At
<1> QED
  BY <1>2, <1>4, <1>5 DEF PageInv

LEMMA SetOnPage ==
  ASSUME Safe, PageInv,
         \/ WrapSet \/ StartSet \/ ClearSet \/ PidSet \/ StopClear \/ NextSet \/ SetModeSet
  PROVE  PageInv'
<1>1. TypeOK /\ par \in ParRecs /\ par.s \in Shm
  BY DEF Safe, IInv, TypeOK, ParRecs
<1>2. par.pc # "next_late"
  BY DEF PageInv, LateInv, At
<1>3. CASE WrapSet
  <2>1. par' = [Idle EXCEPT !.pc = "start"] /\ shm' = par.s
    BY <1>3 DEF WrapSet
  <2>2. par'.pc = "start"
    BY <2>1 DEF Idle
  <2> QED
    BY <1>3, <2>1, <2>2, WriteOnPage DEF WrapSet, events, Copying, Forcing
<1>4. CASE StartSet
  <2>1. /\ par'.pc = "force" /\ par'.track = par.track /\ shm' = par.s /\ At("start_set")
    BY <1>1, <1>4 DEF StartSet, ParRecs
  <2>2. OnPage(page, par'.track) /\ OnPage(page, shm'.song)
    BY <2>1 DEF PageInv, StartPage
  <2> QED
    BY <1>4, <2>1, <2>2, WriteOnPage DEF StartSet, events, Copying
<1>5. CASE ClearSet
  <2>1. /\ par'.pc = "fork" /\ par'.track = par.track /\ shm' = par.s /\ At("clear_set")
    BY <1>1, <1>5 DEF ClearSet, ParRecs
  <2>2. OnPage(page, par'.track) /\ OnPage(page, shm'.song)
    BY <2>1 DEF PageInv, StartPage, Forcing, At
  <2> QED
    BY <1>5, <2>1, <2>2, WriteOnPage DEF ClearSet, events, Copying
<1>6. CASE PidSet \/ StopClear \/ SetModeSet
  <2>1. par' = Idle /\ shm' = par.s
    BY <1>6 DEF PidSet, StopClear, SetModeSet, Return
  <2>2. par'.pc = "idle"
    BY <2>1 DEF Idle
  <2> QED
    BY <1>6, <2>1, <2>2, WriteOnPage DEF PidSet, StopClear, SetModeSet, events, Copying, Forcing
<1>7. CASE NextSet
  <2>1. par'.pc \in {"start", "next_apply"} /\ shm'.song = par.s.song
    BY <1>1, <1>7 DEF NextSet, Idle, Shm
  <2> QED
    BY <1>2, <1>7, <2>1, WriteOnPage DEF NextSet, events, Copying, Forcing, At
<1> QED
  BY <1>3, <1>4, <1>5, <1>6, <1>7

LEMMA GetOnPage ==
  ASSUME Safe, PageInv, "next" \notin Commands,
         \/ StartPlay \/ ForceStop \/ PidGet \/ NextSong \/ PickSong \/ SetModeGet
  PROVE  PageInv'
<1>1. TypeOK /\ par \in ParRecs /\ shm \in Shm /\ page \in 1 .. Pages
  BY DEF Safe, IInv, TypeOK
<1>2. /\ KidsKept /\ GrandsKept /\ page' = page /\ shm' = shm /\ eof' = eof
      /\ \A c \in Kids : Active(c)' => Active(c)
  <2>1. KidsKept
    <3>1. CASE ForceStop
      BY <1>1, <3>1, UpdatesKept, UnchangedKept DEF ForceStop
    <3>2. CASE \/ StartPlay \/ PidGet \/ NextSong \/ PickSong \/ SetModeGet
      BY <3>2, UnchangedKept DEF StartPlay, PidGet, NextSong, PickSong, SetModeGet
    <3> QED
      BY <3>1, <3>2
  <2>2. GrandsKept /\ page' = page /\ shm' = shm /\ eof' = eof
    BY UnchangedKept DEF StartPlay, ForceStop, PidGet, NextSong, PickSong, SetModeGet,
       Given, events
  <2> QED
    BY <2>1, <2>2 DEF KidsKept, Active
\* A copy for the way back into the loop, made of a shm whose track is kept or
\* is one of the page.
<1>3. ASSUME par'.pc \in {"pid_set", "next_set", "mode_set"},
             par'.s.song = shm.song \/ OnPage(page, par'.s.song)
      PROVE  PageInv'
  <2>1. Ending' => Ending
    BY <1>2, <1>3 DEF Ending, At
  <2>2. KidsOnPage' /\ GrandsOnPage'
    BY <1>2, <2>1, KeptOnPage
  <2>3. ShmOnPage'
    BY <1>2, <1>3, <2>1 DEF PageInv, ShmOnPage
  <2>4. StartPage' /\ LateInv'
    BY <1>3 DEF StartPage, LateInv, Forcing, At
  <2> QED
    BY <2>2, <2>3, <2>4 DEF PageInv
\* A copy on the way to a fork.
<1>4. ASSUME par'.pc \in {"start_set", "clear_set"}, OnPage(page, par'.track),
             OnPage(page, par'.s.song), par'.pc = "clear_set" => OnPage(page, shm.song)
      PROVE  PageInv'
  <2>1. Ending' => Ending
    BY <1>2, <1>4 DEF Ending, At
  <2>2. KidsOnPage' /\ GrandsOnPage'
    BY <1>2, <2>1, KeptOnPage
  <2>3. ShmOnPage'
    BY <1>2, <1>4, <2>1 DEF PageInv, ShmOnPage, Copying, At
  <2>4. StartPage' /\ LateInv'
    BY <1>2, <1>4 DEF StartPage, LateInv, Forcing, At
  <2> QED
    BY <2>2, <2>3, <2>4 DEF PageInv
<1>5. CASE StartPlay
  <2> DEFINE t == IF OnPage(page, shm.song) THEN shm.song ELSE First(page)
  <2>1. OnPage(page, t)
    BY <1>1, FirstIsOnPage
  <2> HIDE DEF t
  <2>2. CASE par' = [par EXCEPT !.pc = "start_set", !.track = t, !.s = [shm EXCEPT !.song = t]]
    <3>1. par'.pc = "start_set" /\ par'.track = t /\ par'.s.song = t
      BY <1>1, <2>2 DEF ParRecs, Shm
    <3> QED
      BY <1>4, <2>1, <3>1
  <2>3. CASE par' = Idle \/ par' = [par EXCEPT !.pc = "continue"]
    <3>1. CopiesNothing
      BY <1>1, <2>3 DEF ParRecs, Idle, CopiesNothing, Copying, Forcing, At
    <3> QED
      BY <1>2, <3>1, KeptPageInv
  <2> QED
    BY <1>5, <2>2, <2>3 DEF StartPlay, Return, GoTo, t
<1>6. CASE ForceStop
  <2>1. At("force") /\ OnPage(page, par.track) /\ OnPage(page, shm.song)
    BY <1>6 DEF ForceStop, PageInv, StartPage, Forcing, At
  <2>2. par.cmd = "force"
    BY <2>1 DEF Safe, SInv, ParInv, At
  <2>3. CASE par' = [par EXCEPT !.pc = "quit", !.s = shm]
    <3>1. CopiesNothing
      BY <1>1, <2>1, <2>3 DEF ParRecs, CopiesNothing, Copying, Forcing, At
    <3> QED
      BY <1>2, <3>1, KeptPageInv
  <2>4. CASE par' = [par EXCEPT !.pc = "clear_set", !.retry = 0,
                       !.s = [shm EXCEPT !.child = Nobody, !.grand = Nobody]]
    <3>1. par'.pc = "clear_set" /\ par'.track = par.track /\ par'.s.song = shm.song
      BY <1>1, <2>4 DEF ParRecs, Shm
    <3> QED
      BY <1>4, <2>1, <3>1
  <2> QED
    BY <1>6, <2>3, <2>4 DEF ForceStop
<1>7. CASE PidGet
  <2>1. par'.pc = "pid_set" /\ par'.s.song = shm.song /\ par.pc = "pid_get"
    BY <1>1, <1>7 DEF PidGet, ParRecs, Shm, At
  <2> QED
    BY <1>3, <2>1
<1>8. CASE PickSong
  <2>1. PICK t \in First(page) .. Last(page) : Choose(t, "next_set")
    BY <1>8 DEF PickSong
  <2>2. par'.pc = "next_set" /\ par'.s.song = t /\ par.pc = "idle"
    BY <1>1, <1>8, <2>1 DEF Choose, ParRecs, Shm, PickSong, Given, At
  <2> QED
    BY <1>3, <2>1, <2>2 DEF OnPage
<1>9. CASE SetModeGet
  <2>1. par'.pc = "mode_set" /\ par'.s.song = shm.song /\ par.pc = "idle"
    BY <1>1, <1>9 DEF SetModeGet, ParRecs, Shm, Given, At
  <2> QED
    BY <1>3, <2>1
<1>10. ~NextSong
  BY DEF NextSong, Given
<1> QED
  BY <1>5, <1>6, <1>7, <1>8, <1>9, <1>10

LEMMA ForkOnPage ==
  ASSUME Safe, PageInv, ForkChild
  PROVE  PageInv'
<1>1. TypeOK /\ SInv
  BY DEF Safe, IInv
<1>2. PICK c \in Kids :
        /\ Fresh(c)
        /\ kid' = [kid EXCEPT ![c] = [NoKid EXCEPT !.pc = "top",
                     !.song = par.track, !.url = par.track, !.page = page]]
        /\ par' = [Idle EXCEPT !.pc = "pid_get", !.s = [NoCopy EXCEPT !.child = c]]
  BY DEF ForkChild
<1>3. /\ At("fork") /\ page' = page /\ shm' = shm /\ grand' = grand /\ eof' = eof
      /\ par'.pc = "pid_get"
  BY <1>2 DEF ForkChild, events, Idle
<1>4. OnPage(page, par.track) /\ OnPage(page, shm.song)
  BY <1>3 DEF PageInv, StartPage, Forcing, At
<1>5. \A d \in Kids : ~Active(d)
  BY <1>1, <1>3 DEF SInv, ChildInv, Childless, Forcing, At
<1>6. \A g \in Grands : ~Setting(g)
  BY <1>1, <1>3, <1>5, NoActiveOnPage DEF At
<1>7. KidsOnPage'
  <2> SUFFICES ASSUME NEW d \in Kids, Active(d)'
               PROVE  KidOnPage(d)'
    BY DEF KidsOnPage
  <2>1. d = c
    BY <1>1, <1>2, <1>5 DEF Active, TypeOK
  <2>2. kid'[c].pc = "top" /\ kid'[c].page = page /\ kid'[c].song = par.track
    BY <1>1, <1>2 DEF TypeOK, NoKid
  <2> QED
    BY <1>3, <1>4, <2>1, <2>2 DEF KidOnPage
<1>8. GrandsOnPage' /\ ShmOnPage'
  BY <1>3, <1>4, <1>6 DEF GrandsOnPage, ShmOnPage, Setting, Copying, At
<1>9. StartPage' /\ LateInv'
  BY <1>3 DEF StartPage, LateInv, Forcing, At
<1> QED
  BY <1>7, <1>8, <1>9 DEF PageInv

LEMMA ParentOnPage ==
  ASSUME Safe, PageInv, "next" \notin Commands, Events \/ Command \/ InCommand
  PROVE  PageInv'
BY EventOnPage, PlainOnPage, WrapOnPage, SetOnPage, GetOnPage, ForkOnPage DEF Command, InCommand

\* The steps of a child and a grandchild that leave shm alone.
LEMMA OthersPageInv ==
  ASSUME PageInv, par' = par, page' = page, shm' = shm, eof' = eof,
         KidsOnPage', GrandsOnPage', \A c \in Kids : Active(c)' => Active(c)
  PROVE  PageInv'
<1>1. StartPage' /\ LateInv'
  BY DEF PageInv, StartPage, LateInv, Forcing, At
<1>2. ShmOnPage'
  BY DEF PageInv, ShmOnPage, Ending, Copying, At
<1> QED
  BY <1>1, <1>2 DEF PageInv

LEMMA KidStepOnPage ==
  ASSUME Safe, PageInv, NEW c \in Kids, Kid(c)
  PROVE  PageInv'
<1>1. TypeOK /\ SInv /\ kid[c] \in KidRecs /\ page \in 1 .. Pages /\ shm \in Shm
  BY DEF Safe, IInv, TypeOK
<1>2. ASSUME NEW d \in Kids, d # c, Active(c)
      PROVE  ~Active(d)
  BY <1>2, OneActive
\* An active child that goes on.
<1>3. ASSUME Active(c), par' = par, page' = page, shm' = shm, eof' = eof, GrandsOnPage',
             kid' = [kid EXCEPT ![c] = kid'[c]], KidOnPage(c) => KidOnPage(c)' \/ ~Active(c)'
      PROVE  PageInv'
  <2>1. \A d \in Kids : Active(d)' => d = c
    BY <1>1, <1>2, <1>3 DEF TypeOK, Active
  <2>2. Ending' => Ending
    BY <1>3 DEF Ending, At
  <2>3. KidsOnPage'
    BY <1>3, <2>1, <2>2 DEF PageInv, KidsOnPage
  <2> QED
    BY <1>3, <2>1, <2>3, OthersPageInv
<1>4. CASE KidExit(c)
  <2>1. KidsKept
    BY <1>1, <1>4 DEF KidExit, KidsKept, Active, NoKid, TypeOK
  <2>2. GrandsKept
    BY <1>1, <1>4, UpdatesKept DEF KidExit
  <2>3. par' = par /\ page' = page /\ shm' = shm /\ eof' = eof
    BY <1>4 DEF KidExit
  <2>4. Ending' => Ending
    BY <2>3 DEF Ending, At
  <2> QED
    BY <2>1, <2>2, <2>3, <2>4, KeptOnPage, OthersPageInv DEF KidsKept, Active
<1>5. CASE KidFork(c)
  <2>1. PICK g \in Grands : grand' = [grand EXCEPT ![g] = [NoGrand EXCEPT !.pc = "born",
                       !.kid = c, !.page = kid[c].page,
                       !.song = kid[c].song, !.url = kid[c].url]]
    BY <1>5 DEF KidFork
  <2>2. /\ Active(c) /\ kid' = [kid EXCEPT ![c].pc = "wait"]
        /\ par' = par /\ page' = page /\ shm' = shm /\ eof' = eof
    BY <1>5 DEF KidFork, KidAt, KidGoTo, Active, events
  <2>3. GrandsOnPage'
    <3> SUFFICES ASSUME Ending, NEW h \in Grands, Setting(h)', grand'[h].kid # Nobody
                 PROVE  GrandOnPage(h)'
      BY <2>2 DEF GrandsOnPage, Ending, At
    <3>1. CASE h = g
      BY <1>1, <2>1, <2>2, <3>1 DEF PageInv, KidsOnPage, KidOnPage, GrandOnPage, TypeOK, NoGrand
    <3>2. CASE h # g
      BY <1>1, <2>1, <2>2, <3>2 DEF PageInv, GrandsOnPage, GrandOnPage, Setting, TypeOK
    <3> QED
      BY <3>1, <3>2
  <2>4. kid' = [kid EXCEPT ![c] = kid'[c]] /\ (KidOnPage(c) => KidOnPage(c)')
    BY <1>1, <2>2 DEF TypeOK, KidRecs, KidOnPage
  <2> QED
    BY <1>3, <2>2, <2>3, <2>4
<1>6. CASE KidReap(c)
  <2>1. PICK g \in Grands : grand[g].pc = "zombie" /\ grand' = [grand EXCEPT ![g] = NoGrand]
    BY <1>6 DEF KidReap
  <2>2. /\ Active(c) /\ kid' = [kid EXCEPT ![c].pc = "after"]
        /\ par' = par /\ page' = page /\ shm' = shm /\ eof' = eof
    BY <1>6 DEF KidReap, KidAt, KidGoTo, Active, events
  <2>3. GrandsKept
    BY <1>1, <2>1 DEF GrandsKept, Setting, NoGrand, TypeOK
  <2>4. GrandsOnPage'
    BY <2>2, <2>3, KeptOnPage DEF Ending, At
  <2>5. kid' = [kid EXCEPT ![c] = kid'[c]] /\ (KidOnPage(c) => KidOnPage(c)')
    BY <1>1, <2>2 DEF TypeOK, KidRecs, KidOnPage
  <2> QED
    BY <1>3, <2>2, <2>4, <2>5
<1>7. ASSUME grand' = grand, page' = page, eof' = eof, par' = par
      PROVE  GrandsOnPage'
  BY <1>7, KeptOnPage, UnchangedKept DEF Ending, At
<1>8. CASE KidGet(c)
  <2>1. /\ Active(c) /\ kid' = [kid EXCEPT ![c].pc = "sync", ![c].s = shm] /\ grand' = grand
        /\ par' = par /\ page' = page /\ shm' = shm /\ eof' = eof
    BY <1>8 DEF KidGet, KidAt, Active, events
  <2>2. /\ kid' = [kid EXCEPT ![c] = kid'[c]] /\ kid'[c].pc = "sync" /\ kid'[c].s = shm
        /\ kid'[c].page = kid[c].page /\ kid'[c].song = kid[c].song
    BY <1>1, <2>1 DEF TypeOK, KidRecs
  <2>3. Ending => OnPage(page, shm.song)
    BY <2>1 DEF PageInv, ShmOnPage
  <2>4. CASE Ending
    BY <1>3, <1>7, <2>1, <2>2, <2>3, <2>4 DEF KidOnPage
  <2>5. CASE ~Ending
    <3>1. ~Ending'
      BY <2>1, <2>5 DEF Ending, At
    <3>2. \A d \in Kids : Active(d)' => Active(d)
      BY <1>1, <2>1 DEF TypeOK, Active
    <3> QED
      BY <2>1, <3>1, <3>2, OthersPageInv DEF KidsOnPage, GrandsOnPage
  <2> QED
    BY <2>4, <2>5
<1>9. CASE KidSync(c)
  <2> DEFINE next == LinkNext(kid[c].page, kid[c].s.song, kid[c].s.mode, FALSE)
  <2>1. /\ Active(c) /\ grand' = grand
        /\ par' = par /\ page' = page /\ shm' = shm /\ eof' = eof
    BY <1>9 DEF KidSync, KidAt, Active, events
  <2>2. kid[c].s \in Shm /\ kid[c].page \in 1 .. Pages
    BY <1>1 DEF KidRecs
  <2>3. /\ next.ret = 0 => OnPage(kid[c].page, next.track)
        /\ OnPage(kid[c].page, kid[c].s.song) => next.ret # -1
    BY <2>2, NextIsOnPage DEF Shm
  <2>4. KidOnPage(c) => OnPage(page, kid[c].s.song) /\ kid[c].page = page
    BY <1>9 DEF KidSync, KidAt, KidOnPage
  <2> HIDE DEF next
  <2>5. \/ \E url : kid' = [kid EXCEPT ![c] = [NoKid EXCEPT !.pc = "top",
                 !.stop = kid[c].stop, !.page = kid[c].page, !.song = kid[c].s.song, !.url = url]]
        \/ /\ next.ret = 0
           /\ kid' = [kid EXCEPT ![c].pc = "set", ![c].song = next.track, ![c].url = next.track]
        \/ next.ret = -1 /\ kid' = [kid EXCEPT ![c].pc = "fetch"]
        \/ kid' = [kid EXCEPT ![c].pc = "eof"]
    BY <1>9 DEF KidSync, KidGoTo, next
  <2>6. CASE \E url : kid' = [kid EXCEPT ![c] = [NoKid EXCEPT !.pc = "top",
                 !.stop = kid[c].stop, !.page = kid[c].page, !.song = kid[c].s.song, !.url = url]]
    <3>1. /\ kid' = [kid EXCEPT ![c] = kid'[c]] /\ kid'[c].pc = "top"
          /\ kid'[c].page = kid[c].page /\ kid'[c].song = kid[c].s.song
      BY <1>1, <2>6 DEF TypeOK, NoKid
    <3> QED
      BY <1>3, <1>7, <2>1, <2>4, <3>1 DEF KidOnPage
  <2>7. CASE /\ next.ret = 0
             /\ kid' = [kid EXCEPT ![c].pc = "set", ![c].song = next.track, ![c].url = next.track]
    <3>1. /\ kid' = [kid EXCEPT ![c] = kid'[c]] /\ kid'[c].pc = "set"
          /\ kid'[c].page = kid[c].page /\ kid'[c].song = next.track /\ kid'[c].s = kid[c].s
      BY <1>1, <2>7 DEF TypeOK, KidRecs
    <3> QED
      BY <1>3, <1>7, <2>1, <2>3, <2>4, <2>7, <3>1 DEF KidOnPage
  <2>8. CASE \/ next.ret = -1 /\ kid' = [kid EXCEPT ![c].pc = "fetch"]
             \/ kid' = [kid EXCEPT ![c].pc = "eof"]
    <3>1. /\ kid' = [kid EXCEPT ![c] = kid'[c]]
          /\ kid'[c].pc = "eof" \/ (next.ret = -1 /\ kid'[c].pc = "fetch")
          /\ kid'[c].page = kid[c].page /\ kid'[c].song = kid[c].song
      BY <1>1, <2>8 DEF TypeOK, KidRecs
    <3>2. KidOnPage(c) => KidOnPage(c)'
      BY <2>1, <2>3, <2>4, <3>1 DEF KidOnPage
    <3> QED
      BY <1>3, <1>7, <2>1, <3>1, <3>2
  <2> QED
    BY <2>5, <2>6, <2>7, <2>8
\* Beyond its page a child goes only when no end of a list is to be handled.
<1>10. CASE KidFetch(c) /\ ~KidExit(c)
  <2>1. PICK t : kid' = [kid EXCEPT ![c].pc = "late_set", ![c].song = t, ![c].url = t]
    BY <1>10 DEF KidFetch
  <2>2. /\ Active(c) /\ ~KidOnPage(c) /\ grand' = grand
        /\ par' = par /\ page' = page /\ shm' = shm /\ eof' = eof
    BY <1>10 DEF KidFetch, KidAt, Active, KidOnPage, events
  <2>3. kid' = [kid EXCEPT ![c] = kid'[c]]
    BY <1>1, <2>1 DEF TypeOK, KidRecs
  <2> QED
    BY <1>3, <1>7, <2>2, <2>3
<1>11. CASE KidSet(c)
  <2>1. /\ Active(c) /\ shm' = [kid[c].s EXCEPT !.song = kid[c].song] /\ grand' = grand
        /\ par' = par /\ page' = page /\ eof' = eof
        /\ kid' = [kid EXCEPT ![c].pc = "top", ![c].s = NoCopy]
        /\ ~KidAt(c, "set") => ~KidOnPage(c)
    BY <1>11 DEF KidSet, KidAt, Active, KidOnPage, events
  <2>2. /\ kid'[c].pc = "top" /\ kid'[c].page = kid[c].page /\ kid'[c].song = kid[c].song
        /\ shm'.song = kid[c].song
    BY <1>1, <2>1 DEF TypeOK, KidRecs, Shm
  <2>3. \A d \in Kids : Active(d)' => d = c
    BY <1>1, <1>2, <2>1 DEF TypeOK, Active
  <2>4. ~Forcing /\ par.pc # "start_set"
    BY <1>1, <2>1 DEF SInv, ChildInv, Childless, At
  <2>5. StartPage' /\ LateInv'
    BY <2>1, <2>4 DEF PageInv, StartPage, LateInv, Forcing, At
  <2>6. Ending => KidOnPage(c) /\ (Copying \/ At("pid_set") => OnPage(page, par.s.song))
    BY <2>1 DEF PageInv, KidsOnPage, ShmOnPage
  <2>7. KidsOnPage' /\ ShmOnPage'
    BY <2>1, <2>2, <2>3, <2>6 DEF KidsOnPage, ShmOnPage, KidOnPage, Ending, Copying, At
  <2> QED
    BY <1>7, <2>1, <2>5, <2>7 DEF PageInv
\* The child that has signalled the end of the list was the only one.
<1>12. CASE KidEof(c)
  <2>1. /\ Active(c) /\ kid' = [kid EXCEPT ![c].pc = "eof_sent", ![c].s = NoCopy]
        /\ grand' = grand /\ par' = par /\ page' = page /\ shm' = shm
    BY <1>12 DEF KidEof, KidAt, Active
  <2>2. \A d \in Kids : ~Active(d)'
    BY <1>1, <1>2, <2>1 DEF TypeOK, KidRecs, Active
  <2>3. KidsOnPage' /\ ShmOnPage'
    BY <2>2 DEF KidsOnPage, ShmOnPage
  <2>4. StartPage' /\ LateInv'
    BY <2>1, <2>2 DEF PageInv, StartPage, LateInv, Forcing, At
  <2>5. \A g \in Grands : Setting(g) => grand[g].kid = Nobody
    BY <1>1, <1>12, OneActive, <2>1 DEF SInv, WaitedInv, Setting, Live, Active, KidEof, KidAt
  <2>6. GrandsOnPage'
    BY <2>1, <2>5 DEF GrandsOnPage, Setting
  <2> QED
    BY <2>3, <2>4, <2>6 DEF PageInv
<1> QED
  BY <1>4, <1>5, <1>6, <1>8, <1>9, <1>10, <1>11, <1>12 DEF Kid, KidStop

LEMMA GrandStepOnPage ==
  ASSUME Safe, PageInv, NEW g \in Grands, Grand(g)
  PROVE  PageInv'
<1>1. TypeOK /\ SInv /\ grand[g] \in GrandRecs /\ shm \in Shm
  BY DEF Safe, IInv, TypeOK
<1>2. ASSUME Setting(g), NEW c \in Kids, Active(c)
      PROVE  grand[g].kid # Nobody /\ (Ending => GrandOnPage(g))
  BY <1>1, <1>2 DEF SInv, SettingInv, PageInv, GrandsOnPage
<1>3. ASSUME par' = par, page' = page, shm' = shm, eof' = eof, kid' = kid, GrandsKept
      PROVE  PageInv'
  <2>1. Ending' => Ending
    BY <1>3 DEF Ending, At
  <2> QED
    BY <1>3, <2>1, KeptOnPage, UnchangedKept, OthersPageInv DEF Active
<1>4. CASE GrandGet(g)
  <2>1. /\ par' = par /\ page' = page /\ shm' = shm /\ eof' = eof /\ kid' = kid
        /\ Setting(g)
    BY <1>4 DEF GrandGet, GrandAt, Setting, events
  <2>2. PICK song, url : grand' = [grand EXCEPT ![g].pc = "register", ![g].s = shm,
                               ![g].song = song, ![g].url = url]
                         /\ (OnPage(grand[g].page, song) \/ song = grand[g].song)
    BY <1>4 DEF GrandGet
  <2>3. Ending' => Ending
    BY <2>1 DEF Ending, At
  <2>4. GrandsOnPage'
    <3> SUFFICES ASSUME Ending, NEW h \in Grands, Setting(h)', grand'[h].kid # Nobody
                 PROVE  GrandOnPage(h)'
      BY <2>3 DEF GrandsOnPage
    <3>1. Setting(h) /\ grand[h].kid = grand'[h].kid /\ grand[h].page = grand'[h].page
      BY <1>1, <2>1, <2>2 DEF TypeOK, GrandRecs, Setting
    <3>2. GrandOnPage(h)
      BY <3>1 DEF PageInv, GrandsOnPage
    <3>3. h # g => grand'[h].song = grand[h].song
      BY <1>1, <2>2 DEF TypeOK
    <3>4. h = g => grand'[h].song = song
      BY <1>1, <2>2 DEF TypeOK, GrandRecs
    <3> QED
      BY <2>1, <2>2, <3>1, <3>2, <3>3, <3>4 DEF GrandOnPage
  <2> QED
    BY <2>1, <2>3, <2>4, KeptOnPage, UnchangedKept, OthersPageInv DEF Active
<1>5. CASE GrandSet(g)
  <2>1. /\ par' = par /\ page' = page /\ eof' = eof /\ kid' = kid /\ Setting(g)
        /\ shm' = [grand[g].s EXCEPT !.child = grand[g].kid, !.grand = g,
                                     !.song = grand[g].song]
        /\ grand' = [grand EXCEPT ![g].pc = "open", ![g].s = NoCopy]
    BY <1>5 DEF GrandSet, GrandAt, Setting, events
  <2>2. shm'.song = grand[g].song
    BY <1>1, <2>1 DEF GrandRecs, Shm
  <2>3. GrandsKept
    BY <1>1, <2>1 DEF TypeOK, GrandRecs, GrandsKept, Setting
  <2>4. KidsOnPage' /\ GrandsOnPage'
    BY <2>1, <2>3, KeptOnPage, UnchangedKept DEF Ending, At
  <2>5. \/ \E c \in Kids : Active(c)
        \/ par.pc \in {"dead", "quit", "kill", "wait_child"}
    BY <1>1, <2>1, NoActiveOnPage
  <2>6. ~Forcing /\ par.pc # "start_set" /\ ~At("wrap_late")
    <3>1. CASE \E c \in Kids : Active(c)
      BY <1>1, <3>1 DEF SInv, ChildInv, Childless, PageInv, LateInv, At
    <3>2. CASE par.pc \in {"dead", "quit", "kill", "wait_child"} /\ \A c \in Kids : ~Active(c)
      <4>1. Stopping \/ At("dead")
        BY <1>1, <2>1, <3>2 DEF SInv, SettingInv, WaitedInv, Setting, Live, Active
      <4> QED
        BY <3>2, <4>1 DEF Stopping, Forcing, At
    <3> QED
      BY <2>5, <3>1, <3>2
  <2>7. StartPage' /\ LateInv'
    BY <2>1, <2>6 DEF PageInv, StartPage, LateInv, Forcing, At
  <2>8. ShmOnPage'
    <3> SUFFICES ASSUME Ending, NEW c \in Kids, Active(c)
                 PROVE  /\ OnPage(page, shm'.song)
                        /\ Copying \/ At("pid_set") => OnPage(page, par.s.song)
      BY <2>1 DEF ShmOnPage, Ending, Active, Copying, At
    <3> QED
      BY <1>2, <2>1, <2>2 DEF GrandOnPage, PageInv, ShmOnPage
  <2> QED
    BY <2>4, <2>7, <2>8 DEF PageInv
<1>6. CASE GrandPlay(g) \/ GrandRead(g) \/ GrandEos(g)
  <2>1. /\ par' = par /\ page' = page /\ shm' = shm /\ eof' = eof /\ kid' = kid
        /\ \/ grand' = Ended(grand, g)
           \/ grand' = [grand EXCEPT ![g].pc = "play"]
           \/ grand' = [grand EXCEPT ![g].paused = ~@]
    BY <1>6 DEF GrandPlay, GrandRead, GrandEos, events
  <2>2. grand' = [grand EXCEPT ![g].pc = "play"] => GrandsKept
    BY <1>1 DEF TypeOK, GrandRecs, GrandsKept, Setting
  <2>3. grand' = [grand EXCEPT ![g].paused = ~@] => GrandsKept
    BY <1>1 DEF TypeOK, GrandRecs, GrandsKept, Setting
  <2> QED
    BY <1>1, <1>3, <2>1, <2>2, <2>3, UpdatesKept
<1> QED
  BY <1>4, <1>5, <1>6 DEF Grand, GrandSetup

LEMMA PageInductive ==
  ASSUME Timely, "next" \notin Commands
  PROVE  Spec => []PageInv
<1>1. Init => PageInv
  BY DEF Init, Idle, NoKid, PageInv, StartPage, KidsOnPage, GrandsOnPage, ShmOnPage,
     LateInv, Forcing, Ending, At
<1>2. IInv /\ SInv /\ PageInv /\ [Next]_vars => PageInv'
  <2> SUFFICES ASSUME Safe, PageInv, [Next]_vars
               PROVE  PageInv'
    BY DEF Safe
  <2>1. CASE UNCHANGED vars
    <3>1. /\ par' = par /\ page' = page /\ shm' = shm /\ eof' = eof /\ kid' = kid
          /\ grand' = grand
      BY <2>1 DEF vars, events
    <3>2. Ending' => Ending
      BY <3>1 DEF Ending, At
    <3> QED
      BY <3>1, <3>2, KeptOnPage, UnchangedKept, OthersPageInv DEF Active
  <2>2. CASE Next
    BY <2>2, ParentOnPage, KidStepOnPage, GrandStepOnPage DEF Next
  <2> QED
    BY <2>1, <2>2
<1> QED
  BY <1>1, <1>2, PlaybackInductive, SafetyInductive, PTL DEF Spec

\* Without "next" two tracks never sound at once, nothing sounds after a stop,
\* and what sounds is what shm names, online or not, with no condition on the
\* order of steps: the wrap of the list holds its copy over a request only when
\* no child is left.  What "next" adds is the violation of the two outputs.
THEOREM OutputWithoutNext ==
  ASSUME Timely, "next" \notin Commands
  PROVE  Spec => [](OneOutput /\ StopSilences /\ OutputIsNamed)
<1>1. PageInv => NotOvertaken
  BY DEF PageInv, LateInv, NotOvertaken, Late, At
<1>2. IInv /\ SInv /\ OutInv => OneOutput /\ StopSilences /\ OutputIsNamed
  BY QuietOutput
<1> QED
  BY <1>1, <1>2, PageInductive, PlaybackInductive, SafetyInductive, OutputInductive, PTL

-----------------------------------------------------------------------------
(* The name and the URL of a track.                                          *)

\* On one page, what a child hands to its grandchild, and what the grandchild
\* plays, has the URL of the track it names.
KidsMatch(f)   == \A c \in Kids : f[c].url = f[c].song
GrandsMatch(f) == \A g \in Grands : f[g].url = f[g].song
NameInv == KidsMatch(kid) /\ GrandsMatch(grand)

LEMMA OnlyPage ==
  ASSUME Pages = 1, NEW p \in 1 .. Pages, NEW t \in SongIds, t # NoTrack
  PROVE  OnPage(p, t)
<1>1. p = 1 /\ PageSize \in Nat
  BY PlaybackAssumption
<1>2. First(p) = 0 /\ Last(p) = PageSize - 1 /\ Total = PageSize
  BY <1>1 DEF First, Last, Total
<1> QED
  BY <1>1, <1>2 DEF OnPage, SongIds, NoTrack

LEMMA UpdatesMatch ==
  ASSUME TypeOK, NameInv
  PROVE  /\ \A pid : KidsMatch(Stopped(pid))
         /\ KidsMatch([c \in Kids |-> IF kid[c].pc = "zombie" THEN NoKid ELSE kid[c]])
         /\ \A c \in Kids : KidsMatch([kid EXCEPT ![c] = NoKid])
         /\ \A c \in Kids : KidsMatch([kid EXCEPT ![c] = [NoKid EXCEPT !.pc = "zombie"]])
         /\ \A c \in Kids : \A pc : KidsMatch([kid EXCEPT ![c].pc = pc])
         /\ \A pid : GrandsMatch(EndIfAlive(pid)) /\ GrandsMatch(Resumed(pid))
         /\ \A c : GrandsMatch(Orphaned(c))
         /\ \A g \in Grands : GrandsMatch(Ended(grand, g))
<1> USE DEF TypeOK, NameInv, KidsMatch, GrandsMatch
<1>1. ASSUME NEW pid PROVE KidsMatch(Stopped(pid))
  BY DEF Stopped, KidRecs
<1>2. KidsMatch([c \in Kids |-> IF kid[c].pc = "zombie" THEN NoKid ELSE kid[c]])
  BY DEF NoKid
<1>3. ASSUME NEW c \in Kids
      PROVE  /\ KidsMatch([kid EXCEPT ![c] = NoKid])
             /\ KidsMatch([kid EXCEPT ![c] = [NoKid EXCEPT !.pc = "zombie"]])
  BY DEF NoKid
<1>4. ASSUME NEW c \in Kids, NEW pc PROVE KidsMatch([kid EXCEPT ![c].pc = pc])
  BY DEF KidRecs
<1>5. ASSUME NEW g \in Grands PROVE GrandsMatch(Ended(grand, g))
  BY DEF Ended, NoGrand
<1>6. ASSUME NEW pid PROVE GrandsMatch(EndIfAlive(pid))
  BY <1>5 DEF EndIfAlive
<1>7. ASSUME NEW pid PROVE GrandsMatch(Resumed(pid))
  BY DEF Resumed, GrandRecs
<1>8. ASSUME NEW c PROVE GrandsMatch(Orphaned(c))
  BY DEF Orphaned, NoGrand, GrandRecs
<1> QED
  BY <1>1, <1>2, <1>3, <1>4, <1>5, <1>6, <1>7, <1>8

LEMMA ParentMatch ==
  ASSUME IInv, NameInv, Events \/ Command \/ InCommand
  PROVE  NameInv'
<1>1. TypeOK
  BY DEF IInv
<1>2. CASE Events
  BY <1>1, <1>2, UpdatesMatch
     DEF Events, ReapChildren, ClearChildFlag, EofDropped, EofTurnPage, NameInv
<1>3. CASE Dies
  BY <1>1, <1>3, UpdatesMatch DEF Dies, NameInv
<1>4. ASSUME NEW command, NEW newFocus, Suspend(command, newFocus), ~Dies
      PROVE  NameInv'
  <2>1. kid' = kid /\ (grand' = grand \/ grand' = [grand EXCEPT ![shm.grand].stopped = TRUE])
    BY <1>4 DEF Suspend
  <2> QED
    BY <1>1, <2>1 DEF NameInv, KidsMatch, GrandsMatch, TypeOK, GrandRecs
<1>5. CASE Command
  BY <1>1, <1>5, UpdatesMatch
     DEF Command, CmdStart, StopPlay, CmdContinue, NextSong, PickSong, CmdSuspend,
     SetModeGet, NameInv
<1>6. CASE ForkChild
  BY <1>1, <1>6 DEF ForkChild, NoKid, NameInv, KidsMatch, GrandsMatch, TypeOK
<1>7. CASE WaitChild
  <2>1. grand' = grand \/ grand' = Orphaned(par.s.child)
    BY <1>7 DEF WaitChild
  <2>2. KidsMatch(kid')
    BY <1>1, <1>7 DEF WaitChild, NoKid, NameInv, KidsMatch, TypeOK
  <2> QED
    BY <1>1, <2>1, <2>2, UpdatesMatch DEF NameInv
<1>8. CASE Kill \/ ForceGrand \/ StopLast \/ ForceStop
  BY <1>1, <1>8, UpdatesMatch DEF Kill, ForceGrand, StopLast, ForceStop, NameInv
<1>9. CASE (Quit \/ Resume) /\ ~Dies
  BY <1>1, <1>9, UpdatesMatch DEF Quit, Resume, NameInv
<1>10. CASE \/ Wrap \/ WrapSet \/ StartPlay \/ StartSet \/ ClearSet \/ PidGet
            \/ PidSet \/ StopClear \/ ContinuePlay \/ NextSet \/ NextApply \/ SetModeSet
  BY <1>10 DEF Wrap, WrapSet, StartPlay, StartSet, ClearSet, PidGet, PidSet,
     StopClear, ContinuePlay, NextSet, NextApply, SetModeSet, NameInv
<1> QED
  BY <1>2, <1>3, <1>4, <1>5, <1>6, <1>7, <1>8, <1>9, <1>10 DEF InCommand

LEMMA KidMatch ==
  ASSUME IInv, NameInv, Pages = 1, NEW c \in Kids, Kid(c)
  PROVE  NameInv'
<1>1. TypeOK
  BY DEF IInv
<1>2. CASE KidExit(c)
  BY <1>1, <1>2, UpdatesMatch DEF KidExit, NameInv
<1>3. CASE KidFork(c)
  <2>1. KidsMatch(kid')
    BY <1>1, <1>3, UpdatesMatch DEF KidFork, KidGoTo
  <2>2. GrandsMatch(grand')
    BY <1>1, <1>3 DEF KidFork, NoGrand, NameInv, KidsMatch, GrandsMatch, TypeOK
  <2> QED
    BY <2>1, <2>2 DEF NameInv
<1>4. CASE KidReap(c)
  <2>1. KidsMatch(kid')
    BY <1>1, <1>4, UpdatesMatch DEF KidReap, KidGoTo
  <2>2. GrandsMatch(grand')
    BY <1>1, <1>4 DEF KidReap, NoGrand, NameInv, GrandsMatch, TypeOK
  <2> QED
    BY <2>1, <2>2 DEF NameInv
<1>5. CASE KidGet(c) \/ KidSet(c) \/ KidEof(c)
  <2>1. KidsMatch(kid')
    BY <1>1, <1>5 DEF KidGet, KidSet, KidEof, NameInv, KidsMatch, TypeOK, KidRecs
  <2> QED
    BY <1>5, <2>1 DEF KidGet, KidSet, KidEof, NameInv
<1>6. CASE KidFetch(c) /\ ~KidExit(c)
  <2>1. PICK t : kid' = [kid EXCEPT ![c].pc = "late_set", ![c].song = t, ![c].url = t]
    BY <1>6 DEF KidFetch
  <2>2. KidsMatch(kid')
    BY <1>1, <2>1 DEF NameInv, KidsMatch, TypeOK, KidRecs
  <2> QED
    BY <1>6, <2>2 DEF KidFetch, NameInv
<1>7. CASE KidSync(c)
  <2>1. kid[c].s.song \in SongIds /\ kid[c].page \in 1 .. Pages
    BY <1>1 DEF TypeOK, KidRecs, Shm
  <2>2. kid[c].s.song # NoTrack => OnPage(kid[c].page, kid[c].s.song)
    BY <2>1, OnlyPage
  <2>3. \/ \E song, p, stop : kid' = [kid EXCEPT ![c] = [NoKid EXCEPT !.pc = "top",
                 !.stop = stop, !.page = p, !.song = song, !.url = song]]
        \/ \E t : kid' = [kid EXCEPT ![c].pc = "set", ![c].song = t, ![c].url = t]
        \/ KidGoTo(c, "fetch") \/ KidGoTo(c, "eof")
    BY <1>7, <2>2 DEF KidSync
  <2>4. KidsMatch(kid')
    <3>1. CASE \E song, p, stop : kid' = [kid EXCEPT ![c] = [NoKid EXCEPT !.pc = "top",
                   !.stop = stop, !.page = p, !.song = song, !.url = song]]
      BY <1>1, <3>1 DEF NameInv, KidsMatch, TypeOK, NoKid
    <3>2. CASE \E t : kid' = [kid EXCEPT ![c].pc = "set", ![c].song = t, ![c].url = t]
      BY <1>1, <3>2 DEF NameInv, KidsMatch, TypeOK, KidRecs
    <3>3. CASE KidGoTo(c, "fetch") \/ KidGoTo(c, "eof")
      BY <1>1, <3>3, UpdatesMatch DEF KidGoTo
    <3> QED
      BY <2>3, <3>1, <3>2, <3>3
  <2> QED
    BY <1>7, <2>4 DEF KidSync, NameInv
<1> QED
  BY <1>2, <1>3, <1>4, <1>5, <1>6, <1>7 DEF Kid, KidStop

LEMMA GrandMatch ==
  ASSUME IInv, NameInv, NEW g \in Grands, Grand(g)
  PROVE  NameInv'
<1>1. TypeOK
  BY DEF IInv
<1>2. CASE GrandGet(g)
  <2>1. GrandsMatch(grand')
    BY <1>1, <1>2 DEF GrandGet, NameInv, GrandsMatch, TypeOK, GrandRecs
  <2> QED
    BY <1>2, <2>1 DEF GrandGet, NameInv
<1>3. CASE GrandSet(g)
  <2>1. GrandsMatch(grand')
    BY <1>1, <1>3 DEF GrandSet, NameInv, GrandsMatch, TypeOK, GrandRecs
  <2> QED
    BY <1>3, <2>1 DEF GrandSet, NameInv
<1>4. ASSUME grand' = Ended(grand, g) \/ grand' = [grand EXCEPT ![g].pc = "play"]
              \/ grand' = [grand EXCEPT ![g].paused = ~@]
      PROVE  GrandsMatch(grand')
  <2>1. CASE grand' = Ended(grand, g)
    BY <1>1, <2>1, UpdatesMatch
  <2>2. CASE grand' = [grand EXCEPT ![g].pc = "play"]
    BY <1>1, <2>2 DEF NameInv, GrandsMatch, TypeOK, GrandRecs
  <2>3. CASE grand' = [grand EXCEPT ![g].paused = ~@]
    <3>1. \A h \in Grands : /\ grand'[h].song = grand[h].song /\ grand'[h].url = grand[h].url
                           /\ grand'[h].page = grand[h].page /\ grand'[h].pc = grand[h].pc
      BY <1>1, <2>3 DEF TypeOK, GrandRecs
    <3> QED
      BY <3>1 DEF NameInv, GrandsMatch
  <2> QED
    BY <1>4, <2>1, <2>2, <2>3
<1>5. CASE GrandPlay(g) \/ GrandRead(g) \/ GrandEos(g)
  BY <1>4, <1>5 DEF GrandPlay, GrandRead, GrandEos, NameInv
<1> QED
  BY <1>2, <1>3, <1>5 DEF Grand, GrandSetup

\* A grandchild plays the track whose name it wrote into shm, when the list is
\* one page, as the offline list is: a track chosen while the child or the
\* grandchild was starting replaces the URL together with the name.
THEOREM OnePageNameMatchesUrl ==
  ASSUME Pages = 1
  PROVE  Spec => []NameMatchesUrl
<1>1. Init => NameInv
  BY DEF Init, NameInv, KidsMatch, GrandsMatch, NoKid, NoGrand
<1>2. IInv /\ NameInv /\ [Next]_vars => NameInv'
  <2>1. UNCHANGED vars /\ NameInv => NameInv'
    BY DEF vars, NameInv
  <2> QED
    BY <2>1, ParentMatch, KidMatch, GrandMatch DEF Next
<1>3. NameInv => NameMatchesUrl
  BY DEF NameInv, GrandsMatch, NameMatchesUrl, Readers
<1> QED
  BY <1>1, <1>2, <1>3, PlaybackInductive, PTL DEF Spec

=============================================================================
