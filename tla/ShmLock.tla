------------------------------ MODULE ShmLock -------------------------------
(***************************************************************************)
(* shm_get and shm_set of player/core/shm.c: a System V semaphore taken    *)
(* and given back with SEM_UNDO around a memcpy of Shm_Data.  The memcpy   *)
(* moves two words, one step each, so that a reader can meet a writer, and *)
(* a process can be killed (SIGKILL of children and grandchildren by the   *)
(* parent) or have its semop interrupted by a signal (the parent handles   *)
(* SIGUSR1 and SIGCHLD, the child SIGUSR1) anywhere.                       *)
(***************************************************************************)
EXTENDS Integers

CONSTANTS Procs,       \* the parent, its child and its grandchild
          Values,      \* the records that are written
          Zero,        \* the record of shm_init
          Killed,      \* processes that may get SIGKILL
          Interrupted  \* processes whose semop a signal may interrupt

ASSUME ShmAssumption ==
  /\ Zero \in Values
  /\ Killed \subseteq Procs
  /\ Interrupted \subseteq Procs

VARIABLES sem,    \* the semaphore's value
          undo,   \* each process's SEM_UNDO adjustment
          mem,    \* the two words of the shared Shm_Data
          pc,     \* where each process is in shm_get or shm_set
          op,     \* which of the two
          data,   \* the record it copies from or to
          copy,   \* the record its last shm_get returned
          cut,    \* a process was killed between the words of a shm_set
          bare    \* an interrupted process has gone on without the semaphore

vars == <<sem, undo, mem, pc, op, data, copy, cut, bare>>

Whole(v) == <<v, v>>

Init ==
  /\ sem = 1
  /\ undo = [p \in Procs |-> 0]
  /\ mem = Whole(Zero)
  /\ pc = [p \in Procs |-> "out"]
  /\ op = [p \in Procs |-> "get"]
  /\ data = [p \in Procs |-> Whole(Zero)]
  /\ copy = [p \in Procs |-> Whole(Zero)]
  /\ cut = FALSE
  /\ bare = FALSE

Move(p, from, to) == pc[p] = from /\ pc' = [pc EXCEPT ![p] = to]

Call(p) ==
  /\ Move(p, "out", "sem_p")
  /\ \/ op' = [op EXCEPT ![p] = "get"] /\ UNCHANGED data
     \/ /\ op' = [op EXCEPT ![p] = "set"]
        /\ \E v \in Values : data' = [data EXCEPT ![p] = Whole(v)]
  /\ UNCHANGED <<sem, undo, mem, copy, cut, bare>>

\* Mutant: the semaphore is counted down without waiting for it.
NoWait(p) ==
  /\ Move(p, "sem_p", "copy")
  /\ sem' = sem - 1
  /\ undo' = [undo EXCEPT ![p] = @ + 1]
  /\ UNCHANGED <<mem, op, data, copy, cut, bare>>

\* Mutant: the semaphore is taken without SEM_UNDO.
TakenForGood(p) ==
  /\ Move(p, "sem_p", "copy")
  /\ sem > 0
  /\ sem' = sem - 1
  /\ UNCHANGED <<undo, mem, op, data, copy, cut, bare>>

shm_sem_p(p) ==
  /\ Move(p, "sem_p", "copy")
  /\ sem > 0
  /\ sem' = sem - 1
  /\ undo' = [undo EXCEPT ![p] = @ + 1]
  /\ UNCHANGED <<mem, op, data, copy, cut, bare>>

\* A semop that has to wait fails with EINTR; it is logged, and the copy is
\* made all the same.
SemInterrupted(p) ==
  /\ p \in Interrupted
  /\ Move(p, "sem_p", "copy")
  /\ sem = 0
  /\ bare' = TRUE
  /\ UNCHANGED <<sem, undo, mem, op, data, copy, cut>>

CopyWord(p, w) ==
  /\ \/ /\ op[p] = "get"
        /\ data' = [data EXCEPT ![p][w] = mem[w]]
        /\ UNCHANGED mem
     \/ /\ op[p] = "set"
        /\ mem' = [mem EXCEPT ![w] = data[p][w]]
        /\ UNCHANGED data
  /\ UNCHANGED <<sem, undo, op, copy, cut, bare>>

CopyFirst(p)  == Move(p, "copy", "half") /\ CopyWord(p, 1)
CopySecond(p) == Move(p, "half", "sem_v") /\ CopyWord(p, 2)

\* The caller looks at the record when shm_get has returned; the call's own
\* locals are forgotten.
Forget(p) == /\ op' = [op EXCEPT ![p] = "get"]
             /\ data' = [data EXCEPT ![p] = Whole(Zero)]

\* Mutant: the semaphore is not given back.
NotReleased(p) ==
  /\ Move(p, "sem_v", "out")
  /\ copy' = IF op[p] = "get" THEN [copy EXCEPT ![p] = data[p]] ELSE copy
  /\ Forget(p)
  /\ UNCHANGED <<sem, undo, mem, cut, bare>>

shm_sem_v(p) ==
  /\ Move(p, "sem_v", "out")
  /\ sem' = sem + 1
  /\ undo' = [undo EXCEPT ![p] = @ - 1]
  /\ copy' = IF op[p] = "get" THEN [copy EXCEPT ![p] = data[p]] ELSE copy
  /\ Forget(p)
  /\ UNCHANGED <<mem, cut, bare>>

\* What exit leaves in the semaphore; the kernel does not go below 0.
AfterUndo(p) == IF sem + undo[p] < 0 THEN 0 ELSE sem + undo[p]

Kill(p) ==
  /\ p \in Killed
  /\ pc[p] # "dead"
  /\ sem' = AfterUndo(p)
  /\ undo' = [undo EXCEPT ![p] = 0]
  /\ pc' = [pc EXCEPT ![p] = "dead"]
  /\ cut' = (cut \/ (op[p] = "set" /\ pc[p] = "half"))
  /\ Forget(p)
  /\ UNCHANGED <<mem, copy, bare>>

Copying(p) == CopyFirst(p) \/ CopySecond(p) \/ shm_sem_v(p)

Proc(p) == Call(p) \/ shm_sem_p(p) \/ SemInterrupted(p) \/ Copying(p) \/ Kill(p)

Next == \E p \in Procs : Proc(p)

Spec == Init /\ [][Next]_vars

\* The scheduler runs the holder; the kernel serves the waiters of a
\* semaphore in their order, so that none is passed over for ever.
Fairness == \A p \in Procs : WF_vars(Copying(p)) /\ SF_vars(shm_sem_p(p))

FairSpec == Spec /\ Fairness

-----------------------------------------------------------------------------
InCopy(p) == pc[p] \in {"copy", "half", "sem_v"}

\* The types of the variables.
TypeOK ==
  /\ sem \in Nat
  /\ undo \in [Procs -> Int]
  /\ mem \in Values \X Values
  /\ pc \in [Procs -> {"out", "sem_p", "copy", "half", "sem_v", "dead"}]
  /\ op \in [Procs -> {"get", "set"}]
  /\ data \in [Procs -> Values \X Values]
  /\ copy \in [Procs -> Values \X Values]
  /\ cut \in BOOLEAN
  /\ bare \in BOOLEAN

\* One process at a time copies: the comment of shm_sem_p, "lock".
MutualExclusion == \A p, q \in Procs : InCopy(p) /\ InCopy(q) => p = q

\* ... which is so until a semop is interrupted, whoever is killed.
ExclusionUntilInterrupted == bare \/ MutualExclusion

\* The lock is never lost: with nobody in the copy, whoever died, it is free.
\* (After an interrupt it may be more than free, which CallReturns allows.)
LockIsFree == (\A p \in Procs : ~InCopy(p)) => bare \/ sem = 1

\* SEM_UNDO keeps its promise: whoever is killed, wherever, a caller gets through.
CallReturns == \A p \in Procs : pc[p] = "sem_p" ~> pc[p] \in {"out", "dead"}

\* To its callers the record is atomic, until a process dies in the middle of a
\* shm_set or goes on without the lock.  A shm_set takes effect with its last
\* word: until then the record is what that word still says.
Atomic == INSTANCE AtomicShm WITH rec <- Whole(mem[2]), torn <- cut \/ bare
AtomicShmSpec == Atomic!Spec
=============================================================================
