--------------------------- MODULE ShmLockProofs ----------------------------
(* Proofs about ShmLock, for any number of processes. Until a semaphore     *)
(* operation is interrupted the lock excludes and is never lost, whoever is *)
(* killed, and the record is atomic until a death in the middle of shm_set. *)
EXTENDS ShmLock, TLAPS

\* Until an interrupt, the holder's adjustment is what the semaphore misses.
Locked ==
  /\ sem \in {0, 1}
  /\ undo \in [Procs -> {0, 1}]
  /\ \A p \in Procs : undo[p] = 1 <=> InCopy(p)
  /\ sem = 1 => \A p \in Procs : ~InCopy(p)
  /\ sem = 0 => \E p \in Procs : InCopy(p)
  /\ MutualExclusion

LockInv == bare \/ Locked

IInv == TypeOK /\ LockInv

LEMMA WholeType == \A v \in Values : Whole(v) \in Values \X Values
BY DEF Whole

LEMMA InitInv == Init => IInv
<1> SUFFICES ASSUME Init PROVE IInv
    OBVIOUS
<1>1. Whole(Zero) \in Values \X Values
  BY WholeType, ShmAssumption
<1>2. TypeOK
  <2>1. sem \in Nat /\ 0 \in Int
    BY DEF Init
  <2>2. /\ undo \in [Procs -> Int] /\ cut \in BOOLEAN /\ bare \in BOOLEAN
    BY <2>1, Zenon DEF Init
  <2>3. /\ mem \in Values \X Values
        /\ data \in [Procs -> Values \X Values]
        /\ copy \in [Procs -> Values \X Values]
    BY <1>1, Zenon DEF Init
  <2>4. /\ pc \in [Procs -> {"out", "sem_p", "copy", "half", "sem_v", "dead"}]
        /\ op \in [Procs -> {"get", "set"}]
    BY DEF Init
  <2> QED
    BY <2>1, <2>2, <2>3, <2>4 DEF TypeOK
<1>3. LockInv
  BY DEF Init, LockInv, Locked, MutualExclusion, InCopy
<1> QED
  BY <1>2, <1>3 DEF IInv

\* The types survive every step, interrupts included.
LEMMA TypeStep == TypeOK /\ [Next]_vars => TypeOK'
<1> SUFFICES ASSUME TypeOK, [Next]_vars PROVE TypeOK'
    OBVIOUS
<1> USE DEF TypeOK
<1>1. ASSUME NEW p \in Procs, Call(p) PROVE TypeOK'
  <2>1. pc' \in [Procs -> {"out", "sem_p", "copy", "half", "sem_v", "dead"}]
    BY <1>1 DEF Call, Move
  <2>2. op' \in [Procs -> {"get", "set"}]
    BY <1>1 DEF Call
  <2>3. data' \in [Procs -> Values \X Values]
    BY <1>1, WholeType DEF Call
  <2> QED
    BY <1>1, <2>1, <2>2, <2>3 DEF Call, Move
<1>2. ASSUME NEW p \in Procs, shm_sem_p(p) PROVE TypeOK'
  BY <1>2 DEF shm_sem_p, Move
<1>3. ASSUME NEW p \in Procs, SemInterrupted(p) PROVE TypeOK'
  BY <1>3 DEF SemInterrupted, Move
<1>4. ASSUME NEW p \in Procs, CopyFirst(p) \/ CopySecond(p) PROVE TypeOK'
  <2>1. PICK w \in {1, 2} : CopyWord(p, w)
    BY <1>4 DEF CopyFirst, CopySecond
  <2>2. mem' \in Values \X Values /\ data' \in [Procs -> Values \X Values]
    <3>1. CASE op[p] = "get"
      BY <2>1, <3>1 DEF CopyWord
    <3>2. CASE op[p] = "set"
      <4>1. data[p][w] \in Values
        OBVIOUS
      <4>2. mem' = [mem EXCEPT ![w] = data[p][w]] /\ UNCHANGED data
        BY <2>1, <3>2 DEF CopyWord
      <4> QED
        BY <4>1, <4>2
    <3> QED
      BY <3>1, <3>2
  <2>3. pc' \in [Procs -> {"out", "sem_p", "copy", "half", "sem_v", "dead"}]
    BY <1>4 DEF CopyFirst, CopySecond, Move
  <2> QED
    BY <1>4, <2>1, <2>2, <2>3 DEF CopyWord, CopyFirst, CopySecond, Move
<1>5. ASSUME NEW p \in Procs, shm_sem_v(p) PROVE TypeOK'
  BY <1>5, WholeType, ShmAssumption, SMTT(30) DEF shm_sem_v, Forget, Move
<1>6. ASSUME NEW p \in Procs, Kill(p) PROVE TypeOK'
  BY <1>6, WholeType, ShmAssumption DEF Kill, AfterUndo, Forget
<1>7. CASE UNCHANGED vars
  BY <1>7 DEF vars
<1> QED
  BY <1>1, <1>2, <1>3, <1>4, <1>5, <1>6, <1>7 DEF Next, Proc, Copying

\* Nobody forgets that a semop was interrupted.
LEMMA BareStays == [Next]_vars /\ ~bare' => ~bare
BY DEF Next, Proc, Copying, Call, shm_sem_p, SemInterrupted, CopyFirst,
       CopySecond, CopyWord, shm_sem_v, Kill, vars, Move

\* The lock survives every step but an interrupted one.
LEMMA LockStep == IInv /\ [Next]_vars => LockInv'
<1> SUFFICES ASSUME TypeOK, Locked, [Next]_vars, ~bare, ~bare' PROVE Locked'
    BY BareStays DEF IInv, LockInv
<1> USE DEF TypeOK, Locked, MutualExclusion, InCopy
<1>1. ASSUME NEW p \in Procs, Call(p) PROVE Locked'
  BY <1>1 DEF Call, Move
<1>2. ASSUME NEW p \in Procs, shm_sem_p(p) PROVE Locked'
  BY <1>2 DEF shm_sem_p, Move
<1>3. ASSUME NEW p \in Procs, CopyFirst(p) \/ CopySecond(p) PROVE Locked'
  BY <1>3 DEF CopyFirst, CopySecond, CopyWord, Move
<1>4. ASSUME NEW p \in Procs, shm_sem_v(p) PROVE Locked'
  BY <1>4 DEF shm_sem_v, Move
<1>5. ASSUME NEW p \in Procs, Kill(p) PROVE Locked'
  BY <1>5 DEF Kill, AfterUndo
<1>6. CASE UNCHANGED vars
  BY <1>6 DEF vars
<1> QED
  BY <1>1, <1>2, <1>3, <1>4, <1>5, <1>6
     DEF Next, Proc, Copying, SemInterrupted

\* The types hold in every behaviour, interrupted or not.
THEOREM ShmTypeCorrect == Spec => []TypeOK
<1>1. Init => TypeOK
  BY InitInv DEF IInv
<1> QED
  BY <1>1, TypeStep, PTL DEF Spec

LEMMA InvHolds == Spec => []IInv
<1>1. IInv /\ [Next]_vars => IInv'
  BY TypeStep, LockStep DEF IInv
<1> QED
  BY InitInv, <1>1, PTL DEF Spec

\* One process at a time copies shm until a semop is interrupted, whichever of
\* them are killed.
THEOREM LockExcludes == Spec => []ExclusionUntilInterrupted
<1>1. IInv => ExclusionUntilInterrupted
  BY DEF IInv, LockInv, Locked, ExclusionUntilInterrupted
<1> QED
  BY InvHolds, <1>1, PTL

\* With nobody in the copy the semaphore is free: no death leaves it taken.
THEOREM LockSurvivesDeath == Spec => []LockIsFree
<1>1. IInv => LockIsFree
  BY DEF IInv, LockInv, Locked, LockIsFree
<1> QED
  BY InvHolds, <1>1, PTL

-----------------------------------------------------------------------------
(* Atomicity: until a semop is interrupted or a process dies in the middle   *)
(* of a shm_set, the words of mem differ only while a writer is between      *)
(* them, and a reader that holds the lock holds the words of mem.            *)

Spoilt == cut \/ bare

CopyInv ==
  ~Spoilt =>
  /\ \A p \in Procs : op[p] = "set" /\ pc[p] \in {"sem_p", "copy", "half", "sem_v"}
                        => data[p][1] = data[p][2]
  /\ \A p \in Procs : op[p] = "set" /\ pc[p] = "half" => mem[1] = data[p][1]
  /\ (\A p \in Procs : ~(op[p] = "set" /\ pc[p] = "half")) => mem[1] = mem[2]
  /\ \A p \in Procs : op[p] = "get" /\ pc[p] \in {"half", "sem_v"}
                        => data[p][1] = mem[1]
  /\ \A p \in Procs : op[p] = "get" /\ pc[p] = "sem_v" => data[p][2] = mem[2]

LEMMA CopyInit == Init => CopyInv
BY DEF Init, CopyInv, Spoilt, Whole

LEMMA SpoiltStays == [Next]_vars /\ ~Spoilt' /\ TypeOK => ~Spoilt
BY DEF Spoilt, Next, Proc, Copying, Call, shm_sem_p, SemInterrupted, CopyFirst,
       CopySecond, CopyWord, shm_sem_v, Kill, vars, TypeOK

LEMMA CopyStep == IInv /\ CopyInv /\ [Next]_vars => CopyInv'
<1> SUFFICES ASSUME TypeOK, MutualExclusion, CopyInv, [Next]_vars, ~Spoilt,
                    ~Spoilt'
             PROVE  CopyInv'
    BY SpoiltStays DEF IInv, LockInv, Locked, Spoilt, CopyInv
<1> USE DEF CopyInv
<1>1. ASSUME NEW p \in Procs, Call(p) PROVE CopyInv'
  <2>1. CASE op' = [op EXCEPT ![p] = "get"] /\ UNCHANGED data
    BY <1>1, <2>1 DEF Call, Move, TypeOK
  <2>2. ASSUME NEW v \in Values, op' = [op EXCEPT ![p] = "set"],
               data' = [data EXCEPT ![p] = Whole(v)]
        PROVE  CopyInv'
    <3>1. data'[p][1] = data'[p][2]
      BY <2>2 DEF TypeOK, Whole
    <3>2. /\ pc' = [pc EXCEPT ![p] = "sem_p"] /\ UNCHANGED mem
          /\ pc[p] = "out"
      BY <1>1 DEF Call, Move
    <3>3. \A q \in Procs : q # p => data'[q] = data[q] /\ op'[q] = op[q]
      BY <2>2 DEF TypeOK
    <3> QED
      BY <2>2, <3>1, <3>2, <3>3 DEF TypeOK
  <2> QED
    BY <1>1, <2>1, <2>2 DEF Call
<1>2. ASSUME NEW p \in Procs, shm_sem_p(p) PROVE CopyInv'
  BY <1>2 DEF shm_sem_p, Move, TypeOK
<1>3. ASSUME NEW p \in Procs, CopyFirst(p) PROVE CopyInv'
  <2>1. CASE op[p] = "get"
    BY <1>3, <2>1 DEF CopyFirst, CopyWord, Move, TypeOK, MutualExclusion, InCopy
  <2>2. CASE op[p] = "set"
    BY <1>3, <2>2 DEF CopyFirst, CopyWord, Move, TypeOK, MutualExclusion, InCopy
  <2> QED
    BY <2>1, <2>2 DEF TypeOK
<1>4. ASSUME NEW p \in Procs, CopySecond(p) PROVE CopyInv'
  <2>1. CASE op[p] = "get"
    BY <1>4, <2>1 DEF CopySecond, CopyWord, Move, TypeOK, MutualExclusion, InCopy
  <2>2. CASE op[p] = "set"
    BY <1>4, <2>2 DEF CopySecond, CopyWord, Move, TypeOK, MutualExclusion, InCopy
  <2> QED
    BY <2>1, <2>2 DEF TypeOK
<1>5. ASSUME NEW p \in Procs, shm_sem_v(p) PROVE CopyInv'
  BY <1>5 DEF shm_sem_v, Forget, Move, TypeOK
<1>6. ASSUME NEW p \in Procs, Kill(p) PROVE CopyInv'
  BY <1>6 DEF Kill, Forget, TypeOK, Spoilt
<1>7. CASE UNCHANGED vars
  BY <1>7 DEF vars
<1> QED
  BY <1>1, <1>2, <1>3, <1>4, <1>5, <1>6, <1>7
     DEF Next, Proc, Copying, SemInterrupted, Spoilt

\* Every step is a shm_get, a shm_set, or nothing the callers see.
LEMMA StepIsAtomic ==
  IInv /\ CopyInv /\ [Next]_vars
    => [Atomic!Next]_<<Whole(mem[2]), copy, cut \/ bare>>
<1> SUFFICES ASSUME TypeOK, MutualExclusion, CopyInv, [Next]_vars, ~Spoilt
             PROVE  [Atomic!Next]_<<Whole(mem[2]), copy, cut \/ bare>>
  <2>1. [Next]_vars /\ TypeOK /\ Spoilt => Spoilt'
    BY SpoiltStays
  <2> QED
    BY <2>1 DEF IInv, LockInv, Locked, Spoilt, Atomic!Next, Atomic!Damaged
<1> USE DEF Whole, Atomic!Whole
<1>1. ASSUME NEW p \in Procs, Call(p) \/ shm_sem_p(p) \/ CopyFirst(p)
      PROVE  UNCHANGED <<Whole(mem[2]), copy, cut \/ bare>>
  BY <1>1 DEF Call, shm_sem_p, CopyFirst, CopyWord, TypeOK
<1>2. ASSUME NEW p \in Procs, CopySecond(p)
      PROVE  [Atomic!Next]_<<Whole(mem[2]), copy, cut \/ bare>>
  <2>1. CASE op[p] = "get"
    BY <1>2, <2>1 DEF CopySecond, CopyWord
  <2>2. CASE op[p] = "set"
    <3>1. data[p][2] \in Values
      BY DEF TypeOK
    <3>2. Atomic!shm_set(data[p][2])
      BY <1>2, <2>2 DEF CopySecond, CopyWord, TypeOK, Atomic!shm_set
    <3> QED
      BY <3>1, <3>2 DEF Atomic!Next
  <2> QED
    BY <2>1, <2>2 DEF TypeOK
<1>3. ASSUME NEW p \in Procs, shm_sem_v(p)
      PROVE  [Atomic!Next]_<<Whole(mem[2]), copy, cut \/ bare>>
  <2>1. CASE op[p] = "get"
    <3>1. \A q \in Procs : ~(op[q] = "set" /\ pc[q] = "half")
      BY <1>3, <2>1 DEF shm_sem_v, Move, MutualExclusion, InCopy
    <3>2. data[p][1] = mem[2] /\ data[p][2] = mem[2]
      BY <1>3, <2>1, <3>1 DEF shm_sem_v, Move, CopyInv
    <3>3. data[p] = Whole(mem[2])
      BY <3>2 DEF TypeOK
    <3>4. Atomic!shm_get(p)
      BY <1>3, <2>1, <3>3 DEF shm_sem_v, TypeOK, Atomic!shm_get
    <3> QED
      BY <3>4 DEF Atomic!Next
  <2>2. CASE op[p] = "set"
    BY <1>3, <2>2 DEF shm_sem_v
  <2> QED
    BY <2>1, <2>2 DEF TypeOK
<1>4. ASSUME NEW p \in Procs, Kill(p)
      PROVE  [Atomic!Next]_<<Whole(mem[2]), copy, cut \/ bare>>
  BY <1>4 DEF Kill, Atomic!Next, Atomic!Tear, TypeOK, Spoilt
<1>5. CASE UNCHANGED vars
  BY <1>5 DEF vars
<1>6. ASSUME NEW p \in Procs, SemInterrupted(p)
      PROVE  [Atomic!Next]_<<Whole(mem[2]), copy, cut \/ bare>>
  BY <1>6 DEF SemInterrupted, Atomic!Next, Atomic!Tear, Spoilt
<1> QED
  BY <1>1, <1>2, <1>3, <1>4, <1>5, <1>6 DEF Next, Proc, Copying

\* shm_get and shm_set implement the atomic record.
THEOREM ShmIsAtomic == Spec => AtomicShmSpec
<1>1. Init => Atomic!Init
  BY DEF Init, Atomic!Init, Whole, Atomic!Whole
<1>2. IInv /\ CopyInv /\ [Next]_vars => IInv' /\ CopyInv'
  BY TypeStep, LockStep, CopyStep DEF IInv
<1>3. IInv /\ CopyInv /\ [Next]_vars => [Atomic!Next]_<<Whole(mem[2]), copy, cut \/ bare>>
  BY StepIsAtomic
<1>4. Spec => [](IInv /\ CopyInv)
  BY InitInv, CopyInit, <1>2, PTL DEF Spec
<1> QED
  BY <1>1, <1>3, <1>4, PTL DEF Spec, AtomicShmSpec, Atomic!Spec
=============================================================================
