----------------------------- MODULE AtomicShm ------------------------------
(* What shm_get and shm_set of player/core/shm.c promise their callers, and  *)
(* what module Playback assumes of them: the record shm is read and written  *)
(* whole, in one step, until a process dies in the middle of a shm_set or    *)
(* goes on without the lock.                                                 *)
(* A record is a pair of equal words.                                        *)
CONSTANTS Procs, Values, Zero

VARIABLES rec,     \* the shared record
          copy,    \* the record each process has got
          torn     \* that has happened

Whole(v) == <<v, v>>

Init == rec = Whole(Zero) /\ copy = [p \in Procs |-> Whole(Zero)] /\ torn = FALSE

shm_get(p) == copy' = [copy EXCEPT ![p] = rec] /\ UNCHANGED <<rec, torn>>

shm_set(v) == rec' = Whole(v) /\ UNCHANGED <<copy, torn>>

\* Either leaves the record as it was, or half written; from then on
\* nothing is promised.
Tear == ~torn /\ torn' /\ UNCHANGED <<rec, copy>>

Damaged == torn /\ torn'

Next == \/ (\E p \in Procs : shm_get(p)) \/ (\E v \in Values : shm_set(v))
        \/ Tear \/ Damaged

Spec == Init /\ [][Next]_<<rec, copy, torn>>
=============================================================================
