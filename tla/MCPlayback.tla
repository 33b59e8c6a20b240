----------------------------- MODULE MCPlayback -----------------------------
(* Playback for TLC. Pids of the same kind are interchangeable.             *)
EXTENDS Playback, TLC

Symmetry == Permutations(Kids) \cup Permutations(Grands)
=============================================================================
