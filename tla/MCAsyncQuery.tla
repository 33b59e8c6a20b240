---------------------------- MODULE MCAsyncQuery ----------------------------
(* AsyncQuery for TLC: the token counter, which disconnects may bump        *)
(* without end, is bounded.                                                 *)
EXTENDS AsyncQuery

CONSTANT MaxToken   \* queries plus disconnects of a behaviour

BoundedNext == Next /\ latest' <= MaxToken

MCSpec     == Init /\ [][BoundedNext]_vars
MCFairSpec == MCSpec /\ Fairness
=============================================================================
