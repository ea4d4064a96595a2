---------------------------- MODULE MCTimerList ----------------------------
(* TimerList called from main and from a callback; addresses are alike, and *)
(* so are the two threads.                                                   *)
EXTENDS TimerList, TLC

Alike == Permutations(Addresses) \cup Permutations(Callers)
=============================================================================
