---------------------------- MODULE TimerService ----------------------------
(***************************************************************************)
(* What mytimer.h promises its users: a timer exists from create to delete,*)
(* each of its callbacks is paid for by one expiration of that timer, the  *)
(* callbacks run one at a time, and at most two expirations wait (one in   *)
(* the kernel, one on its way to the callback; the kernel merges the rest).*)
(***************************************************************************)
EXTENDS Naturals

CONSTANTS Nodes, None

VARIABLES
  timers,  \* the timers created and not deleted
  credit,  \* expirations not yet answered by a callback
  firing   \* the timer whose callback is running

vars == <<timers, credit, firing>>

Init ==
  /\ timers = {}
  /\ credit = [n \in Nodes |-> 0]
  /\ firing = None

Create(n) ==
  /\ n \notin timers
  /\ timers' = timers \cup {n}
  /\ UNCHANGED <<credit, firing>>

Delete(n) ==
  /\ n \in timers
  /\ timers' = timers \ {n}
  /\ credit' = [credit EXCEPT ![n] = 0]
  /\ UNCHANGED firing

Expire(n) ==
  /\ n \in timers
  /\ credit[n] < 2
  /\ credit' = [credit EXCEPT ![n] = @ + 1]
  /\ UNCHANGED <<timers, firing>>

Fire(n) ==
  /\ n \in timers
  /\ credit[n] > 0
  /\ firing = None
  /\ firing' = n
  /\ credit' = [credit EXCEPT ![n] = @ - 1]
  /\ UNCHANGED timers

Return ==
  /\ firing # None
  /\ firing' = None
  /\ UNCHANGED <<timers, credit>>

Next ==
  \/ \E n \in Nodes : Create(n) \/ Delete(n) \/ Expire(n) \/ Fire(n)
  \/ Return

Spec == Init /\ [][Next]_vars
=============================================================================
