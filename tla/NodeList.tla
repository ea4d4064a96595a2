------------------------------ MODULE NodeList ------------------------------
(***************************************************************************)
(* The list of timers as its users and IoTTimers see it.  A create looks   *)
(* at the list when it begins and puts its node in front of what it saw    *)
(* when it ends: with nothing in between that is an insertion at the head. *)
(* A delete takes out one node, and no create is under way then.           *)
(***************************************************************************)
EXTENDS Sequences, SequencesExt

CONSTANTS Nodes, Callers

VARIABLES
  list,  \* the timers, newest first
  seen   \* what each caller with a create under way saw of the list

vars == <<list, seen>>

Init == list = <<>> /\ seen = <<>>

Begin(a) ==
  /\ a \notin DOMAIN seen
  /\ seen' = [b \in DOMAIN seen \cup {a} |-> IF b = a THEN list ELSE seen[b]]
  /\ UNCHANGED list

Insert(a) ==
  /\ a \in DOMAIN seen
  /\ \E n \in Nodes : list' = <<n>> \o seen[a]
  /\ seen' = [b \in DOMAIN seen \ {a} |-> seen[b]]

Unlink ==
  /\ DOMAIN seen = {}
  /\ \E k \in DOMAIN list : list' = RemoveAt(list, k)
  /\ UNCHANGED seen

Next == (\E a \in Callers : Begin(a) \/ Insert(a)) \/ Unlink

Spec == Init /\ [][Next]_vars
=============================================================================
