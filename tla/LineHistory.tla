---------------------------- MODULE LineHistory ----------------------------
(***************************************************************************)
(* The history of the line editor as its user sees it: the latest lines, as*)
(* many as the memory holds, and a place in them that Up and Down move.    *)
(***************************************************************************)
EXTENDS Integers, Sequences

CONSTANTS
  Chars,  \* what a line consists of
  MaxLen, \* bound on its length
  Room    \* memory for the history: each line takes one unit more than itself

VARIABLES
  lines,  \* the remembered lines, oldest first
  back,   \* how many lines back the user has gone
  line,   \* the line being edited
  running \* the line's command runs

vars == <<lines, back, line, running>>

Init == lines = <<>> /\ back = 0 /\ line = <<>> /\ running = FALSE

Taken(s) ==
  LET sum[n \in 0 .. Len(s)] == IF n = 0 THEN 0 ELSE sum[n - 1] + Len(s[n]) + 1
  IN sum[Len(s)]

(* The longest suffix of s that fits. *)
Latest(s) ==
  LET k == CHOOSE j \in 1 .. Len(s) + 1 :
             /\ Taken(SubSeq(s, j, Len(s))) <= Room
             /\ \A i \in 1 .. j - 1 : Taken(SubSeq(s, i, Len(s))) > Room
  IN SubSeq(s, k, Len(s))

Edit ==
  /\ line' \in Seq(Chars)
  /\ Len(line') <= MaxLen
  /\ UNCHANGED <<lines, back, running>>

(* A line that is not empty and not too long is remembered. *)
Enter ==
  /\ ~running
  /\ running' = TRUE
  /\ IF line # <<>> /\ Len(line) + 1 <= Room
       THEN lines' = Latest(Append(lines, line)) /\ back' = 0
       ELSE UNCHANGED <<lines, back>>
  /\ UNCHANGED line

(* Its command returns. *)
Return ==
  /\ running
  /\ running' = FALSE
  /\ back' = 0
  /\ line' = <<>>
  /\ UNCHANGED lines

Up ==
  /\ ~running
  /\ back < Len(lines)
  /\ back' = back + 1
  /\ line' = lines[Len(lines) - back]
  /\ UNCHANGED <<lines, running>>

Down ==
  /\ ~running
  /\ back' = IF back = 0 THEN 0 ELSE back - 1
  /\ line' = IF back < 2 THEN <<>> ELSE lines[Len(lines) - back + 2]
  /\ UNCHANGED <<lines, running>>

Next == Edit \/ Enter \/ Return \/ Up \/ Down

Spec == Init /\ [][Next]_vars
=============================================================================
