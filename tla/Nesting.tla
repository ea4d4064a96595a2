------------------------------- MODULE Nesting -------------------------------
(***************************************************************************)
(* What a tokenizer promises about brackets: it closes the innermost one,  *)
(* and accepts a text only when none is open.                              *)
(***************************************************************************)
EXTENDS SequencesExt

VARIABLES
  stack,      \* the types of the open brackets, the innermost last
  verdict     \* "parsing", "ok" or an error

Init == stack = <<>> /\ verdict = "parsing"

OpenOne ==
  /\ verdict = "parsing"
  /\ \E type \in {"object", "array"} : stack' = Append(stack, type)
  /\ UNCHANGED verdict

CloseOne ==
  /\ verdict = "parsing"
  /\ stack # <<>>
  /\ stack' = Front(stack)
  /\ UNCHANGED verdict

End ==
  /\ verdict = "parsing"
  /\ verdict' \in IF stack = <<>> THEN {"ok", "invalid", "nomem", "part"}
                  ELSE {"invalid", "nomem", "part"}
  /\ UNCHANGED stack

Spec == Init /\ [][OpenOne \/ CloseOne \/ End]_<<stack, verdict>>
=============================================================================
