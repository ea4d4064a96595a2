---------------------------- MODULE MCLineEditor ----------------------------
(***************************************************************************)
(* LineEditor with a line and a history of a few bytes.  The commands are  *)
(* ";", AB, AAB, CAC and CAD: words that begin one or several of them, that *)
(* stand in the middle of one, and AB, which is longer than what its        *)
(* commands have in common.                                                  *)
(***************************************************************************)
EXTENDS LineEditor

MCCommands == <<<<59>>, <<65, 66>>, <<65, 65, 66>>, <<67, 65, 67>>, <<67, 65, 68>>>>
MCCapital == [c \in {59, 65, 66, 67, 68, 97} |-> IF c = 97 THEN 65 ELSE c]
MCTyped == [enters |-> {97}, completes |-> {97, 66, 67}]
MCKeys == [enters |-> {"Enter"}, completes |-> {"Tab", "Escape"}]
=============================================================================
