----------------------------- MODULE MCMalReply -----------------------------
(***************************************************************************)
(* Replies of up to three fields with values of none to three bytes in     *)
(* buffers of two: one that is too short to notice, one that fills the     *)
(* buffer and one that runs over; and some of five fields, which           *)
(* getAppsVersion needs.  Behind them up to two characters, and all other  *)
(* texts of up to four characters.                                         *)
(***************************************************************************)
EXTENDS MalReply

Alphabet == {"{", "}", "[", "]", Quote, ":", ",", Backslash, "n", Blank, Control}
Values == {<<>>, <<"0">>, <<"1">>, <<"0", "1">>, <<Backslash, Quote, "1">>}
MCFields ==
  LET field == {[key |-> <<"k">>, value |-> v, quoted |-> v \notin {<<"0">>, <<"0", "1">>}] : v \in Values}
      short(v) == [key |-> <<"k">>, value |-> v, quoted |-> v # <<"0">>]
  IN  (BoundedSeq(field, 3) \ {<<>>})
        \cup {<<short(e), short(<<>>), short(v), short(w), short(x)>> :
                 e \in {<<"0">>, <<"1">>}, v \in {<<"0">>, <<"1">>},
                 w \in {<<>>, <<"0">>}, x \in {<<>>, <<"1">>}}
MCTails == BoundedSeq({"{", "}", "[", "]", Quote, ",", "n"}, 2)
MCTexts == BoundedSeq(Alphabet, 4)
=============================================================================
