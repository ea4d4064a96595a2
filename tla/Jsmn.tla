-------------------------------- MODULE Jsmn --------------------------------
(***************************************************************************)
(* jsmn.c, the tokenizer of JSON text, as it is built: not strict, without *)
(* parent links, with a table of tokens.  One step handles the character at*)
(* pos as one pass of the loop of jsmn_parse does; a string or a primitive *)
(* is read to its end in one step.                                         *)
(*                                                                         *)
(* A text is a sequence of characters: the brackets, the quote, colon and  *)
(* comma, the backslash, a space, letters, and "^" for a control character.*)
(* Positions and tokens are counted from 1 and 0 stands for -1.  \uXXXX is *)
(* left out.                                                               *)
(***************************************************************************)
EXTENDS Integers, SequencesExt

CONSTANT
  MaxTokens      \* length of the table of tokens

ASSUME TokensAssumption == MaxTokens \in Nat

VARIABLES
  js,            \* the text, which does not change
  pos,           \* where the parser is
  tokens,        \* the tokens so far; toknext is one more than their number
  toksuper,      \* the token whose size the next one counts for
  parsed         \* "parsing", "ok" or an error

jsmnVars == <<js, pos, tokens, toksuper, parsed>>

Quote == "\""
Backslash == "\\"
Brackets == {"{", "}", "[", "]"}
Blank == " "
Control == "^"
EndsPrimitive == {":", ",", "]", "}", Blank}
Escapable == {Quote, Backslash, "n"}
Containers == {"object", "array"}

Char == js[pos]

(* The containers not closed yet.                                           *)
Open(ts) == {i \in DOMAIN ts : ts[i].type \in Containers /\ ts[i].end = 0}

jsmn_init ==
  /\ pos = 1
  /\ tokens = <<>>
  /\ toksuper = 0
  /\ parsed = "parsing"

Reading == parsed = "parsing" /\ pos <= Len(js)

Fail(error) == parsed' = error /\ UNCHANGED <<js, pos, tokens, toksuper>>

(* A token goes to the next free entry and counts for toksuper.             *)
Alloc(type, start, end) ==
  IF Len(tokens) >= MaxTokens THEN Fail("nomem")
  ELSE /\ tokens' = Append(IF toksuper = 0 THEN tokens ELSE [tokens EXCEPT ![toksuper].size = @ + 1],
                           [type |-> type, start |-> start, end |-> end, size |-> 0])
       /\ toksuper' = IF end = 0 THEN Len(tokens) + 1 ELSE toksuper
       /\ pos' = IF end = 0 THEN pos + 1
                 ELSE IF type = "string" THEN end + 1 ELSE end
       /\ UNCHANGED <<js, parsed>>

-----------------------------------------------------------------------------
OpenBracket ==
  /\ Reading
  /\ Char \in {"{", "["}
  /\ Alloc(IF Char = "{" THEN "object" ELSE "array", pos, 0)

(* Mutant: the first open container is closed, of whatever type.             *)
CloseFirst ==
  /\ Reading
  /\ Char \in {"}", "]"}
  /\ IF Open(tokens) = {} THEN Fail("invalid")
     ELSE LET i == Min(Open(tokens)) IN
            /\ tokens' = [tokens EXCEPT ![i].end = pos + 1]
            /\ toksuper' = IF Open(tokens) = {i} THEN 0 ELSE Max(Open(tokens) \ {i})
            /\ pos' = pos + 1
            /\ UNCHANGED <<js, parsed>>

(* The last open container is closed, if it is of that type.                *)
CloseBracket ==
  /\ Reading
  /\ Char \in {"}", "]"}
  /\ LET type == IF Char = "}" THEN "object" ELSE "array"
         last == Max(Open(tokens))
     IN  IF Open(tokens) = {} THEN Fail("invalid")
         ELSE IF tokens[last].type # type THEN Fail("invalid")
         ELSE /\ tokens' = [tokens EXCEPT ![last].end = pos + 1]
              /\ toksuper' = IF Open(tokens) = {last} THEN 0
                             ELSE Max(Open(tokens) \ {last})
              /\ pos' = pos + 1
              /\ UNCHANGED <<js, parsed>>

(* The characters of a text from some place on that a backslash takes: those*)
(* behind a run of backslashes of odd length.                                *)
Taken(text, from) ==
  {k \in from .. Len(text) :
     \E m \in from .. k - 1 : /\ \A n \in m .. k - 1 : text[n] = Backslash
                              /\ m > from => text[m - 1] # Backslash
                              /\ (k - m) % 2 = 1}

(* A string ends at the next quote that no backslash takes; a backslash may *)
(* take a few characters only.                                               *)
jsmn_parse_string ==
  LET Rest == pos + 1 .. Len(js)
      taken == Taken(js, pos + 1)
      ends == {i \in Rest \ taken : js[i] = Quote}
      bad == {i \in taken : js[i] \notin Escapable}
  IN  /\ Reading
      /\ Char = Quote
      /\ IF bad # {} /\ (ends = {} \/ Min(bad) < Min(ends)) THEN Fail("invalid")
         ELSE IF ends = {} THEN Fail("part")
         ELSE Alloc("string", pos + 1, Min(ends))

(* Whatever else is a primitive, up to a separator or the end of the text.  *)
jsmn_parse_primitive ==
  LET ends == {i \in pos .. Len(js) : js[i] \in EndsPrimitive} \cup {Len(js) + 1}
  IN  /\ Reading
      /\ Char \notin Brackets \cup {Quote, Blank, ":", ","}
      /\ IF \E i \in pos .. Min(ends) - 1 : js[i] = Control THEN Fail("invalid")
         ELSE Alloc("primitive", pos, Min(ends))

Skip ==
  /\ Reading
  /\ Char = Blank
  /\ pos' = pos + 1
  /\ UNCHANGED <<js, tokens, toksuper, parsed>>

Colon ==
  /\ Reading
  /\ Char = ":"
  /\ toksuper' = Len(tokens)
  /\ pos' = pos + 1
  /\ UNCHANGED <<js, tokens, parsed>>

(* After a pair toksuper goes back to the last open container.  With        *)
(* toksuper = -1 the code reads the type before the table, and may search.   *)
Comma ==
  /\ Reading
  /\ Char = ","
  /\ \/ /\ toksuper # 0 => tokens[toksuper].type \notin Containers
        /\ toksuper' = IF Open(tokens) = {} THEN toksuper ELSE Max(Open(tokens))
     \/ /\ toksuper # 0 => tokens[toksuper].type \in Containers
        /\ UNCHANGED toksuper
  /\ pos' = pos + 1
  /\ UNCHANGED <<js, tokens, parsed>>

Finish ==
  /\ parsed = "parsing"
  /\ pos > Len(js)
  /\ parsed' = IF Open(tokens) = {} THEN "ok" ELSE "part"
  /\ UNCHANGED <<js, pos, tokens, toksuper>>

jsmn_parse ==
  \/ OpenBracket
  \/ CloseBracket
  \/ jsmn_parse_string
  \/ jsmn_parse_primitive
  \/ Skip
  \/ Colon
  \/ Comma
  \/ Finish

-----------------------------------------------------------------------------
(* The types of the containers not closed yet, the innermost last.          *)
OpenTypes ==
  LET open[n \in 0 .. Len(tokens)] ==
        IF n = 0 THEN <<>>
        ELSE IF n \in Open(tokens) THEN Append(open[n - 1], tokens[n].type) ELSE open[n - 1]
  IN  open[Len(tokens)]

Nested == INSTANCE Nesting WITH stack <- OpenTypes, verdict <- parsed

(* The containers are closed in the order that nested brackets ask for, and *)
(* only a text that closes all of them is accepted.                          *)
ImplementsNesting == Nested!Spec
=============================================================================
