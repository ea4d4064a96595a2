----------------------------- MODULE LineEditor -----------------------------
(***************************************************************************)
(* The line editor, microrl.cpp, under main's keys and under doNewLine of   *)
(* main.cpp, with which the timer thread puts the prompt and the line back  *)
(* on the screen.  Nothing locks the line: a character is inserted, and one *)
(* is erased, in two steps, the check and the writes, and a command runs     *)
(* between Enter and the next prompt.  The other keys are a step each, Tab   *)
(* with complet of commands.cpp included.  What is drawn on the terminal is  *)
(* left out.                                                                 *)
(***************************************************************************)
EXTENDS HistoryRing, SequencesExt

CONSTANTS
  LineLen,    \* _COMMAND_LINE_LEN
  TokenNmb,   \* _COMMAND_TOKEN_NMB
  Users,
  Typed,      \* what can be typed, the space (a zero byte) aside, by user
  Keys,       \* which of "Enter", "Tab" and "Escape" a user presses, too
  Capital,    \* strupr of a character, which leaves a capital alone
  Commands    \* the commands of current_table, in order

Letters == DOMAIN Capital

ASSUME LineAssumption ==
  /\ LineLen \in Nat /\ LineLen > 1
  /\ TokenNmb \in Nat \ {0}
  /\ Letters \subseteq Nat \ {0}
  /\ Typed \in [Users -> SUBSET Letters]
  /\ Keys \in [Users -> SUBSET {"Enter", "Tab", "Escape"}]
  /\ Capital \in [Letters -> Letters]
  /\ \A c \in Letters : Capital[Capital[c]] = Capital[c]
  /\ Commands \in Seq(Seq(Letters))

VARIABLES
  user,
  cmdline, cmdlen, cursor,
  escape,       \* an escape sequence is being read
  escape_seq,   \* its last part; it outlives the sequence
  main,         \* where it is: between "keys", before the writes of an
                \* "insert" or "erase", or "running" a command
  typed,        \* the character that main is about to insert, or 0
  redraw,       \* where doNewLine is: "no"where, about to write its "space",
                \* "between" its two calls, or about to "erase" the space
  outside,      \* a write has left the buffer, and what follows is undefined
  kept          \* history: line and cursor that doNewLine has to give back

editVars == <<cmdline, cmdlen, cursor>>
escVars == <<escape, escape_seq>>
vars == <<user, ringVars, editVars, escVars, main, typed, redraw, outside, kept>>

Parts == {"none", "bracket", "home", "end"}
Places == {"keys", "insert", "erase", "running"}
Redraws == {"no", "space", "between", "erase"}

(* Line, cursor and ring stay in their buffers, wherever the calls of one   *)
(* thread fall between the steps of the other's, up to a write that has been *)
(* overtaken where it matters: what it writes lies outside.                  *)
TypeOK ==
  /\ user \in Users
  /\ ring_buf \in [0 .. RingLen - 1 -> Nat]
  /\ {begin, end} \subseteq 0 .. RingLen - 1
  /\ cur \in 0 .. RingLen
  /\ cmdline \in [0 .. LineLen - 1 -> Letters \cup {0}]
  /\ cmdline[LineLen - 1] = 0
  /\ cmdlen \in 0 .. LineLen - 1
  /\ cursor \in 0 .. cmdlen
  /\ escape \in BOOLEAN
  /\ escape_seq \in Parts
  /\ main \in Places
  /\ typed \in Letters \cup {0}
  /\ redraw \in Redraws
  /\ outside \in BOOLEAN

Empty == [i \in 0 .. LineLen - 1 |-> 0]

(* microrl_init; the global it initializes starts as zeros. *)
Init ==
  /\ user \in Users
  /\ RingInit
  /\ cmdline = Empty
  /\ cmdlen = 0
  /\ cursor = 0
  /\ escape = FALSE
  /\ escape_seq = "none"
  /\ main = "keys"
  /\ typed = 0
  /\ redraw = "no"
  /\ outside = FALSE
  /\ kept = <<>>

Line == [i \in 1 .. cmdlen |-> cmdline[i - 1]]

(***************************************************************************)
(* Editing.                                                                *)
(***************************************************************************)
MoveTo(c) == cursor' = c /\ UNCHANGED <<cmdline, cmdlen, ringVars>>

(* Mutant: the last byte is taken, too. *)
InsertNoEnd(ch) ==
  /\ IF cmdlen + 1 <= LineLen
       THEN /\ cmdline' = [i \in DOMAIN cmdline |->
                   CASE i < cursor -> cmdline[i]
                     [] i = cursor -> ch
                     [] i \in cursor + 1 .. cmdlen -> cmdline[i - 1]
                     [] i = cmdlen + 1 -> 0
                     [] OTHER -> cmdline[i]]
            /\ cmdlen' = cmdlen + 1
            /\ cursor' = cursor + 1
       ELSE UNCHANGED editVars
  /\ UNCHANGED ringVars

(* Mutant: the rest of the line is not moved. *)
InsertOver(ch) ==
  /\ IF cmdlen + 1 < LineLen
       THEN /\ cmdline' = [cmdline EXCEPT ![cursor] = ch, ![cmdlen + 1] = 0]
            /\ cmdlen' = cmdlen + 1
            /\ cursor' = cursor + 1
       ELSE UNCHANGED editVars
  /\ UNCHANGED ringVars

(* microrl_insert_text of one character, its check of the length with the   *)
(* writes that keep to it *)
Insert(ch) ==
  /\ IF cmdlen + 1 < LineLen
       THEN /\ cmdline' = [i \in DOMAIN cmdline |->
                   CASE i < cursor -> cmdline[i]
                     [] i = cursor -> ch
                     [] i \in cursor + 1 .. cmdlen -> cmdline[i - 1]
                     [] i = cmdlen + 1 -> 0
                     [] OTHER -> cmdline[i]]
            /\ cmdlen' = cmdlen + 1
            /\ cursor' = cursor + 1
       ELSE UNCHANGED editVars
  /\ UNCHANGED ringVars

(* The checks before a character is inserted: there must be room for it,    *)
(* and a line has no leading space.                                          *)
Fits(ch) == cmdlen + 1 < LineLen /\ ~(ch = 0 /\ cmdlen = 0)

(* The writes after the check.  They use length and cursor as they are now: *)
(* if the line has become full meanwhile, they go past its end.              *)
Inserts(ch) == Insert(ch) /\ outside' = ~(cmdlen + 1 < LineLen)

(* n times microrl_backspace, n <= cursor *)
Erase(n) ==
  /\ cmdline' = [i \in DOMAIN cmdline |->
                   CASE i \in cursor - n .. cmdlen - n -> cmdline[i + n]
                     [] i \in cmdlen - n + 1 .. cmdlen -> 0
                     [] OTHER -> cmdline[i]]
  /\ cmdlen' = cmdlen - n
  /\ cursor' = cursor - n
  /\ UNCHANGED ringVars

Backspace == IF cursor > 0 THEN Erase(1) ELSE UNCHANGED <<editVars, ringVars>>

(* Its writes after the check: if the cursor has come to the start of the   *)
(* line meanwhile, they begin before it.                                     *)
Erases == Backspace /\ outside' = (cursor = 0)

EraseToStart == IF cursor > 0 THEN Erase(cursor) ELSE UNCHANGED <<editVars, ringVars>>

(* ^K: the length changes, the bytes do not. *)
CutRight == cmdlen' = cursor /\ UNCHANGED <<cmdline, cursor, ringVars>>

Right == IF cursor < cmdlen THEN MoveTo(cursor + 1) ELSE MoveTo(cursor)

Left == IF cursor > 0 THEN MoveTo(cursor - 1) ELSE MoveTo(cursor)

(* hist_search upwards: the line is cleared before the copy. *)
Up ==
  LET t == RestoreUp
  IN IF t = <<>> THEN UNCHANGED <<editVars, ringVars>>
     ELSE /\ cmdline' = [i \in DOMAIN cmdline |-> IF i < Len(t) THEN t[i + 1] ELSE 0]
          /\ cmdlen' = Len(t)
          /\ cursor' = Len(t)
          /\ cur' = cur + 1
          /\ UNCHANGED <<ring_buf, begin, end>>

(* hist_search downwards: the line is not cleared. *)
Down ==
  LET t == RestoreDown
  IN /\ cmdline' = [i \in DOMAIN cmdline |-> IF i < Len(t) THEN t[i + 1] ELSE cmdline[i]]
     /\ cmdlen' = Len(t)
     /\ cursor' = Len(t)
     /\ cur' = IF cur > 0 THEN cur - 1 ELSE 0
     /\ UNCHANGED <<ring_buf, begin, end>>

(* new_line_handler, up to the command: the line is saved, and a line that  *)
(* is goes to the end of the history.  What is executed is                   *)
(* Split(cmdlen, TokenNmb), the strings in the line, which main leaves alone *)
(* as long as the command runs.                                              *)
NewLine ==
  /\ main' = "running"
  /\ IF cmdlen > 0 THEN SaveLine(Line) ELSE UNCHANGED ringVars
  /\ UNCHANGED <<editVars, typed>>

(* The command returns, and a new line begins. *)
CommandReturns ==
  /\ main = "running"
  /\ main' = "keys"
  /\ cur' = 0
  /\ cmdline' = Empty
  /\ cmdlen' = 0
  /\ cursor' = 0
  /\ UNCHANGED <<ring_buf, begin, end, escVars, typed, outside>>

(***************************************************************************)
(* What is executed: the words of the line as strings, which go on to a     *)
(* zero byte, and none if there are too many.                               *)
(***************************************************************************)
StringAt(i) ==
  LET len == CHOOSE n \in 0 .. LineLen - 1 - i :
               /\ cmdline[i + n] = 0
               /\ \A k \in 0 .. n - 1 : cmdline[i + k] # 0
  IN [k \in 1 .. len |-> cmdline[i + k - 1]]

(* Mutant: a word is noticed after a space only. *)
StartsLate(limit) == {i \in 1 .. limit - 1 : cmdline[i] # 0 /\ cmdline[i - 1] = 0}

(* Where the words begin *)
Starts(limit) == {i \in 0 .. limit - 1 : cmdline[i] # 0 /\ (i > 0 => cmdline[i - 1] = 0)}

Nth(S, k) == CHOOSE i \in S : Cardinality({j \in S : j < i}) = k - 1

Split(limit, nmb) ==
  LET starts == Starts(limit)
  IN IF Cardinality(starts) >= nmb THEN <<>>
     ELSE [k \in 1 .. Cardinality(starts) |-> StringAt(Nth(starts, k))]

(***************************************************************************)
(* Completion.                                                             *)
(***************************************************************************)
(* strstr: the command contains the word.                                   *)
strstr(c, w) == \E k \in 0 .. Len(c) - Len(w) : SubSeq(c, k + 1, k + Len(w)) = w

(* complet, for one word: the commands that contain it anywhere.            *)
Complet(w) ==
  LET found[n \in 0 .. Len(Commands)] ==
        IF n = 0 THEN <<>>
        ELSE IF strstr(Commands[n], w) THEN Append(found[n - 1], Commands[n])
        ELSE found[n - 1]
  IN found[Len(Commands)]

common_len(cs) ==
  Max({n \in 0 .. Len(cs[1]) :
         \A k \in DOMAIN cs : Len(cs[k]) >= n /\ SubSeq(cs[k], 1, n) = SubSeq(cs[1], 1, n)})

(* Both command tables begin with a command of its own, and a word that      *)
(* several commands contain is longer than their common beginning by one     *)
(* character at most ("DE" of DEBUG and DODEMO).                             *)
ASSUME TableAssumption ==
  /\ common_len(Commands) = 0
  /\ \A c \in Range(Commands) : \A k \in DOMAIN c : \A l \in k .. Len(c) :
       LET w == SubSeq(c, k, l) IN common_len(Complet(w)) \in {0} \cup Len(w) - 1 .. Len(c)

(* Mutant: what stands behind the cursor is not moved. *)
InsertTextOver(e, text, from, n) ==
  IF e.len + n >= LineLen THEN e
  ELSE [line |-> [i \in DOMAIN e.line |->
                    CASE i \in e.cursor .. e.cursor + n - 1 -> text[from + i - e.cursor + 1]
                      [] i = e.len + n -> 0
                      [] OTHER -> e.line[i]],
        len |-> e.len + n,
        cursor |-> e.cursor + n]

(* microrl_insert_text of n characters from offset from of a text; n may be *)
(* negative.                                                                 *)
InsertText(e, text, from, n) ==
  IF e.len + n >= LineLen THEN e
  ELSE [line |-> [i \in DOMAIN e.line |->
                    CASE i \in e.cursor .. e.cursor + n - 1 -> text[from + i - e.cursor + 1]
                      [] i \in e.cursor + n .. e.len + n - 1 -> e.line[i - n]
                      [] i = e.len + n -> 0
                      [] OTHER -> e.line[i]],
        len |-> e.len + n,
        cursor |-> e.cursor + n]

(* The word at a place is made upper case where it stands and becomes what  *)
(* the commands that contain it have in common, by the characters behind as *)
(* many of the first command as the word has.                                *)
Completed(at) ==
  LET word == [k \in DOMAIN StringAt(at) |-> Capital[StringAt(at)[k]]]
      cs == Complet(word)
      upper == [line |-> [i \in DOMAIN cmdline |->
                            IF i \in at .. at + Len(word) - 1 THEN word[i - at + 1] ELSE cmdline[i]],
                len |-> cmdlen, cursor |-> cursor]
      len == IF Len(cs) = 1 THEN Len(cs[1]) ELSE common_len(cs)
      ext == InsertText(upper, cs[1], Len(word), len - Len(word))
  IN IF cs = <<>> THEN upper
     ELSE IF len = 0 THEN upper
     ELSE IF Len(cs) = 1 THEN InsertText(ext, <<0>>, 0, 1)
     ELSE ext

(* The word that begins before the cursor is completed, if it is the only   *)
(* one and no space stands before the cursor.  For any other line, the       *)
(* whole table is offered, which has nothing in common.                      *)
microrl_get_complite ==
  LET starts == Starts(cursor)
      new == Completed(CHOOSE i \in starts : TRUE)
  IN  /\ IF Cardinality(starts) # 1 \/ TokenNmb = 1 THEN UNCHANGED editVars
         ELSE IF cmdline[cursor - 1] = 0 THEN UNCHANGED editVars
         ELSE cmdline' = new.line /\ cmdlen' = new.len /\ cursor' = new.cursor
      /\ UNCHANGED ringVars

(***************************************************************************)
(* Keys.                                                                   *)
(***************************************************************************)
PlainKey ==
  /\ ~escape
  /\ \/ /\ \/ EraseToStart
           \/ "Tab" \in Keys[user] /\ microrl_get_complite
           \/ CutRight
           \/ MoveTo(0)
           \/ MoveTo(cmdlen)
           \/ Right
           \/ Left
           \/ Up
           \/ Down
        /\ UNCHANGED <<escVars, main, typed>>
     \/ /\ \E ch \in Typed[user] \cup {0} : Fits(ch) /\ main' = "insert" /\ typed' = ch
        /\ UNCHANGED <<escVars, editVars, ringVars>>
     \/ cursor > 0 /\ main' = "erase" /\ UNCHANGED <<escVars, editVars, ringVars, typed>>
     \/ "Enter" \in Keys[user] /\ NewLine /\ UNCHANGED escVars
     \/ "Escape" \in Keys[user] /\ escape' = TRUE /\ UNCHANGED <<escape_seq, editVars, ringVars, main, typed>>

(* A key that continues the sequence *)
EscapeGoesOn ==
  /\ escape
  /\ \/ escape_seq' = "bracket"
     \/ escape_seq = "bracket" /\ escape_seq' \in {"home", "end"}
  /\ UNCHANGED <<escape, editVars, ringVars>>

(* A key that ends it, an unknown one included *)
EscapeEnds ==
  /\ escape
  /\ escape' = FALSE
  /\ UNCHANGED escape_seq
  /\ \/ escape_seq = "bracket" /\ (Up \/ Down \/ Right \/ Left)
     \/ escape_seq = "home" /\ MoveTo(0)
     \/ escape_seq = "end" /\ MoveTo(cmdlen)
     \/ UNCHANGED <<editVars, ringVars>>

Key ==
  /\ main = "keys"
  /\ \/ PlainKey
     \/ (EscapeGoesOn \/ EscapeEnds) /\ UNCHANGED <<main, typed>>
  /\ UNCHANGED outside

(* The key goes on after its check. *)
KeyWrites ==
  /\ \/ main = "insert" /\ Inserts(typed)
     \/ main = "erase" /\ Erases
  /\ main' = "keys"
  /\ typed' = 0
  /\ UNCHANGED escVars

Main ==
  /\ Key \/ KeyWrites \/ CommandReturns
  /\ kept' = <<>>
  /\ UNCHANGED <<user, redraw>>

(* doNewLine, on the timer thread: a space and a backspace, each of which   *)
(* an escape sequence takes for its end.  set_m2xColor, in a command of      *)
(* main's, does the same.                                                    *)
DoNewLineSpace ==
  /\ redraw = "no"
  /\ redraw' = IF ~escape /\ Fits(0) THEN "space" ELSE "between"
  /\ kept' = IF ~escape /\ cmdlen + 1 < LineLen THEN <<Line, cursor>> ELSE <<>>
  /\ escape' = FALSE
  /\ UNCHANGED <<escape_seq, editVars, ringVars, outside>>

SpaceWritten ==
  /\ redraw = "space"
  /\ redraw' = "between"
  /\ Inserts(0)
  /\ UNCHANGED <<escVars, kept>>

DoNewLineBackspace ==
  /\ redraw = "between"
  /\ redraw' = IF ~escape /\ cursor > 0 THEN "erase" ELSE "no"
  /\ kept' = IF redraw' = "no" THEN <<>> ELSE kept
  /\ escape' = FALSE
  /\ UNCHANGED <<escape_seq, editVars, ringVars, outside>>

SpaceErased ==
  /\ redraw = "erase"
  /\ redraw' = "no"
  /\ kept' = <<>>
  /\ Erases
  /\ UNCHANGED escVars

DoNewLine ==
  /\ DoNewLineSpace \/ SpaceWritten \/ DoNewLineBackspace \/ SpaceErased
  /\ UNCHANGED <<user, main, typed>>

Next == ~outside /\ (Main \/ DoNewLine)

Spec == Init /\ [][Next]_vars

(***************************************************************************)
(* Properties.                                                             *)
(***************************************************************************)
History == INSTANCE LineHistory WITH
  Chars <- Letters \cup {0}, MaxLen <- LineLen - 1,
  Room <- RingLen - 1, lines <- Saved, back <- cur, line <- Line,
  running <- main = "running"

(* Whatever wraps around in the ring, the history is the latest lines that  *)
(* fit, Up and Down walk it, and Enter adds the line once (hist_save_line,  *)
(* hist_restore_line).                                                      *)
ImplementsHistory == History!Spec

Terminated == cmdline[cmdlen] = 0

(* The words of a line as it is shown. *)
Words(s) ==
  LET read[n \in 0 .. Len(s)] ==
        IF n = 0 THEN [seq |-> <<>>, new |-> TRUE]
        ELSE LET r == read[n - 1] IN
          IF s[n] = 0 THEN [r EXCEPT !.new = TRUE]
          ELSE [seq |-> IF r.new THEN Append(r.seq, <<s[n]>>)
                        ELSE [r.seq EXCEPT ![Len(r.seq)] = Append(@, s[n])],
                new |-> FALSE]
  IN read[Len(s)].seq

Upper(s) == [k \in DOMAIN s |-> IF s[k] = 0 THEN 0 ELSE Capital[s[k]]]
LeftPart == SubSeq(Line, 1, cursor)
RightPart == SubSeq(Line, cursor + 1, cmdlen)

(* Tab changes the case of what stands on either side of the cursor, and    *)
(* takes its last character away at most; a word that begins every command  *)
(* it is part of becomes what they have in common, and one command is        *)
(* completed with a space, as far as there is room.                          *)
CompletionKeeps ==
  []["Tab" \in Keys[user] /\ ~escape /\ microrl_get_complite =>
       LET word == Upper(Line)
           cs == Complet(word)
           common == SubSeq(cs[1], 1, common_len(cs))
       IN  /\ Upper(RightPart') = Upper(RightPart)
           /\ cursor > 0 => IsPrefix(Upper(Front(LeftPart)), Upper(LeftPart'))
           /\ (/\ Terminated /\ TokenNmb > 1
               /\ word # <<>> /\ 0 \notin Range(word) /\ cursor = cmdlen
               /\ cs # <<>>
               /\ \A k \in DOMAIN cs : IsPrefix(word, cs[k])) =>
                 Line' = CASE Len(common) >= LineLen ->
                                IF Len(cs) = 1 /\ Len(word) + 1 < LineLen THEN Append(word, 0) ELSE word
                           [] Len(cs) = 1 /\ Len(common) + 1 < LineLen -> Append(common, 0)
                           [] OTHER -> common]_vars

(* What split has Enter execute is what the user sees: every word of the    *)
(* line, none merged, or no command at all.  Words beyond the limit are an   *)
(* error.  Only the last word, if no space ends it, goes on with what an     *)
(* earlier, longer line has left behind this one, up to a zero byte.         *)
ExecutesShown ==
  LET words == Words(Line)
      n == Len(words)
      behind == IF cmdlen = 0 \/ cmdline[cmdlen - 1] = 0 THEN <<>> ELSE StringAt(cmdlen)
      command == [k \in 1 .. n |-> IF k = n THEN words[k] \o behind ELSE words[k]]
  IN \A nmb \in 1 .. TokenNmb :
       /\ Split(cmdlen, nmb) \in {<<>>, command}
       /\ n < nmb => Split(cmdlen, nmb) = command
       /\ n > nmb => Split(cmdlen, nmb) = <<>>

(* The space and backspace of doNewLine give the line and the cursor back,  *)
(* those of a running command too, wherever the cursor is, if the line is    *)
(* not full, no escape sequence is open and main takes no step in between.   *)
NewLineRestores ==
  [][redraw # "no" /\ redraw' = "no" /\ kept # <<>> => <<Line, cursor>>' = kept]_vars
=============================================================================
