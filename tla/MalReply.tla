------------------------------ MODULE MalReply ------------------------------
(***************************************************************************)
(* How a reply of the MAL manager, or of M2X, becomes a table of names and *)
(* values: send_mal_command's copy of what it has read (mal.cpp),          *)
(* parse_maljson (maljson.cpp) over the tokens of jsmn, and the functions  *)
(* of mal.cpp that pick one value.                                         *)
(*                                                                         *)
(* The table is memory: entry e has a buffer of Cap bytes for its key and  *)
(* one for its value behind it, and the copies neither end a text nor stop *)
(* at the buffer's end.  A byte is a character of the text, Nul, or one    *)
(* symbol for each word the program writes: OBJECT, ARRAY(n) and <null>.   *)
(***************************************************************************)
EXTENDS Jsmn

CONSTANTS
  Cap,         \* bytes of a key and of a value (50)
  Entries,     \* entries of the table
  Fields,      \* a reply's fields: sequences of [key, value, quoted]
  Tails,       \* what may follow a reply in the buffer
  Texts        \* other texts

ASSUME TableAssumption == Cap \in Nat \ {0} /\ Entries \in Nat \ {0}

ASSUME TextAssumption ==
  /\ Fields \subseteq Seq([key : Seq(STRING), value : Seq(STRING), quoted : BOOLEAN])
  /\ Tails \subseteq Seq(STRING)
  /\ Texts \subseteq Seq(STRING)

VARIABLES
  sent,        \* send_mal_command succeeded
  doc,         \* the fields of the reply, if js was made of one
  s,           \* the size given for the table
  mem,         \* the table
  i, ro, key,  \* locals of parse_maljson
  ret          \* what it returned, or Pending

vars == <<jsmnVars, sent, doc, s, mem, i, ro, key, ret>>

Nul == ""
KeyOf(e) == e * 2 * Cap
ValueOf(e) == e * 2 * Cap + Cap
Bytes == Entries * 2 * Cap
Pending == -9
Clamp(n) == IF n > s THEN s - 1 ELSE n

(* The C string at an offset of the table.                                  *)
Text(m, off) ==
  LET last == Min({n \in off .. Bytes - 1 : m[n] = Nul} \cup {Max({off, Bytes})})
  IN  [n \in 1 .. last - off |-> m[off + n - 1]]

(* memcpy; what falls outside of the table is lost to it.                   *)
Copy(m, off, text) ==
  [n \in 0 .. Bytes - 1 |->
     IF n \in off .. off + Len(text) - 1 THEN text[n - off + 1] ELSE m[n]]

CopyZ(m, off, text) == Copy(m, off, Append(text, Nul))

(* A text that can stand between quotes, and one that can stand without.     *)
Escaped(text) ==
  \A n \in DOMAIN text :
    /\ text[n] = Quote => n \in Taken(text, 1)
    /\ n \in Taken(text, 1) => text[n] \in Escapable
    /\ text[n] = Backslash /\ n = Len(text) => n \in Taken(text, 1)

Bare(text) ==
  /\ text # <<>>
  /\ text[1] \notin Brackets \cup {Quote}
  /\ \A n \in DOMAIN text : text[n] \notin EndsPrimitive \cup {Control}

(* The manager's replies are JSON, and a field has no zero byte in it.       *)
ASSUME ReplyAssumption ==
  \A fs \in Fields :
    /\ fs # <<>>
    /\ \A n \in DOMAIN fs :
         /\ Nul \notin Range(fs[n].key) \cup Range(fs[n].value)
         /\ Escaped(fs[n].key)
         /\ IF fs[n].quoted THEN Escaped(fs[n].value) ELSE Bare(fs[n].value)

Pair(f) ==
  <<Quote>> \o f.key \o <<Quote, ":">>
    \o (IF f.quoted THEN <<Quote>> \o f.value \o <<Quote>> ELSE f.value)

Join(parts) ==
  LET joined[n \in 0 .. Len(parts)] ==
        IF n = 0 THEN <<>>
        ELSE joined[n - 1] \o (IF n = 1 THEN <<>> ELSE <<",">>) \o parts[n]
  IN  joined[Len(parts)]

(* A reply: {"n":{"errno":0,"errmsg":"",...}} of the manager, {...} of M2X. *)
Render(fs, nested) ==
  LET pairs == <<"{">> \o Join([n \in DOMAIN fs |-> Pair(fs[n])]) \o <<"}">>
  IN  IF nested THEN <<"{", Quote, "n", Quote, ":">> \o pairs \o <<"}">> ELSE pairs

NoDoc == [fields |-> <<>>, nested |-> FALSE, tail |-> <<>>]

(* The buffer the reply was copied to without a zero byte: the reply and    *)
(* what the stack held behind it, or after a failed transaction anything;    *)
(* parse_maljson reads texts of M2X too.                                     *)
send_mal_command ==
  \/ \E fs \in Fields, nested \in BOOLEAN, tail \in Tails :
       /\ doc = [fields |-> fs, nested |-> nested, tail |-> tail]
       /\ js = Render(fs, nested) \o tail
       /\ sent = TRUE
  \/ doc = NoDoc /\ js \in Texts /\ sent \in BOOLEAN

(* The table is new, or holds the values of an earlier reply; the size may  *)
(* be wrong (WNCINFO gives 4).                                               *)
Init ==
  /\ send_mal_command
  /\ jsmn_init
  /\ s \in IF doc = NoDoc THEN {Bytes} ELSE {Bytes, 4}
  /\ mem = [n \in 0 .. Bytes - 1 |-> IF n < s THEN Nul ELSE "o"]
  /\ i = 1
  /\ ro = 0
  /\ key = "object"
  /\ ret = IF js = <<>> THEN -3 ELSE Pending

Parsing == ret = Pending /\ parsed = "parsing"
Parsed == ret = Pending /\ parsed # "parsing"
IsObject == IF parsed = "ok" /\ tokens # <<>> THEN tokens[1].type = "object" ELSE FALSE

-----------------------------------------------------------------------------
Tokenize ==
  /\ Parsing
  /\ jsmn_parse
  /\ UNCHANGED <<sent, doc, s, mem, i, ro, key, ret>>

NotAnObject ==
  /\ Parsed /\ i = 1
  /\ ret' = IF parsed # "ok" THEN -1 ELSE -2
  /\ ~IsObject
  /\ UNCHANGED <<jsmnVars, sent, doc, s, mem, i, ro, key>>

(* A value is copied to the current entry, which ends it.                   *)
PutValue(text) ==
  /\ mem' = Copy(mem, ValueOf(ro), IF text = <<>> THEN <<"NULL">> ELSE text)
  /\ ro' = Clamp(ro + 1)
  /\ key' = "key"

(* Mutant: the string that names the object takes no entry.                  *)
PutStringUnnamed(text) ==
  IF key = "value" THEN PutValue(text)
  ELSE key' = "value" /\ mem' = Copy(mem, KeyOf(ro), text) /\ UNCHANGED ro

(* A string where a value is due is the value, otherwise it is the key; the *)
(* first one names the object.                                              *)
PutString(text) ==
  IF key = "value" THEN PutValue(text)
  ELSE /\ key' = "value"
       /\ IF i = 1 THEN /\ mem' = Copy(CopyZ(mem, KeyOf(0), <<"OBJECT">>), ValueOf(0), text)
                        /\ ro' = 1
          ELSE /\ mem' = Copy(mem, KeyOf(ro), text)
               /\ UNCHANGED ro

PutObject == key' = "key" /\ UNCHANGED <<mem, ro>>

(* An array's name goes to the entry before, over what was there.           *)
PutArray ==
  LET name == Text(mem, KeyOf(ro))
      named == CopyZ(CopyZ(mem, ValueOf(ro - 1), name), KeyOf(ro - 1), <<"ARRAY">>)
      left == Len(Text(named, KeyOf(ro)))
  IN  /\ key' = "key"
      /\ mem' = Copy(named, KeyOf(ro), [n \in 1..left |-> Nul])
      /\ UNCHANGED ro

(* The pass of the loop for token i, counted from 0.  The loop is left after*)
(* the last token; of an empty object it reads the one behind it, which may  *)
(* be anything.                                                              *)
Put(type, text) ==
  CASE type = "primitive" -> PutValue(text)
    [] type = "object" -> PutObject
    [] type = "array" -> PutArray
    [] type = "string" -> PutString(text)
    [] OTHER -> UNCHANGED <<mem, ro, key>>

FillEntry ==
  /\ Parsed
  /\ IsObject
  /\ i < Len(tokens) \/ i = 1
  /\ \E type \in {"primitive", "object", "array", "string", "none"}, text \in {<<>>, <<"o">>} :
       IF i < Len(tokens)
       THEN /\ type = "none" /\ text = <<>>
            /\ LET t == tokens[i + 1] IN Put(t.type, SubSeq(js, t.start, t.end - 1))
       ELSE Put(type, text)
  /\ i' = i + 1
  /\ UNCHANGED <<jsmnVars, sent, doc, s, ret>>

Return ==
  /\ Parsed
  /\ i > 1
  /\ i >= Len(tokens)
  /\ ret' = ro
  /\ UNCHANGED <<jsmnVars, sent, doc, s, mem, i, ro, key>>

Next == Tokenize \/ NotAnObject \/ FillEntry \/ Return

Spec == Init /\ [][Next]_vars /\ WF_vars(Next)
-----------------------------------------------------------------------------
(* The functions of mal.cpp answer with one entry's value, or with the error*)
(* message if errno is set: atoi stops at the first character that is no     *)
(* digit.  Three of them look at what send_mal_command returned; the others  *)
(* parse whatever their buffer holds.                                        *)
NonZero(text) == \E n \in DOMAIN text : text[n] = "1" /\ \A m \in 1 .. n - 1 : text[m] = "0"

Wanted ==
  [getFirmwareVersion |-> 3, getAppsVersion |-> 5, getMALManVer |-> 3, getModelID |-> 3,
   getIMEI |-> 3, getIMSI |-> 3, getICCID |-> 3, getMSISDN |-> 3, getOperatingMode |-> 3,
   get_ipAddr |-> 3, getGPSconfig |-> 3]

Checks == {"getAppsVersion", "getModelID", "getGPSconfig"}
NothingOf(name) == IF name = "getAppsVersion" THEN <<>> ELSE <<"null">>
Silent(name) == ret < 0 \/ (name \in Checks /\ ~sent)

(* Mutant: errno is looked for in the entry that names the object.           *)
AnswerEarly(name) ==
  IF Silent(name) THEN NothingOf(name)
  ELSE Text(mem, ValueOf(IF NonZero(Text(mem, ValueOf(0))) THEN 2 ELSE Wanted[name]))

(* getModelID prints the result of a failed send as a text before it        *)
(* returns, which is undefined; here it gets past it.                        *)
Answer(name) ==
  IF Silent(name) THEN NothingOf(name)
  ELSE Text(mem, ValueOf(IF NonZero(Text(mem, ValueOf(1))) THEN 2 ELSE Wanted[name]))

-----------------------------------------------------------------------------
(* The table was given its size, and with the tokens it is large enough.     *)
Fits == s = Bytes /\ Len(doc.fields) < Entries /\ 2 * Len(doc.fields) + 3 <= MaxTokens
Answered == ret # Pending /\ doc # NoDoc /\ Fits
Given(f) == IF f.value = <<>> THEN <<"NULL">> ELSE f.value

(* A field is out of the way of what spoils an entry: a key or value that   *)
(* fills its buffer, one before it that runs on behind this field's key, and *)
(* an array in what follows the reply, which is put into the last field.     *)
Safe(j) ==
  LET f == doc.fields
      behind == KeyOf(j) + Len(f[j].key)
  IN  /\ Len(f[j].key) < Cap /\ Len(Given(f[j])) < Cap
      /\ \A k \in 1 .. j - 1 : /\ KeyOf(k) + Len(f[k].key) <= behind
                             /\ ValueOf(k) + Len(Given(f[k])) <= behind
      /\ "[" \in Range(doc.tail) => j < Len(f)

(* A reply that is accepted is read field by field, in order, into a table  *)
(* that was cleared: every field is there, key and value, unless it is one   *)
(* of those that are spoilt.  Without anything behind it it is accepted.     *)
ReplyRead ==
  Answered =>
    /\ doc.tail = <<>> => ret = Len(doc.fields) + 1
    /\ ret >= 0 => \A j \in DOMAIN doc.fields : Safe(j) =>
         /\ Text(mem, ValueOf(j)) = Given(doc.fields[j])
         /\ Text(mem, KeyOf(j)) = IF j = 1 /\ ~doc.nested THEN <<>> ELSE doc.fields[j].key

(* Of a reply that is accepted, whatever follows it in the buffer, each     *)
(* function gives the value it asks for when errno is zero and the error     *)
(* message when it is not, if that field and errno are there and not spoilt. *)
ValueAnswered ==
  (Answered /\ doc.nested /\ ret >= 0) =>
    \A name \in DOMAIN Wanted :
      LET j == IF NonZero(doc.fields[1].value) THEN 2 ELSE Wanted[name]
      IN  j \in DOMAIN doc.fields /\ Safe(1) /\ Safe(j) =>
            Answer(name) = Given(doc.fields[j])
=============================================================================
