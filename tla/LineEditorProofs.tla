-------------------------- MODULE LineEditorProofs --------------------------
(***************************************************************************)
(* Proofs about LineEditor, for lines and histories of any size, any        *)
(* characters and any table of commands.                                    *)
(***************************************************************************)
EXTENDS LineEditor, FiniteSetTheorems, SequenceTheorems, WellFoundedInduction, TLAPS

-----------------------------------------------------------------------------
(***************************************************************************)
(* Numbers, and functions defined by recursion over them.                  *)
(***************************************************************************)
(* Every non-empty set of numbers has a least one.                          *)
LEMMA LeastNumber ==
  ASSUME NEW T \in SUBSET Nat, T # {}
  PROVE  \E m \in T : \A k \in T : m <= k
  <1>1. PICK m \in T : \A k \in T : ~ (<<k, m>> \in OpToRel(<, Nat))
    BY NatLessThanWellFounded, WFMin
  <1>2. \A k \in T : ~ (k < m)
    BY <1>1 DEF OpToRel
  <1>. QED
    BY <1>2

(* A bounded non-empty one has a greatest.                                   *)
LEMMA GreatestNumber ==
  ASSUME NEW b \in Nat, NEW T \in SUBSET (0 .. b), T # {}
  PROVE  Max(T) \in T /\ \A k \in T : k <= Max(T)
  <1>. DEFINE D == {b - k : k \in T}
  <1>1. D \in SUBSET Nat /\ D # {}
    <2>1. \A k \in T : b - k \in Nat
      OBVIOUS
    <2>2. D # {}
      <3>1. PICK k \in T : TRUE
        OBVIOUS
      <3>2. b - k \in D
        OBVIOUS
      <3>. QED BY <3>2
    <2>. QED BY <2>1, <2>2
  <1>2. PICK m \in D : \A k \in D : m <= k
    <2>. HIDE DEF D
    <2>. QED BY <1>1, LeastNumber
  <1>3. PICK x \in T : m = b - x
    OBVIOUS
  <1>4. \A k \in T : x >= k
    BY <1>2, <1>3
  <1>. QED BY <1>3, <1>4 DEF Max

(* A set of numbers that is closed under successors up to N.                 *)
LEMMA UpTo ==
  ASSUME NEW N \in Nat, NEW T, 0 \in T, \A n \in 0 .. N - 1 : n \in T => n + 1 \in T
  PROVE  \A n \in 0 .. N : n \in T
  <1>. DEFINE D == {n \in 0 .. N : n \notin T}
  <1>. SUFFICES ASSUME D # {} PROVE FALSE
    OBVIOUS
  <1>1. PICK m \in D : \A k \in D : m <= k
    <2>1. D \in SUBSET Nat
      OBVIOUS
    <2>. HIDE DEF D
    <2>. QED BY <2>1, LeastNumber
  <1>2. m # 0 /\ m - 1 \in 0 .. N - 1
    OBVIOUS
  <1>3. m - 1 \in T
    BY <1>1, <1>2
  <1>4. (m - 1) + 1 \in T
    BY <1>2, <1>3
  <1>. QED BY <1>2, <1>4

Iterates(h, N, x, g) == h = [n \in 0 .. N |-> IF n = 0 THEN x ELSE g[n][h[n - 1]]]

(* The step g[n] from the value at n - 1 to that at n defines a function.    *)
LEMMA Recursion ==
  ASSUME NEW N \in Nat, NEW S, NEW x \in S, NEW g \in [1 .. N -> [S -> S]]
  PROVE  \E h \in [0 .. N -> S] : Iterates(h, N, x, g)
  <1>. DEFINE Sol(m) == {h \in [0 .. m -> S] :
                           h[0] = x /\ \A n \in 1 .. m : h[n] = g[n][h[n - 1]]}
              T == {m \in 0 .. N : Sol(m) # {}}
  <1>1. 0 \in T
    <2>1. [n \in 0 .. 0 |-> x] \in Sol(0)
      OBVIOUS
    <2>. QED BY <2>1
  <1>2. ASSUME NEW m \in 0 .. N - 1, m \in T
        PROVE  m + 1 \in T
    <2>1. PICK h \in Sol(m) : TRUE
      BY <1>2
    <2>. DEFINE e == [n \in 0 .. m + 1 |-> IF n = m + 1 THEN g[m + 1][h[m]] ELSE h[n]]
    <2>2. h[m] \in S /\ g[m + 1][h[m]] \in S
      BY <2>1
    <2>3. e \in [0 .. m + 1 -> S] /\ e[0] = x
      BY <2>1, <2>2
    <2>4. ASSUME NEW n \in 1 .. m + 1
          PROVE  e[n] = g[n][e[n - 1]]
      <3>1. CASE n = m + 1
        BY <3>1
      <3>2. CASE n # m + 1
        <4>1. n \in 1 .. m /\ e[n] = h[n] /\ e[n - 1] = h[n - 1]
          BY <3>2
        <4>. QED BY <2>1, <4>1
      <3>. QED BY <3>1, <3>2
    <2>5. e \in Sol(m + 1)
      <3>. HIDE DEF e
      <3>. QED BY <2>3, <2>4
    <2>. QED BY <2>5
  <1>3. N \in T
    <2>1. \A m \in 0 .. N - 1 : m \in T => m + 1 \in T
      BY <1>2
    <2>. HIDE DEF T
    <2>2. \A m \in 0 .. N : m \in T
      BY <1>1, <2>1, UpTo
    <2>. QED BY <2>2
  <1>4. PICK h \in Sol(N) : TRUE
    BY <1>3
  <1>5. Iterates(h, N, x, g)
    BY <1>4 DEF Iterates
  <1>. QED BY <1>4, <1>5

-----------------------------------------------------------------------------
(***************************************************************************)
(* Completion: the text it inserts.                                        *)
(***************************************************************************)
Having(w) == {c \in Range(Commands) : strstr(c, w)}

(* complet collects commands that contain the word. *)

LEMMA CompletFinds ==
  ASSUME NEW w
  PROVE  Complet(w) \in Seq(Having(w))
  <1>. DEFINE N == Len(Commands)
              S == Seq(Having(w))
              Step(n, s) == IF strstr(Commands[n], w) THEN Append(s, Commands[n]) ELSE s
              g == [n \in 1 .. N |-> [s \in S |-> Step(n, s)]]
              Is(h) == h = [n \in 0 .. N |-> IF n = 0 THEN <<>> ELSE Step(n, h[n - 1])]
  <1>1. N \in Nat /\ <<>> \in S
    BY LineAssumption
  <1>2. ASSUME NEW n \in 1 .. N, NEW s \in S
        PROVE  Step(n, s) \in S
    BY LineAssumption DEF Having, Range
  <1>3. g \in [1 .. N -> [S -> S]]
    <2>. HIDE DEF S, N, Step
    <2>. QED BY <1>2
  <1>4. PICK h \in [0 .. N -> S] : Iterates(h, N, <<>>, g)
    <2>. HIDE DEF g, S, N
    <2>. QED BY <1>1, <1>3, Recursion
  <1>5. Is(h)
    <2>1. \A n \in 1 .. N : g[n][h[n - 1]] = Step(n, h[n - 1])
      BY <1>1, SMTT(30)
    <2>. HIDE DEF Step, g
    <2>. QED BY <1>4, <2>1 DEF Iterates
  <1>6. PICK found : Is(found) /\ Complet(w) = found[N]
    <2>1. Is(CHOOSE f : Is(f))
      <3>. HIDE DEF Is
      <3>. QED BY <1>5
    <2>2. Complet(w) = (CHOOSE f : Is(f))[N]
      BY DEF Complet
    <2>. HIDE DEF Is
    <2>. QED BY <2>1, <2>2
  <1>. DEFINE T == {m \in 0 .. N : found[m] \in S}
  <1>7. 0 \in T
    BY <1>1, <1>6
  <1>8. ASSUME NEW n \in 0 .. N - 1, n \in T
        PROVE  n + 1 \in T
    <2>1. n + 1 \in 1 .. N /\ n + 1 # 0 /\ (n + 1) - 1 = n
      BY <1>1
    <2>2. found[n] \in S
      BY <1>8
    <2>. HIDE DEF Step, S
    <2>3. found[n + 1] = Step(n + 1, found[n])
      BY <1>6, <2>1
    <2>. QED BY <1>2, <2>1, <2>2, <2>3
  <1>9. \A n \in 0 .. N : n \in T
    <2>1. \A n \in 0 .. N - 1 : n \in T => n + 1 \in T
      BY <1>8
    <2>. HIDE DEF T, N, S
    <2>. QED BY <1>1, <1>7, <2>1, UpTo
  <1>. QED BY <1>1, <1>6, <1>9

LEMMA CommonLength ==
  ASSUME NEW cs \in Seq(Seq(Letters)), cs # <<>>
  PROVE  LET n == common_len(cs) IN
         /\ n \in 0 .. Len(cs[1])
         /\ \A k \in DOMAIN cs : Len(cs[k]) >= n /\ SubSeq(cs[k], 1, n) = SubSeq(cs[1], 1, n)
         /\ \A m \in 0 .. Len(cs[1]) :
              (\A k \in DOMAIN cs : Len(cs[k]) >= m /\ SubSeq(cs[k], 1, m) = SubSeq(cs[1], 1, m))
                => m <= n
  <1>. DEFINE Common(m) == \A k \in DOMAIN cs : /\ Len(cs[k]) >= m
                                               /\ SubSeq(cs[k], 1, m) = SubSeq(cs[1], 1, m)
              T == {m \in 0 .. Len(cs[1]) : Common(m)}
  <1>1. cs[1] \in Seq(Letters) /\ Len(cs[1]) \in Nat /\ \A k \in DOMAIN cs : cs[k] \in Seq(Letters)
    BY EmptySeq
  <1>2. \A k \in DOMAIN cs : SubSeq(cs[k], 1, 0) = <<>>
    BY <1>1
  <1>3. 1 \in DOMAIN cs /\ \A k \in DOMAIN cs : Len(cs[k]) >= 0
    BY <1>1, EmptySeq
  <1>4. 0 \in T
    BY <1>1, <1>2, <1>3
  <1>5. Max(T) \in T /\ \A m \in T : m <= Max(T)
    <2>1. T \in SUBSET (0 .. Len(cs[1])) /\ T # {}
      BY <1>4
    <2>. HIDE DEF T
    <2>. QED BY <1>1, <2>1, GreatestNumber
  <1>6. common_len(cs) = Max(T)
    BY DEF common_len
  <1>. HIDE DEF Common
  <1>7. common_len(cs) \in 0 .. Len(cs[1]) /\ Common(common_len(cs))
    BY <1>5, <1>6
  <1>8. \A m \in 0 .. Len(cs[1]) : Common(m) => m <= common_len(cs)
    BY <1>5, <1>6
  <1>. QED BY <1>7, <1>8 DEF Common

(* What Tab puts in for a word *)
NewLen(word) == IF Len(Complet(word)) = 1 THEN Len(Complet(word)[1])
                ELSE common_len(Complet(word))

LEMMA NewLength ==
  ASSUME NEW word \in Seq(Letters), word # <<>>, Complet(word) # <<>>
  PROVE  /\ Complet(word)[1] \in Seq(Letters)
         /\ NewLen(word) \in {0} \cup Len(word) - 1 .. Len(Complet(word)[1])
         /\ Complet(word) \in Seq(Seq(Letters))
         /\ Len(Complet(word)) # 0
  <1>. DEFINE cs == Complet(word)
              c == cs[1]
  <1>1. Having(word) \subseteq Seq(Letters)
    BY LineAssumption DEF Having, Range
  <1>2. cs \in Seq(Having(word)) /\ c \in Having(word) /\ Len(cs) # 0
    BY CompletFinds, EmptySeq
  <1>3. c \in Seq(Letters) /\ c \in Range(Commands) /\ cs \in Seq(Seq(Letters))
    BY <1>1, <1>2 DEF Having
  <1>4. Len(word) \in Nat \ {0}
    BY EmptySeq
  <1>5. PICK k \in 0 .. Len(c) - Len(word) : SubSeq(c, k + 1, k + Len(word)) = word
    BY <1>2 DEF Having, strstr
  <1>6. common_len(cs) \in {0} \cup Len(word) - 1 .. Len(c)
    <2>1. k + 1 \in DOMAIN c /\ k + Len(word) \in k + 1 .. Len(c)
      BY <1>3, <1>4
    <2>. QED BY <1>3, <1>5, <2>1, TableAssumption
  <1>7. Len(c) >= Len(word) /\ Len(c) \in Nat
    BY <1>3, <1>4
  <1>. QED BY <1>2, <1>3, <1>4, <1>6, <1>7 DEF NewLen

-----------------------------------------------------------------------------
(***************************************************************************)
(* The line keeps its types.                                               *)
(***************************************************************************)
EditTypes ==
  /\ cmdline \in [0 .. LineLen - 1 -> Letters \cup {0}]
  /\ cmdline[LineLen - 1] = 0
  /\ cmdlen \in 0 .. LineLen - 1
  /\ cursor \in 0 .. cmdlen

Edits ==
  {e \in [line : [0 .. LineLen - 1 -> Letters \cup {0}],
          len : 0 .. LineLen - 1, cursor : 0 .. LineLen - 1] :
     e.cursor <= e.len /\ e.line[LineLen - 1] = 0}

(* The string at a place goes on to the next zero byte. *)
LEMMA StringAtIs ==
  ASSUME EditTypes, NEW i \in 0 .. LineLen - 1
  PROVE  \E n \in 0 .. LineLen - 1 - i :
           /\ StringAt(i) = [k \in 1 .. n |-> cmdline[i + k - 1]]
           /\ cmdline[i + n] = 0
           /\ \A k \in 0 .. n - 1 : cmdline[i + k] # 0
  <1>. DEFINE T == {n \in 0 .. LineLen - 1 - i : cmdline[i + n] = 0}
              Ends(n) == cmdline[i + n] = 0 /\ \A k \in 0 .. n - 1 : cmdline[i + k] # 0
  <1>1. LineLen \in Nat
    BY LineAssumption
  <1>2. T \in SUBSET Nat /\ LineLen - 1 - i \in T
    BY <1>1 DEF EditTypes
  <1>3. PICK m \in T : \A k \in T : m <= k
    <2>. HIDE DEF T
    <2>. QED BY <1>2, LeastNumber
  <1>4. m \in 0 .. LineLen - 1 - i /\ Ends(m)
    BY <1>1, <1>3
  <1>. DEFINE len == CHOOSE n \in 0 .. LineLen - 1 - i : Ends(n)
  <1>5. len \in 0 .. LineLen - 1 - i /\ Ends(len)
    <2>. HIDE DEF Ends
    <2>. QED BY <1>4
  <1>6. StringAt(i) = [k \in 1 .. len |-> cmdline[i + k - 1]]
    BY DEF StringAt
  <1>. HIDE DEF len
  <1>. QED BY <1>5, <1>6

LEMMA InsertTextKeeps ==
  ASSUME NEW e \in Edits, NEW text, NEW from \in Nat, NEW n \in Int, e.cursor + n >= 0,
         \A i \in 1 .. n : text[from + i] \in Letters \cup {0}
  PROVE  InsertText(e, text, from, n) \in Edits
  <1>1. /\ e.line \in [0 .. LineLen - 1 -> Letters \cup {0}] /\ e.line[LineLen - 1] = 0
        /\ e.len \in 0 .. LineLen - 1 /\ e.cursor \in 0 .. e.len
        /\ LineLen \in Nat /\ LineLen > 1 /\ DOMAIN e.line = 0 .. LineLen - 1
    BY LineAssumption DEF Edits
  <1>2. CASE e.len + n >= LineLen
    BY <1>2 DEF InsertText
  <1>3. CASE e.len + n < LineLen
    <2>. DEFINE line == [i \in 0 .. LineLen - 1 |->
                    CASE i \in e.cursor .. e.cursor + n - 1 -> text[from + i - e.cursor + 1]
                      [] i \in e.cursor + n .. e.len + n - 1 -> e.line[i - n]
                      [] i = e.len + n -> 0
                      [] OTHER -> e.line[i]]
    <2>1. InsertText(e, text, from, n) = [line |-> line, len |-> e.len + n, cursor |-> e.cursor + n]
      BY <1>1, <1>3 DEF InsertText
    <2>2. ASSUME NEW i \in 0 .. LineLen - 1
          PROVE  line[i] \in Letters \cup {0}
      <3>1. CASE i \in e.cursor .. e.cursor + n - 1
        <4>1. i - e.cursor + 1 \in 1 .. n /\ from + i - e.cursor + 1 = from + (i - e.cursor + 1)
          BY <1>1, <3>1
        <4>2. line[i] = text[from + i - e.cursor + 1]
          BY <1>1, <3>1
        <4>3. text[from + (i - e.cursor + 1)] \in Letters \cup {0}
          BY <4>1
        <4>. QED BY <4>1, <4>2, <4>3
      <3>2. CASE i \notin e.cursor .. e.cursor + n - 1 /\ i \in e.cursor + n .. e.len + n - 1
        <4>1. i - n \in 0 .. LineLen - 1
          BY <1>1, <3>2
        <4>. QED BY <1>1, <3>2, <4>1
      <3>3. CASE i \notin e.cursor .. e.cursor + n - 1 /\ i \notin e.cursor + n .. e.len + n - 1
        BY <1>1, <3>3
      <3>. QED BY <3>1, <3>2, <3>3
    <2>3. line[LineLen - 1] = 0
      <3>1. LineLen - 1 \notin e.cursor .. e.cursor + n - 1 /\ LineLen - 1 \notin e.cursor + n .. e.len + n - 1
        BY <1>1, <1>3
      <3>. QED BY <1>1, <3>1
    <2>4. line \in [0 .. LineLen - 1 -> Letters \cup {0}]
      BY <2>2
    <2>. HIDE DEF line
    <2>5. e.len + n \in 0 .. LineLen - 1 /\ e.cursor + n \in 0 .. LineLen - 1 /\ e.cursor + n <= e.len + n
      BY <1>1, <1>3
    <2>. DEFINE new == [line |-> line, len |-> e.len + n, cursor |-> e.cursor + n]
    <2>6. /\ new \in [line : [0 .. LineLen - 1 -> Letters \cup {0}],
                      len : 0 .. LineLen - 1, cursor : 0 .. LineLen - 1]
          /\ new.line = line /\ new.len = e.len + n /\ new.cursor = e.cursor + n
      BY <2>4, <2>5
    <2>. HIDE DEF new
    <2>7. new \in Edits
      BY <2>3, <2>5, <2>6 DEF Edits
    <2>. QED BY <2>1, <2>7 DEF new
  <1>. QED BY <1>1, <1>2, <1>3

(* The word at a place, in upper case, and the line with it *)
WordAt(at) == [k \in DOMAIN StringAt(at) |-> Capital[StringAt(at)[k]]]
Raised(at) ==
  [line |-> [i \in DOMAIN cmdline |->
               IF i \in at .. at + Len(WordAt(at)) - 1 THEN WordAt(at)[i - at + 1] ELSE cmdline[i]],
   len |-> cmdlen, cursor |-> cursor]

LEMMA WordAtIs ==
  ASSUME EditTypes, NEW at \in 0 .. LineLen - 1, cmdline[at] # 0
  PROVE  /\ WordAt(at) \in Seq(Letters) /\ WordAt(at) # <<>>
         /\ at + Len(WordAt(at)) \in at + 1 .. LineLen - 1
         /\ cmdline[at + Len(WordAt(at))] = 0
         /\ \A i \in at .. at + Len(WordAt(at)) - 1 :
              cmdline[i] \in Letters /\ WordAt(at)[i - at + 1] = Capital[cmdline[i]]
         /\ Raised(at) \in Edits
  <1>1. PICK n \in 0 .. LineLen - 1 - at :
           /\ StringAt(at) = [k \in 1 .. n |-> cmdline[at + k - 1]]
           /\ cmdline[at + n] = 0
           /\ \A k \in 0 .. n - 1 : cmdline[at + k] # 0
    BY StringAtIs
  <1>2. LineLen \in Nat /\ Letters \subseteq Nat \ {0} /\ Capital \in [Letters -> Letters] /\ n \in Nat
    BY LineAssumption
  <1>3. n # 0
    BY <1>1, <1>2
  <1>4. ASSUME NEW k \in 1 .. n
        PROVE  cmdline[at + k - 1] \in Letters
    <2>1. k - 1 \in 0 .. n - 1 /\ at + (k - 1) \in 0 .. LineLen - 1 /\ at + (k - 1) = at + k - 1
      BY <1>2
    <2>2. cmdline[at + (k - 1)] \in Letters \cup {0}
      BY <2>1 DEF EditTypes
    <2>. QED BY <1>1, <2>1, <2>2
  <1>5. WordAt(at) = [k \in 1 .. n |-> Capital[cmdline[at + k - 1]]]
    BY <1>1 DEF WordAt
  <1>6. WordAt(at) \in Seq(Letters) /\ Len(WordAt(at)) = n /\ WordAt(at) # <<>>
    <2>1. WordAt(at) \in [1 .. n -> Letters]
      BY <1>2, <1>4, <1>5
    <2>2. WordAt(at) \in Seq(Letters) /\ Len(WordAt(at)) = n
      BY <1>2, <2>1
    <2>. QED BY <1>3, <2>2
  <1>7. \A i \in at .. at + n - 1 :
          cmdline[i] \in Letters /\ WordAt(at)[i - at + 1] = Capital[cmdline[i]]
    <2>. SUFFICES ASSUME NEW i \in at .. at + n - 1
                  PROVE  cmdline[i] \in Letters /\ WordAt(at)[i - at + 1] = Capital[cmdline[i]]
      OBVIOUS
    <2>1. i - at + 1 \in 1 .. n /\ at + (i - at + 1) - 1 = i
      BY <1>2
    <2>. QED BY <1>4, <1>5, <2>1
  <1>8. Raised(at) \in Edits
    <2>. DEFINE line == [i \in 0 .. LineLen - 1 |->
               IF i \in at .. at + n - 1 THEN WordAt(at)[i - at + 1] ELSE cmdline[i]]
    <2>1. Raised(at) = [line |-> line, len |-> cmdlen, cursor |-> cursor]
      BY <1>6 DEF Raised, EditTypes
    <2>2. \A i \in 0 .. LineLen - 1 : line[i] \in Letters \cup {0}
      BY <1>2, <1>7 DEF EditTypes
    <2>3. line[LineLen - 1] = 0
      BY <1>1, <1>2 DEF EditTypes
    <2>4. line \in [0 .. LineLen - 1 -> Letters \cup {0}]
      BY <2>2
    <2>. HIDE DEF line
    <2>. QED BY <1>2, <2>1, <2>3, <2>4 DEF Edits, EditTypes
  <1>9. at + n \in at + 1 .. LineLen - 1
    BY <1>2, <1>3
  <1>. QED BY <1>1, <1>6, <1>7, <1>8, <1>9

(* The line with the text of the first command put in *)
Extended(at) ==
  InsertText(Raised(at), Complet(WordAt(at))[1], Len(WordAt(at)),
             NewLen(WordAt(at)) - Len(WordAt(at)))

LEMMA CompletedIs ==
  ASSUME EditTypes, NEW at \in Starts(cursor)
  PROVE  /\ at \in 0 .. cursor - 1 /\ at \in 0 .. LineLen - 1 /\ cmdline[at] # 0
         /\ IF Complet(WordAt(at)) = <<>> \/ NewLen(WordAt(at)) = 0
              THEN Completed(at) = Raised(at)
              ELSE /\ NewLen(WordAt(at)) \in Len(WordAt(at)) - 1 .. Len(Complet(WordAt(at))[1])
                   /\ Extended(at) \in Edits
                   /\ Completed(at) = IF Len(Complet(WordAt(at))) = 1
                                        THEN InsertText(Extended(at), <<0>>, 0, 1)
                                        ELSE Extended(at)
         /\ Completed(at) \in Edits
  <1>. DEFINE w == WordAt(at)
              cs == Complet(w)
  <1>1. at \in 0 .. cursor - 1 /\ at \in 0 .. LineLen - 1 /\ cmdline[at] # 0
    BY LineAssumption DEF Starts, EditTypes
  <1>2. w \in Seq(Letters) /\ w # <<>> /\ Raised(at) \in Edits
    BY <1>1, WordAtIs
  <1>3. Completed(at) = IF cs = <<>> THEN Raised(at)
                        ELSE IF NewLen(w) = 0 THEN Raised(at)
                        ELSE IF Len(cs) = 1 THEN InsertText(Extended(at), <<0>>, 0, 1)
                        ELSE Extended(at)
    BY DEF Completed, WordAt, Raised, Extended, NewLen
  <1>4. CASE cs = <<>> \/ NewLen(w) = 0
    BY <1>1, <1>2, <1>3, <1>4
  <1>5. CASE ~(cs = <<>> \/ NewLen(w) = 0)
    <2>1. /\ cs[1] \in Seq(Letters) /\ Len(w) \in Nat \ {0}
          /\ NewLen(w) \in Len(w) - 1 .. Len(cs[1])
      BY <1>2, <1>5, NewLength, EmptySeq
    <2>2. Extended(at) \in Edits
      <3>1. NewLen(w) - Len(w) \in Int /\ cursor + (NewLen(w) - Len(w)) >= 0
        BY <1>1, <2>1 DEF EditTypes
      <3>2. Raised(at).cursor = cursor
        BY DEF Raised
      <3>3. \A i \in 1 .. NewLen(w) - Len(w) : cs[1][Len(w) + i] \in Letters \cup {0}
        BY <2>1
      <3>. HIDE DEF w, cs
      <3>. QED BY <1>2, <2>1, <3>1, <3>2, <3>3, InsertTextKeeps DEF Extended, w, cs
    <2>3. InsertText(Extended(at), <<0>>, 0, 1) \in Edits
      <3>1. Extended(at).cursor + 1 >= 0
        BY <2>2, LineAssumption DEF Edits
      <3>2. \A i \in 1 .. 1 : <<0>>[0 + i] \in Letters \cup {0}
        OBVIOUS
      <3>. QED BY <2>2, <3>1, <3>2, InsertTextKeeps
    <2>. QED BY <1>1, <1>3, <1>5, <2>1, <2>2, <2>3
  <1>. QED BY <1>4, <1>5

LEMMA TabKeeps ==
  ASSUME EditTypes, microrl_get_complite
  PROVE  EditTypes'
  <1>1. CASE UNCHANGED editVars
    BY <1>1 DEF editVars, EditTypes
  <1>2. CASE ~ UNCHANGED editVars
    <2>. DEFINE at == CHOOSE i \in Starts(cursor) : TRUE
    <2>1. /\ Cardinality(Starts(cursor)) = 1
          /\ cmdline' = Completed(at).line /\ cmdlen' = Completed(at).len
          /\ cursor' = Completed(at).cursor
      BY <1>2 DEF microrl_get_complite
    <2>2. at \in Starts(cursor)
      BY <2>1, FS_EmptySet
    <2>3. Completed(at) \in Edits
      <3>. HIDE DEF at
      <3>. QED BY <2>2, CompletedIs
    <2>. HIDE DEF at
    <2>. QED BY <2>1, <2>3, LineAssumption DEF Edits, EditTypes
  <1>. QED BY <1>1, <1>2

LEMMA InsertKeeps ==
  ASSUME EditTypes, NEW ch \in Letters \cup {0}, Insert(ch)
  PROVE  EditTypes'
  <1>1. LineLen \in Nat /\ LineLen > 1
    BY LineAssumption
  <1>2. CASE cmdlen + 1 < LineLen
    <2>1. /\ cmdline' = [i \in 0 .. LineLen - 1 |->
                   CASE i < cursor -> cmdline[i]
                     [] i = cursor -> ch
                     [] i \in cursor + 1 .. cmdlen -> cmdline[i - 1]
                     [] i = cmdlen + 1 -> 0
                     [] OTHER -> cmdline[i]]
          /\ cmdlen' = cmdlen + 1 /\ cursor' = cursor + 1
      BY <1>2 DEF Insert, EditTypes
    <2>2. \A i \in 0 .. LineLen - 1 : cmdline[i] \in Letters \cup {0}
      BY DEF EditTypes
    <2>3. ASSUME NEW i \in 0 .. LineLen - 1
          PROVE  cmdline'[i] \in Letters \cup {0}
      <3>1. CASE i \in cursor + 1 .. cmdlen
        <4>1. i - 1 \in 0 .. LineLen - 1
          BY <3>1, <1>1 DEF EditTypes
        <4>2. cmdline'[i] = cmdline[i - 1]
          BY <2>1, <3>1, <1>1 DEF EditTypes
        <4>. QED BY <2>2, <4>1, <4>2
      <3>2. CASE i \notin cursor + 1 .. cmdlen
        BY <2>1, <2>2, <3>2, <1>1 DEF EditTypes
      <3>. QED BY <3>1, <3>2
    <2>4. cmdline' \in [0 .. LineLen - 1 -> Letters \cup {0}]
      BY <2>1, <2>3
    <2>5. cmdline'[LineLen - 1] = 0
      BY <1>1, <1>2, <2>1 DEF EditTypes
    <2>. QED BY <1>1, <1>2, <2>1, <2>4, <2>5 DEF EditTypes
  <1>3. CASE ~(cmdlen + 1 < LineLen)
    BY <1>3 DEF Insert, editVars, EditTypes
  <1>. QED BY <1>2, <1>3

LEMMA EraseKeeps ==
  ASSUME EditTypes, NEW n \in 1 .. cursor, Erase(n)
  PROVE  EditTypes'
  <1>1. LineLen \in Nat /\ LineLen > 1
    BY LineAssumption
  <1>2. /\ cmdline' = [i \in 0 .. LineLen - 1 |->
                   CASE i \in cursor - n .. cmdlen - n -> cmdline[i + n]
                     [] i \in cmdlen - n + 1 .. cmdlen -> 0
                     [] OTHER -> cmdline[i]]
        /\ cmdlen' = cmdlen - n /\ cursor' = cursor - n
    BY DEF Erase, EditTypes
  <1>3. \A i \in 0 .. LineLen - 1 : cmdline[i] \in Letters \cup {0}
    BY DEF EditTypes
  <1>4. ASSUME NEW i \in 0 .. LineLen - 1
        PROVE  cmdline'[i] \in Letters \cup {0}
    <2>1. CASE i \in cursor - n .. cmdlen - n
      <3>1. i + n \in 0 .. LineLen - 1
        BY <2>1, <1>1 DEF EditTypes
      <3>2. cmdline'[i] = cmdline[i + n]
        BY <1>2, <2>1, <1>1 DEF EditTypes
      <3>. QED BY <1>3, <3>1, <3>2
    <2>2. CASE i \notin cursor - n .. cmdlen - n
      BY <1>2, <1>3, <2>2, <1>1 DEF EditTypes
    <2>. QED BY <2>1, <2>2
  <1>5. cmdline' \in [0 .. LineLen - 1 -> Letters \cup {0}]
    BY <1>2, <1>4
  <1>6. cmdline'[LineLen - 1] = 0
    BY <1>1, <1>2 DEF EditTypes
  <1>. QED BY <1>1, <1>2, <1>5, <1>6 DEF EditTypes

-----------------------------------------------------------------------------
(***************************************************************************)
(* The history ring: n lines between marks, the offsets f of their length   *)
(* bytes from the oldest one's place b.                                      *)
(***************************************************************************)
Marks(r, b, n, f) ==
  /\ r \in [0 .. RingLen - 1 -> Nat]
  /\ b \in 0 .. RingLen - 1
  /\ n \in 0 .. RingLen - 1
  /\ f \in [0 .. n -> 0 .. RingLen - 1]
  /\ f[0] = 0
  /\ \A k \in 0 .. n - 1 : /\ r[Wrap(b + f[k])] # 0
                           /\ f[k + 1] = f[k] + r[Wrap(b + f[k])] + 1
  /\ \A j, k \in 0 .. n : j < k => /\ f[j] + r[Wrap(b + f[j])] + 1 <= f[k]
                                   /\ k - j <= f[k] - f[j]
  /\ r[Wrap(b + f[n])] = 0

(* The operators of HistoryRing as functions of a ring *)
IsHeaders(h, r, b) ==
  h = [k \in 0 .. RingLen |->
        IF k = 0 THEN b
        ELSE LET p == h[k - 1] IN IF r[p] = 0 THEN p ELSE Wrap(p + r[p] + 1)]
HeaderIn(r, b) == CHOOSE h : IsHeaders(h, r, b)
CountIn(r, b) ==
  CHOOSE k \in 0 .. RingLen :
    /\ r[HeaderIn(r, b)[k]] = 0
    /\ \A j \in 0 .. k - 1 : r[HeaderIn(r, b)[j]] # 0
TextIn(r, p) == [i \in 1 .. r[p] |-> r[Wrap(p + i)]]
SavedIn(r, b) == [k \in 1 .. CountIn(r, b) |-> TextIn(r, HeaderIn(r, b)[k - 1])]

LEMMA RingIs ==
  /\ Header = HeaderIn(ring_buf, begin)
  /\ Count = CountIn(ring_buf, begin)
  /\ \A p : Text(p) = TextIn(ring_buf, p)
  /\ Saved = SavedIn(ring_buf, begin)
  <1>1. Header = HeaderIn(ring_buf, begin)
    BY DEF Header, HeaderIn, IsHeaders
  <1>2. Count = CountIn(ring_buf, begin)
    BY <1>1 DEF Count, CountIn
  <1>3. \A p : Text(p) = TextIn(ring_buf, p)
    BY DEF Text, TextIn
  <1>. QED BY <1>1, <1>2, <1>3 DEF Saved, SavedIn

LEMMA WrapIs ==
  ASSUME NEW p \in 0 .. 2 * RingLen - 1
  PROVE  /\ Wrap(p) \in 0 .. RingLen - 1
         /\ \A d \in Nat : p + d <= 2 * RingLen - 1 => Wrap(Wrap(p) + d) = Wrap(p + d)
  BY RingAssumption DEF Wrap

(* The length bytes are at the marks. *)
LEMMA HeadersAre ==
  ASSUME NEW r, NEW b, NEW n, NEW f, Marks(r, b, n, f)
  PROVE  /\ \A k \in 0 .. n : HeaderIn(r, b)[k] = Wrap(b + f[k])
         /\ CountIn(r, b) = n
  <1>. DEFINE H(k) == IF k <= n THEN Wrap(b + f[k]) ELSE Wrap(b + f[n])
              h == [k \in 0 .. RingLen |-> H(k)]
              Hop(p) == IF r[p] = 0 THEN p ELSE Wrap(p + r[p] + 1)
  <1>1. /\ n \in 0 .. RingLen - 1 /\ RingLen \in Nat /\ RingLen > 2 /\ n \in Nat
        /\ \A k \in 0 .. n : b + f[k] \in 0 .. 2 * RingLen - 1 /\ f[k] \in 0 .. RingLen - 1
        /\ b \in 0 .. RingLen - 1
    BY RingAssumption DEF Marks
  <1>2. H(0) = b
    BY <1>1, RingAssumption DEF Marks, Wrap
  <1>3. ASSUME NEW k \in 1 .. RingLen
        PROVE  H(k) = Hop(H(k - 1))
    <2>1. CASE k <= n
      <3>. DEFINE x == b + f[k - 1]
                  d == r[Wrap(x)] + 1
      <3>1. k - 1 \in 0 .. n - 1 /\ k - 1 \in 0 .. n /\ k \in 0 .. n /\ (k - 1) + 1 = k
        BY <1>1, <2>1
      <3>2. r[Wrap(x)] # 0 /\ f[k] = f[k - 1] + r[Wrap(x)] + 1
        BY <3>1 DEF Marks
      <3>3. x \in 0 .. 2 * RingLen - 1 /\ Wrap(x) \in 0 .. RingLen - 1
        BY <1>1, <3>1, WrapIs
      <3>4. r[Wrap(x)] \in Nat /\ d \in Nat
        BY <3>3 DEF Marks
      <3>5. x + d = b + f[k] /\ x + d <= 2 * RingLen - 1
        BY <1>1, <3>1, <3>2, <3>4
      <3>6. Wrap(Wrap(x) + d) = Wrap(b + f[k])
        BY <3>3, <3>4, <3>5, WrapIs
      <3>7. Wrap(x) + r[Wrap(x)] + 1 = Wrap(x) + d
        BY <3>3, <3>4
      <3>8. H(k - 1) = Wrap(x) /\ H(k) = Wrap(b + f[k])
        BY <2>1, <3>1, <1>1
      <3>. HIDE DEF x, d, H
      <3>. QED BY <3>2, <3>6, <3>7, <3>8 DEF x
    <2>2. CASE ~(k <= n)
      <3>1. H(k - 1) = Wrap(b + f[n]) /\ H(k) = Wrap(b + f[n])
        <4>1. CASE k - 1 = n
          BY <4>1, <2>2, <1>1
        <4>2. CASE k - 1 # n
          BY <4>2, <2>2, <1>1
        <4>. QED BY <4>1, <4>2
      <3>. QED BY <3>1 DEF Marks
    <2>. QED BY <2>1, <2>2
  <1>4. IsHeaders(h, r, b)
    <2>1. \A k \in 1 .. RingLen : h[k - 1] = H(k - 1)
      BY <1>1
    <2>. HIDE DEF H, Hop
    <2>2. \A k \in 0 .. RingLen : H(k) = IF k = 0 THEN b ELSE Hop(h[k - 1])
      <3>. SUFFICES ASSUME NEW k \in 0 .. RingLen
                    PROVE  H(k) = IF k = 0 THEN b ELSE Hop(h[k - 1])
        OBVIOUS
      <3>1. CASE k = 0
        BY <1>2, <3>1
      <3>2. CASE k # 0
        <4>1. k \in 1 .. RingLen
          BY <1>1, <3>2
        <4>2. h[k - 1] = H(k - 1) /\ H(k) = Hop(H(k - 1))
          BY <1>3, <2>1, <4>1
        <4>. HIDE DEF h
        <4>. QED BY <3>2, <4>2
      <3>. QED BY <3>1, <3>2
    <2>3. h = [k \in 0 .. RingLen |-> IF k = 0 THEN b ELSE Hop(h[k - 1])]
      BY <2>2
    <2>. QED BY <2>3 DEF IsHeaders, Hop
  <1>5. PICK g : g = HeaderIn(r, b) /\ IsHeaders(g, r, b)
    BY <1>4 DEF HeaderIn
  <1>6. /\ g[0] = b
        /\ \A k \in 1 .. RingLen : g[k] = Hop(g[k - 1])
    <2>1. g = [k \in 0 .. RingLen |-> IF k = 0 THEN b ELSE Hop(g[k - 1])]
      BY <1>5 DEF IsHeaders
    <2>2. 0 \in 0 .. RingLen /\ \A k \in 1 .. RingLen : k \in 0 .. RingLen /\ k # 0
      BY <1>1
    <2>. HIDE DEF Hop
    <2>. QED BY <2>1, <2>2
  <1>. DEFINE T == {k \in 0 .. RingLen : g[k] = H(k)}
  <1>7. \A k \in 0 .. RingLen : k \in T
    <2>. HIDE DEF H, Hop
    <2>1. 0 \in T
      BY <1>1, <1>2, <1>6
    <2>2. ASSUME NEW k \in 0 .. RingLen - 1, k \in T
          PROVE  k + 1 \in T
      <3>1. k + 1 \in 1 .. RingLen /\ (k + 1) - 1 = k
        BY <1>1
      <3>2. g[k + 1] = Hop(g[k]) /\ H(k + 1) = Hop(H(k))
        BY <1>3, <1>6, <3>1
      <3>. QED BY <2>2, <3>1, <3>2, <1>1
    <2>3. \A k \in 0 .. RingLen - 1 : k \in T => k + 1 \in T
      BY <2>2
    <2>. HIDE DEF T
    <2>. QED BY <1>1, <2>1, <2>3, UpTo
  <1>8. \A k \in 0 .. n : g[k] = Wrap(b + f[k])
    <2>1. \A k \in 0 .. n : k \in 0 .. RingLen /\ H(k) = Wrap(b + f[k])
      BY <1>1
    <2>. HIDE DEF H
    <2>. QED BY <1>7, <2>1
  <1>9. CountIn(r, b) = n
    <2>. DEFINE Is(k) == r[g[k]] = 0 /\ \A j \in 0 .. k - 1 : r[g[j]] # 0
    <2>1. Is(n) /\ n \in 0 .. RingLen
      <3>1. \A j \in 0 .. n - 1 : j \in 0 .. n
        BY <1>1
      <3>2. n \in 0 .. n
        BY <1>1
      <3>3. r[g[n]] = 0
        BY <1>8, <3>2 DEF Marks
      <3>4. \A j \in 0 .. n - 1 : r[g[j]] # 0
        BY <1>8, <3>1 DEF Marks
      <3>. QED BY <1>1, <3>3, <3>4
    <2>2. ASSUME NEW k \in 0 .. RingLen, Is(k)
          PROVE  k = n
      <3>1. ~(k < n)
        <4>1. k < n => k \in 0 .. n - 1
          BY <1>1
        <4>. QED BY <2>1, <2>2, <4>1
      <3>2. ~(n < k)
        <4>1. n < k => n \in 0 .. k - 1
          BY <1>1
        <4>. QED BY <2>1, <2>2, <4>1
      <3>. QED BY <1>1, <3>1, <3>2
    <2>3. CountIn(r, b) = CHOOSE k \in 0 .. RingLen : Is(k)
      BY <1>5 DEF CountIn
    <2>. HIDE DEF Is
    <2>. QED BY <2>1, <2>2, <2>3
  <1>. QED BY <1>5, <1>8, <1>9

(* What hist_save_line leaves in the buffer *)
Written(r, e, line) ==
  LET len == Len(line)
      e2 == Wrap(e + len + 1)
      At(p) == Wrap(RingLen + p - e)
  IN [p \in DOMAIN r |->
        CASE p = e2 -> 0
          [] p = e -> len
          [] p # e2 /\ At(p) \in 1 .. len -> line[At(p)]
          [] OTHER -> r[p]]

(* In terms of the distance d from a place b of the buffer, D that of the    *)
(* old end.                                                                  *)
HasRoom(r, b, D, e, line) ==
  /\ r \in [0 .. RingLen - 1 -> Nat] /\ b \in 0 .. RingLen - 1
  /\ line \in Seq(Nat) /\ Len(line) > 0
  /\ D \in Nat /\ D + Len(line) + 1 < RingLen
  /\ e = Wrap(b + D)

LEMMA WrittenIs ==
  ASSUME NEW r, NEW b, NEW D, NEW e, NEW line, HasRoom(r, b, D, e, line)
  PROVE  /\ Written(r, e, line) \in [0 .. RingLen - 1 -> Nat]
         /\ Wrap(e + Len(line) + 1) = Wrap(b + D + Len(line) + 1)
         /\ Written(r, e, line)[Wrap(b + D + Len(line) + 1)] = 0
         /\ Written(r, e, line)[Wrap(b + D)] = Len(line)
         /\ \A i \in 1 .. Len(line) : Written(r, e, line)[Wrap(b + D + i)] = line[i]
         /\ \A d \in 0 .. D - 1 : Written(r, e, line)[Wrap(b + d)] = r[Wrap(b + d)]
  <1>. DEFINE len == Len(line)
              L == RingLen
              e2 == Wrap(e + len + 1)
              At(p) == Wrap(L + p - e)
              w == Written(r, e, line)
              Is(p) == CASE p = e2 -> 0
                         [] p = e -> len
                         [] p # e2 /\ At(p) \in 1 .. len -> line[At(p)]
                         [] OTHER -> r[p]
  <1>0. /\ r \in [0 .. RingLen - 1 -> Nat] /\ b \in 0 .. RingLen - 1
        /\ line \in Seq(Nat) /\ D \in Nat /\ e = Wrap(b + D)
    BY DEF HasRoom
  <1>1. L \in Nat /\ L > 2 /\ len \in Nat /\ len > 0 /\ D + len + 1 < L
    BY RingAssumption DEF HasRoom
  <1>2. w = [p \in 0 .. L - 1 |-> Is(p)]
    BY <1>0 DEF Written
  <1>3. \A i \in 1 .. len : line[i] \in Nat
    BY <1>0
  <1>. HIDE DEF len, L, w
  <1>4. e \in 0 .. L - 1 /\ e2 \in 0 .. L - 1 /\ e2 # e /\ e2 = Wrap(b + D + len + 1)
    BY <1>0, <1>1 DEF Wrap, L
  <1>5. \A d \in 0 .. D + len + 1 : Wrap(b + d) \in 0 .. L - 1
    BY <1>0, <1>1 DEF Wrap, L
  <1>6. ASSUME NEW d \in 0 .. D + len + 1
        PROVE  /\ (Wrap(b + d) = e2) = (d = D + len + 1)
               /\ (Wrap(b + d) = e) = (d = D)
               /\ d >= D => At(Wrap(b + d)) = d - D
               /\ d < D => At(Wrap(b + d)) \notin 1 .. len
    BY <1>0, <1>1, <1>4 DEF Wrap, L
  <1>. HIDE DEF e2, At
  <1>7. w[e2] = 0
    BY <1>2, <1>4
  <1>8. At(e) = 0 /\ At(e) \notin 1 .. len
    <2>1. D \in 0 .. D + len + 1 /\ D >= D /\ D - D = 0
      BY <1>0, <1>1
    <2>2. At(e) = 0
      BY <1>0, <1>6, <2>1
    <2>. QED BY <1>1, <2>2
  <1>12. w[e] = len
    BY <1>2, <1>4, <1>8
  <1>9. ASSUME NEW i \in 1 .. len
        PROVE  w[Wrap(b + D + i)] = line[i]
    <2>1. D + i \in 0 .. D + len + 1 /\ D + i # D + len + 1 /\ D + i # D /\ D + i >= D
      BY <1>0, <1>1
    <2>2. PICK p \in 0 .. L - 1 : p = Wrap(b + (D + i))
      BY <1>5, <2>1
    <2>3. p # e2 /\ p # e /\ At(p) = (D + i) - D
      BY <1>6, <2>1, <2>2
    <2>4. At(p) = i
      BY <1>0, <1>1, <2>3
    <2>5. Is(p) = line[At(p)]
      BY <2>3, <2>4
    <2>6. b + (D + i) = b + D + i
      BY <1>0, <1>1
    <2>. HIDE DEF Is
    <2>. QED BY <1>2, <2>2, <2>4, <2>5, <2>6
  <1>10. ASSUME NEW d \in 0 .. D - 1
         PROVE  w[Wrap(b + d)] = r[Wrap(b + d)]
    <2>1. d \in 0 .. D + len + 1 /\ d # D + len + 1 /\ d # D /\ d < D
      BY <1>0, <1>1
    <2>2. PICK p \in 0 .. L - 1 : p = Wrap(b + d)
      BY <1>5, <2>1
    <2>3. p # e2 /\ p # e /\ At(p) \notin 1 .. len
      BY <1>6, <2>1, <2>2
    <2>4. Is(p) = r[p]
      BY <2>3
    <2>. HIDE DEF Is
    <2>. QED BY <1>2, <2>2, <2>4
  <1>11. w \in [0 .. L - 1 -> Nat]
    <2>1. ASSUME NEW p \in 0 .. L - 1
          PROVE  Is(p) \in Nat
      <3>1. CASE p = e2 \/ p = e
        BY <1>1, <1>4, <1>8, <3>1
      <3>2. CASE p # e2 /\ p # e /\ At(p) \in 1 .. len
        BY <1>3, <3>2
      <3>3. CASE p # e2 /\ p # e /\ At(p) \notin 1 .. len
        BY <1>0, <3>3 DEF L
      <3>. QED BY <3>1, <3>2, <3>3
    <2>. HIDE DEF Is
    <2>. QED BY <1>2, <2>1
  <1>. QED BY <1>0, <1>4, <1>7, <1>9, <1>10, <1>11, <1>12 DEF len, L, w, e2

(* The marks once the lines up to q are given up and one is added           *)
NewMarks(f, n, q, len) ==
  [k \in 0 .. n - q + 1 |-> IF k <= n - q THEN f[q + k] - f[q] ELSE f[n] - f[q] + len + 1]

(* hist_save_line gives up q lines of a ring and saves another: r2, b2 and g *)
(* are the new ring.                                                         *)
Saves(r, b, n, f, e, line, q, r2, b2, g) ==
  /\ Marks(r, b, n, f)
  /\ e = Wrap(b + f[n])
  /\ line \in Seq(Nat) /\ Len(line) > 0
  /\ q \in 0 .. n
  /\ f[n] - f[q] + Len(line) + 1 < RingLen
  /\ r2 = Written(r, e, line)
  /\ b2 = Wrap(b + f[q])
  /\ g = NewMarks(f, n, q, Len(line))

LEMMA Saving ==
  ASSUME NEW r, NEW b, NEW n, NEW f, NEW e, NEW line, NEW q, NEW r2, NEW b2, NEW g,
         Saves(r, b, n, f, e, line, q, r2, b2, g)
  PROVE  /\ Marks(r2, b2, n - q + 1, g)
         /\ Wrap(e + Len(line) + 1) = Wrap(b2 + g[n - q + 1])
         /\ \A k \in 0 .. n - q - 1 :
              TextIn(r2, Wrap(b2 + g[k])) = TextIn(r, Wrap(b + f[q + k]))
         /\ TextIn(r2, Wrap(b2 + g[n - q])) = line
  <1>1. /\ r \in [0 .. RingLen - 1 -> Nat]
        /\ b \in 0 .. RingLen - 1
        /\ n \in 0 .. RingLen - 1 /\ n \in Nat /\ q \in Nat /\ q <= n /\ q \in 0 .. n
        /\ f \in [0 .. n -> 0 .. RingLen - 1]
        /\ f[0] = 0
        /\ RingLen \in Nat /\ RingLen > 2
    <2>1. RingLen \in Nat /\ RingLen > 2
      BY RingAssumption
    <2>2. n \in 0 .. RingLen - 1 /\ q \in 0 .. n
      BY DEF Marks, Saves
    <2>3. n \in Nat /\ q \in Nat /\ q <= n
      BY <2>1, <2>2
    <2>. QED BY <2>1, <2>2, <2>3 DEF Marks, Saves
  <1>0. RingLen \in Nat /\ RingLen > 2 /\ b \in Nat
    BY <1>1
  <1>a. PICK len \in Nat \ {0} : len = Len(line)
    BY DEF Saves
  <1>b. PICK m \in Nat : m = n - q /\ m <= n /\ q + m = n
    BY <1>1
  <1>2. \A k \in 0 .. n : /\ f[k] \in 0 .. RingLen - 1
                          /\ b + f[k] \in 0 .. 2 * RingLen - 1
                          /\ Wrap(b + f[k]) \in 0 .. RingLen - 1
                          /\ r[Wrap(b + f[k])] \in Nat
                          /\ f[k] \in Nat /\ f[k] < RingLen
    <2>. SUFFICES ASSUME NEW k \in 0 .. n
                  PROVE  /\ f[k] \in Nat /\ f[k] < RingLen
                         /\ f[k] \in 0 .. RingLen - 1
                         /\ b + f[k] \in 0 .. 2 * RingLen - 1
                         /\ Wrap(b + f[k]) \in 0 .. RingLen - 1
                         /\ r[Wrap(b + f[k])] \in Nat
      OBVIOUS
    <2>1. f[k] \in 0 .. RingLen - 1
      BY <1>1
    <2>2. b + f[k] \in 0 .. 2 * RingLen - 1
      BY <1>1, <2>1, SMTT(30)
    <2>3. Wrap(b + f[k]) \in 0 .. RingLen - 1
      BY <2>2, WrapIs
    <2>. QED BY <1>1, <2>1, <2>2, <2>3, SMTT(30)
  <1>3. \A j, k \in 0 .. n : j < k => /\ f[j] + r[Wrap(b + f[j])] + 1 <= f[k]
                                      /\ k - j <= f[k] - f[j]
    BY DEF Marks, Saves
  <1>4. \A k \in 0 .. n - 1 : /\ r[Wrap(b + f[k])] # 0
                              /\ f[k + 1] = f[k] + r[Wrap(b + f[k])] + 1
    BY DEF Marks, Saves
  <1>5. b2 \in 0 .. RingLen - 1 /\ b2 = Wrap(b + f[q])
    BY <1>1, <1>2 DEF Saves
  (* Distances from the new oldest line *)
  <1>6. ASSUME NEW d \in Nat, f[q] + d <= RingLen
        PROVE  Wrap(b2 + d) = Wrap(b + f[q] + d)
    <2>1. PICK x \in 0 .. 2 * RingLen - 1 : x = b + f[q] /\ f[q] \in 0 .. RingLen - 1
      BY <1>1, <1>2
    <2>2. x + d <= 2 * RingLen - 1
      <3>1. PICK y \in 0 .. RingLen - 1 : y = f[q] /\ y + d <= RingLen /\ x = b + y
        BY <1>6, <2>1
      <3>2. b <= RingLen - 1 /\ b \in Nat /\ RingLen \in Nat
        BY <1>1, <1>0
      <3>. QED BY <3>1, <3>2, <1>6
    <2>3. Wrap(Wrap(x) + d) = Wrap(x + d)
      BY <2>2, WrapIs
    <2>. QED BY <1>5, <2>1, <2>3
  <1>c. \A j, k \in 0 .. n : j <= k => f[j] <= f[k]
    <2>. SUFFICES ASSUME NEW j \in 0 .. n, NEW k \in 0 .. n, j <= k PROVE f[j] <= f[k]
      OBVIOUS
    <2>1. CASE j = k
      BY <1>2, <2>1
    <2>2. CASE j # k
      <3>1. n \in Nat
        BY <1>1
      <3>2. j < k
        BY <2>2, <3>1
      <3>3. f[j] + r[Wrap(b + f[j])] + 1 <= f[k]
        BY <1>3, <3>2
      <3>4. f[j] \in Nat /\ f[k] \in Nat /\ r[Wrap(b + f[j])] \in Nat
        BY <1>2
      <3>. QED BY <3>3, <3>4
    <2>. QED BY <2>1, <2>2
  <1>d. PICK D \in Nat : D = f[n] - f[q] /\ f[q] + D = f[n]
    <2>1. n \in 0 .. n /\ f[q] <= f[n]
      BY <1>1, <1>c
    <2>2. f[n] \in Nat /\ f[q] \in Nat
      BY <1>1, <1>2, <2>1
    <2>. QED BY <2>1, <2>2
  <1>7. D + len + 1 < RingLen /\ e = Wrap(b2 + D)
    <2>1. n \in 0 .. n /\ f[n] \in Nat /\ f[n] < RingLen
      <3>1. n \in 0 .. n
        BY <1>1
      <3>. QED BY <1>2, <3>1
    <2>2. Wrap(b2 + D) = Wrap(b + f[q] + D)
      BY <1>0, <1>6, <1>d, <2>1
    <2>3. b + f[q] + D = b + f[n]
      <3>1. f[q] \in Nat /\ b \in Nat
        BY <1>1, <1>2
      <3>. QED BY <1>d, <2>1, <3>1
    <2>. QED BY <1>a, <1>d, <2>2, <2>3 DEF Saves
  <1>8. /\ r2 \in [0 .. RingLen - 1 -> Nat]
        /\ Wrap(e + len + 1) = Wrap(b2 + D + len + 1)
        /\ r2[Wrap(b2 + D + len + 1)] = 0
        /\ r2[Wrap(b2 + D)] = len
        /\ \A i \in 1 .. len : r2[Wrap(b2 + D + i)] = line[i]
        /\ \A d \in 0 .. D - 1 : r2[Wrap(b2 + d)] = r[Wrap(b2 + d)]
    <2>1. r2 = Written(r, e, line)
      BY DEF Saves
    <2>2. HasRoom(r, b2, D, e, line)
      <3>1. line \in Seq(Nat) /\ Len(line) > 0
        BY DEF Saves
      <3>2. D + Len(line) + 1 < RingLen /\ e = Wrap(b2 + D)
        BY <1>a, <1>7
      <3>. QED BY <1>1, <1>5, <3>1, <3>2 DEF HasRoom
    <2>3. /\ Written(r, e, line) \in [0 .. RingLen - 1 -> Nat]
          /\ Wrap(e + Len(line) + 1) = Wrap(b2 + D + Len(line) + 1)
          /\ Written(r, e, line)[Wrap(b2 + D + Len(line) + 1)] = 0
          /\ Written(r, e, line)[Wrap(b2 + D)] = Len(line)
          /\ \A i \in 1 .. Len(line) : Written(r, e, line)[Wrap(b2 + D + i)] = line[i]
          /\ \A d \in 0 .. D - 1 : Written(r, e, line)[Wrap(b2 + d)] = r[Wrap(b2 + d)]
      BY <2>2, WrittenIs
    <2>. QED BY <1>a, <2>1, <2>3
  (* The marks that stay, and the two new ones *)
  <1>9. ASSUME NEW k \in 0 .. m
        PROVE  /\ g[k] = f[q + k] - f[q] /\ q + k \in 0 .. n
               /\ g[k] \in 0 .. D
               /\ Wrap(b2 + g[k]) = Wrap(b + f[q + k])
               /\ k < m => /\ g[k] + r[Wrap(b + f[q + k])] + 1 <= D
                           /\ r2[Wrap(b2 + g[k])] = r[Wrap(b + f[q + k])]
    <2>1. PICK j \in 0 .. n : j = q + k /\ q <= j /\ j <= n
      BY <1>1, <1>b
    <2>2. /\ n \in 0 .. n /\ f[j] \in Nat /\ f[q] \in Nat /\ f[n] \in Nat
          /\ r[Wrap(b + f[j])] \in Nat /\ f[j] < RingLen
      <3>1. n \in 0 .. n
        BY <1>1
      <3>. QED BY <1>1, <1>2, <3>1
    <2>3. g[k] = f[j] - f[q]
      BY <1>1, <1>b, <2>1 DEF NewMarks, Saves
    <2>4. f[q] <= f[j] /\ f[j] <= f[n]
      BY <1>1, <1>c, <2>1, <2>2
    <2>5. PICK x \in Nat : x = g[k] /\ x <= D /\ f[q] + x = f[j]
      BY <1>d, <2>2, <2>3, <2>4
    <2>6. Wrap(b2 + x) = Wrap(b + f[j])
      <3>1. f[q] + x <= RingLen /\ b + f[q] + x = b + f[j]
        <4>1. f[q] + x <= RingLen
          BY <1>0, <2>2, <2>5
        <4>2. b + f[q] + x = b + f[j]
          BY <1>0, <2>2, <2>5
        <4>. QED BY <4>1, <4>2
      <3>. QED BY <1>6, <3>1
    <2>7. ASSUME k < m
          PROVE  /\ x + r[Wrap(b + f[j])] + 1 <= D
                 /\ r2[Wrap(b2 + x)] = r[Wrap(b + f[j])]
      <3>1. j < n
        BY <1>1, <1>b, <2>1, <2>7
      <3>2. f[j] + r[Wrap(b + f[j])] + 1 <= f[n]
        BY <1>3, <2>2, <3>1
      <3>3. x + r[Wrap(b + f[j])] + 1 <= D
        BY <1>d, <2>2, <2>5, <3>2
      <3>4. x \in 0 .. D - 1
        BY <2>2, <3>3
      <3>. QED BY <1>8, <2>6, <3>3, <3>4
    <2>. QED BY <2>1, <2>3, <2>5, <2>6, <2>7
  <1>10. /\ g[0] = 0 /\ g[m] = D /\ g[m + 1] = D + len + 1
         /\ g \in [0 .. m + 1 -> 0 .. RingLen - 1]
    <2>1. 0 \in 0 .. m /\ m \in 0 .. m /\ q + 0 = q /\ m + 1 \in 0 .. m + 1 /\ ~(m + 1 <= m)
      BY <1>1
    <2>2. g[0] = 0
      BY <1>2, <1>9, <2>1
    <2>3. g[m] = D
      BY <1>9, <1>b, <1>d, <2>1
    <2>4. g[m + 1] = D + len + 1
      BY <1>a, <1>b, <1>d, <2>1 DEF NewMarks, Saves
    <2>5. ASSUME NEW k \in 0 .. m + 1
          PROVE  g[k] \in 0 .. RingLen - 1
      <3>1. CASE k = m + 1
        BY <1>1, <1>7, <2>4, <3>1, SMTT(30)
      <3>2. CASE k # m + 1
        <4>1. k \in 0 .. m
          BY <3>2
        <4>2. g[k] \in 0 .. D
          BY <1>9, <4>1
        <4>. QED BY <1>1, <1>7, <4>2
      <3>. QED BY <3>1, <3>2
    <2>6. g = [k \in 0 .. m + 1 |-> g[k]]
      BY <1>b DEF NewMarks, Saves
    <2>. QED BY <2>2, <2>3, <2>4, <2>5, <2>6
  <1>11. /\ Wrap(b2 + g[m + 1]) = Wrap(b2 + D + len + 1)
         /\ Wrap(b2 + g[m]) = Wrap(b2 + D)
         /\ r2[Wrap(b2 + g[m])] = len
         /\ r2[Wrap(b2 + g[m + 1])] = 0
    <2>1. b2 + (D + len + 1) = b2 + D + len + 1
      BY <1>0, <1>5
    <2>. QED BY <1>8, <1>10, <2>1
  (* The mark k has its length byte, and the next one follows.              *)
  <1>12. ASSUME NEW k \in 0 .. m
         PROVE  /\ r2[Wrap(b2 + g[k])] \in Nat \ {0}
                /\ g[k + 1] = g[k] + r2[Wrap(b2 + g[k])] + 1
    <2>1. CASE k = m
      <3>1. g[m + 1] = g[m] + len + 1
        BY <1>10
      <3>. QED BY <1>11, <2>1, <3>1
    <2>2. CASE k # m
      <3>1. k < m /\ k + 1 \in 0 .. m
        BY <2>2
      <3>2. PICK j \in 0 .. n - 1 : j = q + k /\ q + (k + 1) = j + 1 /\ j + 1 \in 0 .. n /\ j \in 0 .. n
        BY <1>1, <1>b, <3>1
      <3>3. r[Wrap(b + f[j])] # 0 /\ f[j + 1] = f[j] + r[Wrap(b + f[j])] + 1
        BY <1>4, <3>2
      <3>4. g[k] = f[j] - f[q] /\ g[k + 1] = f[j + 1] - f[q] /\ r2[Wrap(b2 + g[k])] = r[Wrap(b + f[j])]
        BY <1>9, <3>1, <3>2
      <3>5. f[j] \in Nat /\ f[q] \in Nat /\ r[Wrap(b + f[j])] \in Nat
        BY <1>1, <1>2, <3>2
      <3>. QED BY <3>3, <3>4, <3>5
    <2>. QED BY <2>1, <2>2
  <1>13. ASSUME NEW j \in 0 .. m + 1, NEW k \in 0 .. m + 1, j < k
         PROVE  /\ g[j] + r2[Wrap(b2 + g[j])] + 1 <= g[k]
                /\ k - j <= g[k] - g[j]
    <2>1. j \in 0 .. m /\ g[j] \in Nat /\ g[k] \in Nat
      BY <1>10, <1>13
    <2>2. CASE k = m + 1
      <3>1. CASE j = m
        BY <1>10, <1>11, <2>2, <3>1
      <3>2. CASE j # m
        <4>1. PICK i \in 0 .. n : i = q + j /\ i < n /\ n - i = m - j
          BY <1>1, <1>b, <2>1, <3>2
        <4>2. n - i <= f[n] - f[i] /\ f[n] \in Nat /\ f[i] \in Nat /\ f[q] \in Nat
          <5>1. n \in 0 .. n
            BY <1>1
          <5>. QED BY <1>1, <1>2, <1>3, <4>1, <5>1
        <4>3. g[j] = f[i] - f[q] /\ g[j] + r2[Wrap(b2 + g[j])] + 1 <= D
          BY <1>9, <2>1, <3>2, <4>1
        <4>4. r2[Wrap(b2 + g[j])] \in Nat
          BY <1>12, <2>1
        <4>5. g[k] = D + len + 1
          BY <1>10, <2>2
        <4>6. m - j <= D - g[j]
          BY <1>d, <4>1, <4>2, <4>3
        <4>7. k - j <= g[k] - g[j]
          BY <2>1, <2>2, <4>5, <4>6
        <4>8. g[j] + r2[Wrap(b2 + g[j])] + 1 <= g[k]
          BY <2>1, <4>3, <4>4, <4>5
        <4>. QED BY <4>7, <4>8
      <3>. QED BY <3>1, <3>2
    <2>3. CASE k # m + 1
      <3>1. k \in 0 .. m /\ j < m
        BY <1>13, <2>1, <2>3
      <3>2. PICK i \in 0 .. n, l \in 0 .. n : i = q + j /\ l = q + k /\ i < l /\ l - i = k - j
        BY <1>1, <1>b, <1>13, <2>1, <3>1
      <3>3. /\ f[i] + r[Wrap(b + f[i])] + 1 <= f[l] /\ l - i <= f[l] - f[i]
            /\ f[i] \in Nat /\ f[l] \in Nat /\ f[q] \in Nat /\ r[Wrap(b + f[i])] \in Nat
        BY <1>1, <1>2, <1>3, <3>2
      <3>4. g[j] = f[i] - f[q] /\ g[k] = f[l] - f[q] /\ r2[Wrap(b2 + g[j])] = r[Wrap(b + f[i])]
        BY <1>9, <2>1, <3>1, <3>2
      <3>. QED BY <3>2, <3>3, <3>4
    <2>. QED BY <2>2, <2>3
  <1>14. Marks(r2, b2, m + 1, g)
    <2>1. m + 1 \in 0 .. RingLen - 1
      <3>1. 0 < m + 1 /\ 0 \in 0 .. m + 1 /\ m + 1 \in 0 .. m + 1
        OBVIOUS
      <3>2. m + 1 - 0 <= g[m + 1] - g[0]
        BY <1>13, <3>1
      <3>. QED BY <1>0, <1>7, <1>10, <3>2
    <2>2. \A k \in 0 .. m : r2[Wrap(b2 + g[k])] # 0
      BY <1>12
    <2>3. 0 .. (m + 1) - 1 = 0 .. m
      OBVIOUS
    <2>. QED BY <1>5, <1>8, <1>10, <1>11, <1>12, <1>13, <2>1, <2>2, <2>3 DEF Marks
  <1>15. ASSUME NEW k \in 0 .. m - 1
         PROVE  TextIn(r2, Wrap(b2 + g[k])) = TextIn(r, Wrap(b + f[q + k]))
    <2>1. k \in 0 .. m /\ k < m
      OBVIOUS
    <2>2. PICK j \in 0 .. n : j = q + k
      BY <1>9, <2>1
    <2>3. PICK x \in 0 .. D : x = g[k] /\ x = f[j] - f[q]
      BY <1>9, <2>1, <2>2
    <2>4. PICK l \in Nat : l = r[Wrap(b + f[j])] /\ x + l + 1 <= D /\ r2[Wrap(b2 + x)] = l
      BY <1>1, <1>2, <1>9, <2>1, <2>2, <2>3
    <2>5. ASSUME NEW i \in 1 .. l
          PROVE  r2[Wrap(Wrap(b2 + x) + i)] = r[Wrap(Wrap(b + f[j]) + i)]
      <3>1. x + i \in 0 .. D - 1 /\ f[q] + (x + i) <= RingLen /\ x + i \in Nat
        <4>1. f[q] \in Nat /\ f[n] \in Nat /\ f[n] < RingLen
          BY <1>0, <1>1, <1>2
        <4>. QED BY <1>0, <1>d, <2>4, <4>1
      <3>2. r2[Wrap(b2 + (x + i))] = r[Wrap(b2 + (x + i))]
        BY <1>8, <3>1
      <3>3. Wrap(Wrap(b2 + x) + i) = Wrap(b2 + (x + i))
        <4>1. b2 + x \in 0 .. 2 * RingLen - 1 /\ b2 + x + i <= 2 * RingLen - 1 /\ b2 + x + i = b2 + (x + i)
          BY <1>0, <1>5, <1>7, <2>4
        <4>. QED BY <4>1, WrapIs
      <3>4. Wrap(Wrap(b + f[j]) + i) = Wrap(b2 + (x + i))
        <4>1. f[j] \in Nat /\ f[q] \in Nat
          BY <1>1, <1>2
        <4>2. b + f[j] + i = b + f[q] + (x + i)
          BY <1>0, <2>3, <4>1
        <4>3. b + f[j] \in 0 .. 2 * RingLen - 1
          BY <1>2
        <4>4. b + f[j] + i <= 2 * RingLen - 1
          <5>1. b + f[q] + (x + i) <= 2 * RingLen - 1
            BY <1>0, <1>1, <3>1, <4>1, SMTT(30)
          <5>. QED BY <4>2, <5>1
        <4>5. Wrap(Wrap(b + f[j]) + i) = Wrap(b + f[j] + i)
          BY <4>3, <4>4, WrapIs
        <4>. QED BY <1>6, <3>1, <4>2, <4>5
      <3>. QED BY <3>2, <3>3, <3>4
    <2>. QED BY <2>2, <2>3, <2>4, <2>5 DEF TextIn
  <1>16. TextIn(r2, Wrap(b2 + g[m])) = line
    <2>1. ASSUME NEW i \in 1 .. len
          PROVE  r2[Wrap(Wrap(b2 + D) + i)] = line[i]
      <3>1. b2 + D \in 0 .. 2 * RingLen - 1 /\ b2 + D + i <= 2 * RingLen - 1
        BY <1>0, <1>5, <1>7
      <3>2. Wrap(Wrap(b2 + D) + i) = Wrap(b2 + D + i)
        BY <3>1, WrapIs
      <3>. QED BY <1>8, <3>2
    <2>2. TextIn(r2, Wrap(b2 + g[m])) = [i \in 1 .. len |-> line[i]]
      BY <1>10, <1>11, <2>1 DEF TextIn
    <2>3. line = [i \in 1 .. len |-> line[i]]
      BY <1>a DEF Saves
    <2>. QED BY <2>2, <2>3
  <1>. QED BY <1>8, <1>11, <1>14, <1>15, <1>16, <1>a, <1>b

LEMMA SavedInIs ==
  ASSUME NEW r, NEW b, NEW n, NEW f, Marks(r, b, n, f)
  PROVE  SavedIn(r, b) = [k \in 1 .. n |-> TextIn(r, Wrap(b + f[k - 1]))]
  <1>1. n \in Nat
    BY RingAssumption DEF Marks
  <1>2. \A k \in 1 .. n : k - 1 \in 0 .. n
    BY <1>1
  <1>3. CountIn(r, b) = n /\ \A k \in 1 .. n : HeaderIn(r, b)[k - 1] = Wrap(b + f[k - 1])
    BY <1>2, HeadersAre
  <1>. QED BY <1>3 DEF SavedIn

(* The ring in a state of the editor *)
RingAt(n, f) == Marks(ring_buf, begin, n, f) /\ end = Wrap(begin + f[n])

Lines == {l \in Seq(Letters \cup {0}) : Len(l) \in 1 .. LineLen - 1}

LEMMA MarksAre ==
  ASSUME NEW n, NEW f, RingAt(n, f)
  PROVE  /\ ring_buf \in [0 .. RingLen - 1 -> Nat] /\ begin \in 0 .. RingLen - 1
         /\ n \in 0 .. RingLen - 1 /\ n \in Nat /\ n < RingLen
         /\ f[0] = 0
         /\ \A k \in 0 .. n : /\ f[k] \in Nat /\ f[k] < RingLen
                              /\ Wrap(begin + f[k]) \in 0 .. RingLen - 1
         /\ \A j, k \in 0 .. n : j < k => f[j] < f[k]
         /\ \A k \in 0 .. n - 1 : ring_buf[Wrap(begin + f[k])] # 0
         /\ ring_buf[Wrap(begin + f[n])] = 0
         /\ end \in 0 .. RingLen - 1
  <1>1. /\ ring_buf \in [0 .. RingLen - 1 -> Nat] /\ begin \in 0 .. RingLen - 1
        /\ n \in 0 .. RingLen - 1 /\ f \in [0 .. n -> 0 .. RingLen - 1]
        /\ f[0] = 0
        /\ \A k \in 0 .. n - 1 : ring_buf[Wrap(begin + f[k])] # 0
        /\ ring_buf[Wrap(begin + f[n])] = 0
    BY DEF RingAt, Marks
  <1>2. RingLen \in Nat /\ n \in Nat /\ n < RingLen /\ n \in 0 .. n
    BY <1>1, RingAssumption
  <1>3. ASSUME NEW k \in 0 .. n
        PROVE  /\ f[k] \in Nat /\ f[k] < RingLen
               /\ Wrap(begin + f[k]) \in 0 .. RingLen - 1
    <2>1. f[k] \in 0 .. RingLen - 1
      BY <1>1
    <2>2. begin + f[k] \in 0 .. 2 * RingLen - 1
      BY <1>1, <1>2, <2>1
    <2>3. Wrap(begin + f[k]) \in 0 .. RingLen - 1
      BY <2>2, WrapIs
    <2>. QED BY <1>2, <2>1, <2>3
  <1>4. ASSUME NEW j \in 0 .. n, NEW k \in 0 .. n, j < k
        PROVE  f[j] < f[k]
    <2>1. f[j] + ring_buf[Wrap(begin + f[j])] + 1 <= f[k]
      BY <1>4 DEF RingAt, Marks
    <2>2. ring_buf[Wrap(begin + f[j])] \in Nat
      BY <1>1, <1>3
    <2>. QED BY <1>3, <2>1, <2>2
  <1>5. end \in 0 .. RingLen - 1
    BY <1>2, <1>3 DEF RingAt
  <1>. QED BY <1>1, <1>2, <1>3, <1>4, <1>5

LEMMA SavedAre ==
  ASSUME NEW n, NEW f, RingAt(n, f)
  PROVE  /\ Count = n
         /\ \A k \in 0 .. n : Header[k] = Wrap(begin + f[k])
         /\ Saved = [k \in 1 .. n |-> Text(Wrap(begin + f[k - 1]))]
  <1>1. Marks(ring_buf, begin, n, f)
    BY DEF RingAt
  <1>2. Count = n /\ \A k \in 0 .. n : Header[k] = Wrap(begin + f[k])
    BY <1>1, HeadersAre, RingIs
  <1>3. \A k \in 1 .. n : Header[k - 1] = Wrap(begin + f[k - 1])
    <2>1. \A k \in 1 .. n : k - 1 \in 0 .. n
      BY MarksAre
    <2>. QED BY <1>2, <2>1
  <1>. QED BY <1>2, <1>3 DEF Saved

(* hist_is_space_for_new counts the free bytes. *)
LEMMA SpaceIs ==
  ASSUME NEW n, NEW f, RingAt(n, f), NEW k \in 0 .. n, NEW len \in 1 .. RingLen - 2
  PROVE  SpaceForNew(Wrap(begin + f[k]), len) <=> f[n] - f[k] + len + 1 < RingLen
  <1>1. /\ begin \in 0 .. RingLen - 1 /\ RingLen \in Nat /\ RingLen > 2 /\ n \in Nat /\ n \in 0 .. n
        /\ f[k] \in Nat /\ f[n] \in Nat /\ f[n] < RingLen /\ f[k] < RingLen
        /\ end = Wrap(begin + f[n])
    <2>1. n \in Nat /\ n \in 0 .. n /\ begin \in 0 .. RingLen - 1
      BY MarksAre
    <2>2. f[n] \in Nat /\ f[n] < RingLen /\ f[k] \in Nat /\ f[k] < RingLen
      BY <2>1, MarksAre
    <2>. QED BY <2>1, <2>2, RingAssumption DEF RingAt
  <1>2. CASE k = n
    <2>1. ring_buf[Wrap(begin + f[n])] = 0
      BY MarksAre
    <2>. QED BY <1>1, <1>2, <2>1 DEF SpaceForNew
  <1>3. CASE k # n
    <2>1. k \in 0 .. n - 1 /\ k < n
      BY <1>1, <1>3
    <2>2. ring_buf[Wrap(begin + f[k])] # 0 /\ f[k] < f[n]
      <3>1. n \in 0 .. n
        BY <1>1
      <3>. QED BY <2>1, <3>1, MarksAre
    <2>3. PICK x \in Nat, y \in Nat : x = f[k] /\ y = f[n] /\ x < y /\ y < RingLen
      BY <1>1, <2>2
    <2>4. PICK b \in Nat : b = Wrap(begin + x)
      BY <1>1, <2>3 DEF Wrap
    <2>5. /\ end >= b => RingLen - end + b - 1 = RingLen - (y - x) - 1
          /\ end < b => b - end - 1 = RingLen - (y - x) - 1
      BY <1>1, <2>3, <2>4 DEF Wrap
    <2>6. end \in Nat
      BY <1>1, <2>3 DEF Wrap
    <2>. QED BY <1>1, <2>2, <2>3, <2>4, <2>5, <2>6 DEF SpaceForNew
  <1>. QED BY <1>2, <1>3

(* hist_save_line gives up the oldest lines, as few as it can, and adds the *)
(* line.                                                                     *)
LEMMA SaveAdds ==
  ASSUME NEW n, NEW f, RingAt(n, f), NEW line \in Seq(Nat),
         Len(line) \in 1 .. RingLen - 2, SaveLine(line)
  PROVE  \E q \in 0 .. n :
           /\ f[n] - f[q] + Len(line) + 1 < RingLen
           /\ \A j \in 0 .. q - 1 : ~(f[n] - f[j] + Len(line) + 1 < RingLen)
           /\ \E g : RingAt(n - q + 1, g)'
           /\ Saved' = Append(SubSeq(Saved, q + 1, n), line)
  <1>. DEFINE len == Len(line)
              Suits(k) == f[n] - f[k] + len + 1 < RingLen
              T == {k \in 0 .. n : Suits(k)}
  <1>1. n \in Nat /\ n \in 0 .. n /\ RingLen \in Nat /\ n < RingLen
    BY MarksAre, RingAssumption
  <1>2. Suits(n)
    <2>1. f[n] \in Nat
      BY <1>1, MarksAre
    <2>. QED BY <1>1, <2>1
  <1>3. PICK q \in 0 .. n : Suits(q) /\ \A j \in 0 .. q - 1 : ~Suits(j)
    <2>1. T \in SUBSET Nat /\ T # {}
      BY <1>1, <1>2
    <2>2. PICK q \in T : \A j \in T : q <= j
      <3>. HIDE DEF T
      <3>. QED BY <2>1, LeastNumber
    <2>3. \A j \in 0 .. q - 1 : j \in 0 .. n /\ ~(q <= j)
      BY <1>1, <2>2
    <2>. HIDE DEF Suits
    <2>. QED BY <2>2, <2>3
  <1>. DEFINE First(k) == /\ SpaceForNew(Header[k], len)
                          /\ \A j \in 0 .. k - 1 : ~SpaceForNew(Header[j], len)
  <1>4. \A k \in 0 .. n : SpaceForNew(Header[k], len) <=> Suits(k)
    <2>. SUFFICES ASSUME NEW k \in 0 .. n
                  PROVE  SpaceForNew(Header[k], len) <=> Suits(k)
      OBVIOUS
    <2>1. Header[k] = Wrap(begin + f[k])
      BY SavedAre
    <2>. QED BY <2>1, SpaceIs
  <1>5. q = CHOOSE k \in 0 .. RingLen : First(k)
    <2>1. q \in 0 .. RingLen /\ \A j \in 0 .. q - 1 : j \in 0 .. n
      BY <1>1
    <2>2. First(q)
      <3>. HIDE DEF Suits
      <3>. QED BY <1>3, <1>4, <2>1
    <2>3. ASSUME NEW k \in 0 .. RingLen, First(k)
          PROVE  k = q
      <3>1. ~(k < q)
        <4>1. k < q => k \in 0 .. q - 1
          BY <1>1
        <4>. QED BY <2>2, <2>3, <4>1
      <3>2. ~(q < k)
        <4>1. q < k => q \in 0 .. k - 1
          BY <1>1
        <4>. QED BY <2>2, <2>3, <4>1
      <3>. QED BY <1>1, <3>1, <3>2
    <2>. HIDE DEF First
    <2>. QED BY <2>1, <2>2, <2>3
  <1>. DEFINE g == NewMarks(f, n, q, len)
  <1>6. /\ begin' = Header[q] /\ end' = Wrap(end + len + 1)
        /\ ring_buf' = Written(ring_buf, end, line)
    <2>1. ~(len > RingLen - 2)
      BY <1>1
    <2>. HIDE DEF First
    <2>. QED BY <1>5, <2>1 DEF SaveLine, First, Written
  <1>7. Saves(ring_buf, begin, n, f, end, line, q, ring_buf', begin', g)
    <2>1. begin' = Wrap(begin + f[q])
      BY <1>6, SavedAre
    <2>. QED BY <1>3, <1>6, <2>1 DEF RingAt, Saves
  <1>8. /\ Marks(ring_buf', begin', n - q + 1, g)
        /\ Wrap(end + Len(line) + 1) = Wrap(begin' + g[n - q + 1])
        /\ \A k \in 0 .. n - q - 1 :
             TextIn(ring_buf', Wrap(begin' + g[k])) = TextIn(ring_buf, Wrap(begin + f[q + k]))
        /\ TextIn(ring_buf', Wrap(begin' + g[n - q])) = line
    <2>. HIDE DEF g
    <2>. QED BY <1>7, Saving
  <1>9. RingAt(n - q + 1, g)'
    BY <1>6, <1>8 DEF RingAt
  <1>10. Saved' = Append(SubSeq(Saved, q + 1, n), line)
    <2>1. /\ Saved' = SavedIn(ring_buf', begin')
          /\ Saved = SavedIn(ring_buf, begin)
      BY DEF Saved, SavedIn, Header, HeaderIn, IsHeaders, Count, CountIn, Text, TextIn
    <2>2. PICK r2, b2 : r2 = ring_buf' /\ b2 = begin'
      OBVIOUS
    <2>3. Saved' = [k \in 1 .. n - q + 1 |-> TextIn(r2, Wrap(b2 + g[k - 1]))]
      <3>1. Marks(r2, b2, n - q + 1, g)
        BY <1>8, <2>2
      <3>. HIDE DEF g
      <3>. QED BY <2>1, <2>2, <3>1, SavedInIs
    <2>4. Saved = [k \in 1 .. n |-> TextIn(ring_buf, Wrap(begin + f[k - 1]))]
      BY <2>1, SavedInIs DEF RingAt
    <2>. DEFINE old == SubSeq(Saved, q + 1, n)
    <2>5. PICK m \in Nat : m = n - q /\ q + m = n /\ q \in Nat
      BY <1>1
    <2>. DEFINE S == {Saved[i] : i \in q + 1 .. n} \cup {line}
                new == Append(old, line)
    <2>6. old \in Seq(S) /\ Len(old) = m /\ \A k \in 1 .. m : old[k] = Saved[q + k]
      <3>1. q + 1 \in Int /\ n \in Int /\ \A i \in q + 1 .. n : Saved[i] \in S
        BY <1>1
      <3>2. /\ n - (q + 1) + 1 = m /\ (q + 1 <= n <=> m # 0)
            /\ \A k \in 1 .. m : (q + 1) + k - 1 = q + k
        BY <1>1, <2>5
      <3>. HIDE DEF S
      <3>3. /\ old \in Seq(S)
            /\ Len(old) = IF q + 1 <= n THEN n - (q + 1) + 1 ELSE 0
            /\ \A k \in 1 .. n - (q + 1) + 1 : old[k] = Saved[(q + 1) + k - 1]
        BY <3>1, SubSeqProperties
      <3>. HIDE DEF old
      <3>. QED BY <3>2, <3>3
    <2>7. /\ new \in Seq(S) /\ Len(new) = m + 1 /\ new[m + 1] = line
          /\ \A k \in 1 .. m : new[k] = Saved[q + k]
      <3>1. line \in S
        OBVIOUS
      <3>. HIDE DEF S, old
      <3>. QED BY <2>5, <2>6, <3>1
    <2>8. new = [k \in 1 .. m + 1 |-> new[k]]
      <3>. HIDE DEF new, S
      <3>. QED BY <2>5, <2>7
    <2>9. ASSUME NEW k \in 1 .. m + 1
          PROVE  TextIn(r2, Wrap(b2 + g[k - 1])) = new[k]
      <3>1. CASE k = m + 1
        <4>1. k - 1 = n - q
          BY <2>5, <3>1
        <4>. HIDE DEF g, new
        <4>. QED BY <1>8, <2>2, <2>7, <3>1, <4>1
      <3>2. CASE k # m + 1
        <4>1. /\ k - 1 \in 0 .. n - q - 1 /\ k \in 1 .. m /\ q + k \in 1 .. n
              /\ q + k - 1 = q + (k - 1)
          BY <1>1, <2>5, <3>2
        <4>2. TextIn(r2, Wrap(b2 + g[k - 1])) = TextIn(ring_buf, Wrap(begin + f[q + (k - 1)]))
          <5>. HIDE DEF g
          <5>. QED BY <1>8, <2>2, <4>1
        <4>3. Saved[q + k] = TextIn(ring_buf, Wrap(begin + f[q + k - 1]))
          BY <2>4, <4>1
        <4>. HIDE DEF g, new
        <4>. QED BY <2>7, <4>1, <4>2, <4>3
      <3>. QED BY <3>1, <3>2
    <2>10. n - q + 1 = m + 1
      BY <2>5
    <2>. HIDE DEF g, new
    <2>11. [k \in 1 .. m + 1 |-> TextIn(r2, Wrap(b2 + g[k - 1]))] = [k \in 1 .. m + 1 |-> new[k]]
      BY <2>9
    <2>. QED BY <2>3, <2>8, <2>10, <2>11 DEF new
  <1>. QED BY <1>3, <1>9, <1>10

(* What Up and Down show                                                     *)
LEMMA Restored ==
  ASSUME NEW n, NEW f, RingAt(n, f), cur \in 0 .. n, Saved \in Seq(Lines)
  PROVE  /\ n \in Nat /\ Len(Saved) = n /\ Count = n
         /\ RestoreUp = IF cur < n THEN Saved[n - cur] ELSE <<>>
         /\ RestoreDown = IF cur < 2 THEN <<>> ELSE Saved[n - cur + 2]
  <1>1. n \in Nat /\ Count = n /\ cur \in Nat
    BY MarksAre, SavedAre
  <1>2. Saved = [k \in 1 .. n |-> Text(Header[k - 1])] /\ Len(Saved) = n
    BY <1>1 DEF Saved
  <1>3. ASSUME cur < n
        PROVE  RestoreUp = Saved[n - cur]
    <2>1. n - 1 - cur = (n - cur) - 1 /\ n - cur \in 1 .. n
      BY <1>1, <1>3
    <2>. QED BY <1>1, <1>2, <1>3, <2>1 DEF RestoreUp
  <1>4. ASSUME ~(cur < n)
        PROVE  RestoreUp = <<>>
    BY <1>1, <1>4 DEF RestoreUp
  <1>5. ASSUME cur = 1
        PROVE  RestoreDown = <<>>
    <2>1. n - cur + 1 = n /\ n \in 0 .. n
      BY <1>1, <1>5
    <2>2. Header[n] = Wrap(begin + f[n])
      BY <2>1, SavedAre
    <2>3. ring_buf[Header[n]] = 0
      BY <2>2, MarksAre
    <2>4. Text(Header[n]) = <<>>
      <3>1. Text(Header[n]) = [i \in 1 .. 0 |-> ring_buf[Wrap(Header[n] + i)]]
        BY <2>3 DEF Text
      <3>. QED BY <3>1
    <2>. QED BY <1>1, <1>5, <2>1, <2>4 DEF RestoreDown
  <1>6. ASSUME cur > 1
        PROVE  RestoreDown = Saved[n - cur + 2]
    <2>1. n - cur + 2 \in 1 .. n /\ n - cur + 1 = (n - cur + 2) - 1
      BY <1>1, <1>6
    <2>. QED BY <1>1, <1>2, <1>6, <2>1 DEF RestoreDown
  <1>7. ASSUME cur = 0
        PROVE  RestoreDown = <<>>
    BY <1>7 DEF RestoreDown
  <1>8. RestoreUp = IF cur < n THEN Saved[n - cur] ELSE <<>>
    BY <1>3, <1>4
  <1>9. RestoreDown = IF cur < 2 THEN <<>> ELSE Saved[n - cur + 2]
    BY <1>1, <1>5, <1>6, <1>7
  <1>. QED BY <1>1, <1>2, <1>8, <1>9

(* A line from the history becomes the one that is edited. *)
LEMMA CopyKeeps ==
  ASSUME NEW t \in Lines \cup {<<>>},
         NEW rest \in [0 .. LineLen - 1 -> Letters \cup {0}], rest[LineLen - 1] = 0,
         cmdline' = [i \in 0 .. LineLen - 1 |-> IF i < Len(t) THEN t[i + 1] ELSE rest[i]],
         cmdlen' = Len(t), cursor' = Len(t)
  PROVE  EditTypes' /\ Line' = t
  <1>1. LineLen \in Nat /\ LineLen > 1
    BY LineAssumption
  <1>2. t \in Seq(Letters \cup {0}) /\ Len(t) \in 0 .. LineLen - 1
    <2>1. CASE t = <<>>
      BY <1>1, <2>1
    <2>2. CASE t \in Lines
      BY <1>1, <2>2 DEF Lines
    <2>. QED BY <2>1, <2>2
  <1>3. \A i \in 0 .. LineLen - 1 : cmdline'[i] \in Letters \cup {0}
    <2>. SUFFICES ASSUME NEW i \in 0 .. LineLen - 1
                  PROVE  cmdline'[i] \in Letters \cup {0}
      OBVIOUS
    <2>1. CASE i < Len(t)
      <3>1. i + 1 \in 1 .. Len(t)
        BY <1>2, <2>1
      <3>. QED BY <1>2, <2>1, <3>1
    <2>2. CASE ~(i < Len(t))
      BY <2>2
    <2>. QED BY <2>1, <2>2
  <1>4. cmdline' \in [0 .. LineLen - 1 -> Letters \cup {0}]
    BY <1>3
  <1>5. cmdline'[LineLen - 1] = 0
    BY <1>1, <1>2
  <1>6. Line' = t
    <2>1. \A i \in 1 .. Len(t) : cmdline'[i - 1] = t[i]
      <3>. SUFFICES ASSUME NEW i \in 1 .. Len(t) PROVE cmdline'[i - 1] = t[i]
        OBVIOUS
      <3>1. i - 1 \in 0 .. LineLen - 1 /\ i - 1 < Len(t) /\ (i - 1) + 1 = i
        BY <1>1, <1>2
      <3>. QED BY <3>1
    <2>2. Line' = [i \in 1 .. Len(t) |-> cmdline'[i - 1]]
      BY DEF Line
    <2>3. Line' = [i \in 1 .. Len(t) |-> t[i]]
      BY <2>1, <2>2
    <2>4. t = [i \in 1 .. Len(t) |-> t[i]]
      BY <1>2
    <2>. QED BY <2>3, <2>4
  <1>. QED BY <1>1, <1>2, <1>4, <1>5, <1>6 DEF EditTypes

LEMMA LineIs ==
  ASSUME EditTypes
  PROVE  /\ Line \in Seq(Letters \cup {0}) /\ Len(Line) = cmdlen
         /\ Len(Line) <= LineLen - 1 /\ (Line = <<>>) = (cmdlen = 0)
         /\ cmdlen > 0 => Line \in Lines
  <1>1. LineLen \in Nat /\ cmdlen \in Nat /\ cmdlen <= LineLen - 1
    BY LineAssumption DEF EditTypes
  <1>2. \A i \in 1 .. cmdlen : cmdline[i - 1] \in Letters \cup {0}
    <2>. SUFFICES ASSUME NEW i \in 1 .. cmdlen PROVE cmdline[i - 1] \in Letters \cup {0}
      OBVIOUS
    <2>1. i - 1 \in 0 .. LineLen - 1
      BY <1>1
    <2>. QED BY <2>1 DEF EditTypes
  <1>3. Line \in [1 .. cmdlen -> Letters \cup {0}]
    BY <1>2 DEF Line
  <1>4. Line \in Seq(Letters \cup {0}) /\ Len(Line) = cmdlen
    BY <1>1, <1>3
  <1>5. (Line = <<>>) = (cmdlen = 0)
    BY <1>4
  <1>. QED BY <1>1, <1>4, <1>5 DEF Lines

(* The ring and the place in it *)
RingInv == (\E n, f : RingAt(n, f) /\ cur \in 0 .. n) /\ Saved \in Seq(Lines)

LEMMA RingStarts ==
  ASSUME RingInit
  PROVE  RingInv /\ Saved = <<>>
  <1>. DEFINE f == [k \in 0 .. 0 |-> 0]
  <1>1. /\ RingLen \in Nat /\ RingLen > 2
        /\ ring_buf = [p \in 0 .. RingLen - 1 |-> 0] /\ begin = 0 /\ end = 0 /\ cur = 0
    BY RingAssumption DEF RingInit
  <1>2. /\ f \in [0 .. 0 -> 0 .. RingLen - 1] /\ f[0] = 0 /\ Wrap(0 + 0) = 0
        /\ ring_buf \in [0 .. RingLen - 1 -> Nat] /\ ring_buf[0] = 0
    BY <1>1 DEF Wrap
  <1>3. RingAt(0, f)
    <2>. HIDE DEF f
    <2>. QED BY <1>1, <1>2 DEF RingAt, Marks
  <1>4. Saved = <<>>
    <2>1. Count = 0
      <3>. HIDE DEF f
      <3>. QED BY <1>3, SavedAre
    <2>2. Saved = [k \in 1 .. 0 |-> Text(Header[k - 1])]
      BY <2>1 DEF Saved
    <2>. QED BY <2>2
  <1>5. RingInv
    <2>1. \E n, g : RingAt(n, g) /\ cur \in 0 .. n
      <3>. HIDE DEF f
      <3>. QED BY <1>1, <1>3
    <2>. QED BY <1>4, <2>1 DEF RingInv
  <1>. QED BY <1>4, <1>5

LEMMA RingStays ==
  ASSUME RingInv, UNCHANGED <<ring_buf, begin, end>>
  PROVE  /\ Saved' = Saved
         /\ \A n, f : RingAt(n, f) => RingAt(n, f)'
         /\ cur' \in {0, cur, cur - 1} /\ cur' >= 0 => RingInv'
  <1>1. Saved' = Saved
    <2>1. Saved' = SavedIn(ring_buf', begin') /\ Saved = SavedIn(ring_buf, begin)
      BY DEF Saved, SavedIn, Header, HeaderIn, IsHeaders, Count, CountIn, Text, TextIn
    <2>. QED BY <2>1
  <1>2. \A n, f : RingAt(n, f) => RingAt(n, f)'
    BY DEF RingAt, Marks
  <1>3. ASSUME cur' \in {0, cur, cur - 1}, cur' >= 0
        PROVE  RingInv'
    <2>1. PICK n, f : RingAt(n, f) /\ cur \in 0 .. n
      BY DEF RingInv
    <2>2. n \in Nat
      BY <2>1, MarksAre
    <2>3. cur' \in 0 .. n
      BY <1>3, <2>1, <2>2
    <2>. QED BY <1>1, <1>2, <2>1, <2>3 DEF RingInv
  <1>. QED BY <1>1, <1>2, <1>3

-----------------------------------------------------------------------------
(***************************************************************************)
(* The steps of the editor.                                                *)
(***************************************************************************)
(* The keys that neither search nor save *)
Editing ==
  \/ \E ch \in Letters \cup {0} : Insert(ch)
  \/ microrl_get_complite
  \/ Backspace
  \/ EraseToStart
  \/ CutRight
  \/ \E c \in 0 .. cmdlen : MoveTo(c)
  \/ UNCHANGED <<editVars, ringVars>>

LEMMA EditingKeeps ==
  ASSUME EditTypes, Editing
  PROVE  EditTypes' /\ UNCHANGED ringVars
  <1>1. ASSUME UNCHANGED <<editVars, ringVars>>
        PROVE  EditTypes' /\ UNCHANGED ringVars
    BY <1>1 DEF editVars, EditTypes
  <1>2. ASSUME NEW ch \in Letters \cup {0}, Insert(ch)
        PROVE  EditTypes' /\ UNCHANGED ringVars
    BY <1>2, InsertKeeps DEF Insert
  <1>3. ASSUME microrl_get_complite
        PROVE  EditTypes' /\ UNCHANGED ringVars
    BY <1>3, TabKeeps DEF microrl_get_complite
  <1>4. ASSUME NEW n \in 0 .. cursor, cursor > 0 => n > 0,
               IF cursor > 0 THEN Erase(n) ELSE UNCHANGED <<editVars, ringVars>>
        PROVE  EditTypes' /\ UNCHANGED ringVars
    <2>1. cursor \in Nat
      BY LineAssumption DEF EditTypes
    <2>2. CASE cursor > 0
      <3>1. n \in 1 .. cursor /\ Erase(n)
        BY <1>4, <2>1, <2>2
      <3>. QED BY <3>1, EraseKeeps DEF Erase
    <2>. QED BY <1>1, <1>4, <2>1, <2>2
  <1>5. cursor \in Nat
    BY LineAssumption DEF EditTypes
  <1>6. ASSUME Backspace
        PROVE  EditTypes' /\ UNCHANGED ringVars
    <2>1. CASE cursor > 0
      <3>1. 1 \in 0 .. cursor /\ 1 > 0
        BY <1>5, <2>1
      <3>. QED BY <1>4, <1>6, <3>1 DEF Backspace
    <2>. QED BY <1>1, <1>6, <2>1 DEF Backspace
  <1>7. ASSUME EraseToStart
        PROVE  EditTypes' /\ UNCHANGED ringVars
    <2>1. cursor \in 0 .. cursor
      BY <1>5
    <2>. QED BY <1>4, <1>7, <2>1 DEF EraseToStart
  <1>8. ASSUME CutRight
        PROVE  EditTypes' /\ UNCHANGED ringVars
    BY <1>8, LineAssumption DEF CutRight, EditTypes
  <1>9. ASSUME NEW c \in 0 .. cmdlen, MoveTo(c)
        PROVE  EditTypes' /\ UNCHANGED ringVars
    BY <1>9 DEF MoveTo, EditTypes
  <1>. QED BY <1>1, <1>2, <1>3, <1>6, <1>7, <1>8, <1>9 DEF Editing

LEMMA UpIs ==
  ASSUME EditTypes, RingInv, Up
  PROVE  \/ UNCHANGED <<editVars, ringVars>>
         \/ /\ EditTypes' /\ RingInv'
            /\ cur < Len(Saved) /\ cur' = cur + 1 /\ Saved' = Saved
            /\ Line' = Saved[Len(Saved) - cur]
  <1>1. PICK n, f : RingAt(n, f) /\ cur \in 0 .. n
    BY DEF RingInv
  <1>2. Saved \in Seq(Lines)
    BY DEF RingInv
  <1>3. /\ n \in Nat /\ Len(Saved) = n
        /\ RestoreUp = IF cur < n THEN Saved[n - cur] ELSE <<>>
    BY <1>1, <1>2, Restored
  <1>4. CASE RestoreUp = <<>>
    BY <1>4 DEF Up
  <1>5. CASE RestoreUp # <<>>
    <2>1. PICK t : t = RestoreUp
      OBVIOUS
    <2>2. cur < n /\ t = Saved[n - cur] /\ n - cur \in 1 .. n
      BY <1>1, <1>3, <1>5, <2>1
    <2>3. t \in Lines
      BY <1>2, <1>3, <2>2
    <2>4. /\ cmdline' = [i \in 0 .. LineLen - 1 |-> IF i < Len(t) THEN t[i + 1] ELSE Empty[i]]
          /\ cmdlen' = Len(t) /\ cursor' = Len(t) /\ cur' = cur + 1
          /\ UNCHANGED <<ring_buf, begin, end>>
      BY <1>5, <2>1 DEF Up, EditTypes, Empty
    <2>5. /\ Empty \in [0 .. LineLen - 1 -> Letters \cup {0}] /\ Empty[LineLen - 1] = 0
      BY LineAssumption DEF Empty
    <2>6. EditTypes' /\ Line' = t
      BY <2>3, <2>4, <2>5, CopyKeeps
    <2>7. Saved' = Saved /\ RingAt(n, f)'
      BY <1>1, <2>4, RingStays
    <2>8. RingInv'
      <3>1. cur' \in 0 .. n
        BY <1>1, <1>3, <2>2, <2>4
      <3>. QED BY <1>2, <2>7, <3>1 DEF RingInv
    <2>. QED BY <1>3, <2>2, <2>4, <2>6, <2>7, <2>8
  <1>. QED BY <1>4, <1>5

LEMMA DownIs ==
  ASSUME EditTypes, RingInv, Down
  PROVE  /\ EditTypes' /\ RingInv'
         /\ cur' = IF cur = 0 THEN 0 ELSE cur - 1
         /\ Saved' = Saved
         /\ Line' = IF cur < 2 THEN <<>> ELSE Saved[Len(Saved) - cur + 2]
  <1>1. PICK n, f : RingAt(n, f) /\ cur \in 0 .. n
    BY DEF RingInv
  <1>2. Saved \in Seq(Lines)
    BY DEF RingInv
  <1>3. /\ n \in Nat /\ Len(Saved) = n
        /\ RestoreDown = IF cur < 2 THEN <<>> ELSE Saved[n - cur + 2]
    BY <1>1, <1>2, Restored
  <1>4. PICK t : t = RestoreDown
    OBVIOUS
  <1>5. t \in Lines \cup {<<>>}
    <2>1. CASE cur < 2
      BY <1>3, <1>4, <2>1
    <2>2. CASE ~(cur < 2)
      <3>1. n - cur + 2 \in 1 .. n
        BY <1>1, <1>3, <2>2
      <3>. QED BY <1>2, <1>3, <1>4, <2>2, <3>1
    <2>. QED BY <2>1, <2>2
  <1>6. /\ cmdline' = [i \in 0 .. LineLen - 1 |-> IF i < Len(t) THEN t[i + 1] ELSE cmdline[i]]
        /\ cmdlen' = Len(t) /\ cursor' = Len(t)
        /\ cur' = IF cur > 0 THEN cur - 1 ELSE 0
        /\ UNCHANGED <<ring_buf, begin, end>>
    BY <1>4 DEF Down, EditTypes
  <1>7. EditTypes' /\ Line' = t
    <2>1. cmdline \in [0 .. LineLen - 1 -> Letters \cup {0}] /\ cmdline[LineLen - 1] = 0
      BY DEF EditTypes
    <2>. QED BY <1>5, <1>6, <2>1, CopyKeeps
  <1>8. cur' = IF cur = 0 THEN 0 ELSE cur - 1
    BY <1>1, <1>3, <1>6
  <1>9. cur' \in {0, cur, cur - 1} /\ cur' >= 0
    BY <1>1, <1>3, <1>8
  <1>10. Saved' = Saved /\ RingInv'
    BY <1>6, <1>9, RingStays
  <1>. QED BY <1>3, <1>4, <1>7, <1>8, <1>10

(* Enter saves the line, if it is not empty and not too long.               *)
LEMMA NewLineIs ==
  ASSUME EditTypes, RingInv, NewLine
  PROVE  /\ UNCHANGED editVars /\ EditTypes' /\ RingInv' /\ Line' = Line
         /\ ~(Line # <<>> /\ Len(Line) + 1 <= RingLen - 1) => Saved' = Saved /\ cur' = cur
         /\ Line # <<>> /\ Len(Line) + 1 <= RingLen - 1 =>
              /\ cur' = 0
              /\ \A n, f : RingAt(n, f) =>
                   \E q \in 0 .. n :
                      /\ f[n] - f[q] + Len(Line) + 1 < RingLen
                      /\ \A j \in 0 .. q - 1 : ~(f[n] - f[j] + Len(Line) + 1 < RingLen)
                      /\ Saved' = Append(SubSeq(Saved, q + 1, n), Line)
  <1>1. /\ LineLen \in Nat /\ LineLen > 1 /\ RingLen \in Nat /\ RingLen > 2
        /\ Letters \subseteq Nat
    BY LineAssumption, RingAssumption
  <1>2. /\ UNCHANGED editVars
        /\ IF cmdlen > 0 THEN SaveLine(Line) ELSE UNCHANGED ringVars
    BY DEF NewLine
  <1>3. EditTypes' /\ Line' = Line
    BY <1>2 DEF EditTypes, editVars, Line
  <1>4. /\ Line \in Seq(Letters \cup {0}) /\ Len(Line) = cmdlen /\ cmdlen \in Nat
        /\ (Line = <<>>) = (cmdlen = 0)
        /\ cmdlen > 0 => Line \in Lines
    BY <1>1, LineIs DEF EditTypes
  <1>5. CASE ~(Line # <<>> /\ Len(Line) + 1 <= RingLen - 1)
    <2>1. UNCHANGED <<ring_buf, begin, end>> /\ cur' = cur
      BY <1>1, <1>2, <1>4, <1>5 DEF SaveLine, ringVars
    <2>2. cur >= 0
      BY MarksAre DEF RingInv
    <2>3. RingInv' /\ Saved' = Saved
      BY <2>1, <2>2, RingStays
    <2>. QED BY <1>2, <1>3, <1>5, <2>1, <2>3
  <1>6. CASE Line # <<>> /\ Len(Line) + 1 <= RingLen - 1
    <2>1. /\ SaveLine(Line) /\ Line \in Seq(Nat) /\ Len(Line) \in 1 .. RingLen - 2 /\ Line \in Lines
      <3>1. Line \in Seq(Nat)
        <4>1. Letters \cup {0} \subseteq Nat
          BY <1>1
        <4>. QED BY <1>4, <4>1, SeqMonotonic
      <3>. QED BY <1>1, <1>2, <1>4, <1>6, <3>1
    <2>2. \A n, f : RingAt(n, f) =>
            \E q \in 0 .. n :
               /\ f[n] - f[q] + Len(Line) + 1 < RingLen
               /\ \A j \in 0 .. q - 1 : ~(f[n] - f[j] + Len(Line) + 1 < RingLen)
               /\ \E g : RingAt(n - q + 1, g)'
               /\ Saved' = Append(SubSeq(Saved, q + 1, n), Line)
      BY <2>1, SaveAdds
    <2>3. PICK n, f : RingAt(n, f)
      BY DEF RingInv
    <2>4. PICK q, g : q \in 0 .. n /\ RingAt(n - q + 1, g)' /\ Saved' = Append(SubSeq(Saved, q + 1, n), Line)
      BY <2>2, <2>3
    <2>q. q \in 0 .. n
      BY <2>4
    <2>5. n \in Nat /\ Len(Saved) = n /\ Saved \in Seq(Lines)
      <3>1. n \in Nat /\ n \in 0 .. n
        BY <2>3, MarksAre
      <3>2. Count = n
        BY <2>3, SavedAre
      <3>. QED BY <3>1, <3>2 DEF Saved, RingInv
    <2>6. Saved' \in Seq(Lines)
      <3>1. \A i \in q + 1 .. n : Saved[i] \in Lines
        BY <2>q, <2>5
      <3>2. q + 1 \in Int /\ n \in Int
        BY <2>q, <2>5
      <3>3. SubSeq(Saved, q + 1, n) \in Seq(Lines)
        BY <3>1, <3>2, SubSeqProperties
      <3>. QED BY <2>1, <2>4, <3>3
    <2>c. cur' = 0
      BY <1>1, <2>1 DEF SaveLine
    <2>7. cur' \in 0 .. n - q + 1
      BY <2>q, <2>c, <2>5
    <2>8. RingInv'
      BY <2>4, <2>6, <2>7 DEF RingInv
    <2>. QED BY <1>2, <1>3, <1>6, <2>c, <2>2, <2>8
  <1>. QED BY <1>5, <1>6

LEMMA ReturnIs ==
  ASSUME RingInv, CommandReturns
  PROVE  EditTypes' /\ RingInv' /\ cur' = 0 /\ Line' = <<>> /\ Saved' = Saved
  <1>1. /\ cur' = 0 /\ cmdline' = Empty /\ cmdlen' = 0 /\ cursor' = 0
        /\ UNCHANGED <<ring_buf, begin, end>>
    BY DEF CommandReturns
  <1>2. EditTypes' /\ Line' = <<>>
    <2>1. /\ Empty \in [0 .. LineLen - 1 -> Letters \cup {0}] /\ Empty[LineLen - 1] = 0
          /\ LineLen \in Nat /\ LineLen > 1
      BY LineAssumption DEF Empty
    <2>2. Line' = [i \in 1 .. 0 |-> cmdline'[i - 1]]
      BY <1>1 DEF Line
    <2>. QED BY <1>1, <2>1, <2>2 DEF EditTypes
  <1>3. RingInv' /\ Saved' = Saved
    <2>1. cur' \in {0, cur, cur - 1} /\ cur' >= 0
      BY <1>1
    <2>. QED BY <1>1, <2>1, RingStays
  <1>. QED BY <1>1, <1>2, <1>3

(* What is not the line or the history.                                     *)
Others ==
  /\ user \in Users
  /\ escape \in BOOLEAN
  /\ escape_seq \in Parts
  /\ main \in Places
  /\ typed \in Letters \cup {0}
  /\ redraw \in Redraws
  /\ outside \in BOOLEAN

(* Every step edits, searches, saves or begins a new line, or is a step of   *)
(* an escape sequence.                                                        *)
LEMMA Steps ==
  ASSUME EditTypes, Others, [Next]_vars
  PROVE  /\ \/ Editing /\ UNCHANGED (main = "running")
            \/ (Up \/ Down) /\ main # "running" /\ main' # "running"
            \/ NewLine /\ main # "running"
            \/ CommandReturns
         /\ Others'
  <1>. USE DEF Others
  <1>1. Typed[user] \cup {0} \subseteq Letters \cup {0}
    BY LineAssumption
  <1>2. {0, cmdlen, cursor} \subseteq 0 .. cmdlen /\ cursor \in Nat /\ cmdlen \in Nat
    BY LineAssumption DEF EditTypes
  <1>3. Right \/ Left \/ MoveTo(0) \/ MoveTo(cmdlen) => Editing
    <2>1. cursor < cmdlen => cursor + 1 \in 0 .. cmdlen
      BY <1>2
    <2>2. cursor > 0 => cursor - 1 \in 0 .. cmdlen
      BY <1>2
    <2>3. (\E c \in 0 .. cmdlen : MoveTo(c)) => Editing
      BY DEF Editing
    <2>. HIDE DEF Editing
    <2>. QED BY <1>2, <2>1, <2>2, <2>3 DEF Right, Left
  <1>4. CASE Key /\ UNCHANGED <<user, redraw>>
    <2>1. main = "keys" /\ outside' = outside
      BY <1>4 DEF Key
    <2>2. CASE PlainKey
      BY <1>1, <1>3, <1>4, <2>1, <2>2 DEF PlainKey, escVars, Editing, NewLine, Places
    <2>3. CASE (EscapeGoesOn \/ EscapeEnds) /\ UNCHANGED <<main, typed>>
      BY <1>3, <1>4, <2>1, <2>3 DEF EscapeGoesOn, EscapeEnds, Editing, Parts
    <2>. QED BY <1>4, <2>2, <2>3 DEF Key
  <1>5. CASE KeyWrites /\ UNCHANGED <<user, redraw>>
    BY <1>5 DEF KeyWrites, Inserts, Erases, Editing, escVars, Places
  <1>6. CASE CommandReturns /\ UNCHANGED <<user, redraw>>
    BY <1>6 DEF CommandReturns, escVars, Places
  <1>7. CASE DoNewLine
    BY <1>7 DEF DoNewLine, DoNewLineSpace, SpaceWritten, DoNewLineBackspace, SpaceErased, Inserts,
                Erases, Editing, escVars, Redraws
  <1>8. CASE UNCHANGED vars
    BY <1>8 DEF vars, escVars, Editing
  <1>. QED BY <1>4, <1>5, <1>6, <1>7, <1>8 DEF Next, Main

(* The inductive invariant: the lines in the ring lie one behind the other   *)
(* between the marks, with which begin, end and the count agree.             *)
EditorInv == EditTypes /\ RingInv /\ Others

LEMMA EditorStarts == Init => EditorInv
  <1>. SUFFICES ASSUME Init PROVE EditorInv
    OBVIOUS
  <1>1. LineLen \in Nat /\ LineLen > 1
    BY LineAssumption
  <1>2. EditTypes
    BY <1>1 DEF Init, EditTypes, Empty
  <1>3. RingInv
    BY RingStarts DEF Init
  <1>. QED BY <1>2, <1>3 DEF Init, EditorInv, Others, Parts, Places, Redraws

LEMMA EditorKeeps == EditorInv /\ [Next]_vars => EditorInv'
  <1>. SUFFICES ASSUME EditorInv, [Next]_vars PROVE EditorInv'
    OBVIOUS
  <1>. USE DEF EditorInv
  <1>1. (Editing \/ Up \/ Down \/ NewLine \/ CommandReturns) /\ Others'
    BY Steps
  <1>2. ASSUME EditTypes', UNCHANGED ringVars
        PROVE  EditorInv'
    <2>1. UNCHANGED <<ring_buf, begin, end>> /\ cur' = cur
      BY <1>2 DEF ringVars
    <2>2. cur >= 0
      <3>1. PICK n, f : RingAt(n, f) /\ cur \in 0 .. n
        BY DEF RingInv
      <3>. QED BY <3>1
    <2>3. RingInv'
      BY <2>1, <2>2, RingStays
    <2>. QED BY <1>1, <1>2, <2>3
  <1>3. CASE Editing
    BY <1>2, <1>3, EditingKeeps
  <1>4. CASE Up
    <2>1. CASE UNCHANGED <<editVars, ringVars>>
      <3>1. Editing
        BY <2>1 DEF Editing
      <3>. QED BY <1>2, <3>1, EditingKeeps
    <2>2. CASE ~UNCHANGED <<editVars, ringVars>>
      BY <1>1, <1>4, <2>2, UpIs
    <2>. QED BY <2>1, <2>2
  <1>5. CASE Down
    BY <1>1, <1>5, DownIs
  <1>6. CASE NewLine
    BY <1>1, <1>6, NewLineIs
  <1>7. CASE CommandReturns
    BY <1>1, <1>7, ReturnIs
  <1>. QED BY <1>1, <1>3, <1>4, <1>5, <1>6, <1>7

LEMMA EditorAlways == Spec => []EditorInv
  <1>1. Init => EditorInv
    BY EditorStarts
  <1>2. EditorInv /\ [Next]_vars => EditorInv'
    BY EditorKeeps
  <1>. QED BY <1>1, <1>2, PTL DEF Spec

(* Whatever is typed, saved and searched for, and wherever the calls of      *)
(* doNewLine fall between the steps of main's, the line, the cursor and the  *)
(* ring stay in their buffers: microrl.cpp, up to the write of a character   *)
(* that was checked before the other thread filled or emptied the line.      *)
THEOREM TypeCorrect == Spec => []TypeOK
  <1>1. EditorInv => TypeOK
    <2>. SUFFICES ASSUME EditorInv PROVE TypeOK
      OBVIOUS
    <2>1. PICK n, f : RingAt(n, f) /\ cur \in 0 .. n
      BY DEF EditorInv, RingInv
    <2>2. /\ ring_buf \in [0 .. RingLen - 1 -> Nat] /\ begin \in 0 .. RingLen - 1
          /\ end \in 0 .. RingLen - 1 /\ n \in 0 .. RingLen - 1
      BY <2>1, MarksAre
    <2>3. cur \in 0 .. RingLen
      BY <2>1, <2>2, RingAssumption
    <2>. QED BY <2>2, <2>3 DEF EditorInv, Others, EditTypes, TypeOK
  <1>. QED BY <1>1, EditorAlways, PTL

-----------------------------------------------------------------------------
(***************************************************************************)
(* The history implements LineHistory.                                     *)
(***************************************************************************)
(* The memory that a list of lines takes is what counts up to it.            *)
LEMMA TakenIs ==
  ASSUME NEW m \in Nat, NEW s, Len(s) = m, \A k \in 1 .. m : Len(s[k]) \in Nat,
         NEW h \in [0 .. m -> Int], \A k \in 1 .. m : h[k] = h[k - 1] + Len(s[k]) + 1
  PROVE  History!Taken(s) = h[m] - h[0]
  <1>. DEFINE Is(F) == F = [n \in 0 .. m |-> IF n = 0 THEN 0 ELSE F[n - 1] + Len(s[n]) + 1]
              sum0 == [n \in 0 .. m |-> h[n] - h[0]]
  <1>1. Is(sum0)
    <2>1. ASSUME NEW n \in 0 .. m
          PROVE  h[n] - h[0] = IF n = 0 THEN 0 ELSE sum0[n - 1] + Len(s[n]) + 1
      <3>1. CASE n = 0
        BY <3>1
      <3>2. CASE n # 0
        <4>1. n \in 1 .. m /\ n - 1 \in 0 .. m /\ 0 \in 0 .. m
          BY <3>2
        <4>2. PICK l \in Nat : l = Len(s[n])
          BY <4>1
        <4>3. h[n] = h[n - 1] + l + 1 /\ sum0[n - 1] = h[n - 1] - h[0]
          BY <4>1, <4>2
        <4>4. h[n] \in Int /\ h[n - 1] \in Int /\ h[0] \in Int
          BY <4>1
        <4>5. h[n] - h[0] = sum0[n - 1] + l + 1
          <5>1. PICK x \in Int, z \in Int : x = h[n - 1] /\ z = h[0]
            BY <4>4
          <5>. HIDE DEF sum0
          <5>. QED BY <4>3, <4>4, <5>1, SMTT(30)
        <4>. QED BY <3>2, <4>2, <4>5
      <3>. QED BY <3>1, <3>2
    <2>. QED BY <2>1
  <1>2. PICK sum : Is(sum) /\ History!Taken(s) = sum[m]
    <2>1. Is(CHOOSE F : Is(F))
      <3>. HIDE DEF Is
      <3>. QED BY <1>1
    <2>2. History!Taken(s) = (CHOOSE F : Is(F))[m]
      BY DEF History!Taken
    <2>. HIDE DEF Is
    <2>. QED BY <2>1, <2>2
  <1>. DEFINE T == {n \in 0 .. m : sum[n] = sum0[n]}
  <1>3. 0 \in T
    BY <1>1, <1>2
  <1>4. \A n \in 0 .. m - 1 : n \in T => n + 1 \in T
    <2>. SUFFICES ASSUME NEW n \in 0 .. m - 1, n \in T PROVE n + 1 \in T
      OBVIOUS
    <2>1. n + 1 \in 0 .. m /\ n + 1 # 0 /\ (n + 1) - 1 = n
      OBVIOUS
    <2>. HIDE DEF sum0
    <2>2. sum[n + 1] = sum[n] + Len(s[n + 1]) + 1 /\ sum0[n + 1] = sum0[n] + Len(s[n + 1]) + 1
      BY <1>1, <1>2, <2>1
    <2>. QED BY <2>1, <2>2
  <1>5. \A n \in 0 .. m : n \in T
    <2>. HIDE DEF T
    <2>. QED BY <1>3, <1>4, UpTo
  <1>6. sum[m] = h[m] - h[0]
    <2>1. m \in T
      BY <1>5
    <2>. QED BY <2>1
  <1>. QED BY <1>2, <1>6

(* The longest suffix that fits is found with the marks of its lines.        *)
LEMMA LatestIs ==
  ASSUME NEW N \in Nat, NEW s \in Seq(Lines), Len(s) = N,
         NEW F \in [0 .. N -> Int], \A k \in 1 .. N : F[k] = F[k - 1] + Len(s[k]) + 1,
         NEW q \in 0 .. N - 1, F[N] - F[q] < RingLen,
         \A j \in 0 .. q - 1 : ~(F[N] - F[j] < RingLen)
  PROVE  History!Latest(s) = SubSeq(s, q + 1, N)
  <1>1. RingLen \in Nat /\ RingLen > 2
    BY RingAssumption
  <1>2. ASSUME NEW j \in 1 .. N
        PROVE  History!Taken(SubSeq(s, j, N)) = F[N] - F[j - 1]
    <2>. DEFINE t == SubSeq(s, j, N)
                m == N - j + 1
                h == [k \in 0 .. m |-> F[j - 1 + k]]
    <2>1. m \in Nat /\ j \in Int /\ N \in Int /\ j <= N /\ \A i \in j .. N : s[i] \in Lines
      OBVIOUS
    <2>2. Len(t) = m /\ \A k \in 1 .. m : t[k] = s[j + k - 1]
      BY <2>1, SubSeqProperties
    <2>3. h \in [0 .. m -> Int]
      <3>1. \A k \in 0 .. m : j - 1 + k \in 0 .. N
        OBVIOUS
      <3>. QED BY <3>1
    <2>4. ASSUME NEW k \in 1 .. m
          PROVE  h[k] = h[k - 1] + Len(t[k]) + 1
      <3>1. /\ j - 1 + k \in 1 .. N /\ j - 1 + (k - 1) = (j - 1 + k) - 1 /\ j + k - 1 = j - 1 + k
            /\ k \in 0 .. m /\ k - 1 \in 0 .. m
        OBVIOUS
      <3>2. h[k] = F[j - 1 + k] /\ h[k - 1] = F[(j - 1 + k) - 1] /\ t[k] = s[j - 1 + k]
        BY <2>2, <3>1
      <3>. HIDE DEF h, t
      <3>. QED BY <3>1, <3>2
    <2>5. h[m] = F[N] /\ h[0] = F[j - 1]
      <3>1. j - 1 + m = N /\ j - 1 + 0 = j - 1 /\ m \in 0 .. m /\ 0 \in 0 .. m
        OBVIOUS
      <3>. QED BY <3>1
    <2>6. \A k \in 1 .. m : Len(t[k]) \in Nat
      <3>1. ASSUME NEW k \in 1 .. m PROVE t[k] \in Lines
        <4>1. j + k - 1 \in j .. N
          OBVIOUS
        <4>. HIDE DEF t
        <4>. QED BY <2>1, <2>2, <4>1
      <3>. QED BY <3>1 DEF Lines
    <2>. HIDE DEF h, t, m
    <2>7. History!Taken(t) = h[m] - h[0]
      BY <2>1, <2>2, <2>3, <2>4, <2>6, TakenIs
    <2>. QED BY <2>5, <2>7 DEF t
  <1>. DEFINE Fit(j) == History!Taken(SubSeq(s, j, Len(s))) <= RingLen - 1
              Over(j) == History!Taken(SubSeq(s, j, Len(s))) > RingLen - 1
              First(j) == Fit(j) /\ \A i \in 1 .. j - 1 : Over(i)
  <1>3. \A j \in 1 .. N : /\ Fit(j) <=> F[N] - F[j - 1] < RingLen
                          /\ Over(j) <=> ~(F[N] - F[j - 1] < RingLen)
    <2>. SUFFICES ASSUME NEW j \in 1 .. N
                  PROVE  /\ Fit(j) <=> F[N] - F[j - 1] < RingLen
                         /\ Over(j) <=> ~(F[N] - F[j - 1] < RingLen)
      OBVIOUS
    <2>1. PICK x \in Int : x = F[N] - F[j - 1]
      OBVIOUS
    <2>2. History!Taken(SubSeq(s, j, Len(s))) = x
      BY <1>2, <2>1
    <2>3. (x <= RingLen - 1 <=> x < RingLen) /\ (x > RingLen - 1 <=> ~(x < RingLen))
      BY <1>1, SMTT(30)
    <2>. QED BY <2>1, <2>2, <2>3, Zenon
  <1>4. First(q + 1)
    <2>1. q + 1 \in 1 .. N /\ (q + 1) - 1 = q
      OBVIOUS
    <2>2. \A i \in 1 .. q : i \in 1 .. N /\ i - 1 \in 0 .. q - 1
      OBVIOUS
    <2>. HIDE DEF Fit, Over
    <2>. QED BY <1>3, <2>1, <2>2
  <1>5. ASSUME NEW j \in 1 .. N + 1, First(j)
        PROVE  j = q + 1
    <2>1. ~(j < q + 1)
      <3>1. j < q + 1 => j \in 1 .. (q + 1) - 1 /\ j \in 1 .. N
        OBVIOUS
      <3>2. \A i \in 1 .. N : ~(Fit(i) /\ Over(i))
        <4>. HIDE DEF Fit, Over
        <4>. QED BY <1>3
      <3>. HIDE DEF Fit, Over
      <3>. QED BY <1>4, <1>5, <3>1, <3>2
    <2>2. ~(q + 1 < j)
      <3>1. q + 1 < j => q + 1 \in 1 .. j - 1 /\ q + 1 \in 1 .. N
        OBVIOUS
      <3>2. \A i \in 1 .. N : ~(Fit(i) /\ Over(i))
        <4>. HIDE DEF Fit, Over
        <4>. QED BY <1>3
      <3>. HIDE DEF Fit, Over
      <3>. QED BY <1>4, <1>5, <3>1, <3>2
    <2>. QED BY <2>1, <2>2
  <1>6. (CHOOSE j \in 1 .. N + 1 : First(j)) = q + 1
    <2>1. q + 1 \in 1 .. N + 1
      OBVIOUS
    <2>. HIDE DEF First
    <2>. QED BY <1>4, <1>5, <2>1
  <1>7. History!Latest(s) = SubSeq(s, (CHOOSE j \in 1 .. N + 1 : First(j)), N)
    BY DEF History!Latest
  <1>. QED BY <1>6, <1>7

LEMMA AppendedTail ==
  ASSUME NEW S, NEW s \in Seq(S), NEW x \in S, NEW q \in 0 .. Len(s)
  PROVE  SubSeq(Append(s, x), q + 1, Len(s) + 1) = Append(SubSeq(s, q + 1, Len(s)), x)
  <1>. DEFINE n == Len(s)
              a == SubSeq(Append(s, x), q + 1, n + 1)
              b == SubSeq(s, q + 1, n)
              m == n - q
  <1>1. /\ n \in Nat /\ q + 1 \in Int /\ n \in Int /\ n + 1 \in Int /\ q + 1 <= n + 1
        /\ n - (q + 1) + 1 = m /\ (n + 1) - (q + 1) + 1 = m + 1 /\ m \in Nat
        /\ (q + 1 <= n <=> m # 0) /\ q \in Nat
    <2>1. n \in Nat /\ q \in 0 .. n
      OBVIOUS
    <2>. HIDE DEF n
    <2>. QED BY <2>1
  <1>2. /\ Append(s, x) \in Seq(S) /\ Len(Append(s, x)) = n + 1 /\ Append(s, x)[n + 1] = x
        /\ \A i \in 1 .. n : Append(s, x)[i] = s[i]
    OBVIOUS
  <1>3. \A i \in q + 1 .. n + 1 : Append(s, x)[i] \in S
    BY <1>2
  <1>4. a \in Seq(S) /\ Len(a) = m + 1 /\ \A k \in 1 .. m + 1 : a[k] = Append(s, x)[q + k]
    <2>1. \A k \in 1 .. m + 1 : (q + 1) + k - 1 = q + k
      <3>. HIDE DEF m
      <3>. QED BY <1>1
    <2>2. /\ a \in Seq(S)
          /\ Len(a) = IF q + 1 <= n + 1 THEN (n + 1) - (q + 1) + 1 ELSE 0
          /\ \A k \in 1 .. (n + 1) - (q + 1) + 1 : a[k] = Append(s, x)[(q + 1) + k - 1]
      <3>1. PICK u : u = Append(s, x)
        OBVIOUS
      <3>2. \A i \in q + 1 .. n + 1 : u[i] \in S
        BY <1>3, <3>1
      <3>. HIDE DEF n
      <3>3. /\ SubSeq(u, q + 1, n + 1) \in Seq(S)
            /\ Len(SubSeq(u, q + 1, n + 1)) = IF q + 1 <= n + 1 THEN (n + 1) - (q + 1) + 1 ELSE 0
            /\ \A k \in 1 .. (n + 1) - (q + 1) + 1 : SubSeq(u, q + 1, n + 1)[k] = u[(q + 1) + k - 1]
        BY <1>1, <3>2, SubSeqProperties
      <3>. QED BY <3>1, <3>3
    <2>. HIDE DEF a, m
    <2>. QED BY <1>1, <2>1, <2>2
  <1>5. b \in Seq(S) /\ Len(b) = m /\ \A k \in 1 .. m : b[k] = s[q + k]
    <2>1. \A k \in 1 .. m : (q + 1) + k - 1 = q + k
      <3>. HIDE DEF m
      <3>. QED BY <1>1
    <2>3. \A i \in q + 1 .. n : s[i] \in S
      <3>1. \A i \in q + 1 .. n : i \in 1 .. n
        <4>. HIDE DEF n
        <4>. QED BY <1>1
      <3>. QED BY <3>1
    <2>2. /\ b \in Seq(S)
          /\ Len(b) = IF q + 1 <= n THEN n - (q + 1) + 1 ELSE 0
          /\ \A k \in 1 .. n - (q + 1) + 1 : b[k] = s[(q + 1) + k - 1]
      <3>. HIDE DEF n
      <3>. QED BY <1>1, <2>3, SubSeqProperties
    <2>. HIDE DEF b, m
    <2>. QED BY <1>1, <2>1, <2>2
  <1>6. ASSUME NEW k \in 1 .. m + 1
        PROVE  a[k] = Append(b, x)[k]
    <2>1. CASE k = m + 1
      <3>1. q + (m + 1) = n + 1 /\ m + 1 \in 1 .. m + 1
        <4>. HIDE DEF n
        <4>. QED BY <1>1
      <3>2. Append(b, x)[m + 1] = x
        <4>. HIDE DEF b, m
        <4>. QED BY <1>5
      <3>3. a[m + 1] = x
        <4>. HIDE DEF a, m
        <4>. QED BY <1>2, <1>4, <3>1
      <3>. QED BY <2>1, <3>2, <3>3
    <2>2. CASE k # m + 1
      <3>1. k \in 1 .. m /\ q + k \in 1 .. n
        <4>. HIDE DEF n
        <4>. QED BY <1>1, <2>2
      <3>2. Append(b, x)[k] = b[k]
        <4>. HIDE DEF b, m
        <4>. QED BY <1>1, <1>5, <3>1
      <3>. HIDE DEF a, b, m
      <3>. QED BY <1>2, <1>4, <1>5, <3>1, <3>2
    <2>. QED BY <2>1, <2>2
  <1>7. Append(b, x) \in Seq(S) /\ Len(Append(b, x)) = m + 1
    <2>. HIDE DEF b, m
    <2>. QED BY <1>1, <1>5
  <1>. HIDE DEF a, b, m
  <1>8. a = Append(b, x)
    BY <1>1, <1>4, <1>6, <1>7, SeqEqual
  <1>. QED BY <1>8 DEF a, b

(* Enter saves what LineHistory remembers. *)
LEMMA NewLineRefines ==
  ASSUME EditTypes, RingInv, NewLine, main # "running"
  PROVE  History!Enter
  <1>1. Line' = Line /\ (main = "running") = FALSE /\ (main' = "running") = TRUE
    BY NewLineIs DEF NewLine
  <1>2. CASE ~(Line # <<>> /\ Len(Line) + 1 <= RingLen - 1)
    <2>1. Saved' = Saved /\ cur' = cur
      BY <1>2, NewLineIs
    <2>. QED BY <1>1, <1>2, <2>1 DEF History!Enter
  <1>3. CASE Line # <<>> /\ Len(Line) + 1 <= RingLen - 1
    <2>1. PICK n, f : RingAt(n, f)
      BY DEF RingInv
    <2>2. PICK q \in 0 .. n :
             /\ f[n] - f[q] + Len(Line) + 1 < RingLen
             /\ \A j \in 0 .. q - 1 : ~(f[n] - f[j] + Len(Line) + 1 < RingLen)
             /\ Saved' = Append(SubSeq(Saved, q + 1, n), Line)
      BY <1>3, <2>1, NewLineIs
    <2>3. /\ n \in Nat /\ n \in 0 .. n /\ Saved \in Seq(Lines) /\ Len(Saved) = n
          /\ Saved = [k \in 1 .. n |-> Text(Wrap(begin + f[k - 1]))]
      <3>1. n \in Nat /\ n \in 0 .. n
        BY <2>1, MarksAre
      <3>2. Saved = [k \in 1 .. n |-> Text(Wrap(begin + f[k - 1]))]
        BY <2>1, SavedAre
      <3>. QED BY <3>1, <3>2 DEF RingInv
    <2>4. Line \in Lines /\ Len(Line) \in Nat
      BY <1>3, LineIs, LineAssumption DEF EditTypes
    <2>. DEFINE s == Append(Saved, Line)
                N == n + 1
    <2>5. PICK len \in Nat : len = Len(Line)
      BY <2>4
    <2>. DEFINE F == [k \in 0 .. N |-> IF k <= n THEN f[k] ELSE f[n] + len + 1]
    <2>6. s \in Seq(Lines) /\ Len(s) = N /\ s[N] = Line /\ \A k \in 1 .. n : s[k] = Saved[k]
      BY <2>3, <2>4
    <2>7. \A k \in 0 .. n : f[k] \in Nat /\ F[k] = f[k]
      BY <2>1, <2>3, MarksAre
    <2>8. N \in Nat /\ N \in 0 .. N /\ ~(N <= n) /\ F[N] = f[n] + len + 1
      BY <2>3
    <2>9. F \in [0 .. N -> Int]
      <3>1. \A k \in 0 .. N : (IF k <= n THEN f[k] ELSE f[n] + len + 1) \in Int
        <4>. SUFFICES ASSUME NEW k \in 0 .. N PROVE (IF k <= n THEN f[k] ELSE f[n] + len + 1) \in Int
          OBVIOUS
        <4>1. CASE k <= n
          <5>1. k \in 0 .. n
            BY <2>3, <4>1
          <5>2. f[k] \in Int
            <6>1. f[k] \in Nat
              BY <2>1, <5>1, MarksAre
            <6>. QED BY <6>1
          <5>. QED BY <4>1, <5>2
        <4>2. CASE ~(k <= n)
          <5>1. f[n] + len + 1 \in Int
            <6>1. f[n] \in Nat
              BY <2>3, <2>7
            <6>. QED BY <6>1
          <5>. QED BY <4>2, <5>1
        <4>. QED BY <4>1, <4>2
      <3>. QED BY <3>1
    <2>10. ASSUME NEW k \in 1 .. N
           PROVE  F[k] = F[k - 1] + Len(s[k]) + 1
      <3>1. CASE k = N
        <4>1. k - 1 = n /\ F[k - 1] = f[n] /\ Len(s[k]) = len /\ F[k] = f[n] + len + 1
          <5>1. k - 1 = n
            BY <2>3, <3>1
          <5>. HIDE DEF s, F, N
          <5>. QED BY <2>3, <2>5, <2>6, <2>7, <2>8, <3>1, <5>1
        <4>. HIDE DEF s, F, N
        <4>. QED BY <4>1
      <3>2. CASE k # N
        <4>1. PICK j \in 0 .. n - 1 : j = k - 1 /\ j + 1 = k /\ k \in 1 .. n /\ k \in 0 .. n /\ j \in 0 .. n
          BY <2>3, <3>2
        <4>2. /\ f[j + 1] = f[j] + ring_buf[Wrap(begin + f[j])] + 1
          BY <2>1 DEF RingAt, Marks
        <4>3. ring_buf[Wrap(begin + f[j])] \in Nat
          BY <2>1, <4>1, MarksAre
        <4>4. s[k] = Text(Wrap(begin + f[j]))
          BY <2>3, <2>6, <4>1
        <4>5. Len(s[k]) = ring_buf[Wrap(begin + f[j])]
          BY <4>3, <4>4 DEF Text
        <4>. HIDE DEF s, F, N
        <4>. QED BY <2>7, <4>1, <4>2, <4>5
      <3>. QED BY <3>1, <3>2
    <2>11. q \in 0 .. N - 1 /\ F[N] - F[q] < RingLen /\ \A j \in 0 .. q - 1 : ~(F[N] - F[j] < RingLen)
      <3>1. q \in 0 .. N - 1 /\ \A j \in 0 .. q - 1 : j \in 0 .. n
        BY <2>3
      <3>2. \A j \in 0 .. n : F[N] - F[j] = f[n] - f[j] + Len(Line) + 1
        <4>. SUFFICES ASSUME NEW j \in 0 .. n PROVE F[N] - F[j] = f[n] - f[j] + Len(Line) + 1
          OBVIOUS
        <4>1. PICK x \in Nat, y \in Nat : x = f[n] /\ y = f[j]
          BY <2>3, <2>7
        <4>2. (x + len + 1) - y = x - y + len + 1
          OBVIOUS
        <4>. HIDE DEF F, N
        <4>. QED BY <2>5, <2>7, <2>8, <4>1, <4>2
      <3>. HIDE DEF F, N
      <3>. QED BY <2>2, <3>1, <3>2
    <2>12. History!Latest(s) = SubSeq(s, q + 1, N)
      <3>. HIDE DEF F, N, s
      <3>. QED BY <2>6, <2>8, <2>9, <2>10, <2>11, LatestIs
    <2>13. SubSeq(s, q + 1, N) = Append(SubSeq(Saved, q + 1, n), Line)
      BY <2>3, <2>4, AppendedTail
    <2>14. Saved' = History!Latest(s)
      BY <2>2, <2>12, <2>13
    <2>15. cur' = 0
      BY <1>3, NewLineIs
    <2>. QED BY <1>1, <1>3, <2>14, <2>15 DEF History!Enter
  <1>. QED BY <1>2, <1>3

(* Every step of the editor is a step of LineHistory or leaves it alone.     *)
LEMMA HistoryKeeps ==
  ASSUME EditorInv, [Next]_vars
  PROVE  [History!Next]_(History!vars)
  <1>. USE DEF EditorInv
  <1>1. \/ Editing /\ UNCHANGED (main = "running")
        \/ (Up \/ Down) /\ main # "running" /\ main' # "running"
        \/ NewLine /\ main # "running"
        \/ CommandReturns
    BY Steps
  <1>2. ASSUME EditTypes', UNCHANGED ringVars, UNCHANGED (main = "running")
        PROVE  History!Edit
    <2>1. Line' \in Seq(Letters \cup {0}) /\ Len(Line') <= LineLen - 1
      <3>1. /\ cmdline' \in [0 .. LineLen - 1 -> Letters \cup {0}]
            /\ cmdlen' \in 0 .. LineLen - 1
        BY <1>2 DEF EditTypes
      <3>2. LineLen \in Nat
        BY LineAssumption
      <3>3. Line' = [i \in 1 .. cmdlen' |-> cmdline'[i - 1]]
        BY DEF Line
      <3>4. \A i \in 1 .. cmdlen' : i - 1 \in 0 .. LineLen - 1
        BY <3>1, <3>2
      <3>5. Line' \in [1 .. cmdlen' -> Letters \cup {0}]
        BY <3>1, <3>3, <3>4
      <3>. QED BY <3>1, <3>2, <3>5
    <2>2. Saved' = Saved
      BY <1>2, RingStays DEF ringVars
    <2>. QED BY <1>2, <2>1, <2>2 DEF History!Edit, ringVars
  <1>3. CASE Editing /\ UNCHANGED (main = "running")
    BY <1>2, <1>3, EditingKeeps DEF History!Next
  <1>4. CASE Up /\ main # "running" /\ main' # "running"
    <2>1. CASE UNCHANGED <<editVars, ringVars>>
      <3>1. Editing
        BY <2>1 DEF Editing
      <3>2. UNCHANGED (main = "running")
        BY <1>4
      <3>3. EditTypes' /\ UNCHANGED ringVars
        BY <3>1, EditingKeeps
      <3>. QED BY <1>2, <3>2, <3>3 DEF History!Next
    <2>2. CASE ~UNCHANGED <<editVars, ringVars>>
      <3>1. /\ cur < Len(Saved) /\ cur' = cur + 1 /\ Saved' = Saved
            /\ Line' = Saved[Len(Saved) - cur]
        BY <1>4, <2>2, UpIs
      <3>. QED BY <1>4, <3>1 DEF History!Next, History!Up
    <2>. QED BY <2>1, <2>2
  <1>5. CASE Down /\ main # "running" /\ main' # "running"
    <2>1. /\ cur' = IF cur = 0 THEN 0 ELSE cur - 1
          /\ Saved' = Saved
          /\ Line' = IF cur < 2 THEN <<>> ELSE Saved[Len(Saved) - cur + 2]
      BY <1>5, DownIs
    <2>. QED BY <1>5, <2>1 DEF History!Next, History!Down
  <1>6. CASE NewLine /\ main # "running"
    BY <1>6, NewLineRefines DEF History!Next
  <1>7. CASE CommandReturns
    <2>1. cur' = 0 /\ Line' = <<>> /\ Saved' = Saved
      BY <1>7, ReturnIs
    <2>2. main = "running" /\ (main' = "running") = FALSE
      BY <1>7 DEF CommandReturns
    <2>. QED BY <2>1, <2>2 DEF History!Next, History!Return
  <1>. QED BY <1>1, <1>3, <1>4, <1>5, <1>6, <1>7

(* hist_save_line and hist_restore_line on the ring do what LineHistory says *)
(* of a list of lines: the latest ones that fit are there, unharmed.         *)
THEOREM RingIsHistory == Spec => ImplementsHistory
  <1>1. Init => History!Init
    <2>. SUFFICES ASSUME Init PROVE History!Init
      OBVIOUS
    <2>1. Saved = <<>> /\ cur = 0
      BY RingStarts DEF Init, RingInit
    <2>2. Line = <<>>
      <3>1. Line = [i \in 1 .. 0 |-> cmdline[i - 1]]
        BY DEF Init, Line
      <3>. QED BY <3>1
    <2>3. (main = "running") = FALSE
      BY DEF Init
    <2>. QED BY <2>1, <2>2, <2>3 DEF History!Init
  <1>2. EditorInv /\ [Next]_vars => [History!Next]_(History!vars)
    BY HistoryKeeps
  <1>. QED BY <1>1, <1>2, EditorAlways, PTL DEF Spec, History!Spec, ImplementsHistory

-----------------------------------------------------------------------------
(***************************************************************************)
(* doNewLine gives back the line that it has put a space into.             *)
(***************************************************************************)
(* While the space is in the line, the line to give back is the one that is  *)
(* edited without the character before the cursor.                           *)
Unspaced == [i \in 1 .. cmdlen - 1 |-> cmdline[IF i < cursor THEN i - 1 ELSE i]]

KeptIs ==
  kept # <<>> =>
    /\ ~escape
    /\ redraw = "space" => kept = <<Line, cursor>> /\ Fits(0)
    /\ redraw = "between" => kept = IF cursor = 0 THEN <<Line, cursor>> ELSE <<Unspaced, cursor - 1>>
    /\ redraw = "erase" => cursor > 0 /\ kept = <<Unspaced, cursor - 1>>

LEMMA SpaceStarts ==
  ASSUME EditTypes, DoNewLineSpace
  PROVE  KeptIs'
  <1>1. /\ LineLen \in Nat /\ LineLen > 1 /\ cmdlen \in Nat /\ cursor \in Nat /\ cursor <= cmdlen
    BY LineAssumption DEF EditTypes
  <1>2. ~escape'
    BY DEF DoNewLineSpace
  <1>3. CASE escape \/ ~(cmdlen + 1 < LineLen)
    <2>1. kept' = <<>>
      BY <1>3 DEF DoNewLineSpace
    <2>. QED BY <2>1 DEF KeptIs
  <1>4. CASE ~escape /\ cmdlen + 1 < LineLen
    <2>1. kept' = <<Line, cursor>> /\ redraw' = IF Fits(0) THEN "space" ELSE "between"
      BY <1>4 DEF DoNewLineSpace
    <2>2. cmdline' = cmdline /\ cmdlen' = cmdlen /\ cursor' = cursor
      BY DEF DoNewLineSpace, editVars
    <2>3. Line' = Line /\ (Fits(0) <=> Fits(0)')
      BY <2>2 DEF Line, Fits
    <2>4. ~Fits(0) => cursor = 0
      BY <1>1, <1>4 DEF Fits
    <2>. QED BY <1>2, <2>1, <2>2, <2>3, <2>4 DEF KeptIs
  <1>. QED BY <1>3, <1>4

LEMMA SpaceKeepsLine ==
  ASSUME EditTypes, KeptIs, kept # <<>>, SpaceWritten
  PROVE  KeptIs'
  <1>1. /\ LineLen \in Nat /\ LineLen > 1 /\ cmdlen \in Nat /\ cursor \in Nat /\ cursor <= cmdlen
    BY LineAssumption DEF EditTypes
  <1>2. kept' = kept /\ redraw' = "between" /\ ~escape' /\ redraw = "space"
    BY DEF SpaceWritten, KeptIs, escVars
  <1>3. kept = <<Line, cursor>> /\ cmdlen + 1 < LineLen
    BY <1>2 DEF KeptIs, Fits
  <1>4. /\ cmdline' = [i \in 0 .. LineLen - 1 |->
                 CASE i < cursor -> cmdline[i]
                   [] i = cursor -> 0
                   [] i \in cursor + 1 .. cmdlen -> cmdline[i - 1]
                   [] i = cmdlen + 1 -> 0
                   [] OTHER -> cmdline[i]]
        /\ cmdlen' = cmdlen + 1 /\ cursor' = cursor + 1
    BY <1>3 DEF SpaceWritten, Inserts, Insert, EditTypes
  <1>5. ASSUME NEW i \in 1 .. cmdlen
        PROVE  cmdline'[IF i < cursor + 1 THEN i - 1 ELSE i] = cmdline[i - 1]
    <2>1. CASE i < cursor + 1
      <3>1. PICK j \in 0 .. LineLen - 1 : j = i - 1 /\ j < cursor
        BY <1>1, <1>3, <2>1
      <3>2. j # cursor /\ j \notin cursor + 1 .. cmdlen /\ j # cmdlen + 1
        BY <1>1, <3>1
      <3>3. cmdline'[j] = cmdline[j]
        BY <1>4, <3>1, <3>2
      <3>. QED BY <2>1, <3>1, <3>3
    <2>2. CASE ~(i < cursor + 1)
      <3>1. i \in 0 .. LineLen - 1 /\ i \in cursor + 1 .. cmdlen /\ ~(i < cursor) /\ i # cursor
            /\ i # cmdlen + 1
        BY <1>1, <1>3, <2>2
      <3>2. cmdline'[i] = cmdline[i - 1]
        BY <1>4, <3>1
      <3>. QED BY <2>2, <3>2
    <2>. QED BY <2>1, <2>2
  <1>6. cmdlen' - 1 = cmdlen /\ cursor' - 1 = cursor /\ cursor' # 0
    BY <1>1, <1>4
  <1>7. Unspaced' = Line
    <2>1. Unspaced' = [i \in 1 .. cmdlen |-> cmdline'[IF i < cursor + 1 THEN i - 1 ELSE i]]
      BY <1>4, <1>6 DEF Unspaced
    <2>. QED BY <1>5, <2>1 DEF Line
  <1>. QED BY <1>2, <1>3, <1>6, <1>7 DEF KeptIs

LEMMA BackspaceStarts ==
  ASSUME EditTypes, KeptIs, kept # <<>>, DoNewLineBackspace
  PROVE  KeptIs' /\ (redraw' = "no" => <<Line, cursor>>' = kept)
  <1>1. cursor \in Nat
    BY LineAssumption DEF EditTypes
  <1>2. /\ ~escape /\ ~escape' /\ redraw' = IF cursor > 0 THEN "erase" ELSE "no"
        /\ kept' = IF redraw' = "no" THEN <<>> ELSE kept
        /\ kept = IF cursor = 0 THEN <<Line, cursor>> ELSE <<Unspaced, cursor - 1>>
    BY DEF DoNewLineBackspace, KeptIs
  <1>3. cmdline' = cmdline /\ cmdlen' = cmdlen /\ cursor' = cursor
    BY DEF DoNewLineBackspace, editVars
  <1>4. Line' = Line /\ Unspaced' = Unspaced
    BY <1>3 DEF Line, Unspaced
  <1>. QED BY <1>1, <1>2, <1>3, <1>4 DEF KeptIs

LEMMA BackspaceRestores ==
  ASSUME EditTypes, KeptIs, kept # <<>>, SpaceErased
  PROVE  <<Line, cursor>>' = kept
  <1>1. /\ LineLen \in Nat /\ LineLen > 1 /\ cmdlen \in Nat /\ cursor \in Nat /\ cursor <= cmdlen
        /\ cmdlen <= LineLen - 1
    BY LineAssumption DEF EditTypes
  <1>2. kept = <<Unspaced, cursor - 1>> /\ cursor > 0 /\ Backspace
    BY DEF KeptIs, SpaceErased, Erases
  <1>3. /\ cmdline' = [i \in 0 .. LineLen - 1 |->
                 CASE i \in cursor - 1 .. cmdlen - 1 -> cmdline[i + 1]
                   [] i \in cmdlen - 1 + 1 .. cmdlen -> 0
                   [] OTHER -> cmdline[i]]
        /\ cmdlen' = cmdlen - 1 /\ cursor' = cursor - 1
    BY <1>1, <1>2 DEF Backspace, Erase, EditTypes
  <1>4. ASSUME NEW i \in 1 .. cmdlen - 1
        PROVE  cmdline'[i - 1] = cmdline[IF i < cursor THEN i - 1 ELSE i]
    <2>1. i - 1 \in 0 .. LineLen - 1 /\ i - 1 \notin cmdlen - 1 + 1 .. cmdlen /\ (i - 1) + 1 = i
      BY <1>1
    <2>2. CASE i < cursor
      <3>1. i - 1 \notin cursor - 1 .. cmdlen - 1
        BY <1>1, <2>2
      <3>. QED BY <1>3, <2>1, <2>2, <3>1
    <2>3. CASE ~(i < cursor)
      <3>1. i - 1 \in cursor - 1 .. cmdlen - 1
        BY <1>1, <2>3
      <3>2. cmdline'[i - 1] = cmdline[i]
        BY <1>3, <2>1, <3>1
      <3>. QED BY <2>3, <3>2
    <2>. QED BY <2>2, <2>3
  <1>5. Line' = Unspaced
    <2>1. Line' = [i \in 1 .. cmdlen - 1 |-> cmdline'[i - 1]]
      BY <1>3 DEF Line
    <2>. QED BY <1>4, <2>1 DEF Unspaced
  <1>. QED BY <1>2, <1>3, <1>5

(* Whatever is typed before, where the cursor stands does not matter: the    *)
(* insertion and its removal by microrl.cpp undo each other, if no step of   *)
(* main's falls between them.                                                *)
THEOREM RestoresLine == Spec => NewLineRestores
  <1>1. Init => KeptIs
    BY DEF Init, KeptIs
  <1>2. EditorInv /\ KeptIs /\ [Next]_vars => KeptIs'
    <2>. SUFFICES ASSUME EditorInv, KeptIs, [Next]_vars PROVE KeptIs'
      OBVIOUS
    <2>1. CASE Main
      BY <2>1 DEF Main, KeptIs
    <2>2. CASE DoNewLineSpace
      BY <2>2, SpaceStarts DEF EditorInv
    <2>3. CASE SpaceWritten
      BY <2>3, SpaceKeepsLine DEF EditorInv, SpaceWritten, KeptIs
    <2>4. CASE DoNewLineBackspace
      BY <2>4, BackspaceStarts DEF EditorInv, DoNewLineBackspace, KeptIs
    <2>5. CASE SpaceErased
      BY <2>5 DEF SpaceErased, KeptIs
    <2>6. CASE UNCHANGED vars
      BY <2>6 DEF vars, editVars, escVars, KeptIs, Unspaced, Line, Fits
    <2>. QED BY <2>1, <2>2, <2>3, <2>4, <2>5, <2>6 DEF Next, DoNewLine
  <1>3. EditorInv /\ KeptIs /\ [Next]_vars =>
          [redraw # "no" /\ redraw' = "no" /\ kept # <<>> => <<Line, cursor>>' = kept]_vars
    <2>. SUFFICES ASSUME EditorInv, KeptIs, Next, redraw # "no", redraw' = "no", kept # <<>>
                  PROVE  <<Line, cursor>>' = kept
      OBVIOUS
    <2>1. DoNewLineBackspace \/ SpaceErased
      BY DEF Next, Main, DoNewLine, DoNewLineSpace, SpaceWritten
    <2>. QED BY <2>1, BackspaceStarts, BackspaceRestores DEF EditorInv
  <1>. QED BY <1>1, <1>2, <1>3, EditorAlways, PTL DEF Spec, NewLineRestores

-----------------------------------------------------------------------------
(***************************************************************************)
(* What Enter executes is what is shown.                                   *)
(***************************************************************************)
Chars == Letters \cup {0}
Reads == [seq : Seq(Seq(Chars)), new : BOOLEAN]
ReadNext(s, n, r) ==
  IF s[n] = 0 THEN [r EXCEPT !.new = TRUE]
  ELSE [seq |-> IF r.new THEN Append(r.seq, <<s[n]>>)
                ELSE [r.seq EXCEPT ![Len(r.seq)] = Append(@, s[n])],
        new |-> FALSE]

LEMMA ReadKeeps ==
  ASSUME NEW s \in Seq(Chars), NEW n \in 1 .. Len(s), NEW r \in Reads
  PROVE  ReadNext(s, n, r) \in Reads
  <1>1. s[n] \in Chars /\ r.seq \in Seq(Seq(Chars)) /\ r.new \in BOOLEAN
        /\ r = [seq |-> r.seq, new |-> r.new]
    BY DEF Reads
  <1>2. CASE s[n] = 0
    <2>1. ReadNext(s, n, r) = [seq |-> r.seq, new |-> TRUE]
      BY <1>1, <1>2 DEF ReadNext
    <2>. QED BY <1>1, <2>1 DEF Reads
  <1>3. CASE s[n] # 0 /\ r.new
    <2>1. ReadNext(s, n, r) = [seq |-> Append(r.seq, <<s[n]>>), new |-> FALSE]
      BY <1>3 DEF ReadNext
    <2>2. <<s[n]>> \in Seq(Chars)
      BY <1>1
    <2>3. Append(r.seq, <<s[n]>>) \in Seq(Seq(Chars))
      BY <1>1, <2>2, AppendProperties
    <2>. QED BY <2>1, <2>3 DEF Reads
  <1>4. CASE s[n] # 0 /\ ~r.new
    <2>. DEFINE t == [r.seq EXCEPT ![Len(r.seq)] = Append(@, s[n])]
    <2>1. ReadNext(s, n, r) = [seq |-> t, new |-> FALSE]
      BY <1>4 DEF ReadNext
    <2>2. t \in Seq(Seq(Chars))
      <3>1. CASE r.seq = <<>>
        <4>1. t = [i \in DOMAIN r.seq |-> IF i = Len(r.seq) THEN Append(r.seq[i], s[n]) ELSE r.seq[i]]
              /\ DOMAIN r.seq = {}
          BY <3>1
        <4>2. t = r.seq
          <5>1. r.seq = [i \in DOMAIN r.seq |-> r.seq[i]]
            BY <1>1
          <5>. HIDE DEF t
          <5>. QED BY <4>1, <5>1
        <4>. QED BY <1>1, <4>2
      <3>2. CASE r.seq # <<>>
        <4>1. Len(r.seq) \in 1 .. Len(r.seq)
          BY <1>1, <3>2
        <4>2. r.seq[Len(r.seq)] \in Seq(Chars)
          BY <1>1, <4>1, ElementOfSeq
        <4>3. Append(r.seq[Len(r.seq)], s[n]) \in Seq(Chars)
          BY <1>1, <4>2, AppendProperties
        <4>4. t = [r.seq EXCEPT ![Len(r.seq)] = Append(r.seq[Len(r.seq)], s[n])]
          OBVIOUS
        <4>. QED BY <1>1, <4>1, <4>3, <4>4, ExceptSeq
      <3>. QED BY <3>1, <3>2
    <2>. QED BY <2>1, <2>2 DEF Reads
  <1>. QED BY <1>1, <1>2, <1>3, <1>4

LEMMA WordsAre ==
  ASSUME NEW s \in Seq(Chars)
  PROVE  \E read \in [0 .. Len(s) -> Reads] :
           /\ read[0] = [seq |-> <<>>, new |-> TRUE]
           /\ \A n \in 1 .. Len(s) : read[n] = ReadNext(s, n, read[n - 1])
           /\ Words(s) = read[Len(s)].seq
  <1>. DEFINE N == Len(s)
              x == [seq |-> <<>>, new |-> TRUE]
              g == [n \in 1 .. N |-> [r \in Reads |-> ReadNext(s, n, r)]]
              Is(h) == h = [n \in 0 .. N |-> IF n = 0 THEN x ELSE ReadNext(s, n, h[n - 1])]
  <1>1. N \in Nat /\ x \in Reads
    BY DEF Reads
  <1>2. g \in [1 .. N -> [Reads -> Reads]]
    BY ReadKeeps
  <1>3. PICK h \in [0 .. N -> Reads] : Iterates(h, N, x, g)
    <2>. HIDE DEF g, N, x
    <2>. QED BY <1>1, <1>2, Recursion
  <1>4. Is(h)
    <2>1. \A n \in 1 .. N : g[n][h[n - 1]] = ReadNext(s, n, h[n - 1])
      BY <1>1
    <2>2. h = [n \in 0 .. N |-> IF n = 0 THEN x ELSE g[n][h[n - 1]]]
      BY <1>3 DEF Iterates
    <2>. HIDE DEF g, x
    <2>3. \A n \in 0 .. N : (IF n = 0 THEN x ELSE g[n][h[n - 1]])
                             = IF n = 0 THEN x ELSE ReadNext(s, n, h[n - 1])
      <3>1. \A n \in 0 .. N : n # 0 => n \in 1 .. N
        BY <1>1
      <3>. HIDE DEF N
      <3>. QED BY <2>1, <3>1
    <2>. HIDE DEF N
    <2>. QED BY <2>2, <2>3
  <1>5. PICK read : Is(read) /\ Words(s) = read[N].seq
    <2>1. Is(CHOOSE f : Is(f))
      <3>. HIDE DEF Is
      <3>. QED BY <1>4
    <2>2. Words(s) = (CHOOSE f : Is(f))[N].seq
      BY DEF Words, ReadNext
    <2>. HIDE DEF Is
    <2>. QED BY <2>1, <2>2
  <1>6. read[0] = x /\ \A n \in 1 .. N : read[n] = ReadNext(s, n, read[n - 1])
    <2>1. 0 \in 0 .. N /\ \A n \in 1 .. N : n \in 0 .. N /\ n # 0
      BY <1>1
    <2>. HIDE DEF x, N
    <2>. QED BY <1>5, <2>1
  <1>. DEFINE T == {n \in 0 .. N : read[n] \in Reads}
  <1>7. \A n \in 0 .. N - 1 : n \in T => n + 1 \in T
    <2>. SUFFICES ASSUME NEW n \in 0 .. N - 1, n \in T PROVE n + 1 \in T
      OBVIOUS
    <2>1. n + 1 \in 1 .. N /\ (n + 1) - 1 = n /\ n + 1 \in 0 .. N
      BY <1>1
    <2>2. read[n + 1] = ReadNext(s, n + 1, read[n])
      BY <1>6, <2>1
    <2>. QED BY <2>1, <2>2, ReadKeeps
  <1>8. \A n \in 0 .. N : n \in T
    <2>1. 0 \in T
      BY <1>1, <1>6
    <2>. HIDE DEF T, N
    <2>. QED BY <1>1, <1>7, <2>1, UpTo
  <1>9. read \in [0 .. N -> Reads]
    <2>1. read = [n \in 0 .. N |-> read[n]]
      BY <1>5
    <2>2. \A n \in 0 .. N : read[n] \in Reads
      BY <1>8
    <2>. HIDE DEF N
    <2>. QED BY <2>1, <2>2
  <1>. QED BY <1>5, <1>6, <1>9

(* How many words begin before a place *)
W(n) == Cardinality(Starts(n))

LEMMA Ranks ==
  ASSUME EditTypes, NEW n \in 0 .. LineLen - 1
  PROVE  /\ W(0) = 0
         /\ Starts(n) \subseteq 0 .. n - 1 /\ IsFiniteSet(Starts(n)) /\ W(n) \in Nat
         /\ n \in Starts(n + 1) <=> cmdline[n] # 0 /\ (n > 0 => cmdline[n - 1] = 0)
         /\ n \in Starts(n + 1) => Starts(n + 1) = Starts(n) \cup {n} /\ W(n + 1) = W(n) + 1
         /\ n \notin Starts(n + 1) => Starts(n + 1) = Starts(n) /\ W(n + 1) = W(n)
         /\ \A i \in Starts(n) : {j \in Starts(n) : j < i} = Starts(i)
  <1>1. n \in Nat /\ LineLen \in Nat
    BY LineAssumption
  <1>2. Starts(0) = {}
    BY DEF Starts
  <1>3. Starts(n) \subseteq 0 .. n - 1
    BY DEF Starts
  <1>4. IsFiniteSet(Starts(n)) /\ W(n) \in Nat
    <2>1. 0 \in Int /\ n - 1 \in Int
      BY <1>1
    <2>2. IsFiniteSet(0 .. n - 1)
      BY <2>1, FS_Interval
    <2>3. IsFiniteSet(Starts(n))
      BY <1>3, <2>2, FS_Subset
    <2>. QED BY <2>3, FS_CardinalityType DEF W
  <1>5. n \in Starts(n + 1) <=> cmdline[n] # 0 /\ (n > 0 => cmdline[n - 1] = 0)
    BY <1>1 DEF Starts
  <1>6. ASSUME n \in Starts(n + 1)
        PROVE  Starts(n + 1) = Starts(n) \cup {n} /\ W(n + 1) = W(n) + 1
    <2>1. Starts(n + 1) = Starts(n) \cup {n} /\ n \notin Starts(n)
      BY <1>1, <1>6 DEF Starts
    <2>. QED BY <1>4, <2>1, FS_AddElement DEF W
  <1>7. ASSUME n \notin Starts(n + 1)
        PROVE  Starts(n + 1) = Starts(n) /\ W(n + 1) = W(n)
    <2>1. Starts(n + 1) = Starts(n)
      BY <1>1, <1>7 DEF Starts
    <2>. QED BY <2>1 DEF W
  <1>8. \A i \in Starts(n) : {j \in Starts(n) : j < i} = Starts(i)
    BY <1>1 DEF Starts
  <1>9. W(0) = 0
    BY <1>2, FS_EmptySet DEF W
  <1>. QED BY <1>3, <1>4, <1>5, <1>6, <1>7, <1>8, <1>9

IsWord(t, i, m) ==
  /\ t = [j \in 1 .. m |-> cmdline[i + j - 1]]
  /\ \A j \in 0 .. m - 1 : cmdline[i + j] # 0

(* The word of a beginning i, read up to n: it goes on to n or to a zero byte. *)
WordRead(t, i, n) ==
  \E m \in 1 .. n - i :
    /\ IsWord(t, i, m)
    /\ i + m = n <=> W(i) = W(n) - 1 /\ cmdline[n - 1] # 0
    /\ i + m < n => cmdline[i + m] = 0

LEMMA WordReadTo ==
  ASSUME NEW t, NEW i, NEW n, NEW m \in 1 .. n - i, IsWord(t, i, m),
         i + m = n <=> W(i) = W(n) - 1 /\ cmdline[n - 1] # 0,
         i + m < n => cmdline[i + m] = 0
  PROVE  WordRead(t, i, n)
  BY DEF WordRead

(* What is read of the first n characters *)
ReadTo(r, n) ==
  /\ Len(r.seq) = W(n)
  /\ r.new <=> n = 0 \/ cmdline[n - 1] = 0
  /\ n > 0 /\ cmdline[n - 1] # 0 => W(n) > 0
  /\ \A k \in 1 .. W(n) : \E i \in Starts(n) : W(i) = k - 1
  /\ \A i \in Starts(n) : W(i) \in 0 .. W(n) - 1 /\ WordRead(r.seq[W(i) + 1], i, n)

LEMMA ReadStep ==
  ASSUME EditTypes, NEW n \in 0 .. cmdlen - 1, NEW r \in Reads, ReadTo(r, n)
  PROVE  ReadTo(ReadNext(Line, n + 1, r), n + 1)
  <1>. DEFINE c == cmdline[n]
              r2 == ReadNext(Line, n + 1, r)
  <1>1. /\ n \in Nat /\ LineLen \in Nat /\ n \in 0 .. LineLen - 1 /\ n + 1 \in 0 .. LineLen - 1
        /\ (n + 1) - 1 = n /\ n + 1 # 0
    BY LineAssumption DEF EditTypes
  <1>2. Line[n + 1] = c
    <2>1. n + 1 \in 1 .. cmdlen
      BY <1>1 DEF EditTypes
    <2>. QED BY <1>1, <2>1 DEF Line
  <1>3. /\ Starts(n) \subseteq 0 .. n - 1 /\ W(n) \in Nat
        /\ n \in Starts(n + 1) <=> c # 0 /\ (n > 0 => cmdline[n - 1] = 0)
        /\ n \in Starts(n + 1) => Starts(n + 1) = Starts(n) \cup {n} /\ W(n + 1) = W(n) + 1
        /\ n \notin Starts(n + 1) => Starts(n + 1) = Starts(n) /\ W(n + 1) = W(n)
    BY <1>1, Ranks
  <1>4. /\ Len(r.seq) = W(n)
        /\ r.new <=> n = 0 \/ cmdline[n - 1] = 0
        /\ n > 0 /\ cmdline[n - 1] # 0 => W(n) > 0
        /\ \A k \in 1 .. W(n) : \E i \in Starts(n) : W(i) = k - 1
        /\ \A i \in Starts(n) : W(i) \in 0 .. W(n) - 1 /\ WordRead(r.seq[W(i) + 1], i, n)
    BY DEF ReadTo
  <1>5. r.seq \in Seq(Seq(Chars)) /\ c \in Chars
    BY <1>1 DEF Reads, EditTypes, Chars
  (* A space *)
  <1>6. CASE c = 0
    <2>1. r2.seq = r.seq /\ r2.new = TRUE
      BY <1>2, <1>6 DEF ReadNext, Reads
    <2>2. Starts(n + 1) = Starts(n) /\ W(n + 1) = W(n)
      BY <1>3, <1>6
    <2>3. ASSUME NEW i \in Starts(n)
          PROVE  WordRead(r.seq[W(i) + 1], i, n + 1)
      <3>1. PICK m \in 1 .. n - i :
               /\ IsWord(r.seq[W(i) + 1], i, m)
               /\ i + m < n => cmdline[i + m] = 0
        BY <1>4 DEF WordRead
      <3>2. i \in 0 .. n - 1 /\ m \in 1 .. (n + 1) - i /\ i + m # n + 1 /\ (i + m < n \/ i + m = n)
        BY <1>1, <1>3
      <3>3. i + m < n + 1 => cmdline[i + m] = 0
        BY <1>6, <3>1, <3>2
      <3>. QED BY <1>1, <1>6, <3>1, <3>2, <3>3 DEF WordRead
    <2>. HIDE DEF r2
    <2>. QED BY <1>1, <1>4, <1>6, <2>1, <2>2, <2>3 DEF ReadTo, r2
  (* The first character of a word *)
  <1>7. CASE c # 0 /\ (n > 0 => cmdline[n - 1] = 0)
    <2>1. r.new
      BY <1>1, <1>4, <1>7
    <2>2. r2.seq = Append(r.seq, <<c>>) /\ r2.new = FALSE
      BY <1>2, <1>7, <2>1 DEF ReadNext, Reads
    <2>3. Starts(n + 1) = Starts(n) \cup {n} /\ W(n + 1) = W(n) + 1
      BY <1>3, <1>7
    <2>4. /\ Len(r2.seq) = W(n) + 1 /\ r2.seq[W(n) + 1] = <<c>>
          /\ \A k \in 1 .. W(n) : r2.seq[k] = r.seq[k]
      <3>1. <<c>> \in Seq(Chars)
        BY <1>5
      <3>. HIDE DEF r2
      <3>. QED BY <1>3, <1>4, <1>5, <2>2, <3>1, AppendProperties
    <2>5. ASSUME NEW i \in Starts(n)
          PROVE  WordRead(r2.seq[W(i) + 1], i, n + 1) /\ W(i) \in 0 .. W(n + 1) - 1
      <3>1. PICK m \in 1 .. n - i :
               /\ IsWord(r.seq[W(i) + 1], i, m)
               /\ i + m = n <=> W(i) = W(n) - 1 /\ cmdline[n - 1] # 0
               /\ i + m < n => cmdline[i + m] = 0
        BY <1>4 DEF WordRead
      <3>2. i \in 0 .. n - 1 /\ m \in 1 .. (n + 1) - i /\ i + m # n + 1 /\ n > 0
        BY <1>1, <1>3
      <3>3. i + m < n /\ cmdline[i + m] = 0
        BY <1>7, <3>1, <3>2
      <3>4. W(i) \in 0 .. W(n) - 1 /\ W(i) + 1 \in 1 .. W(n) /\ W(i) \in 0 .. W(n + 1) - 1 /\ W(i) # W(n + 1) - 1
        BY <1>3, <1>4, <2>3
      <3>5. r2.seq[W(i) + 1] = r.seq[W(i) + 1]
        BY <2>4, <3>4
      <3>. HIDE DEF r2
      <3>. QED BY <1>1, <3>1, <3>2, <3>3, <3>4, <3>5 DEF WordRead
    <2>6. WordRead(r2.seq[W(n) + 1], n, n + 1)
      <3>1. 1 \in 1 .. (n + 1) - n /\ (n + 1) - 1 = n /\ W(n) = W(n + 1) - 1
        BY <1>1, <1>3, <2>3
      <3>2. IsWord(<<c>>, n, 1)
        <4>1. \A j \in 1 .. 1 : n + j - 1 = n
          BY <1>1
        <4>2. \A j \in 0 .. 1 - 1 : n + j = n
          BY <1>1
        <4>. QED BY <1>7, <4>1, <4>2 DEF IsWord
      <3>3. ~(n + 1 < n + 1)
        BY <1>1
      <3>. HIDE DEF r2
      <3>. QED BY <1>7, <2>4, <3>1, <3>2, <3>3 DEF WordRead
    <2>7. \A k \in 1 .. W(n + 1) : \E i \in Starts(n + 1) : W(i) = k - 1
      <3>. SUFFICES ASSUME NEW k \in 1 .. W(n + 1) PROVE \E i \in Starts(n + 1) : W(i) = k - 1
        OBVIOUS
      <3>1. CASE k = W(n + 1)
        BY <1>3, <2>3, <3>1
      <3>2. CASE k # W(n + 1)
        <4>1. k \in 1 .. W(n)
          BY <1>3, <2>3, <3>2
        <4>. QED BY <1>4, <2>3, <4>1
      <3>. QED BY <3>1, <3>2
    <2>8. W(n) \in 0 .. W(n + 1) - 1 /\ W(n + 1) > 0
      BY <1>3, <2>3
    <2>9. r2.new <=> n + 1 = 0 \/ cmdline[(n + 1) - 1] = 0
      BY <1>1, <1>7, <2>2
    <2>. HIDE DEF r2
    <2>. QED BY <2>3, <2>4, <2>5, <2>6, <2>7, <2>8, <2>9 DEF ReadTo, r2
  (* A further one *)
  <1>8. CASE c # 0 /\ n > 0 /\ cmdline[n - 1] # 0
    <2>1. ~r.new /\ W(n) > 0
      BY <1>1, <1>4, <1>8
    <2>. DEFINE t == Append(r.seq[W(n)], c)
    <2>2. r2.seq = [r.seq EXCEPT ![W(n)] = t] /\ r2.new = FALSE
      BY <1>2, <1>4, <1>8, <2>1 DEF ReadNext, Reads
    <2>3. Starts(n + 1) = Starts(n) /\ W(n + 1) = W(n)
      BY <1>3, <1>8
    <2>4. /\ Len(r2.seq) = W(n) /\ r2.seq[W(n)] = t
          /\ \A k \in 1 .. W(n) : k # W(n) => r2.seq[k] = r.seq[k]
      <3>1. W(n) \in 1 .. Len(r.seq) /\ DOMAIN r.seq = 1 .. W(n)
        BY <1>3, <1>4, <1>5, <2>1
      <3>2. DOMAIN r2.seq = 1 .. W(n)
        BY <2>2, <3>1
      <3>. HIDE DEF r2, t
      <3>3. r2.seq[W(n)] = t /\ \A k \in 1 .. W(n) : k # W(n) => r2.seq[k] = r.seq[k]
        BY <1>4, <2>2, <3>1
      <3>4. Len(r2.seq) = W(n)
        <4>1. r2.seq = [k \in 1 .. W(n) |-> r2.seq[k]]
          BY <2>2, <3>1
        <4>. QED BY <1>3, <4>1
      <3>. QED BY <3>3, <3>4
    <2>5. ASSUME NEW i \in Starts(n)
          PROVE  WordRead(r2.seq[W(i) + 1], i, n + 1)
      <3>1. PICK m \in 1 .. n - i :
               /\ IsWord(r.seq[W(i) + 1], i, m)
               /\ i + m = n <=> W(i) = W(n) - 1 /\ cmdline[n - 1] # 0
               /\ i + m < n => cmdline[i + m] = 0
        BY <1>4 DEF WordRead
      <3>2. i \in 0 .. n - 1 /\ m \in Nat /\ i \in Nat /\ W(i) \in 0 .. W(n) - 1
        BY <1>1, <1>3, <1>4
      <3>3. CASE W(i) = W(n) - 1
        <4>1. i + m = n /\ W(i) + 1 = W(n)
          BY <1>3, <1>8, <3>1, <3>3
        <4>2. r2.seq[W(i) + 1] = t /\ r.seq[W(n)] = [j \in 1 .. m |-> cmdline[i + j - 1]]
          BY <2>4, <3>1, <4>1 DEF IsWord
        <4>3. IsWord(t, i, m + 1)
          <5>1. PICK u : u = r.seq[W(n)]
            OBVIOUS
          <5>2. u \in Seq(Chars) /\ Len(u) = m /\ \A j \in 1 .. m : u[j] = cmdline[i + j - 1]
            <6>1. W(n) \in 1 .. Len(r.seq)
              BY <1>3, <1>4, <2>1
            <6>2. r.seq[W(n)] \in Seq(Chars)
              BY <1>5, <6>1, ElementOfSeq
            <6>. QED BY <3>2, <4>2, <5>1, <6>2
          <5>3. /\ Append(u, c) \in Seq(Chars) /\ Len(Append(u, c)) = m + 1
                /\ Append(u, c)[m + 1] = c /\ \A j \in 1 .. m : Append(u, c)[j] = u[j]
            BY <1>5, <5>2, AppendProperties
          <5>4. Append(u, c) = [j \in 1 .. m + 1 |-> Append(u, c)[j]]
            <6>1. PICK v : v = Append(u, c)
              OBVIOUS
            <6>2. v \in Seq(Chars) /\ Len(v) = m + 1
              BY <5>3, <6>1
            <6>3. v = [j \in 1 .. m + 1 |-> v[j]]
              BY <6>2
            <6>. QED BY <6>1, <6>3
          <5>5. \A j \in 1 .. m + 1 : Append(u, c)[j] = cmdline[i + j - 1]
            <6>1. i + (m + 1) - 1 = n /\ \A j \in 1 .. m + 1 : j = m + 1 \/ j \in 1 .. m
              BY <3>2, <4>1
            <6>. QED BY <5>2, <5>3, <6>1
          <5>6. \A j \in 0 .. m + 1 - 1 : cmdline[i + j] # 0
            <6>1. \A j \in 0 .. m + 1 - 1 : j = m \/ j \in 0 .. m - 1
              BY <3>2
            <6>. QED BY <1>8, <3>1, <4>1, <6>1 DEF IsWord
          <5>7. Append(u, c) = [j \in 1 .. m + 1 |-> cmdline[i + j - 1]]
            BY <5>4, <5>5
          <5>. QED BY <5>1, <5>6, <5>7 DEF IsWord
        <4>4. m + 1 \in 1 .. (n + 1) - i /\ i + (m + 1) = n + 1 /\ ~(i + (m + 1) < n + 1)
          BY <1>1, <3>2, <4>1
        <4>5. W(i) = W(n + 1) - 1 /\ cmdline[(n + 1) - 1] # 0
          BY <1>1, <1>8, <2>3, <3>3
        <4>. HIDE DEF r2, t
        <4>6. PICK l \in 1 .. (n + 1) - i : l = m + 1 /\ i + l = n + 1 /\ ~(i + l < n + 1)
          BY <4>4
        <4>7. IsWord(r2.seq[W(i) + 1], i, l)
          BY <4>2, <4>3, <4>6
        <4>8. i + l = n + 1 <=> W(i) = W(n + 1) - 1 /\ cmdline[(n + 1) - 1] # 0
          BY <4>5, <4>6
        <4>9. i + l < n + 1 => cmdline[i + l] = 0
          BY <4>6
        <4>. QED BY <4>7, <4>8, <4>9, WordReadTo
      <3>4. CASE W(i) # W(n) - 1
        <4>1. i + m < n /\ cmdline[i + m] = 0
          BY <1>1, <3>1, <3>2, <3>4
        <4>2. W(i) + 1 \in 1 .. W(n) /\ W(i) + 1 # W(n)
          BY <1>3, <3>2, <3>4
        <4>3. r2.seq[W(i) + 1] = r.seq[W(i) + 1]
          BY <2>4, <4>2
        <4>4. m \in 1 .. (n + 1) - i /\ i + m # n + 1
          BY <1>1, <3>2, <4>1
        <4>5. i + m = n + 1 <=> W(i) = W(n + 1) - 1 /\ cmdline[(n + 1) - 1] # 0
          BY <2>3, <3>4, <4>4
        <4>. HIDE DEF r2
        <4>6. IsWord(r2.seq[W(i) + 1], i, m)
          BY <3>1, <4>3
        <4>. QED BY <4>1, <4>4, <4>5, <4>6, WordReadTo
      <3>. QED BY <3>3, <3>4
    <2>6. r2.new <=> n + 1 = 0 \/ cmdline[(n + 1) - 1] = 0
      BY <1>1, <1>8, <2>2
    <2>. HIDE DEF r2, t
    <2>. QED BY <1>4, <2>1, <2>3, <2>4, <2>5, <2>6 DEF ReadTo, r2
  <1>. QED BY <1>1, <1>6, <1>7, <1>8

(* A string ends at the first zero byte. *)
LEMMA StringEnds ==
  ASSUME EditTypes, NEW i \in 0 .. LineLen - 1, NEW m \in Nat, i + m <= LineLen - 1,
         cmdline[i + m] = 0, \A x \in 0 .. m - 1 : cmdline[i + x] # 0
  PROVE  StringAt(i) = [x \in 1 .. m |-> cmdline[i + x - 1]]
  <1>1. PICK n \in 0 .. LineLen - 1 - i :
           /\ StringAt(i) = [x \in 1 .. n |-> cmdline[i + x - 1]]
           /\ cmdline[i + n] = 0
           /\ \A x \in 0 .. n - 1 : cmdline[i + x] # 0
    BY StringAtIs
  <1>2. n \in Nat
    BY LineAssumption
  <1>3. n < m => n \in 0 .. m - 1
    BY <1>2
  <1>4. m < n => m \in 0 .. n - 1
    BY <1>2
  <1>5. n = m
    BY <1>1, <1>2, <1>3, <1>4
  <1>. QED BY <1>1, <1>5

(* What stands behind the line and belongs to its last word *)
Behind == IF cmdlen = 0 \/ cmdline[cmdlen - 1] = 0 THEN <<>> ELSE StringAt(cmdlen)

LEMMA SequenceIs ==
  ASSUME NEW S, NEW s \in Seq(S)
  PROVE  s = [x \in 1 .. Len(s) |-> s[x]]
  OBVIOUS

(* The last word, which goes on behind the line *)
LEMMA LastGoesOn ==
  ASSUME EditTypes, NEW t, NEW i \in Nat, NEW m \in Nat \ {0}, IsWord(t, i, m), i + m = cmdlen
  PROVE  StringAt(i) = t \o StringAt(cmdlen)
  <1>1. LineLen \in Nat /\ cmdlen \in 0 .. LineLen - 1 /\ i \in 0 .. LineLen - 1
    BY LineAssumption DEF EditTypes
  <1>2. PICK p \in 0 .. LineLen - 1 - cmdlen :
           /\ StringAt(cmdlen) = [x \in 1 .. p |-> cmdline[cmdlen + x - 1]]
           /\ cmdline[cmdlen + p] = 0
           /\ \A x \in 0 .. p - 1 : cmdline[cmdlen + x] # 0
    BY <1>1, StringAtIs
  <1>3. p \in Nat /\ m + p \in Nat /\ i + (m + p) <= LineLen - 1 /\ i + (m + p) = cmdlen + p
    BY <1>1, <1>2
  <1>4. ASSUME NEW x \in 0 .. (m + p) - 1
        PROVE  cmdline[i + x] # 0
    <2>1. CASE x < m
      <3>1. x \in 0 .. m - 1
        BY <2>1
      <3>. QED BY <3>1 DEF IsWord
    <2>2. CASE ~(x < m)
      <3>1. x - m \in 0 .. p - 1 /\ i + x = cmdlen + (x - m)
        BY <1>1, <1>3, <2>2
      <3>. QED BY <1>2, <3>1
    <2>. QED BY <2>1, <2>2
  <1>5. StringAt(i) = [x \in 1 .. m + p |-> cmdline[i + x - 1]]
    BY <1>1, <1>2, <1>3, <1>4, StringEnds
  <1>6. PICK v : v = StringAt(cmdlen)
    OBVIOUS
  <1>7. t \in Seq(Chars) /\ Len(t) = m /\ v \in Seq(Chars) /\ Len(v) = p
    <2>1. \A x \in 1 .. m : cmdline[i + x - 1] \in Chars
      BY <1>1 DEF EditTypes, Chars
    <2>2. \A x \in 1 .. p : cmdline[cmdlen + x - 1] \in Chars
      BY <1>1, <1>3 DEF EditTypes, Chars
    <2>3. t \in [1 .. m -> Chars] /\ v \in [1 .. p -> Chars]
      BY <1>2, <1>6, <2>1, <2>2 DEF IsWord
    <2>. QED BY <1>3, <2>3
  <1>8. ASSUME NEW x \in 1 .. m + p
        PROVE  cmdline[i + x - 1] = (t \o v)[x]
    <2>1. CASE x <= m
      <3>1. (t \o v)[x] = t[x] /\ x \in 1 .. m
        BY <1>3, <1>7, <2>1
      <3>. QED BY <3>1 DEF IsWord
    <2>2. CASE ~(x <= m)
      <3>1. (t \o v)[x] = v[x - m] /\ x - m \in 1 .. p
        BY <1>3, <1>7, <2>2
      <3>2. cmdlen + (x - m) - 1 = i + x - 1
        BY <1>1, <1>3
      <3>3. v[x - m] = cmdline[cmdlen + (x - m) - 1]
        <4>1. v = [y \in 1 .. p |-> cmdline[cmdlen + y - 1]]
          BY <1>2, <1>6
        <4>. QED BY <3>1, <4>1
      <3>. QED BY <3>1, <3>2, <3>3
    <2>. QED BY <2>1, <2>2
  <1>9. t \o v = [x \in 1 .. m + p |-> (t \o v)[x]]
    <2>1. t \o v \in Seq(Chars) /\ Len(t \o v) = Len(t) + Len(v)
      BY <1>7
    <2>2. PICK u \in Seq(Chars) : u = t \o v
      BY <2>1
    <2>3. Len(u) = m + p
      BY <1>7, <2>1, <2>2
    <2>4. u = [x \in 1 .. Len(u) |-> u[x]]
      BY SequenceIs
    <2>. QED BY <2>2, <2>3, <2>4
  <1>. QED BY <1>5, <1>6, <1>8, <1>9

(* The words of the line as it is shown are the strings at the beginnings,   *)
(* but for what stands behind the line.                                      *)
LEMMA WordsShown ==
  ASSUME EditTypes
  PROVE  /\ W(cmdlen) \in Nat /\ Len(Words(Line)) = W(cmdlen)
         /\ [k \in 1 .. W(cmdlen) |-> StringAt(Nth(Starts(cmdlen), k))]
              = [k \in 1 .. W(cmdlen) |->
                   IF k = W(cmdlen) THEN Words(Line)[k] \o Behind ELSE Words(Line)[k]]
  <1>1. /\ LineLen \in Nat /\ cmdlen \in Nat /\ cmdlen \in 0 .. LineLen - 1
        /\ Line \in Seq(Chars) /\ Len(Line) = cmdlen
    BY LineAssumption, LineIs DEF EditTypes, Chars
  <1>2. PICK read \in [0 .. cmdlen -> Reads] :
           /\ read[0] = [seq |-> <<>>, new |-> TRUE]
           /\ \A n \in 1 .. cmdlen : read[n] = ReadNext(Line, n, read[n - 1])
           /\ Words(Line) = read[cmdlen].seq
    BY <1>1, WordsAre
  <1>. DEFINE T == {n \in 0 .. cmdlen : ReadTo(read[n], n)}
  <1>3. 0 \in T
    <2>1. Starts(0) = {} /\ W(0) = 0
      <3>1. W(0) = 0 /\ Starts(0) \subseteq 0 .. 0 - 1
        <4>1. 0 \in 0 .. LineLen - 1
          BY <1>1
        <4>. QED BY <4>1, Ranks
      <3>. QED BY <3>1
    <2>2. read[0].seq = <<>> /\ read[0].new = TRUE
      BY <1>2
    <2>3. ReadTo(read[0], 0)
      BY <2>1, <2>2 DEF ReadTo
    <2>. QED BY <1>1, <2>3
  <1>4. \A n \in 0 .. cmdlen - 1 : n \in T => n + 1 \in T
    <2>. SUFFICES ASSUME NEW n \in 0 .. cmdlen - 1, n \in T PROVE n + 1 \in T
      OBVIOUS
    <2>1. n + 1 \in 1 .. cmdlen /\ n + 1 \in 0 .. cmdlen /\ (n + 1) - 1 = n /\ n \in 0 .. cmdlen
      BY <1>1
    <2>2. read[n + 1] = ReadNext(Line, n + 1, read[n]) /\ read[n] \in Reads
      BY <1>2, <2>1
    <2>3. ReadTo(ReadNext(Line, n + 1, read[n]), n + 1)
      BY <2>2, ReadStep
    <2>. QED BY <2>1, <2>2, <2>3
  <1>5. \A n \in 0 .. cmdlen : n \in T
    <2>. HIDE DEF T
    <2>. QED BY <1>1, <1>3, <1>4, UpTo
  <1>6. PICK r \in Reads : r = read[cmdlen] /\ ReadTo(r, cmdlen)
    <2>1. cmdlen \in 0 .. cmdlen
      BY <1>1
    <2>. QED BY <1>2, <1>5, <2>1
  <1>7. /\ W(cmdlen) \in Nat /\ Starts(cmdlen) \subseteq 0 .. cmdlen - 1
        /\ \A i \in Starts(cmdlen) : {j \in Starts(cmdlen) : j < i} = Starts(i)
    BY <1>1, Ranks
  <1>8. ASSUME NEW k \in 1 .. W(cmdlen)
        PROVE  StringAt(Nth(Starts(cmdlen), k)) = IF k = W(cmdlen) THEN r.seq[k] \o Behind ELSE r.seq[k]
    <2>1. \E i \in Starts(cmdlen) : Cardinality({j \in Starts(cmdlen) : j < i}) = k - 1
      <3>1. PICK i \in Starts(cmdlen) : W(i) = k - 1
        BY <1>6 DEF ReadTo
      <3>2. {j \in Starts(cmdlen) : j < i} = Starts(i)
        BY <1>7
      <3>. QED BY <3>1, <3>2 DEF W
    <2>2. PICK i \in Starts(cmdlen) : /\ i = Nth(Starts(cmdlen), k)
                                       /\ Cardinality({j \in Starts(cmdlen) : j < i}) = k - 1
      BY <2>1 DEF Nth
    <2>3. W(i) = k - 1 /\ W(i) + 1 = k
      <3>1. {j \in Starts(cmdlen) : j < i} = Starts(i)
        BY <1>7
      <3>2. W(i) = k - 1
        BY <2>2, <3>1 DEF W
      <3>. QED BY <1>7, <3>2
    <2>4. WordRead(r.seq[k], i, cmdlen)
      <3>1. WordRead(r.seq[W(i) + 1], i, cmdlen)
        BY <1>6 DEF ReadTo
      <3>. QED BY <2>3, <3>1
    <2>5. PICK m \in 1 .. cmdlen - i :
             /\ IsWord(r.seq[k], i, m)
             /\ i + m = cmdlen <=> W(i) = W(cmdlen) - 1 /\ cmdline[cmdlen - 1] # 0
             /\ i + m < cmdlen => cmdline[i + m] = 0
      BY <2>4 DEF WordRead
    <2>6. i \in 0 .. LineLen - 1 /\ i \in Nat /\ m \in Nat \ {0} /\ i + m <= cmdlen /\ cmdlen # 0
      BY <1>1, <1>7
    <2>7. W(i) = W(cmdlen) - 1 <=> k = W(cmdlen)
      BY <1>7, <2>3
    <2>8. CASE i + m < cmdlen
      <3>1. cmdline[i + m] = 0 /\ i + m <= LineLen - 1 /\ ~(i + m = cmdlen)
        BY <1>1, <2>5, <2>6, <2>8
      <3>2. StringAt(i) = r.seq[k]
        BY <2>5, <2>6, <3>1, StringEnds DEF IsWord
      <3>3. k = W(cmdlen) => Behind = <<>>
        BY <2>5, <2>7, <3>1 DEF Behind
      <3>4. r.seq[k] \o <<>> = r.seq[k]
        <4>1. r.seq \in Seq(Seq(Chars)) /\ Len(r.seq) = W(cmdlen)
          BY <1>6 DEF Reads, ReadTo
        <4>2. PICK u \in Seq(Chars) : u = r.seq[k]
          BY <1>7, <4>1
        <4>. QED BY <4>2
      <3>. QED BY <2>2, <3>2, <3>3, <3>4
    <2>9. CASE i + m = cmdlen
      <3>1. k = W(cmdlen) /\ Behind = StringAt(cmdlen)
        BY <2>5, <2>6, <2>7, <2>9 DEF Behind
      <3>2. StringAt(i) = r.seq[k] \o StringAt(cmdlen)
        BY <2>5, <2>6, <2>9, LastGoesOn
      <3>. QED BY <2>2, <3>1, <3>2
    <2>. QED BY <1>1, <2>6, <2>8, <2>9
  <1>9. Len(r.seq) = W(cmdlen)
    BY <1>6 DEF ReadTo
  <1>10. Words(Line) = r.seq
    BY <1>2, <1>6
  <1>. QED BY <1>7, <1>8, <1>9, <1>10

(* What split and new_line_handler execute is what the user sees, with what  *)
(* stands behind the line added to its last word.                            *)
THEOREM ShownIsExecuted == Spec => []ExecutesShown
  <1>1. EditorInv => ExecutesShown
    <2>. SUFFICES ASSUME EditorInv PROVE ExecutesShown
      OBVIOUS
    <2>. DEFINE n == Len(Words(Line))
                command == [k \in 1 .. n |-> IF k = n THEN Words(Line)[k] \o Behind ELSE Words(Line)[k]]
    <2>1. /\ W(cmdlen) \in Nat /\ n = W(cmdlen)
          /\ [k \in 1 .. W(cmdlen) |-> StringAt(Nth(Starts(cmdlen), k))] = command
      BY WordsShown DEF EditorInv
    <2>2. ASSUME NEW nmb \in 1 .. TokenNmb
          PROVE  /\ Split(cmdlen, nmb) \in {<<>>, command}
                 /\ n < nmb => Split(cmdlen, nmb) = command
                 /\ n > nmb => Split(cmdlen, nmb) = <<>>
      <3>1. nmb \in Nat
        BY LineAssumption
      <3>2. Split(cmdlen, nmb) = IF W(cmdlen) >= nmb THEN <<>>
                                 ELSE [k \in 1 .. W(cmdlen) |-> StringAt(Nth(Starts(cmdlen), k))]
        BY DEF Split, W
      <3>. HIDE DEF n, command
      <3>. QED BY <2>1, <3>1, <3>2
    <2>. QED BY <2>2 DEF ExecutesShown, Behind
  <1>. QED BY <1>1, EditorAlways, PTL

-----------------------------------------------------------------------------
(***************************************************************************)
(* What Tab does to the line.                                              *)
(***************************************************************************)
LEMMA SubSeqIs ==
  ASSUME NEW S, NEW s \in Seq(S), NEW a \in Nat \ {0}, NEW b \in Nat, a <= b + 1, b <= Len(s)
  PROVE  /\ SubSeq(s, a, b) = [k \in 1 .. b - a + 1 |-> s[a + k - 1]]
         /\ SubSeq(s, a, b) \in Seq(S) /\ Len(SubSeq(s, a, b)) = b - a + 1
  <1>1. a \in Int /\ b \in Int /\ \A i \in a .. b : s[i] \in S
    OBVIOUS
  <1>2. PICK t : t = SubSeq(s, a, b)
    OBVIOUS
  <1>3. /\ t \in Seq(S) /\ Len(t) = IF a <= b THEN b - a + 1 ELSE 0
        /\ \A i \in 1 .. b - a + 1 : t[i] = s[a + i - 1]
    BY <1>1, <1>2, SubSeqProperties
  <1>4. Len(t) = b - a + 1
    BY <1>3
  <1>5. t = [k \in 1 .. b - a + 1 |-> t[k]]
    BY <1>3, <1>4
  <1>6. t = [k \in 1 .. b - a + 1 |-> s[a + k - 1]]
    BY <1>3, <1>5
  <1>. QED BY <1>2, <1>3, <1>4, <1>6

Cap(c) == IF c = 0 THEN 0 ELSE Capital[c]
LineOf(e) == [i \in 1 .. e.len |-> e.line[i - 1]]

LEMMA PartsOf ==
  ASSUME NEW e \in Edits
  PROVE  /\ LineOf(e) \in Seq(Chars) /\ Len(LineOf(e)) = e.len
         /\ Upper(LineOf(e)) = [k \in 1 .. e.len |-> Cap(e.line[k - 1])]
         /\ Upper(SubSeq(LineOf(e), e.cursor + 1, e.len))
              = [k \in 1 .. e.len - e.cursor |-> Cap(e.line[e.cursor + k - 1])]
         /\ Upper(SubSeq(LineOf(e), 1, e.cursor)) = [k \in 1 .. e.cursor |-> Cap(e.line[k - 1])]
         /\ e.cursor > 0 => Upper(Front(SubSeq(LineOf(e), 1, e.cursor)))
                              = [k \in 1 .. e.cursor - 1 |-> Cap(e.line[k - 1])]
  <1>1. /\ e.line \in [0 .. LineLen - 1 -> Chars]
        /\ LineLen \in Nat /\ e.len \in Nat /\ e.cursor \in Nat /\ e.cursor <= e.len
        /\ e.len <= LineLen - 1
    BY LineAssumption DEF Edits, Chars
  <1>2. PICK len \in Nat, c \in Nat : len = e.len /\ c = e.cursor /\ c <= len /\ len <= LineLen - 1
    BY <1>1
  <1>3. PICK l : l = LineOf(e)
    OBVIOUS
  <1>4. l \in Seq(Chars) /\ Len(l) = len /\ \A i \in 1 .. len : l[i] = e.line[i - 1]
    <2>1. \A i \in 1 .. len : e.line[i - 1] \in Chars
      <3>1. \A i \in 1 .. len : i - 1 \in 0 .. LineLen - 1
        BY <1>1, <1>2
      <3>. QED BY <1>1, <3>1
    <2>2. l = [i \in 1 .. len |-> e.line[i - 1]]
      BY <1>2, <1>3 DEF LineOf
    <2>3. l \in [1 .. len -> Chars]
      BY <2>1, <2>2
    <2>4. l \in Seq(Chars) /\ Len(l) = len
      BY <1>2, <2>3
    <2>. QED BY <2>2, <2>4
  <1>5. ASSUME NEW n \in Nat, NEW f, NEW s, s = [k \in 1 .. n |-> f[k]]
        PROVE  Upper(s) = [k \in 1 .. n |-> Cap(f[k])]
    BY <1>5 DEF Upper, Cap
  <1>6. Upper(l) = [k \in 1 .. len |-> Cap(e.line[k - 1])]
    <2>1. DOMAIN l = 1 .. len
      BY <1>4
    <2>. QED BY <1>4, <2>1 DEF Upper, Cap
  <1>7. Upper(SubSeq(l, c + 1, len)) = [k \in 1 .. len - c |-> Cap(e.line[c + k - 1])]
    <2>1. SubSeq(l, c + 1, len) = [k \in 1 .. len - (c + 1) + 1 |-> l[(c + 1) + k - 1]]
      <3>1. /\ l \in Seq(Chars) /\ c + 1 \in Nat \ {0} /\ len \in Nat /\ c + 1 <= len + 1
            /\ len <= Len(l)
        BY <1>2, <1>4
      <3>. QED BY <3>1, SubSeqIs
    <2>2. len - (c + 1) + 1 = len - c
      BY <1>2
    <2>3. \A k \in 1 .. len - c : l[(c + 1) + k - 1] = e.line[c + k - 1]
      <3>. SUFFICES ASSUME NEW k \in 1 .. len - c PROVE l[(c + 1) + k - 1] = e.line[c + k - 1]
        OBVIOUS
      <3>1. PICK i \in 1 .. len : i = (c + 1) + k - 1 /\ i - 1 = c + k - 1
        BY <1>2
      <3>. QED BY <1>4, <3>1
    <2>4. SubSeq(l, c + 1, len) = [k \in 1 .. len - c |-> e.line[c + k - 1]]
      BY <2>1, <2>2, <2>3
    <2>. QED BY <2>4 DEF Upper, Cap
  <1>8. /\ SubSeq(l, 1, c) = [k \in 1 .. c |-> e.line[k - 1]]
        /\ SubSeq(l, 1, c) \in Seq(Chars) /\ Len(SubSeq(l, 1, c)) = c
    <2>1. /\ SubSeq(l, 1, c) = [k \in 1 .. c - 1 + 1 |-> l[1 + k - 1]]
          /\ SubSeq(l, 1, c) \in Seq(Chars) /\ Len(SubSeq(l, 1, c)) = c - 1 + 1
      BY <1>2, <1>4, SubSeqIs
    <2>2. c - 1 + 1 = c /\ \A k \in 1 .. c : 1 + k - 1 = k /\ k \in 1 .. len
      BY <1>2
    <2>. QED BY <1>4, <2>1, <2>2
  <1>9. c > 0 => Upper(Front(SubSeq(l, 1, c))) = [k \in 1 .. c - 1 |-> Cap(e.line[k - 1])]
    <2>. SUFFICES ASSUME c > 0
                  PROVE  Upper(Front(SubSeq(l, 1, c))) = [k \in 1 .. c - 1 |-> Cap(e.line[k - 1])]
      OBVIOUS
    <2>1. PICK s : s = SubSeq(l, 1, c)
      OBVIOUS
    <2>2. s \in Seq(Chars) /\ Len(s) = c /\ \A k \in 1 .. c : s[k] = e.line[k - 1]
      BY <1>8, <2>1
    <2>3. Front(s) = [k \in 1 .. (c - 1) - 1 + 1 |-> s[1 + k - 1]]
      <3>1. c - 1 \in Nat /\ 1 <= (c - 1) + 1 /\ c - 1 <= Len(s)
        BY <1>2, <2>2
      <3>. QED BY <2>2, <3>1, SubSeqIs DEF Front
    <2>4. (c - 1) - 1 + 1 = c - 1 /\ \A k \in 1 .. c - 1 : 1 + k - 1 = k /\ k \in 1 .. c
      BY <1>2
    <2>5. Front(s) = [k \in 1 .. c - 1 |-> e.line[k - 1]]
      BY <2>2, <2>3, <2>4
    <2>. QED BY <2>1, <2>5 DEF Upper, Cap
  <1>10. Upper(SubSeq(l, 1, c)) = [k \in 1 .. c |-> Cap(e.line[k - 1])]
    BY <1>8 DEF Upper, Cap
  <1>. QED BY <1>2, <1>3, <1>4, <1>6, <1>7, <1>9, <1>10

(* The first c characters before the cursor and all behind it are kept.      *)
Around(e, e2, c) ==
  /\ c <= e2.cursor
  /\ e2.len - e2.cursor = e.len - e.cursor
  /\ \A j \in 0 .. e.len - e.cursor - 1 : Cap(e2.line[e2.cursor + j]) = Cap(e.line[e.cursor + j])
  /\ \A i \in 0 .. c - 1 : Cap(e2.line[i]) = Cap(e.line[i])

LEMMA InsertTextAround ==
  ASSUME NEW e \in Edits, NEW text, NEW from, NEW n \in Int, n >= -1, e.cursor + n >= 0
  PROVE  LET e2 == InsertText(e, text, from, n) IN
         IF e.len + n >= LineLen THEN e2 = e
         ELSE /\ e2.len = e.len + n /\ e2.cursor = e.cursor + n
              /\ \A i \in e.cursor .. e.cursor + n - 1 : e2.line[i] = text[from + i - e.cursor + 1]
              /\ \A j \in 0 .. e.len - e.cursor - 1 : e2.line[e2.cursor + j] = e.line[e.cursor + j]
              /\ \A i \in 0 .. e.cursor - 1 : i < e.cursor + n => e2.line[i] = e.line[i]
  <1>1. /\ DOMAIN e.line = 0 .. LineLen - 1 /\ LineLen \in Nat
        /\ e.len \in Nat /\ e.cursor \in Nat /\ e.cursor <= e.len /\ e.len <= LineLen - 1
    BY LineAssumption DEF Edits
  <1>2. PICK len \in Nat, c \in Nat : len = e.len /\ c = e.cursor /\ c <= len /\ len <= LineLen - 1
    BY <1>1
  <1>3. CASE len + n >= LineLen
    BY <1>2, <1>3 DEF InsertText
  <1>4. CASE ~(len + n >= LineLen)
    <2>. DEFINE At(i) == CASE i \in c .. c + n - 1 -> text[from + i - c + 1]
                           [] i \in c + n .. len + n - 1 -> e.line[i - n]
                           [] i = len + n -> 0
                           [] OTHER -> e.line[i]
                line == [i \in 0 .. LineLen - 1 |-> At(i)]
    <2>1. InsertText(e, text, from, n) = [line |-> line, len |-> len + n, cursor |-> c + n]
      BY <1>1, <1>2, <1>4 DEF InsertText
    <2>2. ASSUME NEW i \in c .. c + n - 1
          PROVE  line[i] = text[from + i - c + 1]
      <3>1. /\ i \in Int /\ c <= i /\ i < c + n /\ c + n <= len + n /\ len + n <= LineLen - 1
            /\ n \in Int /\ len \in Int /\ c \in Nat /\ LineLen \in Int
        BY <1>1, <1>2, <1>4, SMTT(30)
      <3>2. i \in 0 .. LineLen - 1 /\ i \notin c + n .. len + n - 1 /\ i # len + n
        BY <3>1
      <3>. QED BY <2>2, <3>2
    <2>3. ASSUME NEW j \in 0 .. len - c - 1
          PROVE  line[(c + n) + j] = e.line[c + j]
      <3>1. PICK i \in Int : i = (c + n) + j
        BY <1>2
      <3>3. i - n = c + j /\ i < len + n /\ i >= c + n /\ i >= 0
        BY <1>2, <3>1
      <3>4. i <= LineLen - 1
        BY <1>1, <1>2, <1>4, <3>3
      <3>5. i \in 0 .. LineLen - 1 /\ i \notin c .. c + n - 1 /\ i \in c + n .. len + n - 1
        BY <1>2, <3>3, <3>4
      <3>2. line[i] = e.line[i - n]
        BY <3>5
      <3>. HIDE DEF line
      <3>. QED BY <3>1, <3>2, <3>3
    <2>4. ASSUME NEW i \in 0 .. c - 1, i < c + n
          PROVE  line[i] = e.line[i]
      <3>1. /\ i \in 0 .. LineLen - 1 /\ i \notin c .. c + n - 1 /\ i # len + n
            /\ i \notin c + n .. len + n - 1
        BY <1>1, <1>2, <1>4, <2>4
      <3>. QED BY <3>1
    <2>. HIDE DEF line
    <2>5. PICK e2 : e2 = InsertText(e, text, from, n)
      OBVIOUS
    <2>6. e2.line = line /\ e2.len = len + n /\ e2.cursor = c + n
      BY <2>1, <2>5
    <2>. QED BY <1>2, <1>4, <2>2, <2>3, <2>4, <2>5, <2>6
  <1>. QED BY <1>2, <1>3, <1>4

LEMMA AroundInsert ==
  ASSUME NEW e0 \in Edits, NEW e \in Edits, NEW c \in Nat, Around(e0, e, c),
         NEW text, NEW from, NEW n \in Int, n >= -1, c <= e.cursor + n
  PROVE  Around(e0, InsertText(e, text, from, n), c)
  <1>1. /\ e.len \in Nat /\ e.cursor \in Nat /\ e.cursor <= e.len /\ e.cursor + n >= 0
        /\ e0.len \in Nat /\ e0.cursor \in Nat /\ c <= e.cursor
        /\ e.len - e.cursor = e0.len - e0.cursor
    <2>1. e.len \in Nat /\ e.cursor \in Nat /\ e.cursor <= e.len /\ e0.len \in Nat /\ e0.cursor \in Nat
      BY LineAssumption DEF Edits
    <2>. QED BY <2>1 DEF Around
  <1>2. PICK e2 : e2 = InsertText(e, text, from, n)
    OBVIOUS
  <1>3. CASE e.len + n >= LineLen
    <2>1. e2 = e
      BY <1>1, <1>2, <1>3, InsertTextAround
    <2>. QED BY <1>2, <2>1
  <1>4. CASE ~(e.len + n >= LineLen)
    <2>1. /\ e2.len = e.len + n /\ e2.cursor = e.cursor + n
          /\ \A j \in 0 .. e.len - e.cursor - 1 : e2.line[e2.cursor + j] = e.line[e.cursor + j]
          /\ \A i \in 0 .. e.cursor - 1 : i < e.cursor + n => e2.line[i] = e.line[i]
      BY <1>1, <1>2, <1>4, InsertTextAround
    <2>2. e2.len - e2.cursor = e0.len - e0.cursor
      BY <1>1, <2>1
    <2>3. \A j \in 0 .. e0.len - e0.cursor - 1 :
            Cap(e2.line[e2.cursor + j]) = Cap(e0.line[e0.cursor + j])
      BY <1>1, <2>1 DEF Around
    <2>4. \A i \in 0 .. c - 1 : Cap(e2.line[i]) = Cap(e0.line[i])
      <3>1. \A i \in 0 .. c - 1 : i \in 0 .. e.cursor - 1 /\ i < e.cursor + n
        BY <1>1
      <3>. QED BY <2>1, <3>1 DEF Around
    <2>. QED BY <1>2, <2>1, <2>2, <2>3, <2>4 DEF Around
  <1>. QED BY <1>3, <1>4

Before == [line |-> cmdline, len |-> cmdlen, cursor |-> cursor]

LEMMA CompletedAround ==
  ASSUME EditTypes, NEW at \in Starts(cursor)
  PROVE  /\ Before \in Edits /\ cursor > 0
         /\ Around(Before, Completed(at), cursor - 1)
  <1>1. /\ LineLen \in Nat /\ cmdlen \in Nat /\ cursor \in Nat /\ cursor <= cmdlen /\ cmdlen <= LineLen - 1
        /\ DOMAIN cmdline = 0 .. LineLen - 1
    BY LineAssumption DEF EditTypes
  <1>2. Before \in Edits
    BY <1>1 DEF EditTypes, Before, Edits
  <1>3. /\ at \in 0 .. cursor - 1 /\ at \in 0 .. LineLen - 1 /\ cmdline[at] # 0
        /\ Completed(at) \in Edits
    BY CompletedIs
  <1>. DEFINE w == WordAt(at)
              l == Len(w)
  <1>4. /\ w \in Seq(Letters) /\ w # <<>>
        /\ \A i \in at .. at + l - 1 : cmdline[i] \in Letters /\ w[i - at + 1] = Capital[cmdline[i]]
        /\ Raised(at) \in Edits
    BY <1>3, WordAtIs
  <1>5. ASSUME NEW i \in 0 .. LineLen - 1
        PROVE  Cap(Raised(at).line[i]) = Cap(cmdline[i])
    <2>1. Raised(at).line[i] = IF i \in at .. at + l - 1 THEN w[i - at + 1] ELSE cmdline[i]
      BY <1>1 DEF Raised
    <2>2. CASE i \in at .. at + l - 1
      <3>1. cmdline[i] \in Letters /\ Raised(at).line[i] = Capital[cmdline[i]]
        BY <1>4, <2>1, <2>2
      <3>2. \A c \in Letters : c # 0 /\ Capital[c] # 0 /\ Capital[Capital[c]] = Capital[c]
        BY LineAssumption
      <3>. QED BY <3>1, <3>2 DEF Cap
    <2>3. CASE i \notin at .. at + l - 1
      BY <2>1, <2>3
    <2>. QED BY <2>2, <2>3
  <1>6. Around(Before, Raised(at), cursor - 1)
    <2>1. PICK e : e = Raised(at)
      OBVIOUS
    <2>2. e.cursor = cursor /\ e.len = cmdlen
      BY <2>1 DEF Raised
    <2>3. Before.cursor = cursor /\ Before.len = cmdlen /\ Before.line = cmdline
      BY DEF Before
    <2>4. /\ \A j \in 0 .. cmdlen - cursor - 1 : cursor + j \in 0 .. LineLen - 1
          /\ \A i \in 0 .. (cursor - 1) - 1 : i \in 0 .. LineLen - 1
          /\ cursor - 1 <= cursor
      BY <1>1
    <2>. QED BY <1>5, <2>1, <2>2, <2>3, <2>4 DEF Around
  <1>7. CASE Complet(w) = <<>> \/ NewLen(w) = 0
    <2>1. Completed(at) = Raised(at)
      BY <1>7, CompletedIs
    <2>. QED BY <1>1, <1>2, <1>3, <1>6, <2>1
  <1>8. CASE ~(Complet(w) = <<>> \/ NewLen(w) = 0)
    <2>1. /\ NewLen(w) \in l - 1 .. Len(Complet(w)[1])
          /\ Extended(at) \in Edits
          /\ Completed(at) = IF Len(Complet(w)) = 1
                               THEN InsertText(Extended(at), <<0>>, 0, 1)
                               ELSE Extended(at)
      BY <1>8, CompletedIs
    <2>2. Around(Before, Extended(at), cursor - 1)
      <3>1. PICK n \in Int : n = NewLen(w) - l /\ n >= -1
        <4>1. l \in Nat
          BY <1>4
        <4>2. NewLen(w) \in Int /\ l - 1 <= NewLen(w)
          BY <2>1, <4>1
        <4>3. NewLen(w) - l \in Int /\ NewLen(w) - l >= -1
          BY <4>1, <4>2
        <4>. QED BY <4>3
      <3>2. PICK text : Extended(at) = InsertText(Raised(at), text, l, n)
        BY <3>1 DEF Extended
      <3>3. cursor - 1 \in Nat /\ cursor - 1 <= Raised(at).cursor + n
        <4>1. Raised(at).cursor = cursor
          BY DEF Raised
        <4>. QED BY <1>1, <1>3, <3>1, <4>1
      <3>. QED BY <1>2, <1>4, <1>6, <3>1, <3>2, <3>3, AroundInsert
    <2>3. Around(Before, InsertText(Extended(at), <<0>>, 0, 1), cursor - 1)
      <3>1. cursor - 1 \in Nat /\ cursor - 1 <= Extended(at).cursor
        BY <1>1, <1>3, <2>2 DEF Around
      <3>2. cursor - 1 <= Extended(at).cursor + 1
        <4>1. Extended(at).cursor \in Nat
          BY <2>1, LineAssumption DEF Edits
        <4>. QED BY <1>1, <3>1, <4>1
      <3>. QED BY <1>2, <2>1, <2>2, <3>1, <3>2, AroundInsert
    <2>. QED BY <1>1, <1>2, <1>3, <2>1, <2>2, <2>3
  <1>. QED BY <1>7, <1>8

(* What stands around the cursor survives Tab. *)
LEMMA TabKeepsAround ==
  ASSUME EditTypes, microrl_get_complite
  PROVE  /\ Upper(RightPart') = Upper(RightPart)
         /\ cursor > 0 => IsPrefix(Upper(Front(LeftPart)), Upper(LeftPart'))
  <1>1. EditTypes'
    BY TabKeeps
  <1>2. PICK e2 : e2 = [line |-> cmdline', len |-> cmdlen', cursor |-> cursor']
    OBVIOUS
  <1>3. LineLen \in Nat /\ Before \in Edits /\ e2 \in Edits
    <2>1. LineLen \in Nat
      BY LineAssumption
    <2>2. Before \in Edits
      BY <2>1 DEF EditTypes, Before, Edits
    <2>3. e2 \in Edits
      BY <1>1, <1>2, <2>1 DEF EditTypes, Edits
    <2>. QED BY <2>1, <2>2, <2>3
  <1>4. /\ Before.line = cmdline /\ Before.len = cmdlen /\ Before.cursor = cursor
        /\ e2.line = cmdline' /\ e2.len = cmdlen' /\ e2.cursor = cursor'
    BY <1>2 DEF Before
  <1>5. /\ RightPart = SubSeq(LineOf(Before), cursor + 1, cmdlen)
        /\ LeftPart = SubSeq(LineOf(Before), 1, cursor)
        /\ RightPart' = SubSeq(LineOf(e2), e2.cursor + 1, e2.len)
        /\ LeftPart' = SubSeq(LineOf(e2), 1, e2.cursor)
    BY <1>4 DEF RightPart, LeftPart, Line, LineOf
  <1>6. /\ cursor \in Nat /\ cmdlen \in Nat /\ cursor <= cmdlen
        /\ e2.cursor \in Nat /\ e2.len \in Nat /\ e2.cursor <= e2.len
    BY <1>3, LineAssumption DEF EditTypes, Edits
  <1>7. \A c \in Nat : Around(Before, e2, c) /\ c >= cursor - 1 =>
          /\ Upper(RightPart') = Upper(RightPart)
          /\ cursor > 0 => IsPrefix(Upper(Front(LeftPart)), Upper(LeftPart'))
    <2>. SUFFICES ASSUME NEW c \in Nat, Around(Before, e2, c), c >= cursor - 1
                  PROVE  /\ Upper(RightPart') = Upper(RightPart)
                         /\ cursor > 0 => IsPrefix(Upper(Front(LeftPart)), Upper(LeftPart'))
      OBVIOUS
    <2>1. /\ c <= e2.cursor /\ e2.len - e2.cursor = cmdlen - cursor
          /\ \A j \in 0 .. cmdlen - cursor - 1 : Cap(e2.line[e2.cursor + j]) = Cap(cmdline[cursor + j])
          /\ \A i \in 0 .. c - 1 : Cap(e2.line[i]) = Cap(cmdline[i])
      BY <1>4 DEF Around
    <2>2. Upper(RightPart') = Upper(RightPart)
      <3>1. Upper(RightPart) = [k \in 1 .. cmdlen - cursor |-> Cap(cmdline[cursor + k - 1])]
        BY <1>3, <1>4, <1>5, PartsOf
      <3>2. Upper(RightPart') = [k \in 1 .. e2.len - e2.cursor |-> Cap(e2.line[e2.cursor + k - 1])]
        BY <1>3, <1>5, PartsOf
      <3>3. \A k \in 1 .. cmdlen - cursor : Cap(e2.line[e2.cursor + k - 1]) = Cap(cmdline[cursor + k - 1])
        <4>. SUFFICES ASSUME NEW k \in 1 .. cmdlen - cursor
                      PROVE  Cap(e2.line[e2.cursor + k - 1]) = Cap(cmdline[cursor + k - 1])
          OBVIOUS
        <4>1. PICK j \in 0 .. cmdlen - cursor - 1 :
                 /\ j = k - 1 /\ e2.cursor + k - 1 = e2.cursor + j
                 /\ cursor + k - 1 = cursor + j
          BY <1>6
        <4>. QED BY <2>1, <4>1
      <3>. QED BY <2>1, <3>1, <3>2, <3>3
    <2>3. ASSUME cursor > 0
          PROVE  IsPrefix(Upper(Front(LeftPart)), Upper(LeftPart'))
      <3>0. cursor - 1 \in Nat
        BY <1>6, <2>3
      <3>a. PICK m \in Nat, n \in Nat : m = cursor - 1 /\ n = e2.cursor
        BY <1>6, <3>0
      <3>b. PICK s, t : s = Upper(Front(LeftPart)) /\ t = Upper(LeftPart')
        OBVIOUS
      <3>1. /\ s = Upper(Front(LeftPart)) /\ t = Upper(LeftPart')
            /\ m = cursor - 1 /\ n = e2.cursor
        BY <3>a, <3>b
      <3>2. s = [k \in 1 .. m |-> Cap(cmdline[k - 1])]
        BY <1>3, <1>4, <1>5, <2>3, <3>1, PartsOf
      <3>3. t = [k \in 1 .. n |-> Cap(e2.line[k - 1])]
        BY <1>3, <1>5, <3>1, PartsOf
      <3>4. m <= n /\ \A k \in 1 .. m : s[k] = t[k]
        <4>1. m <= c /\ c <= n
          BY <1>6, <2>1, <3>1
        <4>2. \A k \in 1 .. m : k - 1 \in 0 .. c - 1 /\ k \in 1 .. n
          BY <4>1
        <4>3. \A k \in 1 .. m : Cap(e2.line[k - 1]) = Cap(cmdline[k - 1])
          BY <2>1, <4>2
        <4>4. m <= n
          BY <1>6, <2>1, <3>1
        <4>5. \A k \in 1 .. m : s[k] = Cap(cmdline[k - 1])
          BY <3>2
        <4>6. \A k \in 1 .. m : t[k] = Cap(e2.line[k - 1])
          BY <3>3, <4>2
        <4>. QED BY <4>3, <4>4, <4>5, <4>6
      <3>. DEFINE S == {s[k] : k \in 1 .. m} \cup {t[k] : k \in 1 .. n}
      <3>5. s \in Seq(S) /\ t \in Seq(S) /\ Len(s) = m /\ Len(t) = n
        <4>1. s \in [1 .. m -> S] /\ t \in [1 .. n -> S]
          BY <3>2, <3>3
        <4>. HIDE DEF S
        <4>. QED BY <4>1
      <3>6. SubSeq(s, 1, m) = SubSeq(t, 1, m)
        <4>. HIDE DEF S
        <4>1. /\ SubSeq(s, 1, m) = [k \in 1 .. m - 1 + 1 |-> s[1 + k - 1]]
              /\ SubSeq(t, 1, m) = [k \in 1 .. m - 1 + 1 |-> t[1 + k - 1]]
          BY <3>4, <3>5, SubSeqIs
        <4>2. m - 1 + 1 = m /\ \A k \in 1 .. m : 1 + k - 1 = k
          OBVIOUS
        <4>. QED BY <3>4, <4>1, <4>2
      <3>. HIDE DEF S
      <3>. QED BY <3>1, <3>4, <3>5, <3>6 DEF IsPrefix
    <2>. QED BY <2>2, <2>3
  <1>8. CASE UNCHANGED editVars
    <2>1. e2 = Before
      BY <1>2, <1>8 DEF editVars, Before
    <2>2. Around(Before, e2, cursor)
      BY <1>6, <1>4, <2>1 DEF Around
    <2>. QED BY <1>6, <1>7, <2>2
  <1>9. CASE ~ UNCHANGED editVars
    <2>. DEFINE at == CHOOSE i \in Starts(cursor) : TRUE
    <2>1. /\ Cardinality(Starts(cursor)) = 1
          /\ cmdline' = Completed(at).line /\ cmdlen' = Completed(at).len
          /\ cursor' = Completed(at).cursor
      BY <1>9 DEF microrl_get_complite
    <2>2. at \in Starts(cursor)
      BY <2>1, FS_EmptySet
    <2>. HIDE DEF at
    <2>3. Around(Before, Completed(at), cursor - 1) /\ cursor > 0
      BY <2>2, CompletedAround
    <2>4. Around(Before, e2, cursor - 1)
      BY <1>4, <2>1, <2>3 DEF Around
    <2>. QED BY <1>6, <1>7, <2>3, <2>4
  <1>. QED BY <1>8, <1>9

(* A space at the end of a line, as far as there is room *)
LEMMA SpaceAdded ==
  ASSUME NEW e \in Edits, e.cursor = e.len
  PROVE  LineOf(InsertText(e, <<0>>, 0, 1)) =
           IF e.len + 1 < LineLen THEN Append(LineOf(e), 0) ELSE LineOf(e)
  <1>1. e.len \in Nat /\ LineLen \in Nat /\ e.cursor + 1 >= 0 /\ 1 >= -1
    BY LineAssumption DEF Edits
  <1>a. PICK n \in Nat : n = e.len
    BY <1>1
  <1>b. PICK e2 : e2 = InsertText(e, <<0>>, 0, 1)
    OBVIOUS
  <1>2. e2 = InsertText(e, <<0>>, 0, 1) /\ n = e.len
    BY <1>a, <1>b
  <1>3. CASE e.len + 1 >= LineLen
    <2>1. e2 = e
      BY <1>1, <1>2, <1>3, InsertTextAround
    <2>. QED BY <1>1, <1>2, <1>3, <2>1
  <1>4. CASE ~(e.len + 1 >= LineLen)
    <2>0. PICK text : text = <<0>>
      OBVIOUS
    <2>1. /\ e2.len = e.len + 1
          /\ \A i \in e.cursor .. e.cursor + 1 - 1 : e2.line[i] = text[0 + i - e.cursor + 1]
          /\ \A i \in 0 .. e.cursor - 1 : i < e.cursor + 1 => e2.line[i] = e.line[i]
      BY <1>1, <1>2, <1>4, <2>0, InsertTextAround
    <2>2. e2.line[n] = 0
      <3>1. n \in e.cursor .. e.cursor + 1 - 1 /\ 0 + n - e.cursor + 1 = 1
        BY <1>2
      <3>. QED BY <2>0, <2>1, <3>1
    <2>3. PICK l : l = LineOf(e)
      OBVIOUS
    <2>4. l \in Seq(Chars) /\ Len(l) = n /\ \A i \in 1 .. n : l[i] = e.line[i - 1]
      <3>1. l \in Seq(Chars) /\ Len(l) = n
        BY <1>2, <2>3, PartsOf
      <3>. QED BY <1>2, <2>3, <3>1 DEF LineOf
    <2>5. PICK a : a = Append(l, 0)
      OBVIOUS
    <2>6. a \in Seq(Chars) /\ Len(a) = n + 1 /\ a[n + 1] = 0 /\ \A i \in 1 .. n : a[i] = l[i]
      <3>1. 0 \in Chars
        BY DEF Chars
      <3>. QED BY <2>4, <2>5, <3>1, AppendProperties
    <2>7. a = [i \in 1 .. n + 1 |-> a[i]]
      BY <2>6
    <2>8. \A i \in 1 .. n + 1 : a[i] = e2.line[i - 1]
      <3>. SUFFICES ASSUME NEW i \in 1 .. n + 1 PROVE a[i] = e2.line[i - 1]
        OBVIOUS
      <3>1. CASE i = n + 1
        BY <2>2, <2>6, <3>1
      <3>2. CASE i # n + 1
        <4>1. i \in 1 .. n /\ i - 1 \in 0 .. e.cursor - 1 /\ i - 1 < e.cursor + 1
          BY <1>2, <3>2
        <4>. QED BY <2>1, <2>4, <2>6, <4>1
      <3>. QED BY <3>1, <3>2
    <2>9. LineOf(e2) = [i \in 1 .. n + 1 |-> e2.line[i - 1]]
      BY <1>2, <2>1 DEF LineOf
    <2>10. LineOf(e2) = a
      BY <2>7, <2>8, <2>9
    <2>. QED BY <1>1, <1>2, <1>4, <2>3, <2>5, <2>10
  <1>. QED BY <1>3, <1>4

(* The line is one word, the beginning of all commands that contain it.      *)
Begins(word) ==
  /\ EditTypes /\ Terminated /\ cursor = cmdlen
  /\ word = Upper(Line) /\ word # <<>> /\ 0 \notin Range(word)
  /\ Complet(word) # <<>>
  /\ \A k \in DOMAIN Complet(word) : IsPrefix(word, Complet(word)[k])

LEMMA WordIsLine ==
  ASSUME NEW word, Begins(word)
  PROVE  /\ cmdlen \in Nat \ {0} /\ Len(word) = cmdlen
         /\ Starts(cursor) = {0} /\ cmdline[cursor - 1] # 0
         /\ WordAt(0) = word /\ word \in Seq(Letters)
         /\ LineOf(Raised(0)) = word /\ Raised(0) \in Edits
  <1>1. /\ EditTypes /\ Terminated /\ cursor = cmdlen
        /\ word = Upper(Line) /\ word # <<>> /\ 0 \notin Range(word)
    BY DEF Begins
  <1>2. PICK L \in Nat : L = cmdlen /\ L <= LineLen - 1 /\ LineLen \in Nat
    BY <1>1, LineAssumption DEF EditTypes
  <1>3. word = [k \in 1 .. L |-> Cap(cmdline[k - 1])]
    <2>1. DOMAIN Line = 1 .. L
      BY <1>2 DEF Line
    <2>2. \A k \in 1 .. L : Line[k] = cmdline[k - 1]
      BY <1>2 DEF Line
    <2>. QED BY <1>1, <2>1, <2>2 DEF Upper, Cap
  <1>4. L # 0
    <2>. SUFFICES ASSUME L = 0 PROVE FALSE
      OBVIOUS
    <2>1. word = [k \in 1 .. 0 |-> Cap(cmdline[k - 1])]
      BY <1>3
    <2>. QED BY <1>1, <2>1
  <1>5. ASSUME NEW i \in 0 .. L - 1
        PROVE  cmdline[i] # 0
    <2>1. i + 1 \in 1 .. L /\ (i + 1) - 1 = i
      BY <1>2
    <2>2. word[i + 1] = Cap(cmdline[i]) /\ i + 1 \in DOMAIN word
      BY <1>3, <2>1
    <2>3. word[i + 1] \in Range(word)
      BY <2>2 DEF Range
    <2>. QED BY <1>1, <2>2, <2>3 DEF Cap
  <1>6. Starts(cursor) = {0}
    <2>1. \A i \in 0 .. cursor - 1 : i > 0 => i - 1 \in 0 .. L - 1
      BY <1>1, <1>2
    <2>2. 0 \in 0 .. cursor - 1 /\ 0 \in 0 .. L - 1 /\ ~(0 > 0)
      BY <1>1, <1>2, <1>4
    <2>3. \A i \in 0 .. cursor - 1 : i = 0 \/ i > 0
      BY <1>1, <1>2
    <2>. QED BY <1>5, <2>1, <2>2, <2>3 DEF Starts
  <1>7. PICK w : w = WordAt(0)
    OBVIOUS
  <1>8. /\ w \in Seq(Letters) /\ w # <<>>
        /\ 0 + Len(w) \in 0 + 1 .. LineLen - 1
        /\ cmdline[0 + Len(w)] = 0
        /\ \A i \in 0 .. 0 + Len(w) - 1 :
             cmdline[i] \in Letters /\ w[i - 0 + 1] = Capital[cmdline[i]]
        /\ Raised(0) \in Edits
    <2>1. 0 \in 0 .. LineLen - 1 /\ cmdline[0] # 0
      BY <1>2, <1>4, <1>5
    <2>. QED BY <1>1, <1>7, <2>1, WordAtIs
  <1>9. PICK n \in Nat : n = Len(w)
    BY <1>8
  <1>10. n = L
    <2>1. ~(n < L)
      <3>1. n < L => n \in 0 .. L - 1 /\ 0 + n = n
        BY <1>2
      <3>. QED BY <1>5, <1>8, <1>9, <3>1
    <2>2. ~(L < n)
      <3>1. L < n => L \in 0 .. 0 + n - 1
        BY <1>2
      <3>2. cmdline[L] = 0
        BY <1>1, <1>2 DEF Terminated
      <3>3. 0 \notin Letters
        BY LineAssumption
      <3>. QED BY <1>8, <1>9, <3>1, <3>2, <3>3
    <2>. QED BY <1>2, <1>9, <2>1, <2>2
  <1>11. ASSUME NEW k \in 1 .. L
         PROVE  w[k] = Cap(cmdline[k - 1])
    <2>1. PICK i \in 0 .. 0 + n - 1 : i = k - 1 /\ i - 0 + 1 = k /\ i \in 0 .. L - 1
      BY <1>2, <1>10
    <2>2. w[k] = Capital[cmdline[i]]
      BY <1>8, <1>9, <2>1
    <2>. QED BY <1>5, <2>1, <2>2 DEF Cap
  <1>12. w = word
    <2>1. w \in Seq(Letters) /\ Len(w) = L
      BY <1>8, <1>9, <1>10
    <2>2. w = [k \in 1 .. L |-> w[k]]
      BY <2>1
    <2>. QED BY <1>3, <1>11, <2>2
  <1>13. LineOf(Raised(0)) = word
    <2>1. Raised(0).len = L
      BY <1>2 DEF Raised
    <2>2. ASSUME NEW k \in 1 .. L
          PROVE  Raised(0).line[k - 1] = word[k]
      <3>1. PICK i \in 0 .. 0 + L - 1 : i = k - 1 /\ i - 0 + 1 = k /\ i \in DOMAIN cmdline
        BY <1>1, <1>2 DEF EditTypes
      <3>2. Len(WordAt(0)) = L /\ WordAt(0) = word
        BY <1>7, <1>9, <1>10, <1>12
      <3>3. Raised(0).line[i] = WordAt(0)[i - 0 + 1]
        BY <3>1, <3>2 DEF Raised
      <3>. QED BY <3>1, <3>2, <3>3
    <2>3. word = [k \in 1 .. L |-> word[k]]
      BY <1>3
    <2>4. LineOf(Raised(0)) = [k \in 1 .. L |-> Raised(0).line[k - 1]]
      BY <2>1 DEF LineOf
    <2>. QED BY <2>2, <2>3, <2>4
  <1>14. cmdline[cursor - 1] # 0
    <2>1. cursor - 1 \in 0 .. L - 1
      BY <1>1, <1>2, <1>4
    <2>. QED BY <1>5, <2>1
  <1>. QED BY <1>2, <1>4, <1>6, <1>7, <1>8, <1>9, <1>10, <1>12, <1>13, <1>14

(* Several commands have the word and more in common.                        *)
LEMMA CommonBegins ==
  ASSUME NEW word, Begins(word)
  PROVE  LET cs == Complet(word)
             C == common_len(cs)
         IN  /\ C \in Nat /\ cmdlen <= C /\ NewLen(word) = C
             /\ cs[1] \in Seq(Letters) /\ C <= Len(cs[1])
             /\ \A i \in 1 .. cmdlen : cs[1][i] = word[i]
  <1>1. PICK L \in Nat \ {0} : L = cmdlen /\ Len(word) = L /\ word \in Seq(Letters) /\ word # <<>>
    BY WordIsLine DEF Begins
  <1>2. PICK cs : cs = Complet(word)
    OBVIOUS
  <1>3. cs # <<>> /\ \A k \in DOMAIN cs : IsPrefix(word, cs[k])
    BY <1>2 DEF Begins
  <1>4. cs \in Seq(Seq(Letters)) /\ Len(cs) # 0
    BY <1>1, <1>2, <1>3, NewLength
  <1>5. PICK C \in Nat : C = common_len(cs)
    BY <1>3, <1>4, CommonLength
  <1>6. /\ C \in 0 .. Len(cs[1])
        /\ \A m \in 0 .. Len(cs[1]) :
             (\A k \in DOMAIN cs : Len(cs[k]) >= m /\ SubSeq(cs[k], 1, m) = SubSeq(cs[1], 1, m))
               => m <= C
    BY <1>3, <1>4, <1>5, CommonLength
  <1>7. 1 \in DOMAIN cs /\ DOMAIN cs = 1 .. Len(cs) /\ \A k \in DOMAIN cs : cs[k] \in Seq(Letters)
    BY <1>4
  <1>8. \A k \in DOMAIN cs : Len(cs[k]) >= L /\ SubSeq(cs[k], 1, L) = SubSeq(word, 1, L)
    <2>. SUFFICES ASSUME NEW k \in DOMAIN cs
                  PROVE  Len(cs[k]) >= L /\ SubSeq(cs[k], 1, L) = SubSeq(word, 1, L)
      OBVIOUS
    <2>1. Len(word) <= Len(cs[k]) /\ SubSeq(word, 1, Len(word)) = SubSeq(cs[k], 1, Len(word))
      BY <1>3 DEF IsPrefix
    <2>. QED BY <1>1, <1>7, <2>1
  <1>9. L <= C
    <2>1. L \in 0 .. Len(cs[1])
      BY <1>1, <1>7, <1>8
    <2>2. \A k \in DOMAIN cs : SubSeq(cs[k], 1, L) = SubSeq(cs[1], 1, L)
      BY <1>7, <1>8
    <2>. QED BY <1>6, <1>8, <2>1, <2>2
  <1>10. NewLen(word) = C
    <2>1. CASE Len(cs) = 1
      <3>1. Len(cs[1]) \in 0 .. Len(cs[1])
        BY <1>7
      <3>2. \A k \in DOMAIN cs : k = 1
        BY <1>7, <2>1
      <3>3. \A k \in DOMAIN cs : Len(cs[k]) >= Len(cs[1])
                                 /\ SubSeq(cs[k], 1, Len(cs[1])) = SubSeq(cs[1], 1, Len(cs[1]))
        <4>. SUFFICES ASSUME NEW k \in DOMAIN cs
                      PROVE  Len(cs[k]) >= Len(cs[1])
                             /\ SubSeq(cs[k], 1, Len(cs[1])) = SubSeq(cs[1], 1, Len(cs[1]))
          OBVIOUS
        <4>1. k = 1
          BY <3>2
        <4>2. Len(cs[1]) >= Len(cs[1])
          BY <3>1
        <4>. QED BY <4>1, <4>2
      <3>4. Len(cs[1]) <= C
        BY <1>6, <3>1, <3>3
      <3>5. Len(cs[1]) = C
        BY <1>6, <3>1, <3>4
      <3>. QED BY <1>2, <2>1, <3>5 DEF NewLen
    <2>2. CASE Len(cs) # 1
      BY <1>2, <1>5, <2>2 DEF NewLen
    <2>. QED BY <2>1, <2>2
  <1>11. \A i \in 1 .. L : cs[1][i] = word[i]
    <2>1. SubSeq(cs[1], 1, L) = SubSeq(word, 1, L) /\ L <= Len(cs[1]) /\ cs[1] \in Seq(Letters)
      BY <1>7, <1>8
    <2>2. /\ SubSeq(cs[1], 1, L) = [k \in 1 .. L - 1 + 1 |-> cs[1][1 + k - 1]]
          /\ SubSeq(word, 1, L) = [k \in 1 .. L - 1 + 1 |-> word[1 + k - 1]]
      BY <1>1, <2>1, SubSeqIs
    <2>3. PICK f, g : f = cs[1] /\ g = word
      OBVIOUS
    <2>4. [k \in 1 .. L - 1 + 1 |-> f[1 + k - 1]] = [k \in 1 .. L - 1 + 1 |-> g[1 + k - 1]]
      BY <2>1, <2>2, <2>3
    <2>5. L - 1 + 1 = L /\ \A k \in 1 .. L : 1 + k - 1 = k
      OBVIOUS
    <2>6. \A i \in 1 .. L : f[i] = g[i]
      <3>. SUFFICES ASSUME NEW i \in 1 .. L PROVE f[i] = g[i]
        OBVIOUS
      <3>1. [k \in 1 .. L - 1 + 1 |-> f[1 + k - 1]][i] = [k \in 1 .. L - 1 + 1 |-> g[1 + k - 1]][i]
        BY <2>4
      <3>. QED BY <2>5, <3>1
    <2>. QED BY <2>3, <2>6
  <1>. QED BY <1>1, <1>2, <1>5, <1>6, <1>7, <1>9, <1>10, <1>11

(* The word becomes what the commands have in common, if there is room.      *)
LEMMA ExtendedLine ==
  ASSUME NEW word, Begins(word)
  PROVE  LET cs == Complet(word)
             C == common_len(cs)
         IN  /\ Extended(0) \in Edits /\ Extended(0).cursor = Extended(0).len
             /\ IF C >= LineLen
                  THEN Extended(0).len = Len(word) /\ LineOf(Extended(0)) = word
                  ELSE Extended(0).len = C /\ LineOf(Extended(0)) = SubSeq(cs[1], 1, C)
  <1>1. PICK L \in Nat \ {0} : L = cmdlen /\ Len(word) = L
    BY WordIsLine
  <1>2. PICK cs : cs = Complet(word)
    OBVIOUS
  <1>3. PICK C \in Nat :
           /\ C = common_len(cs) /\ L <= C /\ NewLen(word) = C
           /\ cs[1] \in Seq(Letters) /\ C <= Len(cs[1])
           /\ \A i \in 1 .. L : cs[1][i] = word[i]
    BY <1>1, <1>2, CommonBegins
  <1>4. PICK e : e = Raised(0)
    OBVIOUS
  <1>5. /\ e \in Edits /\ e.len = L /\ e.cursor = L /\ LineOf(e) = word
        /\ LineLen \in Nat /\ WordAt(0) = word
    <2>1. e.len = cmdlen /\ e.cursor = cursor /\ cursor = cmdlen
      BY <1>4 DEF Raised, Begins
    <2>. QED BY <1>1, <1>4, <2>1, WordIsLine, LineAssumption
  <1>6. PICK n \in Nat : n = C - L /\ L + n = C
    BY <1>3
  <1>7. PICK e2 : e2 = Extended(0) /\ e2 = InsertText(e, cs[1], L, n)
    BY <1>1, <1>2, <1>3, <1>4, <1>5, <1>6 DEF Extended
  <1>8. n \in Int /\ n >= -1 /\ e.cursor + n >= 0
    BY <1>5, <1>6
  <1>9. e2 \in Edits
    <2>1. \A i \in 1 .. n : cs[1][L + i] \in Letters \cup {0}
      <3>. SUFFICES ASSUME NEW i \in 1 .. n PROVE cs[1][L + i] \in Letters \cup {0}
        OBVIOUS
      <3>1. PICK c \in Seq(Letters) : c = cs[1]
        BY <1>3
      <3>2. PICK j \in 1 .. Len(c) : j = L + i
        BY <1>3, <1>6, <3>1
      <3>3. c[j] \in Letters
        OBVIOUS
      <3>. QED BY <3>1, <3>2, <3>3
    <2>. QED BY <1>5, <1>7, <1>8, <2>1, InsertTextKeeps
  <1>10. CASE C >= LineLen
    <2>1. e2 = e
      BY <1>5, <1>6, <1>7, <1>8, <1>10, InsertTextAround
    <2>. QED BY <1>1, <1>2, <1>3, <1>5, <1>7, <1>9, <1>10, <2>1
  <1>11. CASE ~(C >= LineLen)
    <2>1. /\ e2.len = e.len + n /\ e2.cursor = e.cursor + n
          /\ \A i \in e.cursor .. e.cursor + n - 1 : e2.line[i] = cs[1][L + i - e.cursor + 1]
          /\ \A i \in 0 .. e.cursor - 1 : i < e.cursor + n => e2.line[i] = e.line[i]
      BY <1>5, <1>6, <1>7, <1>8, <1>11, InsertTextAround
    <2>2. e2.len = C /\ e2.cursor = C
      BY <1>5, <1>6, <2>1
    <2>3. ASSUME NEW k \in 1 .. C
          PROVE  e2.line[k - 1] = cs[1][k]
      <3>1. CASE k <= L
        <4>1. PICK i \in 0 .. e.cursor - 1 : i = k - 1 /\ i < e.cursor + n
          BY <1>5, <3>1
        <4>2. e.line[k - 1] = word[k]
          <5>1. k \in 1 .. e.len
            BY <1>5, <3>1
          <5>2. LineOf(e)[k] = e.line[k - 1]
            BY <5>1 DEF LineOf
          <5>. QED BY <1>5, <5>2
        <4>3. cs[1][k] = word[k]
          BY <1>3, <3>1
        <4>. QED BY <2>1, <4>1, <4>2, <4>3
      <3>2. CASE ~(k <= L)
        <4>1. PICK i \in e.cursor .. e.cursor + n - 1 : i = k - 1 /\ L + i - e.cursor + 1 = k
          BY <1>3, <1>5, <1>6, <3>2
        <4>. QED BY <2>1, <4>1
      <3>. QED BY <3>1, <3>2
    <2>4. LineOf(e2) = [k \in 1 .. C |-> cs[1][k]]
      BY <2>2, <2>3 DEF LineOf
    <2>5. SubSeq(cs[1], 1, C) = [k \in 1 .. C |-> cs[1][k]]
      <3>1. SubSeq(cs[1], 1, C) = [k \in 1 .. C - 1 + 1 |-> cs[1][1 + k - 1]]
        BY <1>3, SubSeqIs
      <3>2. C - 1 + 1 = C /\ \A k \in 1 .. C : 1 + k - 1 = k
        OBVIOUS
      <3>. QED BY <3>1, <3>2
    <2>. QED BY <1>2, <1>3, <1>7, <1>9, <1>11, <2>2, <2>4, <2>5
  <1>. QED BY <1>10, <1>11

LEMMA TabCompletes ==
  ASSUME NEW word, Begins(word), TokenNmb > 1, microrl_get_complite
  PROVE  LET cs == Complet(word)
             common == SubSeq(cs[1], 1, common_len(cs))
         IN  Line' = CASE Len(common) >= LineLen ->
                            IF Len(cs) = 1 /\ Len(word) + 1 < LineLen THEN Append(word, 0) ELSE word
                       [] Len(cs) = 1 /\ Len(common) + 1 < LineLen -> Append(common, 0)
                       [] OTHER -> common
  <1>1. PICK cs : cs = Complet(word)
    OBVIOUS
  <1>2. PICK C \in Nat :
           /\ C = common_len(cs) /\ cmdlen <= C /\ NewLen(word) = C
           /\ cs[1] \in Seq(Letters) /\ C <= Len(cs[1])
    BY <1>1, CommonBegins
  <1>3. /\ cmdlen \in Nat \ {0} /\ Len(word) = cmdlen
        /\ Starts(cursor) = {0} /\ cmdline[cursor - 1] # 0
        /\ WordAt(0) = word /\ EditTypes
    BY WordIsLine DEF Begins
  <1>4. PICK common : common = SubSeq(cs[1], 1, C)
    OBVIOUS
  <1>5. Len(common) = C
    <2>1. Len(common) = C - 1 + 1
      BY <1>2, <1>4, SubSeqIs
    <2>. QED BY <2>1
  <1>6. PICK e : e = Extended(0)
    OBVIOUS
  <1>7. /\ e \in Edits /\ e.cursor = e.len
        /\ IF C >= LineLen THEN e.len = Len(word) /\ LineOf(e) = word
           ELSE e.len = C /\ LineOf(e) = common
    BY <1>1, <1>2, <1>4, <1>6, ExtendedLine
  <1>8. Completed(0) = IF Len(cs) = 1 THEN InsertText(e, <<0>>, 0, 1) ELSE e
    <2>1. 0 \in Starts(cursor) /\ cs # <<>> /\ C # 0
      BY <1>1, <1>2, <1>3 DEF Begins
    <2>. QED BY <1>1, <1>2, <1>3, <1>6, <2>1, CompletedIs
  <1>9. Line' = LineOf(Completed(0))
    <2>1. Cardinality(Starts(cursor)) = 1 /\ (CHOOSE i \in Starts(cursor) : TRUE) = 0
      BY <1>3, FS_Singleton
    <2>2. TokenNmb # 1
      OBVIOUS
    <2>3. cmdline' = Completed(0).line /\ cmdlen' = Completed(0).len
      BY <1>3, <2>1, <2>2 DEF microrl_get_complite
    <2>. QED BY <2>3 DEF Line, LineOf
  <1>10. LineOf(InsertText(e, <<0>>, 0, 1)) =
           IF e.len + 1 < LineLen THEN Append(LineOf(e), 0) ELSE LineOf(e)
    BY <1>7, SpaceAdded
  <1>11. LineLen \in Nat
    BY LineAssumption
  <1>12. Line' = CASE Len(common) >= LineLen ->
                       IF Len(cs) = 1 /\ Len(word) + 1 < LineLen THEN Append(word, 0) ELSE word
                  [] Len(cs) = 1 /\ Len(common) + 1 < LineLen -> Append(common, 0)
                  [] OTHER -> common
    <2>1. CASE C >= LineLen
      <3>1. ~(C + 1 < LineLen)
        BY <1>11, <2>1
      <3>. QED BY <1>5, <1>7, <1>8, <1>9, <1>10, <2>1, <3>1
    <2>2. CASE ~(C >= LineLen)
      BY <1>5, <1>7, <1>8, <1>9, <1>10, <2>2
    <2>. QED BY <2>1, <2>2
  <1>. QED BY <1>1, <1>2, <1>4, <1>12

(* Tab keeps what stands on either side of the cursor, up to its case and to *)
(* the character before the cursor, and completes a word to what complet's   *)
(* commands have in common.                                                  *)
THEOREM TabKeepsLine == Spec => CompletionKeeps
  <1>. DEFINE Keeps ==
         "Tab" \in Keys[user] /\ ~escape /\ microrl_get_complite =>
           LET word == Upper(Line)
               cs == Complet(word)
               common == SubSeq(cs[1], 1, common_len(cs))
           IN  /\ Upper(RightPart') = Upper(RightPart)
               /\ cursor > 0 => IsPrefix(Upper(Front(LeftPart)), Upper(LeftPart'))
               /\ (/\ Terminated /\ TokenNmb > 1
                   /\ word # <<>> /\ 0 \notin Range(word) /\ cursor = cmdlen
                   /\ cs # <<>>
                   /\ \A k \in DOMAIN cs : IsPrefix(word, cs[k])) =>
                     Line' = CASE Len(common) >= LineLen ->
                                    IF Len(cs) = 1 /\ Len(word) + 1 < LineLen THEN Append(word, 0) ELSE word
                               [] Len(cs) = 1 /\ Len(common) + 1 < LineLen -> Append(common, 0)
                               [] OTHER -> common
  <1>1. EditorInv => Keeps
    <2>. SUFFICES ASSUME EditorInv, microrl_get_complite PROVE Keeps
      OBVIOUS
    <2>1. EditTypes
      BY DEF EditorInv
    <2>2. /\ Upper(RightPart') = Upper(RightPart)
          /\ cursor > 0 => IsPrefix(Upper(Front(LeftPart)), Upper(LeftPart'))
      BY <2>1, TabKeepsAround
    <2>3. PICK word : word = Upper(Line)
      OBVIOUS
    <2>4. ASSUME Terminated, TokenNmb > 1, word # <<>>, 0 \notin Range(word), cursor = cmdlen,
                 Complet(word) # <<>>,
                 \A k \in DOMAIN Complet(word) : IsPrefix(word, Complet(word)[k])
          PROVE  LET cs == Complet(word)
                     common == SubSeq(cs[1], 1, common_len(cs))
                 IN  Line' = CASE Len(common) >= LineLen ->
                                    IF Len(cs) = 1 /\ Len(word) + 1 < LineLen THEN Append(word, 0) ELSE word
                               [] Len(cs) = 1 /\ Len(common) + 1 < LineLen -> Append(common, 0)
                               [] OTHER -> common
      <3>1. Begins(word)
        BY <2>1, <2>3, <2>4 DEF Begins
      <3>. QED BY <2>4, <3>1, TabCompletes
    <2>. QED BY <2>2, <2>3, <2>4
  <1>2. EditorInv => [Keeps]_vars
    BY <1>1
  <1>3. []EditorInv => [][Keeps]_vars
    <2>. HIDE DEF Keeps
    <2>. QED BY <1>2, PTL
  <1>. QED BY <1>3, EditorAlways DEF CompletionKeeps

=============================================================================
