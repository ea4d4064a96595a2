--------------------------- MODULE MalReplyProofs ---------------------------
(***************************************************************************)
(* Proofs about MalReply and the tokenizer in it, for any replies and any  *)
(* table of tokens.                                                        *)
(***************************************************************************)
EXTENDS MalReply, FiniteSetTheorems, SequenceTheorems, WellFoundedInduction, TLAPS

-----------------------------------------------------------------------------
(***************************************************************************)
(* Numbers, and functions defined by recursion over them.                  *)
(***************************************************************************)
(* Every non-empty set of numbers has a least one.                          *)
LEMMA LeastNumber ==
  ASSUME NEW T \in SUBSET Nat, T # {}
  PROVE  \E m \in T : \A k \in T : m <= k
  <1>1. PICK m \in T : \A k \in T : ~ (<<k, m>> \in OpToRel(<, Nat))
    BY NatLessThanWellFounded, WFMin
  <1>2. \A k \in T : ~ (k < m)
    BY <1>1 DEF OpToRel
  <1>. QED
    BY <1>2

(* A bounded non-empty one has a greatest.                                   *)
LEMMA GreatestNumber ==
  ASSUME NEW b \in Nat, NEW T \in SUBSET (0 .. b), T # {}
  PROVE  Max(T) \in T /\ \A k \in T : k <= Max(T)
  <1>. DEFINE D == {b - k : k \in T}
  <1>1. D \in SUBSET Nat /\ D # {}
    <2>1. \A k \in T : b - k \in Nat
      OBVIOUS
    <2>2. D # {}
      <3>1. PICK k \in T : TRUE
        OBVIOUS
      <3>2. b - k \in D
        OBVIOUS
      <3>. QED BY <3>2
    <2>. QED BY <2>1, <2>2
  <1>2. PICK m \in D : \A k \in D : m <= k
    <2>. HIDE DEF D
    <2>. QED BY <1>1, LeastNumber
  <1>3. PICK x \in T : m = b - x
    OBVIOUS
  <1>4. \A k \in T : x >= k
    BY <1>2, <1>3
  <1>. QED BY <1>3, <1>4 DEF Max

(* A set of numbers that is closed under successors up to N.                 *)
LEMMA UpTo ==
  ASSUME NEW N \in Nat, NEW T, 0 \in T, \A n \in 0 .. N - 1 : n \in T => n + 1 \in T
  PROVE  \A n \in 0 .. N : n \in T
  <1>. DEFINE D == {n \in 0 .. N : n \notin T}
  <1>. SUFFICES ASSUME D # {} PROVE FALSE
    OBVIOUS
  <1>1. PICK m \in D : \A k \in D : m <= k
    <2>1. D \in SUBSET Nat
      OBVIOUS
    <2>. HIDE DEF D
    <2>. QED BY <2>1, LeastNumber
  <1>2. m # 0 /\ m - 1 \in 0 .. N - 1
    OBVIOUS
  <1>3. m - 1 \in T
    BY <1>1, <1>2
  <1>4. (m - 1) + 1 \in T
    BY <1>2, <1>3
  <1>. QED BY <1>2, <1>4

Iterates(h, N, x, g) == h = [n \in 0 .. N |-> IF n = 0 THEN x ELSE g[n][h[n - 1]]]

(* The step g[n] from the value at n - 1 to that at n defines a function.    *)
LEMMA Recursion ==
  ASSUME NEW N \in Nat, NEW S, NEW x \in S, NEW g \in [1 .. N -> [S -> S]]
  PROVE  \E h \in [0 .. N -> S] : Iterates(h, N, x, g)
  <1>. DEFINE Sol(m) == {h \in [0 .. m -> S] :
                           h[0] = x /\ \A n \in 1 .. m : h[n] = g[n][h[n - 1]]}
              T == {m \in 0 .. N : Sol(m) # {}}
  <1>1. 0 \in T
    <2>1. [n \in 0 .. 0 |-> x] \in Sol(0)
      OBVIOUS
    <2>. QED BY <2>1
  <1>2. ASSUME NEW m \in 0 .. N - 1, m \in T
        PROVE  m + 1 \in T
    <2>1. PICK h \in Sol(m) : TRUE
      BY <1>2
    <2>. DEFINE e == [n \in 0 .. m + 1 |-> IF n = m + 1 THEN g[m + 1][h[m]] ELSE h[n]]
    <2>2. h[m] \in S /\ g[m + 1][h[m]] \in S
      BY <2>1
    <2>3. e \in [0 .. m + 1 -> S] /\ e[0] = x
      BY <2>1, <2>2
    <2>4. ASSUME NEW n \in 1 .. m + 1
          PROVE  e[n] = g[n][e[n - 1]]
      <3>1. CASE n = m + 1
        BY <3>1
      <3>2. CASE n # m + 1
        <4>1. n \in 1 .. m /\ e[n] = h[n] /\ e[n - 1] = h[n - 1]
          BY <3>2
        <4>. QED BY <2>1, <4>1
      <3>. QED BY <3>1, <3>2
    <2>5. e \in Sol(m + 1)
      <3>. HIDE DEF e
      <3>. QED BY <2>3, <2>4
    <2>. QED BY <2>5
  <1>3. N \in T
    <2>1. \A m \in 0 .. N - 1 : m \in T => m + 1 \in T
      BY <1>2
    <2>. HIDE DEF T
    <2>2. \A m \in 0 .. N : m \in T
      BY <1>1, <2>1, UpTo
    <2>. QED BY <2>2
  <1>4. PICK h \in Sol(N) : TRUE
    BY <1>3
  <1>5. Iterates(h, N, x, g)
    BY <1>4 DEF Iterates
  <1>. QED BY <1>4, <1>5

-----------------------------------------------------------------------------
(***************************************************************************)
(* The tokenizer's brackets.                                               *)
(***************************************************************************)
Punctuation == {"{", "}", "[", "]", Quote, Backslash, ":", ",", Blank, Control, "n"}
Chars == STRING \cup Punctuation
Types == {"object", "array", "string", "primitive"}
Toks == [type : Types, start : Nat, end : Nat, size : Nat]

(* What the tokenizer keeps to: positions are counted from 1, so that a      *)
(* container that is closed has an end, and toksuper is a token or none.     *)
JsmnInv ==
  /\ js \in Seq(Chars)
  /\ pos \in Nat \ {0}
  /\ tokens \in Seq(Toks)
  /\ toksuper \in 0 .. Len(tokens)
  /\ parsed \in {"parsing", "ok", "invalid", "nomem", "part"}

TypesOf(ts) ==
  LET open[n \in 0 .. Len(ts)] ==
        IF n = 0 THEN <<>>
        ELSE IF n \in Open(ts) THEN Append(open[n - 1], ts[n].type) ELSE open[n - 1]
  IN  open[Len(ts)]

(* F[n] is the stack of the first n tokens of a table.                       *)
Stacks(ts, F) ==
  /\ F \in [0 .. Len(ts) -> Seq(Containers)]
  /\ F[0] = <<>>
  /\ \A n \in 1 .. Len(ts) :
       F[n] = IF n \in Open(ts) THEN Append(F[n - 1], ts[n].type) ELSE F[n - 1]

LEMMA StacksOf ==
  ASSUME NEW ts \in Seq(Toks)
  PROVE  \E F : Stacks(ts, F) /\ TypesOf(ts) = F[Len(ts)]
  <1>. DEFINE N == Len(ts)
              S == Seq(Containers)
              Step(n, x) == IF n \in Open(ts) THEN Append(x, ts[n].type) ELSE x
              g == [n \in 1 .. N |-> [x \in S |-> Step(n, x)]]
              Is(h) == h = [n \in 0 .. N |-> IF n = 0 THEN <<>> ELSE Step(n, h[n - 1])]
  <1>1. N \in Nat /\ <<>> \in S
    OBVIOUS
  <1>2. ASSUME NEW n \in 1 .. N, NEW x \in S
        PROVE  Step(n, x) \in S
    BY DEF Open
  <1>3. g \in [1 .. N -> [S -> S]]
    <2>. HIDE DEF S, N, Step
    <2>. QED BY <1>2
  <1>4. PICK h \in [0 .. N -> S] : Iterates(h, N, <<>>, g)
    <2>. HIDE DEF g, S, N
    <2>. QED BY <1>1, <1>3, Recursion
  <1>5. Is(h)
    <2>1. \A n \in 1 .. N : h[n - 1] \in S /\ g[n][h[n - 1]] = Step(n, h[n - 1])
      BY <1>1
    <2>. HIDE DEF Step, g, S, N
    <2>. QED BY <1>1, <1>4, <2>1 DEF Iterates
  <1>6. PICK F : Is(F) /\ TypesOf(ts) = F[N]
    <2>1. Is(CHOOSE f : Is(f))
      <3>. HIDE DEF Is
      <3>. QED BY <1>5
    <2>2. TypesOf(ts) = (CHOOSE f : Is(f))[N]
      BY DEF TypesOf
    <2>. HIDE DEF Is
    <2>. QED BY <2>1, <2>2
  <1>7. F[0] = <<>> /\ DOMAIN F = 0 .. N /\ \A n \in 1 .. N : F[n] = Step(n, F[n - 1])
    <2>. HIDE DEF Step, N
    <2>. QED BY <1>1, <1>6
  <1>8. \A n \in 0 .. N : F[n] \in S
    <2>. DEFINE T == {n \in 0 .. N : F[n] \in S}
    <2>1. 0 \in T
      <3>. HIDE DEF Step, S, N
      <3>. QED BY <1>1, <1>7
    <2>2. \A n \in 0 .. N - 1 : n \in T => n + 1 \in T
      <3>. HIDE DEF Step, S, N
      <3>1. \A n \in 0 .. N - 1 : n + 1 \in 1 .. N /\ n + 1 \in 0 .. N /\ (n + 1) - 1 = n
        BY <1>1
      <3>. QED BY <1>2, <1>7, <3>1
    <2>3. \A n \in 0 .. N : n \in T
      <3>. HIDE DEF T, N
      <3>. QED BY <1>1, <2>1, <2>2, UpTo
    <2>. QED BY <2>3
  <1>9. F \in [0 .. N -> S]
    <2>. HIDE DEF S, N, Step
    <2>1. F = [n \in 0 .. N |-> F[n]]
      BY <1>6
    <2>. QED BY <1>8, <2>1
  <1>. QED BY <1>6, <1>7, <1>9 DEF Stacks

(* Up to a token two tables have the same stack if the same tokens are open  *)
(* in both.                                                                  *)
LEMMA SameStacks ==
  ASSUME NEW ts \in Seq(Toks), NEW us \in Seq(Toks), NEW F, NEW G,
         Stacks(ts, F), Stacks(us, G), NEW m \in Nat, m <= Len(ts), m <= Len(us),
         \A n \in 1 .. m : (n \in Open(ts) <=> n \in Open(us)) /\ ts[n].type = us[n].type
  PROVE  F[m] = G[m]
  <1>. DEFINE T == {n \in 0 .. m : F[n] = G[n]}
  <1>1. 0 \in T
    BY DEF Stacks
  <1>2. \A n \in 0 .. m - 1 : n \in T => n + 1 \in T
    <2>. SUFFICES ASSUME NEW n \in 0 .. m - 1, n \in T PROVE n + 1 \in T
      OBVIOUS
    <2>1. n + 1 \in 1 .. m /\ n + 1 \in 1 .. Len(ts) /\ n + 1 \in 1 .. Len(us) /\ (n + 1) - 1 = n
          /\ n + 1 \in 0 .. m
      OBVIOUS
    <2>2. F[n + 1] = IF n + 1 \in Open(ts) THEN Append(F[n], ts[n + 1].type) ELSE F[n]
      BY <2>1 DEF Stacks
    <2>3. G[n + 1] = IF n + 1 \in Open(us) THEN Append(G[n], us[n + 1].type) ELSE G[n]
      BY <2>1 DEF Stacks
    <2>. QED BY <2>1, <2>2, <2>3
  <1>3. \A n \in 0 .. m : n \in T
    <2>. HIDE DEF T
    <2>. QED BY <1>1, <1>2, UpTo
  <1>4. m \in T
    BY <1>3
  <1>. QED BY <1>4

(* Tokens that are not open leave the stack as it was.                       *)
LEMMA FlatStack ==
  ASSUME NEW ts \in Seq(Toks), NEW F, Stacks(ts, F), NEW m \in Nat, m <= Len(ts),
         \A n \in m + 1 .. Len(ts) : n \notin Open(ts)
  PROVE  F[Len(ts)] = F[m]
  <1>. DEFINE d == Len(ts) - m
              T == {n \in 0 .. d : F[m + n] = F[m]}
  <1>1. 0 \in T /\ d \in Nat /\ m + d = Len(ts)
    OBVIOUS
  <1>2. \A n \in 0 .. d - 1 : n \in T => n + 1 \in T
    <2>. SUFFICES ASSUME NEW n \in 0 .. d - 1, n \in T PROVE n + 1 \in T
      OBVIOUS
    <2>1. /\ m + (n + 1) \in 1 .. Len(ts) /\ m + (n + 1) \in m + 1 .. Len(ts)
          /\ (m + (n + 1)) - 1 = m + n /\ n + 1 \in 0 .. d
      OBVIOUS
    <2>2. F[m + (n + 1)] = F[m + n]
      BY <2>1 DEF Stacks
    <2>. QED BY <2>1, <2>2
  <1>3. \A n \in 0 .. d : n \in T
    <2>. HIDE DEF T, d
    <2>. QED BY <1>1, <1>2, UpTo
  <1>4. d \in T
    <2>. HIDE DEF T
    <2>. QED BY <1>1, <1>3
  <1>. QED BY <1>1, <1>4

LEMMA OpenMax ==
  ASSUME NEW ts \in Seq(Toks), Open(ts) # {}
  PROVE  /\ Max(Open(ts)) \in Open(ts) /\ Max(Open(ts)) \in 1 .. Len(ts)
         /\ \A k \in Open(ts) : k <= Max(Open(ts))
  <1>1. Open(ts) \in SUBSET (0 .. Len(ts)) /\ Open(ts) \subseteq 1 .. Len(ts)
    BY DEF Open
  <1>2. Len(ts) \in Nat
    OBVIOUS
  <1>. QED BY <1>1, <1>2, GreatestNumber

(* A token more is a container more, if it is one that begins.              *)
LEMMA StackGrows ==
  ASSUME NEW ts \in Seq(Toks), NEW us \in Seq(Toks), NEW tok \in Toks,
         Len(us) = Len(ts) + 1, us[Len(us)] = tok,
         \A n \in 1 .. Len(ts) : us[n].type = ts[n].type /\ us[n].end = ts[n].end
  PROVE  TypesOf(us) = IF tok.type \in Containers /\ tok.end = 0
                       THEN Append(TypesOf(ts), tok.type) ELSE TypesOf(ts)
  <1>1. PICK F : Stacks(ts, F) /\ TypesOf(ts) = F[Len(ts)]
    BY StacksOf
  <1>2. PICK G : Stacks(us, G) /\ TypesOf(us) = G[Len(us)]
    BY StacksOf
  <1>3. \A n \in 1 .. Len(ts) : (n \in Open(ts) <=> n \in Open(us)) /\ ts[n].type = us[n].type
    BY DEF Open
  <1>4. F[Len(ts)] = G[Len(ts)]
    <2>1. Len(ts) \in Nat /\ Len(ts) <= Len(ts) /\ Len(ts) <= Len(us)
      OBVIOUS
    <2>. QED BY <1>1, <1>2, <1>3, <2>1, SameStacks
  <1>5. Len(us) \in 1 .. Len(us) /\ Len(us) - 1 = Len(ts)
    OBVIOUS
  <1>6. Len(us) \in Open(us) <=> tok.type \in Containers /\ tok.end = 0
    BY <1>5 DEF Open
  <1>7. TypesOf(us) = IF Len(us) \in Open(us) THEN Append(G[Len(ts)], tok.type) ELSE G[Len(ts)]
    BY <1>2, <1>5 DEF Stacks
  <1>. QED BY <1>1, <1>4, <1>6, <1>7

(* The end of the last container that is open takes the top off the stack.  *)
LEMMA StackShrinks ==
  ASSUME NEW ts \in Seq(Toks), NEW us \in Seq(Toks), Open(ts) # {}, Len(us) = Len(ts),
         \A n \in 1 .. Len(ts) : us[n].type = ts[n].type,
         \A n \in 1 .. Len(ts) : n # Max(Open(ts)) => us[n].end = ts[n].end,
         us[Max(Open(ts))].end # 0
  PROVE  /\ TypesOf(ts) \in Seq(Containers) /\ TypesOf(ts) # <<>>
         /\ TypesOf(us) = SubSeq(TypesOf(ts), 1, Len(TypesOf(ts)) - 1)
  <1>1. PICK F : Stacks(ts, F) /\ TypesOf(ts) = F[Len(ts)]
    BY StacksOf
  <1>2. PICK G : Stacks(us, G) /\ TypesOf(us) = G[Len(us)]
    BY StacksOf
  <1>3. PICK m : m = Max(Open(ts))
    OBVIOUS
  <1>4. m \in Open(ts) /\ m \in 1 .. Len(ts) /\ \A k \in Open(ts) : k <= m
    BY <1>3, OpenMax
  <1>5. m \in Nat /\ m <= Len(ts) /\ m - 1 \in Nat /\ m - 1 <= Len(ts) /\ m - 1 <= Len(us)
        /\ m - 1 \in 0 .. Len(ts)
    BY <1>4
  <1>6. \A n \in m + 1 .. Len(ts) : n \notin Open(ts)
    BY <1>4
  <1>7. F[Len(ts)] = F[m]
    BY <1>1, <1>5, <1>6, FlatStack
  <1>8. F[m] = Append(F[m - 1], ts[m].type) /\ F[m - 1] \in Seq(Containers) /\ ts[m].type \in Containers
    BY <1>1, <1>4, <1>5 DEF Stacks, Open
  <1>9. \A n \in 1 .. m - 1 : (n \in Open(ts) <=> n \in Open(us)) /\ ts[n].type = us[n].type
    <2>. SUFFICES ASSUME NEW n \in 1 .. m - 1
                  PROVE  (n \in Open(ts) <=> n \in Open(us)) /\ ts[n].type = us[n].type
      OBVIOUS
    <2>1. n \in 1 .. Len(ts) /\ n \in 1 .. Len(us) /\ n # m
      BY <1>4
    <2>. QED BY <1>3, <2>1 DEF Open
  <1>10. F[m - 1] = G[m - 1]
    BY <1>1, <1>2, <1>5, <1>9, SameStacks
  <1>11. \A n \in (m - 1) + 1 .. Len(us) : n \notin Open(us)
    <2>. SUFFICES ASSUME NEW n \in (m - 1) + 1 .. Len(us) PROVE n \notin Open(us)
      OBVIOUS
    <2>1. n \in 1 .. Len(ts) /\ n >= m
      BY <1>4
    <2>2. CASE n = m
      BY <1>3, <2>2 DEF Open
    <2>3. CASE n # m
      <3>1. n \in m + 1 .. Len(ts)
        BY <1>4, <2>1, <2>3
      <3>. QED BY <1>3, <1>6, <2>1, <2>3, <3>1 DEF Open
    <2>. QED BY <2>2, <2>3
  <1>12. G[Len(us)] = G[m - 1]
    BY <1>2, <1>5, <1>11, FlatStack
  <1>13. TypesOf(ts) = Append(F[m - 1], ts[m].type) /\ TypesOf(us) = F[m - 1]
    BY <1>1, <1>2, <1>7, <1>8, <1>10, <1>12
  <1>. QED BY <1>8, <1>13

(* Without an open container the stack is empty.                             *)
LEMMA NoneOpen ==
  ASSUME NEW ts \in Seq(Toks), Open(ts) = {}
  PROVE  TypesOf(ts) = <<>>
  <1>1. PICK F : Stacks(ts, F) /\ TypesOf(ts) = F[Len(ts)]
    BY StacksOf
  <1>2. F[Len(ts)] = F[0]
    <2>1. 0 \in Nat /\ 0 <= Len(ts) /\ \A n \in 0 + 1 .. Len(ts) : n \notin Open(ts)
      OBVIOUS
    <2>. QED BY <1>1, <2>1, FlatStack
  <1>. QED BY <1>1, <1>2 DEF Stacks

LEMMA LeastOf ==
  ASSUME NEW T \in SUBSET Nat, T # {}
  PROVE  Min(T) \in T /\ \A k \in T : Min(T) <= k
  <1>1. \E m \in T : \A k \in T : m <= k
    BY LeastNumber
  <1>. QED BY <1>1 DEF Min

LEMMA StackIs == OpenTypes = TypesOf(tokens) /\ OpenTypes' = TypesOf(tokens')
  BY DEF OpenTypes, TypesOf

Failed == parsed' \in {"invalid", "nomem", "part"} /\ UNCHANGED <<js, pos, tokens, toksuper>>

(* A token more, in a table that has room.                                   *)
Grown(type, start, end) ==
  /\ tokens' \in Seq(Toks) /\ Len(tokens') = Len(tokens) + 1
  /\ tokens'[Len(tokens')] = [type |-> type, start |-> start, end |-> end, size |-> 0]
  /\ \A n \in 1 .. Len(tokens) : /\ tokens'[n].type = tokens[n].type
                                 /\ tokens'[n].start = tokens[n].start
                                 /\ tokens'[n].end = tokens[n].end
  /\ toksuper' = IF end = 0 THEN Len(tokens) + 1 ELSE toksuper
  /\ pos' = IF end = 0 THEN pos + 1 ELSE IF type = "string" THEN end + 1 ELSE end
  /\ UNCHANGED <<js, parsed>>

LEMMA AllocGrows ==
  ASSUME JsmnInv, NEW type \in Types, NEW start \in Nat, NEW end \in Nat,
         Alloc(type, start, end), Len(tokens) < MaxTokens
  PROVE  Grown(type, start, end)
  <1>. DEFINE ts == IF toksuper = 0 THEN tokens
                    ELSE [tokens EXCEPT ![toksuper].size = @ + 1]
              tok == [type |-> type, start |-> start, end |-> end, size |-> 0]
  <1>1. /\ tokens' = Append(ts, tok) /\ UNCHANGED <<js, parsed>>
        /\ toksuper' = IF end = 0 THEN Len(tokens) + 1 ELSE toksuper
        /\ pos' = IF end = 0 THEN pos + 1 ELSE IF type = "string" THEN end + 1 ELSE end
    <2>1. ~(Len(tokens) >= MaxTokens)
      BY TokensAssumption DEF JsmnInv
    <2>. QED BY <2>1 DEF Alloc
  <1>2. tok \in Toks
    BY DEF Toks
  <1>3. /\ ts \in Seq(Toks) /\ Len(ts) = Len(tokens)
        /\ \A n \in 1 .. Len(tokens) : /\ ts[n].type = tokens[n].type
                                       /\ ts[n].start = tokens[n].start
                                       /\ ts[n].end = tokens[n].end
    <2>1. CASE toksuper = 0
      BY <2>1 DEF JsmnInv
    <2>2. CASE toksuper # 0
      <3>1. toksuper \in 1 .. Len(tokens) /\ tokens \in Seq(Toks)
        BY <2>2 DEF JsmnInv
      <3>2. PICK old \in Toks : old = tokens[toksuper]
        BY <3>1
      <3>3. [old EXCEPT !.size = @ + 1] \in Toks
        BY DEF Toks
      <3>4. ts = [tokens EXCEPT ![toksuper] = [old EXCEPT !.size = @ + 1]]
        BY <2>2, <3>2
      <3>5. ts \in Seq(Toks) /\ Len(ts) = Len(tokens)
        <4>. HIDE DEF ts
        <4>. QED BY <3>1, <3>3, <3>4
      <3>6. \A n \in 1 .. Len(tokens) : ts[n] = IF n = toksuper THEN [old EXCEPT !.size = @ + 1]
                                                ELSE tokens[n]
        <4>. HIDE DEF ts
        <4>. QED BY <3>1, <3>4
      <3>7. /\ [old EXCEPT !.size = @ + 1].type = old.type
            /\ [old EXCEPT !.size = @ + 1].start = old.start
            /\ [old EXCEPT !.size = @ + 1].end = old.end
        BY DEF Toks
      <3>. HIDE DEF ts
      <3>. QED BY <3>2, <3>5, <3>6, <3>7
    <2>. QED BY <2>1, <2>2
  <1>. HIDE DEF ts, tok
  <1>4. tokens' \in Seq(Toks) /\ Len(tokens') = Len(tokens) + 1 /\ tokens'[Len(tokens')] = tok
    BY <1>1, <1>2, <1>3
  <1>5. \A n \in 1 .. Len(tokens) : tokens'[n] = ts[n]
    BY <1>1, <1>2, <1>3
  <1>. QED BY <1>1, <1>3, <1>4, <1>5 DEF Grown, tok

LEMMA AllocIs ==
  ASSUME JsmnInv, NEW type \in Types, NEW start \in Nat, NEW end \in Nat,
         end = 0 => type \in Containers, Alloc(type, start, end)
  PROVE  /\ JsmnInv'
         /\ \/ Failed
            \/ /\ parsed' = parsed
               /\ OpenTypes' = IF end = 0 THEN Append(OpenTypes, type) ELSE OpenTypes
  <1>1. CASE Len(tokens) >= MaxTokens
    BY <1>1 DEF Alloc, Fail, JsmnInv, Failed
  <1>2. CASE ~(Len(tokens) >= MaxTokens)
    <2>. DEFINE tok == [type |-> type, start |-> start, end |-> end, size |-> 0]
    <2>1. Grown(type, start, end)
      <3>1. Len(tokens) < MaxTokens
        BY <1>2, TokensAssumption DEF JsmnInv
      <3>. QED BY <3>1, AllocGrows
    <2>2. tok \in Toks /\ tok.type = type /\ tok.end = end
      BY DEF Toks
    <2>3. /\ tokens' \in Seq(Toks) /\ Len(tokens') = Len(tokens) + 1 /\ tokens'[Len(tokens')] = tok
          /\ \A n \in 1 .. Len(tokens) : tokens'[n].type = tokens[n].type /\ tokens'[n].end = tokens[n].end
      BY <2>1 DEF Grown
    <2>. HIDE DEF tok
    <2>4. JsmnInv'
      <3>1. pos' \in Nat \ {0}
        BY <2>1 DEF Grown, JsmnInv
      <3>2. toksuper' \in 0 .. Len(tokens')
        BY <2>1 DEF Grown, JsmnInv
      <3>. QED BY <2>1, <2>3, <3>1, <3>2 DEF Grown, JsmnInv
    <2>5. TypesOf(tokens') = IF tok.type \in Containers /\ tok.end = 0
                             THEN Append(TypesOf(tokens), tok.type) ELSE TypesOf(tokens)
      BY <2>2, <2>3, StackGrows DEF JsmnInv
    <2>. QED BY <2>1, <2>2, <2>4, <2>5, StackIs DEF Grown
  <1>. QED BY <1>1, <1>2

Bracketed ==
  \/ Nested!OpenOne
  \/ Nested!CloseOne
  \/ Nested!End
  \/ UNCHANGED <<OpenTypes, parsed>>

LEMMA FailedEnds ==
  ASSUME JsmnInv, Reading, Failed
  PROVE  JsmnInv' /\ Bracketed
  <1>1. JsmnInv'
    BY DEF JsmnInv, Failed
  <1>2. OpenTypes' = OpenTypes
    BY StackIs DEF Failed
  <1>3. Nested!End
    BY <1>2 DEF Nested!End, Failed, Reading
  <1>. QED BY <1>1, <1>3 DEF Bracketed

LEMMA OpenBracketIs ==
  ASSUME JsmnInv, OpenBracket
  PROVE  JsmnInv' /\ Bracketed
  <1>1. PICK type \in {"object", "array"} : Alloc(type, pos, 0)
    BY DEF OpenBracket
  <1>2. type \in Types /\ pos \in Nat /\ 0 \in Nat /\ type \in Containers /\ Reading
    BY <1>1 DEF Types, Containers, JsmnInv, OpenBracket
  <1>3. JsmnInv' /\ (Failed \/ (parsed' = parsed /\ OpenTypes' = Append(OpenTypes, type)))
    BY <1>1, <1>2, AllocIs
  <1>4. CASE Failed
    BY <1>2, <1>4, FailedEnds
  <1>5. CASE parsed' = parsed /\ OpenTypes' = Append(OpenTypes, type)
    <2>1. Nested!OpenOne
      BY <1>1, <1>2, <1>5 DEF Nested!OpenOne, Reading
    <2>. QED BY <1>3, <2>1 DEF Bracketed
  <1>. QED BY <1>3, <1>4, <1>5

LEMMA CloseBracketIs ==
  ASSUME JsmnInv, CloseBracket
  PROVE  JsmnInv' /\ Bracketed
  <1>. DEFINE type == IF Char = "}" THEN "object" ELSE "array"
              last == Max(Open(tokens))
  <1>1. Reading
    BY DEF CloseBracket
  <1>2. CASE Open(tokens) = {} \/ tokens[last].type # type
    <2>1. Fail("invalid")
      BY <1>2 DEF CloseBracket
    <2>2. Failed
      BY <2>1 DEF Fail, Failed
    <2>. QED BY <1>1, <2>2, FailedEnds
  <1>3. CASE Open(tokens) # {} /\ tokens[last].type = type
    <2>1. /\ tokens' = [tokens EXCEPT ![last].end = pos + 1]
          /\ toksuper' = IF Open(tokens) = {last} THEN 0 ELSE Max(Open(tokens) \ {last})
          /\ pos' = pos + 1
          /\ UNCHANGED <<js, parsed>>
      BY <1>3 DEF CloseBracket
    <2>2. tokens \in Seq(Toks) /\ pos \in Nat \ {0}
      BY DEF JsmnInv
    <2>. HIDE DEF last
    <2>3. last \in Open(tokens) /\ last \in 1 .. Len(tokens)
      BY <1>3, <2>2, OpenMax DEF last
    <2>4. PICK old \in Toks : old = tokens[last]
      BY <2>2, <2>3
    <2>5. /\ [old EXCEPT !.end = pos + 1] \in Toks /\ [old EXCEPT !.end = pos + 1].type = old.type
          /\ [old EXCEPT !.end = pos + 1].end # 0
      BY <2>2 DEF Toks
    <2>6. tokens' = [tokens EXCEPT ![last] = [old EXCEPT !.end = pos + 1]]
      BY <2>1, <2>4
    <2>7. tokens' \in Seq(Toks) /\ Len(tokens') = Len(tokens)
      BY <2>2, <2>3, <2>5, <2>6
    <2>8. \A n \in 1 .. Len(tokens) : tokens'[n] = IF n = last THEN [old EXCEPT !.end = pos + 1]
                                                   ELSE tokens[n]
      BY <2>2, <2>3, <2>6
    <2>9. /\ \A n \in 1 .. Len(tokens) : tokens'[n].type = tokens[n].type
          /\ \A n \in 1 .. Len(tokens) : n # last => tokens'[n].end = tokens[n].end
          /\ tokens'[last].end # 0
      BY <2>3, <2>4, <2>5, <2>8
    <2>10. /\ TypesOf(tokens) \in Seq(Containers) /\ TypesOf(tokens) # <<>>
           /\ TypesOf(tokens') = SubSeq(TypesOf(tokens), 1, Len(TypesOf(tokens)) - 1)
      BY <1>3, <2>2, <2>7, <2>9, StackShrinks DEF last
    <2>11. toksuper' \in 0 .. Len(tokens')
      <3>1. CASE Open(tokens) = {last}
        BY <2>1, <2>7, <3>1
      <3>2. CASE Open(tokens) # {last}
        <4>1. PICK T : T = Open(tokens) \ {last}
          OBVIOUS
        <4>2. T \in SUBSET (0 .. Len(tokens)) /\ T # {} /\ Len(tokens) \in Nat
          BY <2>2, <2>3, <3>2, <4>1 DEF Open
        <4>3. Max(T) \in T
          BY <4>2, GreatestNumber
        <4>. QED BY <2>1, <2>7, <3>2, <4>1, <4>2, <4>3
      <3>. QED BY <3>1, <3>2
    <2>12. JsmnInv'
      BY <2>1, <2>2, <2>7, <2>11 DEF JsmnInv
    <2>13. Nested!CloseOne
      BY <1>1, <2>1, <2>10, StackIs DEF Nested!CloseOne, Nested!Front, Reading
    <2>. QED BY <2>12, <2>13 DEF Bracketed
  <1>. QED BY <1>2, <1>3

LEMMA StringIs ==
  ASSUME JsmnInv, jsmn_parse_string
  PROVE  JsmnInv' /\ Bracketed
  <1>1. PICK ends \in SUBSET (pos + 1 .. Len(js)) :
          \/ Fail("invalid")
          \/ Fail("part")
          \/ ends # {} /\ Alloc("string", pos + 1, Min(ends))
    BY DEF jsmn_parse_string
  <1>2. Reading
    BY DEF jsmn_parse_string
  <1>3. CASE Fail("invalid") \/ Fail("part")
    <2>1. Failed
      BY <1>3 DEF Fail, Failed
    <2>. QED BY <1>2, <2>1, FailedEnds
  <1>4. CASE ends # {} /\ Alloc("string", pos + 1, Min(ends))
    <2>1. ends \in SUBSET Nat /\ pos + 1 \in Nat /\ 0 \notin ends
      BY DEF JsmnInv
    <2>2. Min(ends) \in ends
      BY <1>4, <2>1, LeastOf
    <2>3. PICK end \in Nat : end = Min(ends) /\ end # 0
      BY <2>1, <2>2
    <2>4. "string" \in Types
      BY DEF Types
    <2>5. JsmnInv' /\ (Failed \/ (parsed' = parsed /\ OpenTypes' = OpenTypes))
      BY <1>4, <2>1, <2>3, <2>4, AllocIs
    <2>. QED BY <1>2, <2>5, FailedEnds DEF Bracketed
  <1>. QED BY <1>1, <1>3, <1>4

LEMMA PrimitiveIs ==
  ASSUME JsmnInv, jsmn_parse_primitive
  PROVE  JsmnInv' /\ Bracketed
  <1>. DEFINE ends == {k \in pos .. Len(js) : js[k] \in EndsPrimitive} \cup {Len(js) + 1}
  <1>1. Reading /\ (Fail("invalid") \/ Alloc("primitive", pos, Min(ends)))
    BY DEF jsmn_parse_primitive
  <1>2. CASE Fail("invalid")
    <2>1. Failed
      BY <1>2 DEF Fail, Failed
    <2>. QED BY <1>1, <2>1, FailedEnds
  <1>3. CASE Alloc("primitive", pos, Min(ends))
    <2>1. ends \in SUBSET Nat /\ pos \in Nat /\ ends # {} /\ 0 \notin ends
      BY DEF JsmnInv
    <2>. HIDE DEF ends
    <2>2. Min(ends) \in ends
      BY <2>1, LeastOf
    <2>3. PICK end \in Nat : end = Min(ends) /\ end # 0
      BY <2>1, <2>2
    <2>4. "primitive" \in Types
      BY DEF Types
    <2>5. JsmnInv' /\ (Failed \/ (parsed' = parsed /\ OpenTypes' = OpenTypes))
      BY <1>3, <2>1, <2>3, <2>4, AllocIs
    <2>. QED BY <1>1, <2>5, FailedEnds DEF Bracketed
  <1>. QED BY <1>1, <1>2, <1>3

LEMMA FinishIs ==
  ASSUME JsmnInv, Finish
  PROVE  JsmnInv' /\ Bracketed
  <1>1. JsmnInv'
    BY DEF Finish, JsmnInv
  <1>2. OpenTypes' = OpenTypes
    BY StackIs DEF Finish
  <1>3. Open(tokens) = {} => OpenTypes = <<>>
    BY NoneOpen, StackIs DEF JsmnInv
  <1>4. Nested!End
    BY <1>2, <1>3 DEF Nested!End, Finish
  <1>. QED BY <1>1, <1>4 DEF Bracketed

LEMMA JsmnStep ==
  ASSUME JsmnInv, jsmn_parse
  PROVE  JsmnInv' /\ Bracketed
  <1>1. CASE Skip \/ Colon \/ Comma
    <2>1. UNCHANGED <<js, tokens, parsed>> /\ pos' = pos + 1
      BY <1>1 DEF Skip, Colon, Comma
    <2>2. toksuper' \in 0 .. Len(tokens)
      <3>1. CASE Open(tokens) = {}
        <4>1. toksuper' \in {toksuper, Len(tokens)}
          BY <1>1, <3>1 DEF Skip, Colon, Comma
        <4>. QED BY <4>1 DEF JsmnInv
      <3>2. CASE Open(tokens) # {}
        <4>1. Max(Open(tokens)) \in 1 .. Len(tokens)
          BY <3>2, OpenMax DEF JsmnInv
        <4>2. Len(tokens) \in 0 .. Len(tokens) /\ toksuper \in 0 .. Len(tokens)
          BY DEF JsmnInv
        <4>3. toksuper' \in {toksuper, Len(tokens), Max(Open(tokens))}
          BY <1>1, <3>2 DEF Skip, Colon, Comma
        <4>. QED BY <4>1, <4>2, <4>3
      <3>. QED BY <3>1, <3>2
    <2>3. JsmnInv'
      BY <2>1, <2>2 DEF JsmnInv
    <2>4. OpenTypes' = OpenTypes
      BY <2>1, StackIs
    <2>. QED BY <2>1, <2>3, <2>4 DEF Bracketed
  <1>. QED
    BY <1>1, OpenBracketIs, CloseBracketIs, StringIs, PrimitiveIs, FinishIs DEF jsmn_parse

-----------------------------------------------------------------------------
(***************************************************************************)
(* A reply is a text.                                                       *)
(***************************************************************************)
LEMMA LargerSeq ==
  ASSUME NEW S, NEW T, S \subseteq T
  PROVE  Seq(S) \subseteq Seq(T)
  OBVIOUS

LEMMA PiecesAre ==
  ASSUME NEW S
  PROVE  /\ \A c \in S : <<c>> \in Seq(S)
         /\ \A c, d \in S : <<c, d>> \in Seq(S)
         /\ \A a, b, c, d, e \in S : <<a, b, c, d, e>> \in Seq(S)
         /\ \A a, b \in Seq(S) : a \o b \in Seq(S)
  OBVIOUS

(* The texts of the constants, and the punctuation around them, are texts.  *)
LEMMA CharsAre ==
  /\ Seq(STRING) \subseteq Seq(Chars)
  /\ \A c \in Punctuation : <<c>> \in Seq(Chars)
  /\ \A c, d \in Punctuation : <<c, d>> \in Seq(Chars)
  /\ \A a, b, c, d, e \in Punctuation : <<a, b, c, d, e>> \in Seq(Chars)
  /\ \A a, b \in Seq(Chars) : a \o b \in Seq(Chars)
  <1>1. STRING \subseteq Chars /\ Punctuation \subseteq Chars
    BY DEF Chars
  <1>2. Seq(STRING) \subseteq Seq(Chars)
    BY <1>1, LargerSeq
  <1>3. /\ \A c \in Chars : <<c>> \in Seq(Chars)
        /\ \A c, d \in Chars : <<c, d>> \in Seq(Chars)
        /\ \A a, b, c, d, e \in Chars : <<a, b, c, d, e>> \in Seq(Chars)
        /\ \A a, b \in Seq(Chars) : a \o b \in Seq(Chars)
    BY PiecesAre
  <1>. QED BY <1>1, <1>2, <1>3, Zenon

LEMMA TextsAre ==
  /\ \A fs \in Fields : /\ DOMAIN fs = 1 .. Len(fs) /\ Len(fs) \in Nat
                         /\ \A n \in 1 .. Len(fs) : /\ fs[n].key \in Seq(Chars)
                                                     /\ fs[n].value \in Seq(Chars)
                                                     /\ fs[n].quoted \in BOOLEAN
  /\ \A t \in Tails \cup Texts : t \in Seq(Chars)
  <1>. DEFINE S == Seq(STRING)
  <1>1. /\ Fields \subseteq Seq([key : S, value : S, quoted : BOOLEAN])
        /\ Tails \subseteq S /\ Texts \subseteq S
    BY TextAssumption
  <1>2. S \subseteq Seq(Chars)
    BY CharsAre
  <1>. DEFINE R == [key : S, value : S, quoted : BOOLEAN]
  <1>3. ASSUME NEW fs \in Fields
        PROVE  /\ DOMAIN fs = 1 .. Len(fs) /\ Len(fs) \in Nat
               /\ \A n \in 1 .. Len(fs) : fs[n] \in R
    <2>1. fs \in Seq(R)
      BY <1>1
    <2>. HIDE DEF R
    <2>. QED BY <2>1
  <1>. HIDE DEF S
  <1>4. \A f \in R : f.key \in S /\ f.value \in S /\ f.quoted \in BOOLEAN
    OBVIOUS
  <1>. HIDE DEF R
  <1>. QED BY <1>1, <1>2, <1>3, <1>4

(* F[n] is the first n parts, with commas between them.                     *)
Joined(parts, F) ==
  /\ F[0] = <<>>
  /\ \A n \in 0 .. Len(parts) : F[n] \in Seq(Chars)
  /\ \A n \in 1 .. Len(parts) :
       F[n] = F[n - 1] \o (IF n = 1 THEN <<>> ELSE <<",">>) \o parts[n]

LEMMA JoinIs ==
  ASSUME NEW parts \in Seq(Seq(Chars))
  PROVE  \E F : Joined(parts, F) /\ Join(parts) = F[Len(parts)]
  <1>. DEFINE N == Len(parts)
              S == Seq(Chars)
              Step(n, x) == x \o (IF n = 1 THEN <<>> ELSE <<",">>) \o parts[n]
              g == [n \in 1 .. N |-> [x \in S |-> Step(n, x)]]
              Is(h) == h = [n \in 0 .. N |-> IF n = 0 THEN <<>> ELSE Step(n, h[n - 1])]
  <1>1. N \in Nat /\ <<>> \in S
    OBVIOUS
  <1>2. ASSUME NEW n \in 1 .. N, NEW x \in S
        PROVE  Step(n, x) \in S
    <2>1. <<",">> \in Seq(Chars)
      <3>1. "," \in Punctuation
        BY DEF Punctuation
      <3>. QED BY <3>1, CharsAre
    <2>2. PICK comma \in S : comma = IF n = 1 THEN <<>> ELSE <<",">>
      <3>1. PICK sep : sep = <<",">> /\ sep \in S
        BY <2>1
      <3>2. (IF n = 1 THEN <<>> ELSE sep) \in S
        <4>. HIDE DEF S
        <4>. QED BY <1>1, <3>1
      <3>. QED BY <3>1, <3>2
    <2>3. parts[n] \in S
      OBVIOUS
    <2>4. Step(n, x) = x \o comma \o parts[n]
      BY <2>2
    <2>. HIDE DEF Step
    <2>. QED BY <1>2, <2>3, <2>4
  <1>3. g \in [1 .. N -> [S -> S]]
    <2>. HIDE DEF S, N, Step
    <2>. QED BY <1>2
  <1>4. PICK h \in [0 .. N -> S] : Iterates(h, N, <<>>, g)
    <2>. HIDE DEF g, S, N
    <2>. QED BY <1>1, <1>3, Recursion
  <1>5. Is(h)
    <2>. HIDE DEF Step, S
    <2>1. \A n \in 1 .. N : h[n - 1] \in S /\ g[n][h[n - 1]] = Step(n, h[n - 1])
      <3>. HIDE DEF N
      <3>. QED BY <1>1
    <2>. HIDE DEF Step, g, S, N
    <2>. QED BY <1>1, <1>4, <2>1 DEF Iterates
  <1>6. PICK F : Is(F) /\ Join(parts) = F[N]
    <2>1. Is(CHOOSE f : Is(f))
      <3>. HIDE DEF Is
      <3>. QED BY <1>5
    <2>2. Join(parts) = (CHOOSE f : Is(f))[N]
      BY DEF Join
    <2>. HIDE DEF Is
    <2>. QED BY <2>1, <2>2
  <1>7. F[0] = <<>> /\ \A n \in 1 .. N : F[n] = Step(n, F[n - 1])
    <2>. HIDE DEF Step, N
    <2>. QED BY <1>1, <1>6
  <1>. DEFINE T == {n \in 0 .. N : F[n] \in S}
  <1>8. 0 \in T
    <2>. HIDE DEF Step, S, N
    <2>. QED BY <1>1, <1>7
  <1>9. \A n \in 0 .. N - 1 : n \in T => n + 1 \in T
    <2>. HIDE DEF Step, S, N
    <2>1. \A n \in 0 .. N - 1 : n + 1 \in 1 .. N /\ n + 1 \in 0 .. N /\ (n + 1) - 1 = n
      BY <1>1
    <2>. QED BY <1>2, <1>7, <2>1
  <1>10. \A n \in 0 .. N : F[n] \in S
    <2>1. \A n \in 0 .. N : n \in T
      <3>. HIDE DEF T, N
      <3>. QED BY <1>1, <1>8, <1>9, UpTo
    <2>. QED BY <2>1
  <1>11. Joined(parts, F)
    BY <1>7, <1>10 DEF Joined
  <1>. QED BY <1>6, <1>11

LEMMA RenderIs ==
  ASSUME NEW fs \in Fields, NEW nested \in BOOLEAN
  PROVE  Render(fs, nested) \in Seq(Chars)
  <1>. DEFINE parts == [n \in DOMAIN fs |-> Pair(fs[n])]
              pairs == <<"{">> \o Join(parts) \o <<"}">>
  <1>1. <<Quote>> \in Seq(Chars) /\ <<Quote, ":">> \in Seq(Chars)
        /\ <<"{">> \in Seq(Chars) /\ <<"}">> \in Seq(Chars)
    <2>1. {"{", "}", Quote, ":"} \subseteq Punctuation
      BY DEF Punctuation
    <2>. QED BY <2>1, CharsAre
  <1>2. ASSUME NEW n \in 1 .. Len(fs)
        PROVE  Pair(fs[n]) \in Seq(Chars)
    <2>1. PICK k \in Seq(Chars), v \in Seq(Chars) : k = fs[n].key /\ v = fs[n].value
      BY TextsAre
    <2>2. PICK w \in Seq(Chars) : w = IF fs[n].quoted THEN <<Quote>> \o v \o <<Quote>> ELSE v
      <3>1. <<Quote>> \o v \in Seq(Chars)
        BY <1>1, CharsAre
      <3>2. <<Quote>> \o v \o <<Quote>> \in Seq(Chars)
        BY <1>1, <3>1, CharsAre
      <3>3. PICK w : w = <<Quote>> \o v \o <<Quote>> /\ w \in Seq(Chars)
        BY <3>2
      <3>. QED BY <3>3, Zenon
    <2>3. <<Quote>> \o k \o <<Quote, ":">> \in Seq(Chars)
      <3>1. <<Quote>> \o k \in Seq(Chars)
        BY <1>1, CharsAre
      <3>. QED BY <1>1, <3>1, CharsAre
    <2>. QED BY <2>1, <2>2, <2>3 DEF Pair
  <1>3. parts \in Seq(Seq(Chars))
    <2>1. DOMAIN fs = 1 .. Len(fs) /\ Len(fs) \in Nat
      BY TextsAre
    <2>. QED BY <1>2, <2>1
  <1>4. Join(parts) \in Seq(Chars)
    <2>. HIDE DEF parts
    <2>1. PICK F : Joined(parts, F) /\ Join(parts) = F[Len(parts)]
      BY <1>3, JoinIs
    <2>2. Len(parts) \in 0 .. Len(parts)
      BY <1>3
    <2>. QED BY <2>1, <2>2 DEF Joined
  <1>5. pairs \in Seq(Chars)
    <2>. HIDE DEF parts
    <2>1. <<"{">> \o Join(parts) \in Seq(Chars)
      BY <1>1, <1>4, CharsAre
    <2>. QED BY <1>1, <2>1, CharsAre
  <1>6. <<"{", Quote, "n", Quote, ":">> \in Seq(Chars)
    <2>1. {"{", Quote, "n", ":"} \subseteq Punctuation
      BY DEF Punctuation
    <2>. QED BY <1>1, <2>1, CharsAre
  <1>7. CASE nested
    <2>1. Render(fs, nested) = <<"{", Quote, "n", Quote, ":">> \o pairs \o <<"}">>
      BY <1>7 DEF Render
    <2>. HIDE DEF pairs
    <2>2. <<"{", Quote, "n", Quote, ":">> \o pairs \in Seq(Chars)
      BY <1>5, <1>6, CharsAre
    <2>. QED BY <1>1, <2>1, <2>2, CharsAre
  <1>8. CASE ~nested
    BY <1>5, <1>8 DEF Render
  <1>. QED BY <1>7, <1>8

LEMMA MalStarts ==
  ASSUME Init
  PROVE  JsmnInv /\ OpenTypes = <<>> /\ parsed = "parsing"
  <1>1. js \in Seq(Chars)
    <2>1. CASE doc = NoDoc /\ js \in Texts
      BY <2>1, TextsAre
    <2>2. CASE \E fs \in Fields, nested \in BOOLEAN, tail \in Tails :
                 js = Render(fs, nested) \o tail
      BY <2>2, RenderIs, TextsAre
    <2>. QED BY <2>1, <2>2 DEF Init, send_mal_command
  <1>2. pos = 1 /\ tokens = <<>> /\ toksuper = 0 /\ parsed = "parsing"
    BY DEF Init, jsmn_init
  <1>3. JsmnInv
    BY <1>1, <1>2 DEF JsmnInv
  <1>4. OpenTypes = <<>>
    <2>1. tokens \in Seq(Toks) /\ Open(tokens) = {}
      BY <1>2 DEF Open
    <2>. QED BY <2>1, NoneOpen, StackIs
  <1>. QED BY <1>2, <1>3, <1>4

LEMMA MalStep ==
  ASSUME JsmnInv, [Next]_vars
  PROVE  JsmnInv' /\ Bracketed
  <1>1. CASE Tokenize
    BY <1>1, JsmnStep DEF Tokenize
  <1>2. CASE UNCHANGED jsmnVars
    <2>1. JsmnInv'
      BY <1>2 DEF jsmnVars, JsmnInv
    <2>2. OpenTypes' = OpenTypes /\ parsed' = parsed
      BY <1>2, StackIs DEF jsmnVars
    <2>. QED BY <2>1, <2>2 DEF Bracketed
  <1>3. UNCHANGED jsmnVars \/ Tokenize
    BY DEF Next, NotAnObject, FillEntry, Return, vars
  <1>. QED BY <1>1, <1>2, <1>3

(* The tokenizer closes the containers of a text in the order nested brackets*)
(* ask for, and accepts it only when none is open: jsmn.c, jsmn_parse.       *)
THEOREM BracketsNest == Spec => ImplementsNesting
  <1>1. Init => JsmnInv /\ Nested!Init
    BY MalStarts DEF Nested!Init
  <1>2. JsmnInv /\ [Next]_vars => JsmnInv'
    BY MalStep
  <1>3. JsmnInv /\ [Next]_vars =>
          [Nested!OpenOne \/ Nested!CloseOne \/ Nested!End]_<<OpenTypes, parsed>>
    BY MalStep DEF Bracketed
  <1>. QED
    BY <1>1, <1>2, <1>3, PTL DEF Spec, ImplementsNesting, Nested!Spec

-----------------------------------------------------------------------------
(***************************************************************************)
(* Where the parts of a reply are in the text, which token each becomes,   *)
(* and what of the table they fill.                                        *)
(***************************************************************************)
Count == Len(doc.fields)
Inner == IF doc.nested THEN 3 ELSE 1      \* the token of the fields' object
Total == Inner + 2 * Count                \* tokens of a reply

Quoted(n) == IF doc.fields[n].quoted THEN 1 ELSE 0
ColonAt(pt, n) == pt[n] + Len(doc.fields[n].key) + 2
ValueAt(pt, n) == ColonAt(pt, n) + 1 + Quoted(n)
ValueEnd(pt, n) == ValueAt(pt, n) + Len(doc.fields[n].value)
LastAt(pt) == pt[Count + 1] - (IF doc.nested THEN 0 ELSE 1)

(* The pair of field n begins at pt[n].                                    *)
PairAt(pt, n) ==
  /\ js[pt[n]] = Quote
  /\ \A k \in 1 .. Len(doc.fields[n].key) : js[pt[n] + k] = doc.fields[n].key[k]
  /\ js[ColonAt(pt, n) - 1] = Quote
  /\ js[ColonAt(pt, n)] = ":"
  /\ doc.fields[n].quoted => js[ColonAt(pt, n) + 1] = Quote /\ js[ValueEnd(pt, n)] = Quote
  /\ \A k \in 1 .. Len(doc.fields[n].value) :
       js[ValueAt(pt, n) + k - 1] = doc.fields[n].value[k]
  /\ pt[n + 1] = ValueEnd(pt, n) + Quoted(n) + 1
  /\ js[pt[n + 1] - 1] = IF n = Count THEN "}" ELSE ","

Placed(pt) ==
  /\ pt \in [1 .. Count + 1 -> Nat]
  /\ pt[1] = IF doc.nested THEN 7 ELSE 2
  /\ js[pt[1] - 1] = "{"
  /\ doc.nested => /\ js[1] = "{" /\ js[2] = Quote /\ js[3] = "n" /\ js[4] = Quote /\ js[5] = ":"
                   /\ js[pt[Count + 1]] = "}"
  /\ \A n \in 1 .. Count : PairAt(pt, n) /\ pt[n + 1] <= pt[Count + 1]
  /\ Len(js) = LastAt(pt) + Len(doc.tail)
  /\ \A x \in 1 .. Len(doc.tail) : js[LastAt(pt) + x] = doc.tail[x]

(* Token k is what the reply makes of it.                                  *)
RightToken(pt, k, t) ==
  /\ k \in {1, Inner} => t.type = "object"
  /\ doc.nested /\ k = 2 => t.type = "string" /\ t.start = 3 /\ t.end = 4
  /\ \A n \in 1 .. Count :
       /\ k = Inner + 2 * n - 1 =>
            t.type = "string" /\ t.start = pt[n] + 1 /\ t.end = ColonAt(pt, n) - 1
       /\ k = Inner + 2 * n =>
            /\ t.type = IF doc.fields[n].quoted THEN "string" ELSE "primitive"
            /\ t.start = ValueAt(pt, n) /\ t.end = ValueEnd(pt, n)

RightTokens(pt) == \A k \in 1 .. Len(tokens) : RightToken(pt, k, tokens[k])

(* An array behind the reply has its bracket there.                        *)
HasArray == "[" \in Range(doc.tail)
TailTokens(ts) == \A k \in 1 .. Len(ts) : k > Total /\ ts[k].type = "array" => HasArray

(* How far the tokenizer is: before the reply, before or after the name    *)
(* around it, in its pairs, behind them or behind the reply.               *)
InPair(pt, n, p, ts) ==
  \/ p = pt[n] /\ Len(ts) = Inner + 2 * n - 2
  \/ p \in {ColonAt(pt, n), ColonAt(pt, n) + 1} /\ Len(ts) = Inner + 2 * n - 1
  \/ p = pt[n + 1] - 1 /\ Len(ts) = Inner + 2 * n

BehindReply(pt, p, ts) ==
  /\ p > LastAt(pt)
  /\ Len(ts) >= Total
  /\ TailTokens(ts)
  /\ \A k \in Open(ts) : k > Total
  /\ doc.tail = <<>> => p = LastAt(pt) + 1 /\ Len(ts) = Total /\ Open(ts) = {}

InName(pt, p, ts) ==
  /\ doc.nested
  /\ Open(ts) = {1}
  /\ \/ p = 2 /\ Len(ts) = 1
     \/ p \in {5, 6} /\ Len(ts) = 2
     \/ p = pt[Count + 1] /\ Len(ts) = Total

Stage(pt, p, ts) ==
  \/ p = 1 /\ Len(ts) = 0
  \/ InName(pt, p, ts)
  \/ Open(ts) = {1, Inner} /\ \E n \in 1 .. Count : InPair(pt, n, p, ts)
  \/ BehindReply(pt, p, ts)

Lexed(pt) ==
  /\ RightTokens(pt)
  /\ CASE parsed = "parsing" -> Stage(pt, pos, tokens)
       [] parsed = "ok" -> /\ Len(tokens) >= Total /\ TailTokens(tokens)
                           /\ doc.tail = <<>> => Len(tokens) = Total
       [] OTHER -> doc.tail # <<>>

-----------------------------------------------------------------------------
KeyText(j) == IF j = 1 /\ ~doc.nested THEN <<>> ELSE doc.fields[j].key
Behind(j) == KeyOf(j) + Len(KeyText(j))

Cells(m, off, text) == \A k \in 1 .. Len(text) : m[off + k - 1] = text[k]

(* Entry j before its key is there, with it, and with its value.           *)
Unfilled(m, j) == \A c \in Behind(j) .. KeyOf(j + 1) - 1 : m[c] = Nul
Keyed(m, j) == Unfilled(m, j) /\ Cells(m, KeyOf(j), KeyText(j))
Filled(m, j) ==
  /\ Cells(m, KeyOf(j), KeyText(j)) /\ m[Behind(j)] = Nul
  /\ Cells(m, ValueOf(j), Given(doc.fields[j]))
  /\ m[ValueOf(j) + Len(Given(doc.fields[j]))] = Nul

SafeOnes == {j \in 1 .. Count : Safe(j)}

(* The entries up to the one of field n.                                   *)
Around(m, n) ==
  /\ \A j \in SafeOnes : j < n => Filled(m, j)
  /\ \A j \in SafeOnes : j > n => Unfilled(m, j)

(* What is in the table when token i is due.                               *)
Progress ==
  \/ i = 1 /\ ro = 0 /\ key = "object" /\ \A c \in 0 .. Bytes - 1 : mem[c] = Nul
  \/ doc.nested /\ i = 2 /\ ro = 1 /\ key = "value" /\ Around(mem, 0)
  \/ \E n \in 1 .. Count :
       \/ i = Inner + 2 * n - 2 /\ i > 1 /\ ro = n /\ key = "key" /\ Around(mem, n)
          /\ (n \in SafeOnes => Unfilled(mem, n))
       \/ i = Inner + 2 * n - 1 /\ ro = n /\ key = "value" /\ Around(mem, n)
          /\ (n \in SafeOnes => Keyed(mem, n))
  \/ i >= Total /\ ro \in Nat /\ ro > Count /\ (i = Total => ro = Count + 1) /\ Around(mem, Count + 1)

Filling ==
  /\ mem = [c \in 0 .. Bytes - 1 |-> mem[c]]
  /\ i \in Nat
  /\ i > 1 => parsed = "ok" /\ i <= Len(tokens)
  /\ Progress
  /\ ret # Pending => \/ ret = -1 /\ doc.tail # <<>>
                      \/ ret = ro /\ parsed = "ok" /\ i = Len(tokens)

ReplyInv ==
  doc # NoDoc /\ Fits =>
    /\ doc.fields \in Fields /\ doc.nested \in BOOLEAN /\ doc.tail \in Tails /\ sent
    /\ \E pt : Placed(pt) /\ Lexed(pt)
    /\ Filling

-----------------------------------------------------------------------------
(* Where an entry begins and ends.                                         *)
LEMMA Offsets ==
  /\ Cap \in Nat \ {0} /\ Entries \in Nat \ {0}
  /\ KeyOf(0) = 0 /\ Bytes = KeyOf(Entries) /\ Entries <= Bytes - Entries
  /\ \A a \in Nat : /\ KeyOf(a) \in Nat /\ ValueOf(a) = KeyOf(a) + Cap
                   /\ KeyOf(a + 1) = KeyOf(a) + Cap + Cap
  /\ \A a, b \in Nat : a <= b => KeyOf(a) <= KeyOf(b)
  <1>1. Cap \in Nat \ {0} /\ Entries \in Nat \ {0}
    BY TableAssumption
  <1>2. \A a \in Nat : a * 2 * Cap \in Nat
    BY <1>1
  <1>3. \A a \in Nat : (a + 1) * 2 * Cap = a * 2 * Cap + Cap + Cap
    BY <1>1
  <1>4. \A a, b \in Nat : a <= b => a * 2 * Cap <= b * 2 * Cap
    BY <1>1
  <1>5. 0 * 2 * Cap = 0 /\ Entries <= Entries * 2 * Cap - Entries
    BY <1>1
  <1>. QED BY <1>1, <1>2, <1>3, <1>4, <1>5 DEF KeyOf, ValueOf, Bytes

(* What a copy of a text to an offset makes of the table.                  *)
Copied(mm, m, off, text) ==
  /\ mm = [c \in 0 .. Bytes - 1 |-> mm[c]]
  /\ \A c \in 0 .. Bytes - 1 : c < off \/ c >= off + Len(text) => mm[c] = m[c]
  /\ off + Len(text) <= Bytes => Cells(mm, off, text)

(* What a copy writes and what it leaves.                                  *)
LEMMA CopyIs ==
  ASSUME NEW m, NEW off \in Nat, NEW text, Len(text) \in Nat
  PROVE  Copied(Copy(m, off, text), m, off, text)
  <1>. DEFINE n == Copy(m, off, text)
  <1>1. n = [c \in 0 .. Bytes - 1 |-> n[c]]
    BY DEF Copy
  <1>2. ASSUME NEW c \in 0 .. Bytes - 1
        PROVE  c < off \/ c >= off + Len(text) => n[c] = m[c]
    BY DEF Copy
  <1>3. ASSUME off + Len(text) <= Bytes, NEW k \in 1 .. Len(text)
        PROVE  n[off + k - 1] = text[k]
    <2>1. Bytes \in Nat
      BY Offsets
    <2>2. off + k - 1 \in 0 .. Bytes - 1 /\ off + k - 1 \in off .. off + Len(text) - 1
          /\ (off + k - 1) - off + 1 = k
      BY <1>3, <2>1
    <2>. QED BY <2>2 DEF Copy
  <1>. HIDE DEF n
  <1>. QED BY <1>1, <1>2, <1>3 DEF Copied, Cells, n

(* A text with a zero byte behind it is read back.                         *)
LEMMA TextIs ==
  ASSUME NEW m, NEW off \in Nat, NEW text, Len(text) \in Nat, DOMAIN text = 1 .. Len(text),
         text = [k \in 1 .. Len(text) |-> text[k]],
         \A k \in 1 .. Len(text) : text[k] # Nul,
         off + Len(text) < Bytes, Cells(m, off, text), m[off + Len(text)] = Nul
  PROVE  Text(m, off) = text
  <1>. DEFINE ends == {n \in off .. Bytes - 1 : m[n] = Nul} \cup {Max({off, Bytes})}
              last == off + Len(text)
  <1>1. Bytes \in Nat
    BY Offsets
  <1>2. Max({off, Bytes}) = Bytes
    <2>1. {off, Bytes} \in SUBSET (0 .. Bytes) /\ {off, Bytes} # {}
      BY <1>1
    <2>2. Max({off, Bytes}) \in {off, Bytes} /\ \A k \in {off, Bytes} : k <= Max({off, Bytes})
      BY <1>1, <2>1, GreatestNumber
    <2>. QED BY <1>1, <2>2
  <1>3. ends \in SUBSET Nat /\ last \in ends /\ \A n \in ends : n >= last
    <2>1. last \in off .. Bytes - 1
      BY <1>1
    <2>2. \A n \in off .. Bytes - 1 : m[n] = Nul => n >= last
      <3>. SUFFICES ASSUME NEW n \in off .. Bytes - 1, n < last PROVE m[n] # Nul
        OBVIOUS
      <3>1. n - off + 1 \in 1 .. Len(text) /\ off + (n - off + 1) - 1 = n
        BY <1>1
      <3>2. m[n] = text[n - off + 1]
        BY <3>1 DEF Cells
      <3>. QED BY <3>1, <3>2
    <2>3. last \in ends
      BY <2>1
    <2>4. \A n \in ends : n \in Nat /\ n >= last
      BY <1>1, <1>2, <2>1, <2>2
    <2>. HIDE DEF ends
    <2>. QED BY <2>3, <2>4
  <1>4. Min(ends) = last
    <2>. HIDE DEF ends
    <2>1. Min(ends) \in ends /\ \A k \in ends : Min(ends) <= k
      BY <1>3, LeastOf
    <2>2. last \in Nat
      OBVIOUS
    <2>. QED BY <1>3, <2>1, <2>2
  <1>5. Text(m, off) = [n \in 1 .. last - off |-> m[off + n - 1]]
    <2>. HIDE DEF last
    <2>. QED BY <1>4 DEF Text
  <1>6. last - off = Len(text) /\ \A n \in 1 .. Len(text) : m[off + n - 1] = text[n]
    BY DEF Cells
  <1>. QED BY <1>5, <1>6

Plain(text) ==
  /\ Len(text) \in Nat
  /\ text = [k \in 1 .. Len(text) |-> text[k]]
  /\ \A k \in 1 .. Len(text) : text[k] # Nul

(* The fields of a reply.                                                  *)
LEMMA FieldsAre ==
  ASSUME doc.fields \in Fields
  PROVE  /\ Count \in Nat \ {0}
         /\ \A n \in 1 .. Count :
              /\ doc.fields[n].key \in Seq(Chars) /\ doc.fields[n].value \in Seq(Chars)
              /\ Plain(doc.fields[n].key) /\ Plain(doc.fields[n].value)
              /\ doc.fields[n].quoted \in BOOLEAN
              /\ Escaped(doc.fields[n].key)
              /\ IF doc.fields[n].quoted THEN Escaped(doc.fields[n].value)
                 ELSE Bare(doc.fields[n].value)
  <1>1. PICK fs \in Fields : fs = doc.fields
    OBVIOUS
  <1>2. /\ DOMAIN fs = 1 .. Len(fs) /\ Len(fs) \in Nat
        /\ \A n \in 1 .. Len(fs) : /\ fs[n].key \in Seq(Chars)
                                   /\ fs[n].value \in Seq(Chars)
                                   /\ fs[n].quoted \in BOOLEAN
    BY TextsAre
  <1>3. /\ fs # <<>>
        /\ \A n \in DOMAIN fs :
             /\ Nul \notin Range(fs[n].key) \cup Range(fs[n].value)
             /\ Escaped(fs[n].key)
             /\ IF fs[n].quoted THEN Escaped(fs[n].value) ELSE Bare(fs[n].value)
    BY ReplyAssumption
  <1>4. Len(fs) # 0
    <2>1. fs \in Seq([key : Seq(STRING), value : Seq(STRING), quoted : BOOLEAN])
      BY TextAssumption
    <2>. QED BY <1>3, <2>1
  <1>5. ASSUME NEW t \in Seq(Chars), Nul \notin Range(t)
        PROVE  Plain(t)
    BY <1>5 DEF Range, Plain
  <1>6. \A n \in 1 .. Len(fs) : Plain(fs[n].key) /\ Plain(fs[n].value)
    BY <1>2, <1>3, <1>5
  <1>. QED BY <1>1, <1>2, <1>3, <1>4, <1>6 DEF Count

(* The table and the tokens have room for all of a reply.                  *)
LEMMA Sizes ==
  ASSUME doc.fields \in Fields
  PROVE  /\ Count \in Nat \ {0} /\ Inner \in {1, 3} /\ Total = Inner + 2 * Count
         /\ Fits => /\ s = Bytes /\ Count + 1 <= Entries /\ Total <= MaxTokens
                    /\ Bytes \in Nat /\ Entries \in Nat
  <1>1. Count \in Nat \ {0}
    BY FieldsAre
  <1>2. Inner \in {1, 3} /\ Total = Inner + 2 * Count
    BY DEF Inner, Total
  <1>3. ASSUME Fits
        PROVE  s = Bytes /\ Count < Entries /\ 2 * Count + 3 <= MaxTokens
    BY <1>3 DEF Fits, Count
  <1>4. Bytes \in Nat /\ Entries \in Nat /\ MaxTokens \in Nat
    BY Offsets, TokensAssumption
  <1>. QED BY <1>1, <1>2, <1>3, <1>4

(* What is written of a field.                                             *)
LEMMA Written ==
  ASSUME doc.fields \in Fields, NEW n \in 1 .. Count
  PROVE  /\ Plain(KeyText(n)) /\ Plain(Given(doc.fields[n]))
         /\ Len(Given(doc.fields[n])) > 0
         /\ Len(KeyText(n)) <= Len(doc.fields[n].key)
         /\ Behind(n) \in Nat /\ Behind(n) = KeyOf(n) + Len(KeyText(n)) /\ Behind(n) >= KeyOf(n)
  <1>1. Plain(doc.fields[n].key) /\ Plain(doc.fields[n].value) /\ doc.fields[n].value \in Seq(Chars)
    BY FieldsAre
  <1>2. Plain(<<>>)
    BY DEF Plain
  <1>3. Plain(<<"NULL">>) /\ Len(<<"NULL">>) = 1
    <2>1. "NULL" # Nul
      BY DEF Nul
    <2>2. Plain(<<"NULL">>) /\ Len(<<"NULL">>) = 1
      BY <2>1 DEF Plain
    <2>. QED BY <2>1, <2>2
  <1>4. Plain(KeyText(n)) /\ Len(KeyText(n)) <= Len(doc.fields[n].key)
    BY <1>1, <1>2 DEF KeyText, Plain
  <1>5. Plain(Given(doc.fields[n])) /\ Len(Given(doc.fields[n])) > 0
    <2>1. CASE doc.fields[n].value = <<>>
      BY <1>3, <2>1 DEF Given
    <2>2. CASE doc.fields[n].value # <<>>
      BY <1>1, <2>2 DEF Given, Plain
    <2>. QED BY <2>1, <2>2
  <1>6. KeyOf(n) \in Nat
    BY Offsets, FieldsAre
  <1>. QED BY <1>4, <1>5, <1>6 DEF Behind, Plain

(* An entry that is not spoilt.                                            *)
LEMMA SafeIs ==
  ASSUME doc.fields \in Fields, NEW j \in SafeOnes
  PROVE  /\ j \in 1 .. Count
         /\ Len(doc.fields[j].key) < Cap /\ Len(Given(doc.fields[j])) < Cap
         /\ Behind(j) < ValueOf(j)
         /\ HasArray => j < Count
         /\ \A k \in 1 .. j - 1 :
              /\ KeyOf(k) + Len(doc.fields[k].key) <= Behind(j)
              /\ ValueOf(k) + Len(Given(doc.fields[k])) <= Behind(j)
  <1>1. j \in 1 .. Count /\ Safe(j) /\ j \in Nat
    BY FieldsAre DEF SafeOnes
  <1>2. Len(doc.fields[j].key) < Cap /\ Len(Given(doc.fields[j])) < Cap
        /\ (HasArray => j < Count)
    BY <1>1 DEF Safe, Count, HasArray
  <1>3. Behind(j) < ValueOf(j)
    <2>1. Behind(j) = KeyOf(j) + Len(KeyText(j)) /\ Len(KeyText(j)) <= Len(doc.fields[j].key)
          /\ Len(KeyText(j)) \in Nat /\ Len(doc.fields[j].key) \in Nat
      BY <1>1, Written, FieldsAre DEF Plain
    <2>2. KeyOf(j) \in Nat /\ ValueOf(j) = KeyOf(j) + Cap /\ Cap \in Nat
      BY <1>1, Offsets
    <2>. QED BY <1>2, <2>1, <2>2
  <1>4. ASSUME NEW k \in 1 .. j - 1
        PROVE  /\ KeyOf(k) + Len(doc.fields[k].key) <= Behind(j)
               /\ ValueOf(k) + Len(Given(doc.fields[k])) <= Behind(j)
    <2>1. j # 1
      BY <1>1
    <2>2. Behind(j) = KeyOf(j) + Len(doc.fields[j].key)
      BY <2>1 DEF Behind, KeyText
    <2>. QED BY <1>1, <2>2 DEF Safe
  <1>. QED BY <1>1, <1>2, <1>3, <1>4

-----------------------------------------------------------------------------
(* A copy below or behind an entry does not change it.                     *)
LEMMA FilledStays ==
  ASSUME doc.fields \in Fields, Fits, NEW j \in SafeOnes, NEW m, NEW mm, Filled(m, j),
         \A c \in 0 .. Bytes - 1 : c < KeyOf(j + 1) => mm[c] = m[c]
  PROVE  Filled(mm, j)
  <1>1. /\ j \in 1 .. Count /\ j \in Nat /\ j + 1 \in Nat /\ j + 1 <= Entries
        /\ Len(Given(doc.fields[j])) < Cap /\ Behind(j) < ValueOf(j)
    BY SafeIs, Sizes
  <1>2. /\ Behind(j) = KeyOf(j) + Len(KeyText(j)) /\ Len(KeyText(j)) \in Nat
        /\ Len(Given(doc.fields[j])) \in Nat
    BY <1>1, Written DEF Plain
  <1>3. /\ KeyOf(j) \in Nat /\ ValueOf(j) = KeyOf(j) + Cap /\ KeyOf(j + 1) = ValueOf(j) + Cap
        /\ Cap \in Nat /\ KeyOf(j + 1) <= Bytes /\ Bytes \in Nat
    BY <1>1, Offsets
  <1>4. \A c \in KeyOf(j) .. KeyOf(j + 1) - 1 : mm[c] = m[c]
    BY <1>3
  <1>5. /\ \A k \in 1 .. Len(KeyText(j)) : KeyOf(j) + k - 1 \in KeyOf(j) .. KeyOf(j + 1) - 1
        /\ Behind(j) \in KeyOf(j) .. KeyOf(j + 1) - 1
        /\ \A k \in 1 .. Len(Given(doc.fields[j])) :
             ValueOf(j) + k - 1 \in KeyOf(j) .. KeyOf(j + 1) - 1
        /\ ValueOf(j) + Len(Given(doc.fields[j])) \in KeyOf(j) .. KeyOf(j + 1) - 1
    <2>1. PICK ka \in Nat, va \in Nat, ke \in Nat, kl \in Nat, vl \in Nat :
            /\ ka = KeyOf(j) /\ va = ValueOf(j) /\ ke = KeyOf(j + 1)
            /\ kl = Len(KeyText(j)) /\ vl = Len(Given(doc.fields[j]))
      BY <1>2, <1>3
    <2>2. ka + kl < va /\ vl < Cap /\ va = ka + Cap /\ ke = va + Cap /\ Behind(j) = ka + kl
      BY <1>1, <1>2, <1>3, <2>1
    <2>3. /\ \A k \in 1 .. kl : ka + k - 1 \in ka .. ke - 1
          /\ ka + kl \in ka .. ke - 1
          /\ \A k \in 1 .. vl : va + k - 1 \in ka .. ke - 1
          /\ va + vl \in ka .. ke - 1
      BY <1>3, <2>2
    <2>. QED BY <2>1, <2>2, <2>3
  <1>. QED BY <1>4, <1>5 DEF Filled, Cells

(* A copy below or behind an empty entry leaves it empty.                  *)
LEMMA UnfilledStays ==
  ASSUME doc.fields \in Fields, Fits, NEW j \in SafeOnes, NEW m, NEW mm, Unfilled(m, j),
         \A c \in 0 .. Bytes - 1 : c >= Behind(j) => mm[c] = m[c]
  PROVE  Unfilled(mm, j)
  <1>1. j \in 1 .. Count /\ j \in Nat /\ j + 1 \in Nat /\ j + 1 <= Entries
    BY SafeIs, Sizes
  <1>2. Behind(j) \in Nat
    BY <1>1, Written
  <1>3. KeyOf(j + 1) <= Bytes /\ KeyOf(j + 1) \in Nat /\ Bytes \in Nat
    BY <1>1, Offsets
  <1>. QED BY <1>2, <1>3 DEF Unfilled

(* The entry after one of the table.                                       *)
LEMMA ClampIs ==
  ASSUME doc.fields \in Fields, Fits, NEW n \in Nat
  PROVE  /\ n <= Count + 1 => Clamp(n) = n
         /\ n > Count => Clamp(n) \in Nat /\ Clamp(n) > Count
  <1>1. /\ Count \in Nat /\ Count < Entries /\ s = Bytes /\ Bytes \in Nat /\ Entries \in Nat \ {0}
        /\ Entries <= Bytes - Entries
    BY FieldsAre, Offsets DEF Fits, Count
  <1>. QED BY <1>1 DEF Clamp

(* Token i + 1 is put into the table.                                      *)
LEMMA TokenPut ==
  ASSUME FillEntry, i < Len(tokens)
  PROVE  /\ Put(tokens[i + 1].type, SubSeq(js, tokens[i + 1].start, tokens[i + 1].end - 1))
         /\ i' = i + 1
         /\ UNCHANGED <<jsmnVars, doc, s, ret>>
  BY DEF FillEntry

(* What each type of token does.                                           *)
LEMMA PutIs ==
  ASSUME NEW text
  PROVE  /\ Put("primitive", text) => PutValue(text)
         /\ Put("object", text) => PutObject
         /\ Put("string", text) => PutString(text)
  BY DEF Put

(* The text of a field's key and value.                                    *)
WordAt(text, at, word) == \A k \in 1 .. Len(word) : text[at + k - 1] = word[k]
CutsTo(text, at, word) == SubSeq(text, at, at + Len(word) - 1) = word

LEMMA SubText ==
  ASSUME NEW text, NEW at \in Nat, NEW word, Plain(word), WordAt(text, at, word)
  PROVE  CutsTo(text, at, word)
  <1>1. Len(word) \in Nat /\ word = [k \in 1 .. Len(word) |-> word[k]]
    BY DEF Plain
  <1>2. at + Len(word) - 1 - at + 1 = Len(word)
    BY <1>1
  <1>3. SubSeq(text, at, at + Len(word) - 1) = [k \in 1 .. Len(word) |-> text[at + k - 1]]
    BY <1>2
  <1>. QED BY <1>1, <1>3 DEF WordAt, CutsTo

PairFacts(pt, n) ==
  /\ pt[n] \in Nat /\ PairAt(pt, n) /\ pt[n + 1] \in Nat
  /\ Len(doc.fields[n].key) \in Nat /\ Len(doc.fields[n].value) \in Nat
  /\ Quoted(n) = IF doc.fields[n].quoted THEN 1 ELSE 0
  /\ ColonAt(pt, n) = pt[n] + Len(doc.fields[n].key) + 2
  /\ ValueAt(pt, n) = ColonAt(pt, n) + 1 + Quoted(n)
  /\ ValueEnd(pt, n) = ValueAt(pt, n) + Len(doc.fields[n].value)
  /\ pt[n + 1] = ValueEnd(pt, n) + Quoted(n) + 1
  /\ pt[n + 1] <= pt[Count + 1]

(* The places of a pair are in order.                                      *)
LEMMA PairPlaces ==
  ASSUME doc.fields \in Fields, NEW pt, Placed(pt), NEW n \in 1 .. Count
  PROVE  PairFacts(pt, n)
  <1>1. Count \in Nat /\ n \in Nat /\ n \in 1 .. Count + 1 /\ n + 1 \in 1 .. Count + 1
    BY Sizes
  <1>2. Len(doc.fields[n].key) \in Nat /\ Len(doc.fields[n].value) \in Nat
    BY FieldsAre DEF Plain
  <1>3. PairAt(pt, n) /\ pt[n + 1] <= pt[Count + 1]
    BY DEF Placed
  <1>4. pt \in [1 .. Count + 1 -> Nat]
    BY DEF Placed
  <1>5. pt[n] \in Nat /\ pt[n + 1] \in Nat
    BY <1>1, <1>4
  <1>6. pt[n + 1] = ValueEnd(pt, n) + Quoted(n) + 1
    BY <1>3 DEF PairAt
  <1>. QED BY <1>2, <1>3, <1>5, <1>6 DEF PairFacts, Quoted, ColonAt, ValueAt, ValueEnd

(* The text of a token of a pair.                                          *)
LEMMA TextOfToken ==
  ASSUME JsmnInv, doc.fields \in Fields, NEW pt, Placed(pt), RightTokens(pt), NEW n \in 1 .. Count
  PROVE  /\ Len(tokens) >= Inner + 2 * n - 1 =>
              LET t == tokens[Inner + 2 * n - 1]
              IN  t.type = "string" /\ SubSeq(js, t.start, t.end - 1) = doc.fields[n].key
         /\ Len(tokens) >= Inner + 2 * n =>
              LET t == tokens[Inner + 2 * n]
              IN  /\ t.type \in {"string", "primitive"}
                  /\ SubSeq(js, t.start, t.end - 1) = doc.fields[n].value
  <1>1. Count \in Nat /\ n \in Nat /\ n >= 1 /\ Inner \in {1, 3} /\ Len(tokens) \in Nat
    BY Sizes DEF JsmnInv
  <1>0. PairFacts(pt, n)
    BY PairPlaces
  <1>2. PICK k \in Nat, v \in Nat, c \in Nat, a \in Nat, e \in Nat :
          /\ k = pt[n] + 1 /\ c = ColonAt(pt, n) /\ a = ValueAt(pt, n) /\ e = ValueEnd(pt, n)
          /\ c - 1 - 1 = k + Len(doc.fields[n].key) - 1
          /\ e - 1 = a + Len(doc.fields[n].value) - 1
    <2>1. PICK p \in Nat, kl \in Nat, vl \in Nat, q \in Nat :
            /\ p = pt[n] /\ kl = Len(doc.fields[n].key) /\ vl = Len(doc.fields[n].value)
            /\ q = Quoted(n)
      BY <1>0 DEF PairFacts
    <2>2. /\ ColonAt(pt, n) = p + kl + 2
          /\ ValueAt(pt, n) = ColonAt(pt, n) + 1 + q /\ ValueEnd(pt, n) = ValueAt(pt, n) + vl
      BY <1>0, <2>1 DEF PairFacts
    <2>3. /\ p + 1 \in Nat /\ ColonAt(pt, n) \in Nat /\ ValueAt(pt, n) \in Nat
          /\ ValueEnd(pt, n) \in Nat
          /\ ColonAt(pt, n) - 1 - 1 = (p + 1) + kl - 1
          /\ ValueEnd(pt, n) - 1 = ValueAt(pt, n) + vl - 1
      BY <2>2
    <2>. QED BY <2>1, <2>3
  <1>3. Plain(doc.fields[n].key) /\ Plain(doc.fields[n].value)
    BY FieldsAre
  <1>4. SubSeq(js, k, c - 1 - 1) = doc.fields[n].key
    <2>1. pt[n] \in Nat /\ \A x \in 1 .. Len(doc.fields[n].key) : js[pt[n] + x] = doc.fields[n].key[x]
      BY <1>0 DEF PairFacts, PairAt
    <2>4. PICK w : w = doc.fields[n].key
      OBVIOUS
    <2>5. PICK p \in Nat : p = pt[n]
      BY <2>1
    <2>2. w = doc.fields[n].key /\ p = pt[n] /\ k = p + 1
      BY <1>2, <2>4, <2>5
    <2>3. SubSeq(js, k, k + Len(w) - 1) = w
      <3>1. \A x \in 1 .. Len(w) : k + x - 1 = p + x
        BY <2>2
      <3>2. Plain(w) /\ \A x \in 1 .. Len(w) : js[p + x] = w[x]
        BY <1>3, <2>1, <2>2, Zenon
      <3>3. WordAt(js, k, w)
        BY <3>1, <3>2 DEF WordAt
      <3>4. CutsTo(js, k, w)
        BY <3>2, <3>3, SubText
      <3>. QED BY <3>4 DEF CutsTo
    <2>. QED BY <1>2, <2>2, <2>3
  <1>5. SubSeq(js, a, e - 1) = doc.fields[n].value
    <2>1. \A x \in 1 .. Len(doc.fields[n].value) : js[a + x - 1] = doc.fields[n].value[x]
      BY <1>0, <1>2 DEF PairFacts, PairAt
    <2>2. SubSeq(js, a, a + Len(doc.fields[n].value) - 1) = doc.fields[n].value
      <3>1. PICK w : w = doc.fields[n].value
        OBVIOUS
      <3>2. Plain(w) /\ \A x \in 1 .. Len(w) : js[a + x - 1] = w[x]
        BY <1>3, <2>1, <3>1
      <3>3. CutsTo(js, a, w)
        BY <3>2, SubText DEF WordAt
      <3>. QED BY <3>1, <3>3 DEF CutsTo
    <2>. QED BY <1>2, <2>2
  <1>6. ASSUME Len(tokens) >= Inner + 2 * n - 1
        PROVE  LET t == tokens[Inner + 2 * n - 1]
               IN  t.type = "string" /\ t.start = k /\ t.end = c - 1
    <2>1. PICK x \in 1 .. Len(tokens) : x = Inner + 2 * n - 1
      BY <1>1, <1>6
    <2>2. RightToken(pt, x, tokens[x])
      BY DEF RightTokens
    <2>. QED BY <1>2, <2>1, <2>2 DEF RightToken
  <1>7. ASSUME Len(tokens) >= Inner + 2 * n
        PROVE  LET t == tokens[Inner + 2 * n]
               IN  t.type \in {"string", "primitive"} /\ t.start = a /\ t.end = e
    <2>1. PICK x \in 1 .. Len(tokens) : x = Inner + 2 * n
      BY <1>1, <1>7
    <2>2. RightToken(pt, x, tokens[x])
      BY DEF RightTokens
    <2>. QED BY <1>2, <2>1, <2>2 DEF RightToken
  <1>. QED BY <1>4, <1>5, <1>6, <1>7

(* What depends on the reply alone stays.                                  *)
LEMMA SameFields ==
  ASSUME UNCHANGED doc
  PROVE  /\ Count' = Count /\ Inner' = Inner /\ Total' = Total /\ SafeOnes' = SafeOnes
         /\ \A n : Around(mem, n)' <=> Around(mem', n)
         /\ \A n : Unfilled(mem, n)' <=> Unfilled(mem', n)
         /\ \A n : Keyed(mem, n)' <=> Keyed(mem', n)
  <1>1. Count' = Count /\ Inner' = Inner /\ Total' = Total
    BY DEF Count, Inner, Total
  <1>2. \A j : Safe(j)' <=> Safe(j)
    BY DEF Safe
  <1>3. SafeOnes' = SafeOnes
    BY <1>1, <1>2 DEF SafeOnes
  <1>4. \A j : KeyText(j)' = KeyText(j) /\ Behind(j)' = Behind(j)
    BY DEF KeyText, Behind
  <1>5. \A j : Unfilled(mem, j)' <=> Unfilled(mem', j)
    BY <1>4 DEF Unfilled
  <1>6. \A j : Keyed(mem, j)' <=> Keyed(mem', j)
    BY <1>4, <1>5 DEF Keyed
  <1>7. \A j : Filled(mem, j)' <=> Filled(mem', j)
    BY <1>4 DEF Filled
  <1>8. \A n : Around(mem, n)' <=> Around(mem', n)
    BY <1>3, <1>5, <1>7 DEF Around
  <1>. QED BY <1>1, <1>3, <1>5, <1>6, <1>8

(* A reply in the text, which the tokenizer has accepted.                  *)
Reply == /\ JsmnInv /\ Fits
         /\ doc.fields \in Fields /\ doc.nested \in BOOLEAN

(* The table is filled of a reply that was accepted.                       *)
LEMMA FillTokens ==
  ASSUME Reply, NEW pt, Placed(pt), Lexed(pt), Filling, FillEntry
  PROVE  /\ i < Len(tokens) /\ RightTokens(pt) /\ Len(tokens) \in Nat
         /\ parsed = "ok" /\ Len(tokens) >= Total /\ TailTokens(tokens)
         /\ doc.tail = <<>> => Len(tokens) = Total
         /\ Put(tokens[i + 1].type, SubSeq(js, tokens[i + 1].start, tokens[i + 1].end - 1))
         /\ i' = i + 1 /\ ret = Pending
         /\ UNCHANGED <<js, parsed, tokens, doc, s, ret>>
  <1>1. parsed = "ok"
    BY DEF FillEntry, Parsed, IsObject
  <1>2. /\ Len(tokens) >= Total /\ (doc.tail = <<>> => Len(tokens) = Total) /\ RightTokens(pt)
        /\ TailTokens(tokens)
    BY <1>1 DEF Lexed
  <1>3. i < Len(tokens) /\ Len(tokens) \in Nat
    <2>1. Total \in Nat /\ Total >= 3 /\ Len(tokens) \in Nat
      BY Sizes DEF Reply, JsmnInv
    <2>. QED BY <1>2, <2>1 DEF FillEntry
  <1>4. ret = Pending
    BY DEF FillEntry, Parsed
  <1>. QED BY <1>1, <1>2, <1>3, <1>4, TokenPut DEF jsmnVars

(* The object is named.                                                    *)
LEMMA NamePut ==
  ASSUME Reply, NEW pt, Placed(pt), Lexed(pt), Filling, FillEntry, i = 1,
         ro = 0, key = "object", \A c \in 0 .. Bytes - 1 : mem[c] = Nul
  PROVE  Progress'
  <1>. DEFINE t == tokens[2]
              text == SubSeq(js, t.start, t.end - 1)
  <1>0. /\ Len(tokens) >= Total /\ RightTokens(pt) /\ Len(tokens) \in Nat
        /\ Put(t.type, text) /\ i' = 2 /\ doc' = doc
    BY FillTokens
  <1>1. Count \in Nat \ {0} /\ Inner \in {1, 3} /\ Total = Inner + 2 * Count /\ (Inner = 3 <=> doc.nested)
    BY Sizes DEF Reply, Inner
  <1>2. /\ t.type = "string" /\ Len(text) \in Nat
        /\ IF doc.nested THEN Len(text) = 1 ELSE text = doc.fields[1].key
    <2>1. CASE doc.nested
      <3>1. 2 \in 1 .. Len(tokens)
        BY <1>0, <1>1
      <3>2. t.type = "string" /\ t.start = 3 /\ t.end = 4
        BY <1>0, <2>1, <3>1 DEF RightTokens, RightToken
      <3>3. Len(SubSeq(js, 3, 3)) = 1
        OBVIOUS
      <3>. QED BY <2>1, <3>2, <3>3
    <2>2. CASE ~doc.nested
      <3>1. 1 \in 1 .. Count /\ Inner + 2 * 1 - 1 = 2 /\ Len(tokens) >= 2
        BY <1>0, <1>1, <2>2
      <3>2. t.type = "string" /\ text = doc.fields[1].key
        BY <1>0, <3>1, TextOfToken DEF Reply
      <3>3. Len(doc.fields[1].key) \in Nat
        BY <3>1, FieldsAre DEF Reply, Plain
      <3>. QED BY <2>2, <3>2, <3>3
    <2>. QED BY <2>1, <2>2
  <1>. HIDE DEF t, text
  <1>3. PutString(text)
    BY <1>0, <1>2, PutIs
  <1>. DEFINE named == CopyZ(mem, KeyOf(0), <<"OBJECT">>)
  <1>4. /\ key' = "value" /\ ro' = 1 /\ mem' = Copy(named, ValueOf(0), text)
    BY <1>3 DEF PutString
  <1>5. ValueOf(0) = Cap /\ KeyOf(0) = 0 /\ KeyOf(1) = Cap + Cap /\ Cap \in Nat /\ Cap >= 1
    BY Offsets
  <1>6. \A c \in 0 .. Bytes - 1 : c >= 2 => named[c] = Nul
    <2>1. Len(Append(<<"OBJECT">>, Nul)) = 2
      OBVIOUS
    <2>2. \A c \in 0 .. Bytes - 1 : c >= 0 + 2 => named[c] = mem[c]
      <3>1. Copied(Copy(mem, 0, Append(<<"OBJECT">>, Nul)), mem, 0, Append(<<"OBJECT">>, Nul))
        BY <2>1, CopyIs
      <3>. QED BY <1>5, <2>1, <3>1 DEF Copied, CopyZ
    <2>. QED BY <2>2
  <1>. HIDE DEF named
  <1>7. \A c \in 0 .. Bytes - 1 : c >= 2 /\ c >= Cap + Len(text) => mem'[c] = Nul
    <2>1. \A c \in 0 .. Bytes - 1 : c >= Cap + Len(text) => Copy(named, Cap, text)[c] = named[c]
      <3>1. Copied(Copy(named, Cap, text), named, Cap, text)
        BY <1>2, <1>5, CopyIs
      <3>. QED BY <3>1 DEF Copied
    <2>. QED BY <1>4, <1>5, <1>6, <2>1
  <1>8. ASSUME NEW j \in SafeOnes
        PROVE  Unfilled(mem', j)
    <2>1. /\ j \in 1 .. Count /\ Behind(j) \in Nat /\ Behind(j) >= KeyOf(j)
          /\ Len(doc.fields[j].key) < Cap
      BY SafeIs, Written DEF Reply
    <2>2. j >= 1 /\ KeyOf(j) >= Cap + Cap /\ KeyOf(j) \in Nat
      BY <1>1, <1>5, <2>1, Offsets
    <2>3. Behind(j) >= Cap + Len(text)
      <3>1. CASE doc.nested
        <4>1. Len(text) = 1
          BY <1>2, <3>1
        <4>. QED BY <1>5, <2>1, <2>2, <4>1
      <3>2. CASE ~doc.nested /\ j = 1
        BY <1>2, <1>5, <2>1, <2>2, <3>2
      <3>3. CASE ~doc.nested /\ j # 1
        <4>1. 1 \in 1 .. j - 1
          BY <2>2, <3>3, <2>1
        <4>2. KeyOf(1) + Len(doc.fields[1].key) <= Behind(j)
          BY <4>1, SafeIs DEF Reply
        <4>. QED BY <1>2, <1>5, <2>1, <3>3, <4>2
      <3>. QED BY <3>1, <3>2, <3>3
    <2>4. j + 1 <= Entries /\ j + 1 \in Nat /\ Entries \in Nat /\ Bytes \in Nat
      BY <1>1, <2>1, Sizes DEF Reply
    <2>5. KeyOf(j + 1) <= Bytes /\ KeyOf(j + 1) \in Nat
      BY <2>4, Offsets
    <2>6. ASSUME NEW c \in Behind(j) .. KeyOf(j + 1) - 1
          PROVE  mem'[c] = Nul
      <3>1. c \in 0 .. Bytes - 1 /\ c >= 2 /\ c >= Cap + Len(text)
        BY <1>2, <1>5, <2>1, <2>2, <2>3, <2>4, <2>5
      <3>. QED BY <1>7, <3>1
    <2>. QED BY <2>6 DEF Unfilled
  <1>9. \A n \in {0, 1} : Around(mem', n)
    <2>1. \A j \in SafeOnes : j \in Nat /\ j >= 1
      BY <1>1 DEF SafeOnes
    <2>. QED BY <1>8, <2>1 DEF Around
  <1>10. CASE doc.nested
    BY <1>0, <1>4, <1>9, <1>10, SameFields DEF Progress
  <1>11. CASE ~doc.nested
    <2>1. 1 \in SafeOnes => Keyed(mem', 1)
      <3>1. Cells(mem', KeyOf(1), KeyText(1))
        BY <1>11 DEF Cells, KeyText
      <3>. QED BY <1>8, <3>1 DEF Keyed
    <2>2. 1 \in 1 .. Count /\ 2 = Inner + 2 * 1 - 1
      BY <1>1, <1>11
    <2>. QED BY <1>0, <1>4, <1>9, <2>1, <2>2, SameFields DEF Progress
  <1>. QED BY <1>10, <1>11

(* The object of the fields begins.                                        *)
LEMMA ObjectPut ==
  ASSUME Reply, NEW pt, Placed(pt), Lexed(pt), Filling, FillEntry,
         doc.nested, i = 2, ro = 1, Around(mem, 0)
  PROVE  Progress'
  <1>0. /\ Len(tokens) >= Total /\ RightTokens(pt) /\ Len(tokens) \in Nat
        /\ Put(tokens[3].type, SubSeq(js, tokens[3].start, tokens[3].end - 1))
        /\ i' = 3 /\ doc' = doc
    BY FillTokens
  <1>1. Count \in Nat \ {0} /\ Inner = 3 /\ Total = Inner + 2 * Count
    BY Sizes DEF Reply, Inner
  <1>2. tokens[3].type = "object"
    <2>1. 3 \in 1 .. Len(tokens)
      BY <1>0, <1>1
    <2>. QED BY <1>0, <1>1, <2>1 DEF RightTokens, RightToken
  <1>3. key' = "key" /\ UNCHANGED <<mem, ro>>
    BY <1>0, <1>2, PutIs DEF PutObject
  <1>4. \A j \in SafeOnes : j \in Nat /\ j >= 1
    BY <1>1 DEF SafeOnes
  <1>5. Around(mem', 1) /\ (1 \in SafeOnes => Unfilled(mem', 1))
    BY <1>3, <1>4 DEF Around
  <1>6. 1 \in 1 .. Count /\ 3 = Inner + 2 * 1 - 2
    BY <1>1
  <1>. QED BY <1>0, <1>3, <1>5, <1>6, SameFields DEF Progress

(* A key is put into its entry.                                            *)
LEMMA KeyPut ==
  ASSUME Reply, NEW pt, Placed(pt), Lexed(pt), Filling, FillEntry,
         NEW n \in 1 .. Count, i = Inner + 2 * n - 2, i > 1, ro = n, key = "key",
         Around(mem, n), n \in SafeOnes => Unfilled(mem, n)
  PROVE  Progress'
  <1>. DEFINE t == tokens[i + 1]
              text == SubSeq(js, t.start, t.end - 1)
  <1>0. /\ Len(tokens) >= Total /\ RightTokens(pt) /\ Len(tokens) \in Nat
        /\ Put(t.type, text) /\ i' = i + 1 /\ doc' = doc /\ i < Len(tokens)
    BY FillTokens
  <1>1. /\ Count \in Nat \ {0} /\ Inner \in {1, 3} /\ Total = Inner + 2 * Count /\ n \in Nat /\ n >= 1
        /\ (Inner = 3 <=> doc.nested) /\ n + 1 \in Nat /\ n + 1 <= Entries
    BY Sizes DEF Reply, Inner
  <1>2. t.type = "string" /\ text = doc.fields[n].key
    <2>1. i + 1 = Inner + 2 * n - 1 /\ Len(tokens) >= Inner + 2 * n - 1
      BY <1>0, <1>1
    <2>. QED BY <1>0, <2>1, TextOfToken DEF Reply
  <1>. HIDE DEF t, text
  <1>3. key' = "value" /\ mem' = Copy(mem, KeyOf(n), text) /\ ro' = n
    BY <1>0, <1>2, PutIs DEF PutString
  <1>4. KeyText(n) = text
    <2>1. ~(n = 1 /\ ~doc.nested)
      BY <1>1
    <2>. QED BY <1>2, <2>1 DEF KeyText
  <1>5. /\ KeyOf(n) \in Nat /\ KeyOf(n + 1) <= Bytes /\ Bytes \in Nat /\ Len(text) \in Nat
        /\ KeyOf(n + 1) = KeyOf(n) + Cap + Cap /\ Cap \in Nat
    BY <1>1, <1>2, Offsets, FieldsAre DEF Reply, Plain
  <1>6. Copied(mem', mem, KeyOf(n), text)
    BY <1>3, <1>5, CopyIs
  <1>7. ASSUME NEW j \in SafeOnes, j < n
        PROVE  Filled(mem', j)
    <2>1. j \in Nat /\ j + 1 \in Nat /\ j + 1 <= n
      BY <1>1, <1>7 DEF SafeOnes
    <2>2. KeyOf(j + 1) <= KeyOf(n) /\ KeyOf(j + 1) \in Nat
      BY <1>1, <2>1, Offsets
    <2>3. \A c \in 0 .. Bytes - 1 : c < KeyOf(j + 1) => mem'[c] = mem[c]
      BY <1>5, <1>6, <2>2 DEF Copied
    <2>4. Filled(mem, j)
      BY <1>7 DEF Around
    <2>. QED BY <2>3, <2>4, FilledStays DEF Reply
  <1>8. ASSUME NEW j \in SafeOnes, j >= n
        PROVE  Unfilled(mem', j)
    <2>1. j \in 1 .. Count /\ Behind(j) \in Nat
      BY SafeIs, Written DEF Reply
    <2>2. Behind(j) >= KeyOf(n) + Len(text)
      <3>1. CASE j = n
        BY <1>4, <1>5, <3>1 DEF Behind
      <3>2. CASE j # n
        <4>1. n \in 1 .. j - 1
          BY <1>1, <1>8, <2>1, <3>2
        <4>. QED BY <1>2, <4>1, SafeIs DEF Reply
      <3>. QED BY <3>1, <3>2
    <2>3. \A c \in 0 .. Bytes - 1 : c >= Behind(j) => mem'[c] = mem[c]
      <3>. SUFFICES ASSUME NEW c \in 0 .. Bytes - 1, c >= Behind(j) PROVE mem'[c] = mem[c]
        OBVIOUS
      <3>1. c >= KeyOf(n) + Len(text)
        BY <1>5, <2>1, <2>2
      <3>. QED BY <1>6, <3>1 DEF Copied
    <2>4. Unfilled(mem, j)
      <3>1. CASE j = n
        BY <3>1
      <3>2. CASE j # n
        <4>1. j > n
          BY <1>1, <1>8, <2>1, <3>2
        <4>. QED BY <4>1 DEF Around
      <3>. QED BY <3>1, <3>2
    <2>. QED BY <2>3, <2>4, UnfilledStays DEF Reply
  <1>9. Around(mem', n)
    <2>1. \A j \in SafeOnes : j > n => j >= n
      BY <1>1 DEF SafeOnes
    <2>. QED BY <1>7, <1>8, <2>1 DEF Around
  <1>10. n \in SafeOnes => Keyed(mem', n)
    <2>. SUFFICES ASSUME n \in SafeOnes PROVE Keyed(mem', n)
      OBVIOUS
    <2>1. Unfilled(mem', n)
      BY <1>1, <1>8
    <2>2. Len(text) < Cap
      BY <1>2, SafeIs DEF Reply
    <2>3. KeyOf(n) + Len(text) <= Bytes
      BY <1>5, <2>2
    <2>. QED BY <1>4, <1>6, <2>1, <2>3 DEF Keyed, Copied
  <1>11. i + 1 = Inner + 2 * n - 1
    BY <1>1
  <1>. QED BY <1>0, <1>3, <1>9, <1>10, <1>11, SameFields DEF Progress

(* A value is put into its entry.                                          *)
LEMMA ValuePut ==
  ASSUME Reply, NEW pt, Placed(pt), Lexed(pt), Filling, FillEntry,
         NEW n \in 1 .. Count, i = Inner + 2 * n - 1, ro = n, key = "value",
         Around(mem, n), n \in SafeOnes => Keyed(mem, n)
  PROVE  Progress'
  <1>. DEFINE t == tokens[i + 1]
              text == SubSeq(js, t.start, t.end - 1)
              given == Given(doc.fields[n])
  <1>0. /\ Len(tokens) >= Total /\ RightTokens(pt) /\ Len(tokens) \in Nat
        /\ Put(t.type, text) /\ i' = i + 1 /\ doc' = doc /\ i < Len(tokens)
    BY FillTokens
  <1>1. /\ Count \in Nat \ {0} /\ Inner \in {1, 3} /\ Total = Inner + 2 * Count /\ n \in Nat /\ n >= 1
        /\ n + 1 \in Nat /\ n + 1 <= Entries /\ n <= Count
    BY Sizes DEF Reply
  <1>2. t.type \in {"string", "primitive"} /\ text = doc.fields[n].value
    <2>1. i + 1 = Inner + 2 * n /\ Len(tokens) >= Inner + 2 * n
      BY <1>0, <1>1
    <2>. QED BY <1>0, <2>1, TextOfToken DEF Reply
  <1>. HIDE DEF t, text
  <1>3. PutValue(text)
    BY <1>0, <1>2, PutIs DEF PutString
  <1>4. /\ mem' = Copy(mem, ValueOf(n), given) /\ ro' = n + 1 /\ key' = "key"
    <2>1. Clamp(n + 1) = n + 1
      BY <1>1, ClampIs DEF Reply
    <2>. QED BY <1>2, <1>3, <2>1 DEF PutValue, Given
  <1>5. Plain(given) /\ Len(given) \in Nat
    BY Written DEF Reply, Plain
  <1>. HIDE DEF given
  <1>6. /\ KeyOf(n) \in Nat /\ ValueOf(n) = KeyOf(n) + Cap /\ KeyOf(n + 1) = ValueOf(n) + Cap
        /\ KeyOf(n + 1) <= Bytes /\ Bytes \in Nat /\ Cap \in Nat /\ ValueOf(n) \in Nat
    <2>1. KeyOf(n) \in Nat /\ ValueOf(n) = KeyOf(n) + Cap /\ KeyOf(n + 1) = KeyOf(n) + Cap + Cap
          /\ Cap \in Nat
      BY <1>1, Offsets
    <2>2. KeyOf(n + 1) <= Bytes /\ Bytes \in Nat
      BY <1>1, Offsets
    <2>. QED BY <2>1, <2>2
  <1>7. Copied(mem', mem, ValueOf(n), given)
    BY <1>4, <1>5, <1>6, CopyIs
  <1>8. ASSUME NEW j \in SafeOnes, j < n
        PROVE  Filled(mem', j)
    <2>1. j \in Nat /\ j + 1 \in Nat /\ j + 1 <= n
      BY <1>1, <1>8 DEF SafeOnes
    <2>2. KeyOf(j + 1) <= KeyOf(n) /\ KeyOf(j + 1) \in Nat
      BY <1>1, <2>1, Offsets
    <2>3. \A c \in 0 .. Bytes - 1 : c < KeyOf(j + 1) => mem'[c] = mem[c]
      BY <1>6, <1>7, <2>2 DEF Copied
    <2>4. Filled(mem, j)
      BY <1>8 DEF Around
    <2>. QED BY <2>3, <2>4, FilledStays DEF Reply
  <1>9. ASSUME n \in SafeOnes
        PROVE  Filled(mem', n)
    <2>1. /\ Len(given) < Cap /\ Behind(n) < ValueOf(n) /\ Behind(n) \in Nat
          /\ Behind(n) = KeyOf(n) + Len(KeyText(n)) /\ Len(KeyText(n)) \in Nat
      BY <1>9, SafeIs, Written DEF Reply, Plain, given
    <2>0. /\ ValueOf(n) + Len(given) \in 0 .. Bytes - 1
          /\ Behind(n) \in Behind(n) .. KeyOf(n + 1) - 1
          /\ ValueOf(n) + Len(given) \in Behind(n) .. KeyOf(n + 1) - 1
      <3>0. KeyOf(n + 1) \in Nat
        BY <1>6
      <3>1. PICK v \in Nat, g \in Nat, d \in Nat, w \in Nat, b \in Nat :
              /\ v = ValueOf(n) /\ g = Len(given) /\ d = Behind(n)
              /\ w = KeyOf(n + 1) /\ b = Bytes
        BY <1>5, <1>6, <2>1, <3>0, Zenon
      <3>2. w = v + Cap /\ w <= b /\ g < Cap /\ d < v /\ Cap \in Nat
        BY <1>6, <2>1, <3>1, Zenon
      <3>3. v + g \in 0 .. b - 1 /\ d \in d .. w - 1 /\ v + g \in d .. w - 1
        BY <3>2
      <3>. QED BY <3>1, <3>3
    <2>2. /\ \A c \in KeyOf(n) .. ValueOf(n) - 1 : mem'[c] = mem[c]
          /\ mem'[ValueOf(n) + Len(given)] = mem[ValueOf(n) + Len(given)]
          /\ Cells(mem', ValueOf(n), given)
      <3>1. ValueOf(n) + Len(given) \in 0 .. Bytes - 1
        BY <2>0
      <3>2. \A c \in KeyOf(n) .. ValueOf(n) - 1 : c \in 0 .. Bytes - 1 /\ c < ValueOf(n)
        BY <1>6
      <3>. QED BY <1>5, <1>6, <1>7, <3>1, <3>2 DEF Copied
    <2>3. mem[Behind(n)] = Nul /\ mem[ValueOf(n) + Len(given)] = Nul
      <3>1. Behind(n) \in Behind(n) .. KeyOf(n + 1) - 1
            /\ ValueOf(n) + Len(given) \in Behind(n) .. KeyOf(n + 1) - 1
        BY <2>0
      <3>. QED BY <1>9, <3>1 DEF Keyed, Unfilled
    <2>4. Behind(n) \in KeyOf(n) .. ValueOf(n) - 1
      BY <1>6, <2>1
    <2>5. Cells(mem', KeyOf(n), KeyText(n))
      <3>. SUFFICES ASSUME NEW k \in 1 .. Len(KeyText(n))
                    PROVE  mem'[KeyOf(n) + k - 1] = KeyText(n)[k]
        BY DEF Cells
      <3>1. KeyOf(n) + k - 1 \in KeyOf(n) .. ValueOf(n) - 1
        <4>1. PICK a \in Nat, v \in Nat, l \in Nat : a = KeyOf(n) /\ v = ValueOf(n) /\ l = Len(KeyText(n))
          BY <1>6, <2>1, Zenon
        <4>2. a + l < v /\ k \in 1 .. l
          BY <2>1, <4>1
        <4>3. a + k - 1 \in a .. v - 1
          BY <4>2
        <4>. QED BY <4>1, <4>3
      <3>2. mem[KeyOf(n) + k - 1] = KeyText(n)[k]
        BY <1>9 DEF Keyed, Cells
      <3>. QED BY <2>2, <3>1, <3>2
    <2>. QED BY <2>2, <2>3, <2>4, <2>5 DEF Filled, given
  <1>10. ASSUME NEW j \in SafeOnes, j > n
         PROVE  Unfilled(mem', j)
    <2>1. j \in 1 .. Count /\ Behind(j) \in Nat /\ n \in 1 .. j - 1
      BY <1>1, <1>10, SafeIs, Written DEF Reply
    <2>2. Behind(j) >= ValueOf(n) + Len(given)
      BY <2>1, SafeIs DEF Reply, given
    <2>3. \A c \in 0 .. Bytes - 1 : c >= Behind(j) => mem'[c] = mem[c]
      <3>. SUFFICES ASSUME NEW c \in 0 .. Bytes - 1, c >= Behind(j) PROVE mem'[c] = mem[c]
        OBVIOUS
      <3>1. c >= ValueOf(n) + Len(given)
        BY <1>5, <1>6, <2>1, <2>2
      <3>. QED BY <1>7, <3>1 DEF Copied
    <2>4. Unfilled(mem, j)
      BY <1>10 DEF Around
    <2>. QED BY <2>3, <2>4, UnfilledStays DEF Reply
  <1>11. Around(mem', n + 1) /\ (n + 1 \in SafeOnes => Unfilled(mem', n + 1))
    <2>1. \A j \in SafeOnes : j \in Nat /\ (j < n + 1 => j < n \/ j = n) /\ (j > n + 1 => j > n)
      BY <1>1 DEF SafeOnes
    <2>2. n + 1 > n
      BY <1>1
    <2>. QED BY <1>8, <1>9, <1>10, <2>1, <2>2 DEF Around
  <1>12. CASE n = Count
    <2>1. i + 1 = Total /\ n + 1 > Count /\ i + 1 >= Total
      BY <1>1, <1>12
    <2>. QED BY <1>0, <1>4, <1>11, <1>12, <2>1, SameFields DEF Progress
  <1>13. CASE n # Count
    <2>1. n + 1 \in 1 .. Count /\ i + 1 = Inner + 2 * (n + 1) - 2 /\ i + 1 > 1
      BY <1>1, <1>13
    <2>. QED BY <1>0, <1>4, <1>11, <2>1, SameFields DEF Progress
  <1>. QED BY <1>12, <1>13

(* Whatever follows the reply is put behind it, or an array into the last  *)
(* entry.                                                                    *)
LEMMA TailPut ==
  ASSUME Reply, NEW pt, Placed(pt), Lexed(pt), Filling, FillEntry,
         i >= Total, ro \in Nat, ro > Count, Around(mem, Count + 1)
  PROVE  Progress'
  <1>. DEFINE t == tokens[i + 1]
              text == SubSeq(js, t.start, t.end - 1)
  <1>0. /\ Len(tokens) >= Total /\ RightTokens(pt) /\ Len(tokens) \in Nat
        /\ Put(t.type, text) /\ i' = i + 1 /\ doc' = doc /\ i < Len(tokens)
        /\ (doc.tail = <<>> => Len(tokens) = Total) /\ TailTokens(tokens)
    BY FillTokens
  <1>1. /\ Count \in Nat \ {0} /\ Inner \in {1, 3} /\ Total = Inner + 2 * Count
        /\ ro \in Nat /\ i \in Nat /\ i # 1 /\ ro - 1 \in Nat /\ ro - 1 >= Count
    BY Sizes DEF Reply, Filling
  <1>2. t.type = "array" => HasArray
    <2>1. i + 1 \in 1 .. Len(tokens) /\ i + 1 > Total
      BY <1>0, <1>1
    <2>. QED BY <1>0, <2>1 DEF TailTokens
  <1>. HIDE DEF t, text
  <1>3. /\ KeyOf(Count) \in Nat /\ KeyOf(Count + 1) \in Nat /\ KeyOf(ro) \in Nat
        /\ KeyOf(ro) >= KeyOf(Count) /\ KeyOf(ro) >= KeyOf(Count + 1)
        /\ ValueOf(ro) = KeyOf(ro) + Cap /\ Cap \in Nat
    <2>1. /\ KeyOf(Count) \in Nat /\ KeyOf(ro) \in Nat /\ ValueOf(ro) = KeyOf(ro) + Cap /\ Cap \in Nat
          /\ Count + 1 \in Nat /\ ro >= Count + 1
      <3>1. Count \in Nat /\ ro \in Nat /\ Count + 1 \in Nat /\ ro >= Count + 1
        BY <1>1
      <3>. QED BY <3>1, Offsets
    <2>2. KeyOf(ro) >= KeyOf(Count)
      BY <1>1, <2>1, Offsets
    <2>3. KeyOf(Count + 1) \in Nat /\ KeyOf(ro) >= KeyOf(Count + 1)
      BY <1>1, <2>1, Offsets
    <2>. QED BY <2>1, <2>2, <2>3
  <1>4. /\ KeyOf(ro - 1) \in Nat /\ KeyOf(ro - 1) >= KeyOf(Count)
        /\ ValueOf(ro - 1) = KeyOf(ro - 1) + Cap
    BY <1>1, Offsets
  <1>5. ASSUME NEW low \in Nat, NEW m, NEW off \in Nat, off >= low, NEW w
        PROVE  \A c \in 0 .. Bytes - 1 : c < low =>
                 Copy(m, off, w)[c] = m[c] /\ CopyZ(m, off, w)[c] = m[c]
    <2>. SUFFICES ASSUME NEW c \in 0 .. Bytes - 1, c < low
                  PROVE  Copy(m, off, w)[c] = m[c] /\ CopyZ(m, off, w)[c] = m[c]
      OBVIOUS
    <2>1. \A v : c \notin off .. off + Len(v) - 1
      <3>1. c < off /\ c \in Int
        BY <1>5
      <3>. QED BY <3>1
    <2>2. \A v : Copy(m, off, v)[c] = m[c]
      BY <2>1 DEF Copy
    <2>. QED BY <2>2 DEF CopyZ
  <1>. DEFINE low == IF t.type = "array" THEN KeyOf(Count) ELSE KeyOf(Count + 1)
  <1>10. low \in Nat /\ KeyOf(ro) >= low
    BY <1>3
  <1>6. /\ \A c \in 0 .. Bytes - 1 : c < low => mem'[c] = mem[c]
        /\ ro' \in Nat /\ ro' > Count
    <2>1. CASE PutValue(text)
      <3>. HIDE DEF low
      <3>1. ro' \in Nat /\ ro' > Count
        <4>1. ro + 1 \in Nat /\ ro + 1 > Count
          BY <1>1
        <4>2. Clamp(ro + 1) \in Nat /\ Clamp(ro + 1) > Count
          BY <4>1, ClampIs DEF Reply
        <4>. QED BY <2>1, <4>2 DEF PutValue
      <3>2. ValueOf(ro) \in Nat /\ ValueOf(ro) >= low
        BY <1>3, <1>10
      <3>. QED BY <1>5, <1>10, <2>1, <3>1, <3>2 DEF PutValue
    <2>2. CASE PutObject \/ UNCHANGED <<mem, ro, key>>
      BY <1>1, <2>2 DEF PutObject
    <2>3. CASE PutString(text) /\ key # "value"
      <3>. HIDE DEF low
      <3>1. mem' = Copy(mem, KeyOf(ro), text) /\ ro' = ro
        BY <1>1, <2>3 DEF PutString
      <3>. QED BY <1>1, <1>3, <1>5, <1>10, <3>1
    <2>4. CASE t.type = "array" /\ PutArray
      <3>. DEFINE name == Text(mem, KeyOf(ro))
                  m1 == CopyZ(mem, ValueOf(ro - 1), name)
                  m2 == CopyZ(m1, KeyOf(ro - 1), <<"ARRAY">>)
                  w == [n \in 1 .. Len(Text(m2, KeyOf(ro))) |-> Nul]
      <3>1. mem' = Copy(m2, KeyOf(ro), w) /\ ro' = ro /\ low = KeyOf(Count)
        BY <2>4 DEF PutArray
      <3>. HIDE DEF low
      <3>2. /\ ValueOf(ro - 1) \in Nat /\ ValueOf(ro - 1) >= low
            /\ KeyOf(ro - 1) >= low
        BY <1>3, <1>4, <3>1
      <3>. HIDE DEF name, w
      <3>3. \A c \in 0 .. Bytes - 1 : c < low => m1[c] = mem[c]
        BY <1>5, <1>10, <3>2
      <3>. HIDE DEF m1
      <3>4. \A c \in 0 .. Bytes - 1 : c < low => m2[c] = m1[c]
        BY <1>4, <1>5, <1>10, <3>2
      <3>. HIDE DEF m2
      <3>5. \A c \in 0 .. Bytes - 1 : c < low => mem'[c] = m2[c]
        BY <1>3, <1>5, <1>10, <3>1
      <3>. QED BY <1>1, <3>1, <3>3, <3>4, <3>5
    <2>5. PutValue(text) \/ PutObject \/ UNCHANGED <<mem, ro, key>>
          \/ (t.type = "array" /\ PutArray) \/ (PutString(text) /\ key # "value")
      BY <1>0 DEF Put, PutString
    <2>. QED BY <2>1, <2>2, <2>3, <2>4, <2>5
  <1>7. ASSUME NEW j \in SafeOnes
        PROVE  Filled(mem', j)
    <2>1. j \in 1 .. Count /\ (HasArray => j < Count)
      BY SafeIs DEF Reply
    <2>2. /\ j \in Nat /\ j + 1 \in Nat /\ j + 1 <= Count + 1 /\ j < Count + 1 /\ Count + 1 \in Nat
          /\ HasArray => j + 1 <= Count
      BY <1>1, <2>1
    <2>3. KeyOf(j + 1) <= low /\ KeyOf(j + 1) \in Nat
      <3>1. CASE HasArray
        <4>1. KeyOf(j + 1) <= KeyOf(Count) /\ KeyOf(Count) <= KeyOf(Count + 1)
          <5>1. j + 1 \in Nat /\ Count \in Nat /\ Count + 1 \in Nat /\ j + 1 <= Count /\ Count <= Count + 1
            BY <1>1, <2>2, <3>1
          <5>. HIDE DEF low
          <5>. QED BY <5>1, Offsets
        <4>2. KeyOf(j + 1) \in Nat
          BY <2>2, Offsets
        <4>. QED BY <1>3, <4>1, <4>2
      <3>2. CASE ~HasArray
        <4>1. KeyOf(j + 1) <= KeyOf(Count + 1) /\ KeyOf(j + 1) \in Nat
          BY <2>2, Offsets
        <4>. QED BY <1>2, <3>2, <4>1
      <3>. QED BY <3>1, <3>2
    <2>. HIDE DEF low
    <2>4. \A c \in 0 .. Bytes - 1 : c < KeyOf(j + 1) => mem'[c] = mem[c]
      BY <1>6, <1>10, <2>3
    <2>5. Filled(mem, j)
      BY <2>2 DEF Around
    <2>. QED BY <2>4, <2>5, FilledStays DEF Reply
  <1>8. Around(mem', Count + 1)
    <2>1. \A j \in SafeOnes : ~(j > Count + 1)
      BY <1>1 DEF SafeOnes
    <2>. QED BY <1>7, <2>1 DEF Around
  <1>9. i + 1 >= Total /\ i + 1 # Total
    BY <1>1
  <1>. QED BY <1>0, <1>6, <1>8, <1>9, SameFields DEF Progress

(* The places stay while the text does.                                    *)
LEMMA SamePlaces ==
  ASSUME UNCHANGED <<js, doc>>, NEW pt
  PROVE  /\ Placed(pt)' <=> Placed(pt)
         /\ \A k, t : RightToken(pt, k, t)' <=> RightToken(pt, k, t)
         /\ UNCHANGED tokens => (RightTokens(pt)' <=> RightTokens(pt))
  <1>1. Count' = Count /\ Inner' = Inner
    BY DEF Count, Inner
  <1>2. \A n : /\ Quoted(n)' = Quoted(n) /\ ColonAt(pt, n)' = ColonAt(pt, n)
               /\ ValueAt(pt, n)' = ValueAt(pt, n) /\ ValueEnd(pt, n)' = ValueEnd(pt, n)
    BY DEF Quoted, ColonAt, ValueAt, ValueEnd
  <1>3. LastAt(pt)' = LastAt(pt)
    BY <1>1 DEF LastAt
  <1>4. \A n : PairAt(pt, n)' <=> PairAt(pt, n)
    <2>. SUFFICES ASSUME NEW n PROVE PairAt(pt, n)' <=> PairAt(pt, n)
      OBVIOUS
    <2>1. PICK c, a, e, q, last, f, text :
            /\ c = ColonAt(pt, n) /\ a = ValueAt(pt, n) /\ e = ValueEnd(pt, n) /\ q = Quoted(n)
            /\ last = Count /\ f = doc.fields[n] /\ text = js
      OBVIOUS
    <2>2. /\ c = ColonAt(pt, n)' /\ a = ValueAt(pt, n)' /\ e = ValueEnd(pt, n)' /\ q = Quoted(n)'
          /\ last = Count' /\ f = doc'.fields[n] /\ text = js'
      BY <1>1, <1>2, <2>1
    <2>. DEFINE Here == /\ text[pt[n]] = Quote
                        /\ \A k \in 1 .. Len(f.key) : text[pt[n] + k] = f.key[k]
                        /\ text[c - 1] = Quote
                        /\ text[c] = ":"
                        /\ f.quoted => text[c + 1] = Quote /\ text[e] = Quote
                        /\ \A k \in 1 .. Len(f.value) : text[a + k - 1] = f.value[k]
                        /\ pt[n + 1] = e + q + 1
                        /\ text[pt[n + 1] - 1] = IF n = last THEN "}" ELSE ","
    <2>3. PairAt(pt, n) <=> Here
      BY <2>1 DEF PairAt
    <2>4. PairAt(pt, n)' <=> Here
      BY <2>2 DEF PairAt
    <2>. QED BY <2>3, <2>4
  <1>5. Placed(pt)' <=> Placed(pt)
    BY <1>1, <1>3, <1>4 DEF Placed
  <1>6. \A k, t : RightToken(pt, k, t)' <=> RightToken(pt, k, t)
    BY <1>1, <1>2 DEF RightToken
  <1>7. UNCHANGED tokens => (RightTokens(pt)' <=> RightTokens(pt))
    BY <1>6 DEF RightTokens
  <1>. QED BY <1>5, <1>6, <1>7

(* The pass of the loop for one token keeps to the order of the fields.    *)
LEMMA FillStep ==
  ASSUME Reply, NEW pt, Placed(pt), Lexed(pt), Filling, FillEntry
  PROVE  Filling' /\ Placed(pt)' /\ Lexed(pt)'
  <1>0. /\ i < Len(tokens) /\ RightTokens(pt) /\ Len(tokens) \in Nat
        /\ parsed = "ok" /\ Len(tokens) >= Total /\ (doc.tail = <<>> => Len(tokens) = Total)
        /\ TailTokens(tokens)
        /\ Put(tokens[i + 1].type, SubSeq(js, tokens[i + 1].start, tokens[i + 1].end - 1))
        /\ i' = i + 1 /\ ret = Pending
        /\ UNCHANGED <<js, parsed, tokens, doc, s, ret>>
    BY FillTokens
  <1>1. Progress'
    BY NamePut, ObjectPut, KeyPut, ValuePut, TailPut DEF Filling, Progress
  <1>2. mem' = [c \in 0 .. Bytes - 1 |-> mem'[c]]
    <2>1. \A m, off, w : Copy(m, off, w) = [c \in 0 .. Bytes - 1 |-> Copy(m, off, w)[c]]
      BY DEF Copy
    <2>2. mem' = mem \/ \E m, off, w : mem' = Copy(m, off, w)
      BY <1>0 DEF Put, PutValue, PutString, PutObject, PutArray
    <2>3. CASE mem' = mem
      BY <2>3 DEF Filling
    <2>. QED BY <2>1, <2>2, <2>3
  <1>3. i \in Nat /\ i' \in Nat /\ i' > 1 /\ i' <= Len(tokens) 
    <2>1. i \in Nat
      BY DEF Filling
    <2>2. i >= 1
      BY <2>1, Sizes DEF Filling, Progress, Reply
    <2>. QED BY <1>0, <2>1, <2>2
  <1>4. Filling'
    BY <1>0, <1>1, <1>2, <1>3 DEF Filling
  <1>5. Placed(pt)' /\ Lexed(pt)'
    <2>1. Total' = Total
      BY <1>0, SameFields
    <2>. QED BY <1>0, <2>1, SamePlaces DEF Lexed, TailTokens, HasArray
  <1>. QED BY <1>4, <1>5

(* The filling stays while the table does.                                 *)
LEMMA SameFilling ==
  ASSUME Filling, UNCHANGED <<doc, mem, i, ro, key, ret>>,
         UNCHANGED <<tokens, parsed>> \/ parsed = "parsing"
  PROVE  Filling'
  <1>1. Progress'
    BY SameFields DEF Filling, Progress
  <1>2. i' > 1 => parsed' = "ok" /\ i' <= Len(tokens')
    BY DEF Filling
  <1>3. ret' # Pending => \/ ret' = -1 /\ doc'.tail # <<>>
                          \/ ret' = ro' /\ parsed' = "ok" /\ i' = Len(tokens')
    BY DEF Filling
  <1>. QED BY <1>1, <1>2, <1>3 DEF Filling

(* Only a reply with something behind it is refused, and all of it is read.*)
LEMMA EndStep ==
  ASSUME Reply, NEW pt, Placed(pt), Lexed(pt), Filling, NotAnObject \/ Return
  PROVE  Filling' /\ Placed(pt)' /\ Lexed(pt)'
  <1>1. UNCHANGED <<js, doc, parsed, tokens, mem, i, ro, key>> /\ UNCHANGED jsmnVars
    BY DEF NotAnObject, Return, jsmnVars
  <1>2. Placed(pt)' /\ Lexed(pt)'
    <2>1. Total' = Total /\ parsed # "parsing"
      BY <1>1, SameFields DEF NotAnObject, Return, Parsed
    <2>. QED BY <1>1, <2>1, SamePlaces DEF Lexed, TailTokens, HasArray
  <1>3. Progress'
    BY <1>1, SameFields DEF Filling, Progress
  <1>4. ret' # Pending => \/ ret' = -1 /\ doc'.tail # <<>>
                          \/ ret' = ro' /\ parsed' = "ok" /\ i' = Len(tokens')
    <2>1. CASE NotAnObject
      <3>1. parsed # "ok"
        <4>. SUFFICES ASSUME parsed = "ok" PROVE FALSE
          OBVIOUS
        <4>1. Len(tokens) >= Total /\ RightTokens(pt)
          BY DEF Lexed
        <4>2. Len(tokens) \in Nat /\ 1 \in 1 .. Len(tokens) /\ tokens # <<>>
          BY <4>1, Sizes DEF Reply, JsmnInv
        <4>3. tokens[1].type = "object"
          BY <4>1, <4>2 DEF RightTokens, RightToken
        <4>. QED BY <2>1, <4>2, <4>3 DEF NotAnObject, IsObject
      <3>2. ret' = -1 /\ doc.tail # <<>>
        BY <2>1, <3>1 DEF NotAnObject, Parsed, Lexed
      <3>. QED BY <1>1, <3>2
    <2>2. CASE Return
      <3>1. ret' = ro /\ i > 1 /\ i >= Len(tokens)
        BY <2>2 DEF Return
      <3>2. parsed = "ok" /\ i <= Len(tokens) /\ i \in Nat
        BY <3>1 DEF Filling
      <3>3. i = Len(tokens)
        BY <3>1, <3>2 DEF Reply, JsmnInv
      <3>. QED BY <1>1, <3>1, <3>2, <3>3
    <2>. QED BY <2>1, <2>2
  <1>. QED BY <1>1, <1>2, <1>3, <1>4 DEF Filling

(* A filled entry is read back.                                            *)
LEMMA FilledText ==
  ASSUME doc.fields \in Fields, Fits, NEW j \in SafeOnes, Filled(mem, j)
  PROVE  /\ Text(mem, ValueOf(j)) = Given(doc.fields[j])
         /\ Text(mem, KeyOf(j)) = KeyText(j)
  <1>1. /\ j \in 1 .. Count /\ j \in Nat /\ j + 1 \in Nat /\ j + 1 <= Entries
        /\ Len(Given(doc.fields[j])) < Cap /\ Behind(j) < ValueOf(j)
    BY SafeIs, Sizes
  <1>2. /\ Plain(KeyText(j)) /\ Plain(Given(doc.fields[j]))
        /\ Behind(j) = KeyOf(j) + Len(KeyText(j)) /\ Behind(j) \in Nat
    BY <1>1, Written
  <1>3. /\ KeyOf(j) \in Nat /\ ValueOf(j) = KeyOf(j) + Cap /\ KeyOf(j + 1) = KeyOf(j) + Cap + Cap
        /\ Cap \in Nat
    BY <1>1, Offsets
  <1>4. KeyOf(j + 1) <= Bytes /\ Bytes \in Nat
    BY <1>1, Offsets
  <1>5. ASSUME NEW w, Plain(w), NEW off \in Nat, off + Len(w) < Bytes, Cells(mem, off, w),
               mem[off + Len(w)] = Nul
        PROVE  Text(mem, off) = w
    <2>1. Len(w) \in Nat /\ w = [k \in 1 .. Len(w) |-> w[k]] /\ \A k \in 1 .. Len(w) : w[k] # Nul
      BY <1>5 DEF Plain
    <2>2. DOMAIN w = 1 .. Len(w)
      BY <2>1
    <2>. QED BY <1>5, <2>1, <2>2, TextIs
  <1>6. KeyOf(j) + Len(KeyText(j)) < Bytes /\ ValueOf(j) + Len(Given(doc.fields[j])) < Bytes
    <2>1. PICK v \in Nat : v = Len(Given(doc.fields[j]))
      BY <1>2 DEF Plain
    <2>. QED BY <1>1, <1>2, <1>3, <1>4, <2>1
  <1>7. ValueOf(j) \in Nat
    BY <1>3
  <1>8. /\ Cells(mem, KeyOf(j), KeyText(j)) /\ mem[KeyOf(j) + Len(KeyText(j))] = Nul
        /\ Cells(mem, ValueOf(j), Given(doc.fields[j]))
        /\ mem[ValueOf(j) + Len(Given(doc.fields[j]))] = Nul
    BY <1>2 DEF Filled
  <1>. QED BY <1>2, <1>3, <1>5, <1>6, <1>7, <1>8

(* What was filled is the reply.                                           *)
LEMMA ReadsReply ==
  ASSUME Reply, NEW pt, Placed(pt), Lexed(pt), Filling, ret # Pending
  PROVE  /\ doc.tail = <<>> => ret = Count + 1
         /\ ret >= 0 => \A j \in SafeOnes :
              /\ Text(mem, ValueOf(j)) = Given(doc.fields[j])
              /\ Text(mem, KeyOf(j)) = KeyText(j)
  <1>1. CASE ret = -1 /\ doc.tail # <<>>
    BY <1>1
  <1>2. CASE ret = ro /\ parsed = "ok" /\ i = Len(tokens)
    <2>1. i >= Total /\ i \in Nat /\ (doc.tail = <<>> => i = Total)
      BY <1>2 DEF Lexed, Filling
    <2>2. /\ Count \in Nat \ {0} /\ Inner \in {1, 3} /\ Total = Inner + 2 * Count
          /\ (Inner = 3 <=> doc.nested)
      BY Sizes DEF Reply, Inner
    <2>3. (i = Total => ro = Count + 1) /\ Around(mem, Count + 1)
      <3>1. i # 1
        BY <2>1, <2>2
      <3>2. ~(doc.nested /\ i = 2)
        BY <2>1, <2>2
      <3>3. \A n \in 1 .. Count : i # Inner + 2 * n - 2 /\ i # Inner + 2 * n - 1
        BY <2>1, <2>2
      <3>. QED BY <3>1, <3>2, <3>3 DEF Filling, Progress
    <2>4. \A j \in SafeOnes : Filled(mem, j)
      <3>1. \A j \in SafeOnes : j < Count + 1
        BY <2>2 DEF SafeOnes
      <3>. QED BY <2>3, <3>1 DEF Around
    <2>. QED BY <1>2, <2>1, <2>3, <2>4, FilledText DEF Reply
  <1>. QED BY <1>1, <1>2 DEF Filling

-----------------------------------------------------------------------------
(***************************************************************************)
(* The tokenizer at each part of a reply.                                  *)
(***************************************************************************)
(* The text between two quotes, the first at p.                            *)
Between(p, w) ==
  /\ \A k \in 1 .. Len(w) : js[p + k] = w[k]
  /\ js[p + Len(w) + 1] = Quote
  /\ p + Len(w) + 1 <= Len(js)

(* What a backslash takes in the text it takes there.                      *)
LEMMA TakenThere ==
  ASSUME JsmnInv, NEW p \in Nat, NEW w, Plain(w), Between(p, w), NEW k \in 1 .. Len(w)
  PROVE  p + k \in Taken(js, p + 1) <=> k \in Taken(w, 1)
  <1>1. Len(w) \in Nat /\ Len(js) \in Nat /\ p + k \in p + 1 .. Len(js) /\ p + Len(w) + 1 <= Len(js)
    BY DEF Plain, JsmnInv, Between
  <1>2. \A n \in 1 .. Len(w) : js[p + n] = w[n]
    BY DEF Between
  <1>3. ASSUME NEW m \in 1 .. k - 1, \A n \in m .. k - 1 : w[n] = Backslash,
               m > 1 => w[m - 1] # Backslash, (k - m) % 2 = 1
        PROVE  p + k \in Taken(js, p + 1)
    <2>1. p + m \in p + 1 .. (p + k) - 1 /\ (p + k) - (p + m) = k - m
      OBVIOUS
    <2>2. \A n \in p + m .. (p + k) - 1 : js[n] = Backslash
      <3>. SUFFICES ASSUME NEW n \in p + m .. (p + k) - 1 PROVE js[n] = Backslash
        OBVIOUS
      <3>1. n - p \in m .. k - 1 /\ n - p \in 1 .. Len(w) /\ p + (n - p) = n
        BY <1>1
      <3>. QED BY <1>2, <1>3, <3>1
    <2>3. p + m > p + 1 => js[p + m - 1] # Backslash
      <3>. SUFFICES ASSUME m > 1 PROVE js[p + m - 1] # Backslash
        OBVIOUS
      <3>1. m - 1 \in 1 .. Len(w) /\ p + (m - 1) = p + m - 1
        BY <1>1
      <3>. QED BY <1>2, <1>3, <3>1
    <2>4. ((p + k) - (p + m)) % 2 = 1
      BY <1>3, <2>1
    <2>. HIDE DEF Backslash
    <2>5. PICK x \in p + 1 .. Len(js), y \in p + 1 .. (p + k) - 1 : x = p + k /\ y = p + m
      BY <1>1, <2>1
    <2>. QED BY <2>2, <2>3, <2>4, <2>5 DEF Taken
  <1>4. ASSUME NEW m \in p + 1 .. (p + k) - 1, \A n \in m .. (p + k) - 1 : js[n] = Backslash,
               m > p + 1 => js[m - 1] # Backslash, ((p + k) - m) % 2 = 1
        PROVE  k \in Taken(w, 1)
    <2>1. m - p \in 1 .. k - 1 /\ (p + k) - m = k - (m - p)
      OBVIOUS
    <2>2. \A n \in m - p .. k - 1 : w[n] = Backslash
      <3>. SUFFICES ASSUME NEW n \in m - p .. k - 1 PROVE w[n] = Backslash
        OBVIOUS
      <3>1. p + n \in m .. (p + k) - 1 /\ n \in 1 .. Len(w)
        BY <1>1
      <3>. QED BY <1>2, <1>4, <3>1
    <2>3. m - p > 1 => w[m - p - 1] # Backslash
      <3>. SUFFICES ASSUME m - p > 1 PROVE w[m - p - 1] # Backslash
        OBVIOUS
      <3>1. m - p - 1 \in 1 .. Len(w) /\ p + (m - p - 1) = m - 1
        BY <1>1
      <3>. QED BY <1>2, <1>4, <3>1
    <2>. QED BY <1>1, <1>4, <2>1, <2>2, <2>3 DEF Taken
  <1>5. p + k \in Taken(js, p + 1) =>
          \E m \in p + 1 .. (p + k) - 1 : /\ \A n \in m .. (p + k) - 1 : js[n] = Backslash
                                          /\ m > p + 1 => js[m - 1] # Backslash
                                          /\ ((p + k) - m) % 2 = 1
    BY DEF Taken
  <1>6. k \in Taken(w, 1) =>
          \E m \in 1 .. k - 1 : /\ \A n \in m .. k - 1 : w[n] = Backslash
                                /\ m > 1 => w[m - 1] # Backslash
                                /\ (k - m) % 2 = 1
    BY DEF Taken
  <1>. QED BY <1>3, <1>4, <1>5, <1>6

(* Of the quote that ends it no backslash takes anything.                  *)
LEMMA EndNotTaken ==
  ASSUME JsmnInv, NEW p \in Nat, NEW w, Plain(w), Escaped(w), Between(p, w)
  PROVE  p + Len(w) + 1 \notin Taken(js, p + 1)
  <1>. DEFINE e == p + Len(w) + 1
  <1>1. SUFFICES ASSUME NEW m \in p + 1 .. e - 1, \A n \in m .. e - 1 : js[n] = Backslash,
                        m > p + 1 => js[m - 1] # Backslash, (e - m) % 2 = 1
                 PROVE  FALSE
    BY DEF Taken
  <1>2. Len(w) \in Nat /\ \A n \in 1 .. Len(w) : js[p + n] = w[n]
    BY DEF Plain, Between
  <1>3. PICK a \in 1 .. Len(w) : a = m - p
    BY <1>2
  <1>4. \A n \in a .. Len(w) : w[n] = Backslash
    <2>. SUFFICES ASSUME NEW n \in a .. Len(w) PROVE w[n] = Backslash
      OBVIOUS
    <2>1. p + n \in m .. e - 1 /\ n \in 1 .. Len(w)
      BY <1>2, <1>3
    <2>. QED BY <1>1, <1>2, <2>1
  <1>5. a > 1 => w[a - 1] # Backslash
    <2>. SUFFICES ASSUME a > 1 PROVE w[a - 1] # Backslash
      OBVIOUS
    <2>1. a - 1 \in 1 .. Len(w) /\ p + (a - 1) = m - 1 /\ m > p + 1
      BY <1>2, <1>3
    <2>. QED BY <1>1, <1>2, <2>1
  <1>6. (Len(w) + 1 - a) % 2 = 1
    <2>1. e - m = Len(w) + 1 - a
      BY <1>2, <1>3
    <2>. QED BY <1>1, <2>1
  <1>7. Len(w) \in Taken(w, 1)
    <2>1. Len(w) \in a .. Len(w) /\ Len(w) \in 1 .. Len(w)
      BY <1>2, <1>3
    <2>2. DOMAIN w = 1 .. Len(w)
      BY DEF Plain
    <2>. QED BY <1>4, <2>1, <2>2 DEF Escaped
  <1>8. PICK b \in 1 .. Len(w) - 1 :
          /\ \A n \in b .. Len(w) - 1 : w[n] = Backslash
          /\ b > 1 => w[b - 1] # Backslash
          /\ (Len(w) - b) % 2 = 1
    BY <1>7 DEF Taken
  <1>9. CASE a = b
    <2>1. PICK d \in Nat : d = Len(w) - b
      <3>1. Len(w) - b \in Nat
        BY <1>2
      <3>. QED BY <3>1
    <2>2. Len(w) + 1 - a = d + 1
      BY <1>2, <1>9, <2>1
    <2>3. d % 2 = 1 /\ (d + 1) % 2 = 1
      BY <1>6, <1>8, <2>1, <2>2
    <2>. QED BY <2>3
  <1>10. CASE b < a
    <2>1. a > 1 /\ a - 1 \in b .. Len(w) - 1
      BY <1>2, <1>3, <1>10
    <2>. QED BY <1>5, <1>8, <2>1
  <1>11. CASE a < b
    <2>1. b > 1 /\ b - 1 \in a .. Len(w)
      BY <1>2, <1>3, <1>11
    <2>. QED BY <1>4, <1>8, <2>1
  <1>. QED BY <1>3, <1>8, <1>9, <1>10, <1>11

(* The quote that ends a text is the first one that no backslash takes.    *)
LEMMA StringEnds ==
  ASSUME JsmnInv, NEW p \in Nat, NEW w, Plain(w), Escaped(w), Between(p, w)
  PROVE  LET taken == Taken(js, p + 1)
             ends == {x \in (p + 1 .. Len(js)) \ taken : js[x] = Quote}
             bad == {x \in taken : js[x] \notin Escapable}
         IN  /\ p + Len(w) + 1 \in ends /\ ends \in SUBSET Nat /\ bad \in SUBSET Nat
             /\ \A x \in ends : x >= p + Len(w) + 1
             /\ \A x \in bad : x > p + Len(w) + 1
  <1>. DEFINE taken == Taken(js, p + 1)
              ends == {x \in (p + 1 .. Len(js)) \ taken : js[x] = Quote}
              bad == {x \in taken : js[x] \notin Escapable}
              e == p + Len(w) + 1
  <1>1. /\ Len(w) \in Nat /\ Len(js) \in Nat /\ \A n \in 1 .. Len(w) : js[p + n] = w[n]
        /\ e <= Len(js) /\ js[e] = Quote /\ DOMAIN w = 1 .. Len(w)
    BY DEF Plain, Between, JsmnInv
  <1>2. taken \subseteq p + 1 .. Len(js)
    BY DEF Taken
  <1>3. e \notin taken
    BY EndNotTaken
  <1>4. \A k \in 1 .. Len(w) : p + k \in taken <=> k \in Taken(w, 1)
    BY TakenThere
  <1>. HIDE DEF taken
  <1>5. e \in ends /\ ends \in SUBSET Nat /\ bad \in SUBSET Nat
    <2>1. e \in ends
      <3>1. e \in (p + 1 .. Len(js)) \ taken
        BY <1>1, <1>3
      <3>. QED BY <1>1, <3>1
    <2>2. \A x \in p + 1 .. Len(js) : x \in Nat
      BY <1>1
    <2>. HIDE DEF e
    <2>. QED BY <1>2, <2>1, <2>2
  <1>6. ASSUME NEW x \in p + 1 .. e - 1
        PROVE  x \notin ends /\ x \notin bad
    <2>1. x - p \in 1 .. Len(w) /\ p + (x - p) = x
      BY <1>1
    <2>2. js[x] = w[x - p] /\ (x \in taken <=> x - p \in Taken(w, 1))
      BY <1>1, <1>4, <2>1
    <2>3. /\ w[x - p] = Quote => x - p \in Taken(w, 1)
          /\ x - p \in Taken(w, 1) => w[x - p] \in Escapable
      BY <1>1, <2>1 DEF Escaped
    <2>. QED BY <2>2, <2>3
  <1>7. \A x \in ends : x >= e
    BY <1>1, <1>6
  <1>8. \A x \in bad : x > e
    BY <1>1, <1>2, <1>3, <1>6
  <1>. QED BY <1>5, <1>7, <1>8 DEF taken

(* There is a step to take before the end of the text.                     *)
LEMMA NotAtEnd ==
  ASSUME JsmnInv, pos <= Len(js)
  PROVE  ~(pos > Len(js))
  BY DEF JsmnInv

(* What each step of the tokenizer begins with.                            *)
LEMMA ActionChars ==
  /\ OpenBracket => Char \in {"{", "["}
  /\ CloseBracket => Char \in {"}", "]"}
  /\ jsmn_parse_string => Char = Quote
  /\ jsmn_parse_primitive => Char \notin {"{", "}", "[", "]", Quote, Blank, ":", ","}
  /\ Skip => Char = Blank
  /\ Colon => Char = ":"
  /\ Comma => Char = ","
  /\ Finish => pos > Len(js)
  <1>1. Brackets \cup {Quote, Blank, ":", ","} = {"{", "}", "[", "]", Quote, Blank, ":", ","}
    BY DEF Brackets
  <1>2. jsmn_parse_primitive => Char \notin Brackets \cup {Quote, Blank, ":", ","}
    BY DEF jsmn_parse_primitive
  <1>. QED BY <1>1, <1>2 DEF OpenBracket, CloseBracket, jsmn_parse_string, Skip, Colon, Comma, Finish

(* The tokenizer at a text in quotes.                                      *)
LEMMA AtQuote ==
  ASSUME JsmnInv, jsmn_parse, parsed = "parsing", pos <= Len(js), Char = Quote,
         NEW w, Plain(w), Escaped(w), Between(pos, w), Len(tokens) < MaxTokens
  PROVE  Grown("string", pos + 1, pos + Len(w) + 1)
  <1>. DEFINE taken == Taken(js, pos + 1)
              ends == {x \in (pos + 1 .. Len(js)) \ taken : js[x] = Quote}
              bad == {x \in taken : js[x] \notin Escapable}
              e == pos + Len(w) + 1
  <1>1. jsmn_parse_string
    <2>1. Char = Quote /\ Quote \notin {"{", "}", "[", "]", ":", ",", Blank}
      BY DEF Quote, Blank
    <2>2. ~(pos > Len(js))
      BY NotAtEnd
    <2>. QED BY <2>1, <2>2, ActionChars DEF jsmn_parse
  <1>2. IF bad # {} /\ (ends = {} \/ Min(bad) < Min(ends)) THEN Fail("invalid")
        ELSE IF ends = {} THEN Fail("part")
        ELSE Alloc("string", pos + 1, Min(ends))
    <2>1. {x \in (pos + 1 .. Len(js)) \ taken : js[x] = Quote} = ends
      OBVIOUS
    <2>. QED BY <1>1 DEF jsmn_parse_string
  <1>3. /\ e \in ends /\ ends \in SUBSET Nat /\ bad \in SUBSET Nat
        /\ \A x \in ends : x >= e
        /\ \A x \in bad : x > e
    <2>1. pos \in Nat
      BY DEF JsmnInv
    <2>. QED BY <2>1, StringEnds
  <1>. HIDE DEF ends, bad
  <1>4. Min(ends) = e
    <2>1. Min(ends) \in ends /\ \A x \in ends : Min(ends) <= x
      BY <1>3, LeastOf
    <2>2. Min(ends) >= e /\ Min(ends) <= e /\ Min(ends) \in Nat /\ e \in Nat
      BY <1>3, <2>1
    <2>. HIDE DEF e
    <2>. QED BY <2>2
  <1>5. bad # {} => ~(Min(bad) < Min(ends))
    <2>. SUFFICES ASSUME bad # {} PROVE ~(Min(bad) < e)
      BY <1>4
    <2>1. Min(bad) \in bad
      BY <1>3, LeastOf
    <2>2. Min(bad) > e /\ Min(bad) \in Nat /\ e \in Nat
      BY <1>3, <2>1
    <2>. HIDE DEF e
    <2>. QED BY <2>2
  <1>6. Alloc("string", pos + 1, e)
    BY <1>2, <1>3, <1>4, <1>5
  <1>7. "string" \in Types /\ pos + 1 \in Nat /\ e \in Nat
    BY <1>3 DEF Types, JsmnInv
  <1>. HIDE DEF e
  <1>8. Grown("string", pos + 1, e)
    BY <1>6, <1>7, AllocGrows
  <1>. QED BY <1>8 DEF e

(* The text before a comma or bracket.                                     *)
Before(p, w) ==
  /\ \A k \in 1 .. Len(w) : js[p + k - 1] = w[k]
  /\ js[p + Len(w)] \in {",", "}"}
  /\ p + Len(w) <= Len(js)

(* The tokenizer at a text without quotes.                                 *)
LEMMA AtWord ==
  ASSUME JsmnInv, jsmn_parse, parsed = "parsing", NEW w \in Seq(Chars), Bare(w), Before(pos, w),
         Len(tokens) < MaxTokens
  PROVE  Grown("primitive", pos, pos + Len(w))
  <1>. DEFINE ends == {x \in pos .. Len(js) : js[x] \in EndsPrimitive} \cup {Len(js) + 1}
              e == pos + Len(w)
  <1>1. Len(w) \in Nat /\ Len(w) >= 1 /\ DOMAIN w = 1 .. Len(w) /\ pos \in Nat /\ Len(js) \in Nat
        /\ pos + Len(w) <= Len(js)
    <2>1. w # <<>>
      BY DEF Bare
    <2>2. Len(w) >= 1
      BY <2>1
    <2>3. pos + Len(w) <= Len(js)
      BY DEF Before
    <2>4. pos \in Nat /\ Len(js) \in Nat
      BY DEF JsmnInv
    <2>. QED BY <2>2, <2>3, <2>4
  <1>2. /\ Char \notin {"{", "}", "[", "]", Quote}
        /\ \A k \in 1 .. Len(w) : w[k] \notin {":", ",", "]", "}", Blank, Control}
    <2>1. 1 \in 1 .. Len(w) /\ pos + 1 - 1 = pos
      BY <1>1
    <2>2. Char = w[1]
      BY <2>1 DEF Char, Before
    <2>. QED BY <1>1, <2>2 DEF Bare, Brackets, EndsPrimitive
  <1>3. Char \notin {":", ",", Blank}
    <2>1. 1 \in 1 .. Len(w) /\ pos + 1 - 1 = pos
      BY <1>1
    <2>. QED BY <1>2, <2>1 DEF Char, Before
  <1>4. jsmn_parse_primitive
    <2>1. ~(pos > Len(js))
      BY <1>1
    <2>. QED BY <1>2, <1>3, <2>1, ActionChars DEF jsmn_parse
  <1>5. Min(ends) = e
    <2>1. e \in ends
      <3>1. e \in pos .. Len(js)
        BY <1>1
      <3>2. js[e] \in EndsPrimitive
        <4>1. js[e] \in {",", "}"}
          BY DEF Before
        <4>. QED BY <4>1 DEF EndsPrimitive
      <3>. HIDE DEF e
      <3>. QED BY <3>1, <3>2
    <2>2. \A x \in pos .. e - 1 : js[x] \notin EndsPrimitive /\ js[x] # Control
      <3>. SUFFICES ASSUME NEW x \in pos .. e - 1 PROVE js[x] \notin EndsPrimitive /\ js[x] # Control
        OBVIOUS
      <3>1. x - pos + 1 \in 1 .. Len(w) /\ pos + (x - pos + 1) - 1 = x
        BY <1>1
      <3>2. js[x] = w[x - pos + 1]
        BY <3>1 DEF Before
      <3>. QED BY <1>2, <3>1, <3>2 DEF EndsPrimitive
    <2>3. ends \in SUBSET Nat /\ \A x \in ends : x >= e
      BY <1>1, <2>2
    <2>. HIDE DEF ends
    <2>4. Min(ends) \in ends /\ \A x \in ends : Min(ends) <= x
      BY <2>1, <2>3, LeastOf
    <2>5. Min(ends) >= e /\ Min(ends) <= e /\ Min(ends) \in Nat /\ e \in Nat
      BY <2>1, <2>3, <2>4
    <2>. HIDE DEF e
    <2>. QED BY <2>5
  <1>6. Alloc("primitive", pos, e)
    <2>1. \A x \in pos .. e - 1 : js[x] # Control
      <3>. SUFFICES ASSUME NEW x \in pos .. e - 1 PROVE js[x] # Control
        OBVIOUS
      <3>1. x - pos + 1 \in 1 .. Len(w) /\ pos + (x - pos + 1) - 1 = x
        BY <1>1
      <3>2. js[x] = w[x - pos + 1]
        BY <3>1 DEF Before
      <3>. QED BY <1>2, <3>1, <3>2
    <2>2. IF \E x \in pos .. Min(ends) - 1 : js[x] = Control THEN Fail("invalid")
          ELSE Alloc("primitive", pos, Min(ends))
      BY <1>4 DEF jsmn_parse_primitive
    <2>. HIDE DEF ends, e
    <2>. QED BY <1>5, <2>1, <2>2
  <1>7. "primitive" \in Types /\ e \in Nat
    BY <1>1 DEF Types
  <1>. HIDE DEF e
  <1>8. Grown("primitive", pos, e)
    BY <1>1, <1>6, <1>7, AllocGrows
  <1>. QED BY <1>8 DEF e

(* The tokenizer at an opening bracket.                                    *)
LEMMA AtBrace ==
  ASSUME JsmnInv, jsmn_parse, parsed = "parsing", pos <= Len(js), Char = "{",
         Len(tokens) < MaxTokens
  PROVE  Grown("object", pos, 0)
  <1>1. OpenBracket
    <2>1. Char = "{" /\ Char \notin {"}", "[", "]", ":", ",", Quote, Blank}
      BY DEF Quote, Blank
    <2>2. ~(pos > Len(js))
      BY NotAtEnd
    <2>. QED BY <2>1, <2>2, ActionChars DEF jsmn_parse
  <1>2. Alloc("object", pos, 0)
    BY <1>1 DEF OpenBracket
  <1>3. "object" \in Types /\ pos \in Nat
    BY DEF Types, JsmnInv
  <1>. QED BY <1>2, <1>3, AllocGrows

(* The tokenizer at a colon or a comma.                                    *)
LEMMA AtMark ==
  ASSUME JsmnInv, jsmn_parse, parsed = "parsing", pos <= Len(js), Char \in {":", ","}
  PROVE  pos' = pos + 1 /\ UNCHANGED <<js, tokens, parsed>>
  <1>1. Colon \/ Comma
    <2>1. /\ Char \in {":", ","} /\ Char # Quote /\ Char # Blank
          /\ Char \notin {"{", "["} /\ Char \notin {"}", "]"}
      BY DEF Quote, Blank
    <2>2. ~(pos > Len(js))
      BY NotAtEnd
    <2>. QED BY <2>1, <2>2, ActionChars DEF jsmn_parse
  <1>. QED BY <1>1 DEF Colon, Comma

(* The last open container is closed.                                      *)
Closed(last) ==
  /\ tokens' \in Seq(Toks) /\ Len(tokens') = Len(tokens)
  /\ \A n \in 1 .. Len(tokens) : /\ tokens'[n].type = tokens[n].type
                                 /\ tokens'[n].start = tokens[n].start
                                 /\ n # last => tokens'[n].end = tokens[n].end
  /\ tokens'[last].end # 0
  /\ pos' = pos + 1 /\ UNCHANGED <<js, parsed>>

(* What a closing bracket does.                                            *)
LEMMA Closes ==
  ASSUME JsmnInv, NEW last \in 1 .. Len(tokens), tokens' = [tokens EXCEPT ![last].end = pos + 1],
         pos' = pos + 1, UNCHANGED <<js, parsed>>
  PROVE  Closed(last)
  <1>1. tokens \in Seq(Toks) /\ pos + 1 \in Nat /\ pos + 1 # 0
    BY DEF JsmnInv
  <1>2. PICK old \in Toks : old = tokens[last]
    BY <1>1
  <1>3. tokens' = [tokens EXCEPT ![last] = [old EXCEPT !.end = pos + 1]]
    BY <1>2
  <1>4. \A n \in 1 .. Len(tokens) : tokens'[n] = IF n = last THEN [old EXCEPT !.end = pos + 1]
                                                ELSE tokens[n]
    BY <1>1, <1>3
  <1>5. /\ [old EXCEPT !.end = pos + 1].type = old.type
        /\ [old EXCEPT !.end = pos + 1].start = old.start
        /\ [old EXCEPT !.end = pos + 1].end = pos + 1
    BY DEF Toks
  <1>6. tokens' \in Seq(Toks) /\ Len(tokens') = Len(tokens)
    <2>1. [old EXCEPT !.end = pos + 1] \in Toks
      BY <1>1 DEF Toks
    <2>. QED BY <1>1, <1>3, <2>1
  <1>. QED BY <1>1, <1>2, <1>4, <1>5, <1>6 DEF Closed

(* The tokenizer at a closing bracket.                                     *)
LEMMA AtClose ==
  ASSUME JsmnInv, jsmn_parse, parsed = "parsing", pos <= Len(js), Char = "}",
         Open(tokens) # {}, tokens[Max(Open(tokens))].type = "object"
  PROVE  Closed(Max(Open(tokens)))
  <1>1. CloseBracket
    <2>1. Char = "}" /\ Char \notin {"{", "[", "]", ":", ",", Quote, Blank}
      BY DEF Quote, Blank
    <2>2. ~(pos > Len(js))
      BY NotAtEnd
    <2>. QED BY <2>1, <2>2, ActionChars DEF jsmn_parse
  <1>2. PICK last : last = Max(Open(tokens))
    OBVIOUS
  <1>3. last \in 1 .. Len(tokens)
    BY <1>2, OpenMax DEF JsmnInv
  <1>4. /\ tokens' = [tokens EXCEPT ![last].end = pos + 1]
        /\ pos' = pos + 1 /\ UNCHANGED <<js, parsed>>
    BY <1>1, <1>2 DEF CloseBracket
  <1>5. Closed(last)
    BY <1>3, <1>4, Closes
  <1>. QED BY <1>2, <1>5

-----------------------------------------------------------------------------
(* A token more, and a container less.                                     *)
LEMMA RightGrown ==
  ASSUME JsmnInv, NEW pt, RightTokens(pt), UNCHANGED doc,
         NEW type, NEW start, NEW end, Grown(type, start, end),
         RightToken(pt, Len(tokens) + 1,
                    [type |-> type, start |-> start, end |-> end, size |-> 0])
  PROVE  /\ RightTokens(pt)' /\ Len(tokens') = Len(tokens) + 1
         /\ type \in Containers /\ end = 0 => Open(tokens') = Open(tokens) \cup {Len(tokens) + 1}
         /\ ~(type \in Containers /\ end = 0) => Open(tokens') = Open(tokens)
         /\ pos' = (IF end = 0 THEN pos + 1 ELSE IF type = "string" THEN end + 1 ELSE end)
         /\ UNCHANGED <<js, parsed>>
  <1>. DEFINE tok == [type |-> type, start |-> start, end |-> end, size |-> 0]
  <1>1. /\ Len(tokens') = Len(tokens) + 1 /\ tokens'[Len(tokens) + 1] = tok
        /\ \A n \in 1 .. Len(tokens) : /\ tokens'[n].type = tokens[n].type
                                       /\ tokens'[n].start = tokens[n].start
                                       /\ tokens'[n].end = tokens[n].end
        /\ UNCHANGED <<js, parsed>> /\ tokens' \in Seq(Toks)
    BY DEF Grown
  <1>2. Len(tokens) \in Nat /\ DOMAIN tokens = 1 .. Len(tokens) /\ DOMAIN tokens' = 1 .. Len(tokens) + 1
    BY <1>1 DEF JsmnInv
  <1>3. \A n \in 1 .. Len(tokens) + 1 : n = Len(tokens) + 1 \/ n \in 1 .. Len(tokens)
    BY <1>2
  <1>4. \A n \in 1 .. Len(tokens) : n # Len(tokens) + 1
    BY <1>2
  <1>5. Open(tokens') = IF tok.type \in Containers /\ tok.end = 0 THEN Open(tokens) \cup {Len(tokens) + 1}
                        ELSE Open(tokens)
    <2>. HIDE DEF tok
    <2>1. Len(tokens) + 1 \in DOMAIN tokens' /\ \A n \in 1 .. Len(tokens) : n \in DOMAIN tokens'
      BY <1>2
    <2>. QED BY <1>1, <1>2, <1>3, <1>4, <2>1 DEF Open
  <1>6. tok.type = type /\ tok.end = end
    OBVIOUS
  <1>. HIDE DEF tok
  <1>7. \A n \in 1 .. Len(tokens) + 1 : RightToken(pt, n, tokens'[n])
    <2>1. ASSUME NEW n \in 1 .. Len(tokens)
          PROVE  RightToken(pt, n, tokens'[n])
      <3>1. RightToken(pt, n, tokens[n])
        BY DEF RightTokens
      <3>. QED BY <1>1, <3>1 DEF RightToken
    <2>2. RightToken(pt, Len(tokens) + 1, tokens'[Len(tokens) + 1])
      BY <1>1 DEF tok
    <2>. QED BY <1>3, <2>1, <2>2
  <1>8. RightTokens(pt)'
    <2>1. \A k, t : RightToken(pt, k, t)' <=> RightToken(pt, k, t)
      BY <1>1, SamePlaces
    <2>. QED BY <1>1, <1>7, <2>1 DEF RightTokens
  <1>. QED BY <1>1, <1>5, <1>6, <1>8 DEF Grown

(* The tokens stay right when a container is closed.                       *)
LEMMA RightClosed ==
  ASSUME JsmnInv, NEW pt, RightTokens(pt), UNCHANGED doc, NEW last \in 1 .. Len(tokens), Closed(last),
         tokens'[last].end # 0,
         Count \in Nat, last = 1 \/ last = Inner \/ last > Total, Total = Inner + 2 * Count,
         Inner \in {1, 3}, Inner = 3 <=> doc.nested
  PROVE  /\ RightTokens(pt)' /\ Len(tokens') = Len(tokens)
         /\ Open(tokens') = Open(tokens) \ {last}
         /\ pos' = pos + 1 /\ UNCHANGED <<js, parsed>>
  <1>1. /\ Len(tokens') = Len(tokens)
        /\ \A n \in 1 .. Len(tokens) : /\ tokens'[n].type = tokens[n].type
                                       /\ tokens'[n].start = tokens[n].start
                                       /\ n # last => tokens'[n].end = tokens[n].end
        /\ UNCHANGED <<js, parsed>> /\ tokens' \in Seq(Toks)
    BY DEF Closed
  <1>2. DOMAIN tokens = 1 .. Len(tokens) /\ DOMAIN tokens' = 1 .. Len(tokens)
    BY <1>1 DEF JsmnInv
  <1>3. Open(tokens') = Open(tokens) \ {last}
    BY <1>1, <1>2 DEF Open
  <1>4. \A n \in 1 .. Len(tokens) : RightToken(pt, n, tokens'[n])
    <2>. SUFFICES ASSUME NEW n \in 1 .. Len(tokens)
                  PROVE  RightToken(pt, n, tokens'[n])
      OBVIOUS
    <2>1. RightToken(pt, n, tokens[n])
      BY DEF RightTokens
    <2>2. CASE n # last
      BY <1>1, <2>1, <2>2 DEF RightToken
    <2>3. CASE n = last
      <3>1. \A m \in 1 .. Count : n # Inner + 2 * m - 1 /\ n # Inner + 2 * m
        BY <2>3
      <3>2. ~(doc.nested /\ n = 2)
        BY <2>3
      <3>. QED BY <1>1, <2>1, <3>1, <3>2 DEF RightToken
    <2>. QED BY <2>2, <2>3
  <1>5. RightTokens(pt)'
    <2>1. \A k, t : RightToken(pt, k, t)' <=> RightToken(pt, k, t)
      BY <1>1, SamePlaces
    <2>. QED BY <1>1, <1>4, <2>1 DEF RightTokens
  <1>. QED BY <1>1, <1>3, <1>5 DEF Closed

(* How far the tokenizer is depends on the reply and where it is.          *)
LEMMA SameStage ==
  ASSUME UNCHANGED doc, NEW pt
  PROVE  Stage(pt, pos, tokens)' <=> Stage(pt, pos', tokens')
  <1>1. Count' = Count /\ Inner' = Inner /\ Total' = Total /\ LastAt(pt)' = LastAt(pt)
    BY DEF Count, Inner, Total, LastAt
  <1>2. \A n : ColonAt(pt, n)' = ColonAt(pt, n)
    BY DEF ColonAt
  <1>3. InName(pt, pos, tokens)' <=> InName(pt, pos', tokens')
    BY <1>1 DEF InName
  <1>4. BehindReply(pt, pos, tokens)' <=> BehindReply(pt, pos', tokens')
    BY <1>1 DEF BehindReply, TailTokens, HasArray
  <1>5. \A n : InPair(pt, n, pos, tokens)' <=> InPair(pt, n, pos', tokens')
    BY <1>1, <1>2 DEF InPair
  <1>. QED BY <1>1, <1>3, <1>4, <1>5 DEF Stage

(* The tokenizer in a reply.                                               *)
Lexing(pt) ==
  /\ Reply /\ Placed(pt) /\ RightTokens(pt)
  /\ doc.tail \in Tails
  /\ parsed = "parsing" /\ jsmn_parse /\ UNCHANGED doc

(* A step that keeps the tokens right and gets somewhere in the reply.     *)
Advances(pt) == RightTokens(pt)' /\ parsed' = "parsing" /\ Stage(pt, pos', tokens')

(* The numbers of a reply.                                                 *)
LEMMA Numbers ==
  ASSUME NEW pt, Lexing(pt)
  PROVE  /\ Count \in Nat \ {0} /\ Inner \in {1, 3} /\ Total = Inner + 2 * Count
         /\ (Inner = 3 <=> doc.nested) /\ Total <= MaxTokens /\ MaxTokens \in Nat
         /\ JsmnInv /\ pos \in Nat \ {0} /\ Len(tokens) \in Nat /\ Len(js) \in Nat
         /\ Len(js) >= LastAt(pt) /\ (doc.tail = <<>> => Len(js) = LastAt(pt))
         /\ LastAt(pt) = pt[Count + 1] - (IF doc.nested THEN 0 ELSE 1)
         /\ pt[Count + 1] \in Nat
         /\ pt[1] = (IF doc.nested THEN 7 ELSE 2) /\ pt[1] <= pt[Count + 1]
         /\ doc.fields \in Fields
  <1>1. /\ doc.fields \in Fields /\ Placed(pt) /\ JsmnInv /\ Fits
        /\ doc.nested \in BOOLEAN /\ doc.tail \in Tails
    BY DEF Lexing, Reply
  <1>2. /\ Count \in Nat \ {0} /\ Inner \in {1, 3} /\ Total = Inner + 2 * Count
        /\ Total <= MaxTokens /\ MaxTokens \in Nat /\ (Inner = 3 <=> doc.nested)
    BY <1>1, Sizes, TokensAssumption DEF Inner
  <1>3. pos \in Nat \ {0} /\ Len(tokens) \in Nat /\ Len(js) \in Nat
    BY <1>1 DEF JsmnInv
  <1>4. doc.tail \in Seq(Chars)
    BY <1>1, TextsAre
  <1>5. LastAt(pt) = pt[Count + 1] - (IF doc.nested THEN 0 ELSE 1)
    BY DEF LastAt
  <1>6. /\ pt \in [1 .. Count + 1 -> Nat] /\ pt[1] = (IF doc.nested THEN 7 ELSE 2)
        /\ Len(js) = LastAt(pt) + Len(doc.tail)
    BY <1>1 DEF Placed
  <1>7. pt[Count + 1] \in Nat /\ LastAt(pt) \in Int
    BY <1>2, <1>5, <1>6
  <1>8. Len(js) >= LastAt(pt) /\ (doc.tail = <<>> => Len(js) = LastAt(pt))
    <2>1. Len(doc.tail) \in Nat /\ (doc.tail = <<>> => Len(doc.tail) = 0)
      BY <1>4
    <2>. QED BY <1>6, <1>7, <2>1
  <1>9. pt[1] <= pt[Count + 1]
    <2>1. 1 \in 1 .. Count /\ 1 + 1 = 2
      BY <1>2
    <2>2. PairFacts(pt, 1)
      BY <1>1, <2>1, PairPlaces
    <2>3. PICK k \in Nat, v \in Nat, q \in {0, 1} :
            /\ k = Len(doc.fields[1].key) /\ v = Len(doc.fields[1].value) /\ q = Quoted(1)
      BY <2>2 DEF PairFacts
    <2>4. PICK a \in Nat, b \in Nat : a = pt[1] /\ b = pt[1 + 1]
      BY <2>2 DEF PairFacts
    <2>5. b = (a + k + 2) + 1 + q + v + q + 1 /\ b <= pt[Count + 1]
      BY <2>2, <2>3, <2>4 DEF PairFacts
    <2>. QED BY <1>7, <2>4, <2>5
  <1>. QED BY <1>1, <1>2, <1>3, <1>5, <1>6, <1>7, <1>8, <1>9

(* The first bracket.                                                      *)
LEMMA AtStart ==
  ASSUME NEW pt, Lexing(pt), pos = 1, Len(tokens) = 0
  PROVE  Advances(pt)
  <1>1. /\ Count \in Nat \ {0} /\ Inner \in {1, 3} /\ Total = Inner + 2 * Count
        /\ (Inner = 3 <=> doc.nested) /\ Total <= MaxTokens /\ MaxTokens \in Nat
        /\ JsmnInv /\ Len(js) \in Nat /\ Len(js) >= LastAt(pt)
        /\ LastAt(pt) = pt[Count + 1] - (IF doc.nested THEN 0 ELSE 1)
        /\ pt[Count + 1] \in Nat
        /\ pt[1] = (IF doc.nested THEN 7 ELSE 2) /\ pt[1] <= pt[Count + 1]
    BY Numbers
  <1>2. pos <= Len(js) /\ Len(tokens) < MaxTokens
    BY <1>1
  <1>3. Char = "{"
    <2>1. 2 - 1 = 1
      OBVIOUS
    <2>. QED BY <1>1, <2>1 DEF Lexing, Placed, Char
  <1>4. Grown("object", 1, 0)
    BY <1>1, <1>2, <1>3, AtBrace DEF Lexing
  <1>5. RightToken(pt, Len(tokens) + 1,
                   [type |-> "object", start |-> 1, end |-> 0, size |-> 0])
    <2>1. Len(tokens) + 1 = 1 /\ ~(doc.nested /\ 1 = 2)
          /\ \A n \in 1 .. Count : 1 # Inner + 2 * n - 1 /\ 1 # Inner + 2 * n
      BY <1>1
    <2>. QED BY <2>1 DEF RightToken
  <1>6. /\ RightTokens(pt)' /\ Len(tokens') = 1 /\ Open(tokens') = Open(tokens) \cup {1}
        /\ pos' = 2 /\ parsed' = parsed
    <2>1. "object" \in Containers /\ 0 = 0 /\ RightTokens(pt) /\ UNCHANGED doc
      BY DEF Containers, Lexing
    <2>2. /\ RightTokens(pt)' /\ Len(tokens') = Len(tokens) + 1
          /\ Open(tokens') = Open(tokens) \cup {Len(tokens) + 1}
          /\ pos' = pos + 1 /\ parsed' = parsed
      BY <1>1, <1>4, <1>5, <2>1, RightGrown
    <2>. QED BY <2>2
  <1>7. Open(tokens') = {1}
    <2>1. Open(tokens) = {}
      <3>1. tokens = <<>>
        BY <1>1 DEF JsmnInv
      <3>. QED BY <3>1 DEF Open
    <2>. QED BY <1>6, <2>1
  <1>8. Stage(pt, pos', tokens')
    <2>1. CASE doc.nested
      BY <1>6, <1>7, <2>1 DEF Stage, InName
    <2>2. CASE ~doc.nested
      <3>1. Inner = 1 /\ 1 \in 1 .. Count /\ pos' = pt[1] /\ Len(tokens') = Inner + 2 * 1 - 2
        BY <1>1, <1>6, <2>2
      <3>. QED BY <1>7, <3>1 DEF Stage, InPair
    <2>. QED BY <2>1, <2>2
  <1>. QED BY <1>6, <1>8 DEF Advances, Lexing

(* The name around a reply.                                                *)
LEMMA PlainOne == Plain(<<"n">>) /\ Escaped(<<"n">>) /\ Len(<<"n">>) = 1
  <1>1. "n" # Nul /\ "n" # Quote /\ "n" # Backslash
    BY DEF Nul, Quote, Backslash
  <1>2. Len(<<"n">>) = 1 /\ DOMAIN <<"n">> = {1} /\ <<"n">>[1] = "n"
    OBVIOUS
  <1>3. Taken(<<"n">>, 1) = {}
    BY <1>2 DEF Taken
  <1>4. Plain(<<"n">>)
    BY <1>1, <1>2 DEF Plain
  <1>5. Escaped(<<"n">>)
    BY <1>1, <1>2, <1>3 DEF Escaped
  <1>. QED BY <1>2, <1>4, <1>5

(* The name around a reply, and the bracket that ends it.                  *)
LEMMA AtName ==
  ASSUME NEW pt, Lexing(pt), InName(pt, pos, tokens)
  PROVE  Advances(pt)
  <1>1. /\ Count \in Nat \ {0} /\ Inner = 3 /\ Total = Inner + 2 * Count
        /\ Total <= MaxTokens /\ MaxTokens \in Nat
        /\ JsmnInv /\ Len(js) \in Nat /\ Len(js) >= LastAt(pt) /\ pos \in Nat \ {0}
        /\ LastAt(pt) = pt[Count + 1] /\ (doc.tail = <<>> => Len(js) = LastAt(pt))
        /\ pt[Count + 1] \in Nat
        /\ pt[1] = 7 /\ pt[1] <= pt[Count + 1] /\ Len(tokens) \in Nat
    BY Numbers DEF InName
  <1>2. doc.nested /\ Open(tokens) = {1}
    BY DEF InName
  <1>3. /\ js[2] = Quote /\ js[3] = "n" /\ js[4] = Quote /\ js[5] = ":" /\ js[6] = "{"
        /\ js[pt[Count + 1]] = "}"
    <2>1. 7 - 1 = 6
      OBVIOUS
    <2>. QED BY <1>1, <1>2, <2>1 DEF Lexing, Placed
  <1>4. RightTokens(pt) /\ UNCHANGED doc /\ jsmn_parse /\ parsed = "parsing"
    BY DEF Lexing
  <1>5. CASE pos = 2 /\ Len(tokens) = 1
    <2>1. pos <= Len(js) /\ Len(tokens) < MaxTokens
      BY <1>1, <1>5
    <2>2. Between(pos, <<"n">>)
      <3>1. pos + 1 = 3 /\ pos + Len(<<"n">>) + 1 = 4 /\ 4 <= Len(js) /\ Len(<<"n">>) = 1
        BY <1>1, <1>5
      <3>2. \A k \in 1 .. 1 : k = 1
        OBVIOUS
      <3>3. <<"n">>[1] = "n"
        OBVIOUS
      <3>. QED BY <1>3, <3>1, <3>2, <3>3 DEF Between
    <2>3. Grown("string", 3, 4)
      <3>1. Grown("string", pos + 1, pos + Len(<<"n">>) + 1)
        BY <1>1, <1>3, <1>4, <1>5, <2>1, <2>2, PlainOne, AtQuote DEF Char
      <3>2. pos + 1 = 3 /\ pos + Len(<<"n">>) + 1 = 4
        BY <1>5
      <3>. QED BY <3>1, <3>2
    <2>4. RightToken(pt, Len(tokens) + 1, [type |-> "string", start |-> 3, end |-> 4, size |-> 0])
      <3>1. Len(tokens) + 1 = 2 /\ 2 \notin {1, Inner}
            /\ \A n \in 1 .. Count : 2 # Inner + 2 * n - 1 /\ 2 # Inner + 2 * n
        BY <1>1, <1>5
      <3>. QED BY <3>1 DEF RightToken
    <2>5. ~("string" \in Containers /\ 4 = 0)
      OBVIOUS
    <2>6. /\ RightTokens(pt)' /\ Len(tokens') = 2 /\ Open(tokens') = {1}
          /\ pos' = 5 /\ parsed' = parsed
      <3>1. /\ RightTokens(pt)' /\ Len(tokens') = Len(tokens) + 1 /\ Open(tokens') = Open(tokens)
            /\ pos' = (IF 4 = 0 THEN pos + 1 ELSE IF "string" = "string" THEN 4 + 1 ELSE 4)
            /\ parsed' = parsed
        BY <1>1, <1>4, <2>3, <2>4, <2>5, RightGrown
      <3>. QED BY <1>2, <1>5, <3>1
    <2>7. Stage(pt, pos', tokens')
      BY <1>2, <2>6 DEF Stage, InName
    <2>. QED BY <1>4, <2>6, <2>7 DEF Advances
  <1>6. CASE pos = 5 /\ Len(tokens) = 2
    <2>1. pos <= Len(js) /\ Char \in {":", ","}
      <3>1. pos <= Len(js)
        BY <1>1, <1>6
      <3>. QED BY <1>3, <1>6, <3>1 DEF Char
    <2>2. pos' = 6 /\ UNCHANGED <<js, tokens, parsed>>
      <3>1. pos' = pos + 1 /\ UNCHANGED <<js, tokens, parsed>>
        BY <1>1, <1>4, <2>1, AtMark
      <3>. QED BY <1>6, <3>1
    <2>3. RightTokens(pt)'
      BY <1>4, <2>2, SamePlaces
    <2>4. Stage(pt, pos', tokens')
      BY <1>2, <1>6, <2>2 DEF Stage, InName
    <2>. QED BY <1>4, <2>2, <2>3, <2>4 DEF Advances
  <1>7. CASE pos = 6 /\ Len(tokens) = 2
    <2>1. pos <= Len(js) /\ Len(tokens) < MaxTokens
      BY <1>1, <1>7
    <2>2. Grown("object", 6, 0)
      BY <1>1, <1>3, <1>4, <1>7, <2>1, AtBrace DEF Char
    <2>3. RightToken(pt, Len(tokens) + 1, [type |-> "object", start |-> 6, end |-> 0, size |-> 0])
      <3>1. Len(tokens) + 1 = 3 /\ 3 # 2
            /\ \A n \in 1 .. Count : 3 # Inner + 2 * n - 1 /\ 3 # Inner + 2 * n
        BY <1>1, <1>7
      <3>. QED BY <3>1 DEF RightToken
    <2>4. "object" \in Containers /\ 0 = 0
      BY DEF Containers
    <2>5. /\ RightTokens(pt)' /\ Len(tokens') = 3 /\ Open(tokens') = {1, 3}
          /\ pos' = 7 /\ parsed' = parsed
      <3>1. /\ RightTokens(pt)' /\ Len(tokens') = Len(tokens) + 1
            /\ Open(tokens') = Open(tokens) \cup {Len(tokens) + 1}
            /\ pos' = pos + 1 /\ parsed' = parsed
        BY <1>1, <1>4, <2>2, <2>3, <2>4, RightGrown
      <3>. QED BY <1>2, <1>7, <3>1
    <2>6. Stage(pt, pos', tokens')
      <3>1. 1 \in 1 .. Count /\ pos' = pt[1] /\ Len(tokens') = Inner + 2 * 1 - 2
            /\ Open(tokens') = {1, Inner}
        BY <1>1, <2>5
      <3>. QED BY <3>1 DEF Stage, InPair
    <2>. QED BY <1>4, <2>5, <2>6 DEF Advances
  <1>8. CASE pos = pt[Count + 1] /\ Len(tokens) = Total
    <2>1. pos <= Len(js) /\ Char = "}"
      BY <1>1, <1>3, <1>8 DEF Char
    <2>2. Max(Open(tokens)) = 1 /\ 1 \in 1 .. Len(tokens) /\ Open(tokens) # {}
      <3>1. Open(tokens) # {} /\ tokens \in Seq(Toks)
        BY <1>1, <1>2 DEF JsmnInv
      <3>2. Max(Open(tokens)) \in Open(tokens)
        BY <3>1, OpenMax
      <3>. QED BY <1>1, <1>2, <1>8, <3>1, <3>2
    <2>3. tokens[1].type = "object"
      BY <1>4, <2>2 DEF RightTokens, RightToken
    <2>4. Closed(1)
      <3>1. Open(tokens) # {} /\ tokens[Max(Open(tokens))].type = "object"
        BY <2>2, <2>3
      <3>. QED BY <1>1, <1>4, <2>1, <2>2, <3>1, AtClose
    <2>5. /\ RightTokens(pt)' /\ Len(tokens') = Len(tokens)
          /\ Open(tokens') = Open(tokens) \ {1}
          /\ pos' = pos + 1 /\ UNCHANGED <<js, parsed>>
      <3>1. tokens'[1].end # 0
        BY <2>4 DEF Closed
      <3>. QED BY <1>1, <1>2, <1>4, <2>2, <2>4, <3>1, RightClosed
    <2>6. BehindReply(pt, pos', tokens')
      <3>1. Open(tokens') = {} /\ Len(tokens') = Total /\ pos' = LastAt(pt) + 1 /\ pos' > LastAt(pt)
        BY <1>1, <1>2, <1>8, <2>5
      <3>. QED BY <1>1, <3>1 DEF BehindReply, TailTokens
    <2>. QED BY <1>4, <2>5, <2>6 DEF Advances, Stage
  <1>. QED BY <1>5, <1>6, <1>7, <1>8 DEF InName

(* The numbers of a pair: where its colon, its value and the value's end   *)
(* are, and the mark behind it.                                            *)
PairNumbers(pt, n, b, k, c, a, e, v, z) ==
  /\ b = pt[n] /\ k = Len(doc.fields[n].key) /\ v = Len(doc.fields[n].value)
  /\ c = ColonAt(pt, n) /\ c = b + k + 2
  /\ a = ValueAt(pt, n) /\ e = ValueEnd(pt, n) /\ e = a + v
  /\ z = pt[n + 1] - 1 /\ z + 1 = pt[n + 1]
  /\ IF doc.fields[n].quoted THEN a = c + 2 /\ z = e + 1 ELSE a = c + 1 /\ z = e
  /\ b <= Len(js) /\ c <= Len(js) /\ c + 1 <= Len(js) /\ e <= Len(js) /\ z <= Len(js)
  /\ b + k + 1 <= Len(js) /\ z <= LastAt(pt)
  /\ Inner + 2 * n <= Total /\ Inner + 2 * n <= MaxTokens

(* The places of a pair are within the text.                               *)
LEMMA NumbersOfPair ==
  ASSUME NEW pt, Lexing(pt), NEW n \in 1 .. Count
  PROVE  \E b, k, c, a, e, v, z \in Nat : PairNumbers(pt, n, b, k, c, a, e, v, z)
  <1>1. /\ Count \in Nat \ {0} /\ Inner \in {1, 3} /\ Total = Inner + 2 * Count
        /\ Total <= MaxTokens /\ MaxTokens \in Nat
        /\ Len(js) \in Nat /\ Len(js) >= LastAt(pt)
        /\ LastAt(pt) = pt[Count + 1] - (IF doc.nested THEN 0 ELSE 1)
        /\ pt[Count + 1] \in Nat
    BY Numbers
  <1>2. PairFacts(pt, n) /\ doc.fields[n].quoted \in BOOLEAN
    BY PairPlaces, FieldsAre DEF Lexing, Reply
  <1>3. PICK b \in Nat, k \in Nat, v \in Nat, q \in Nat :
          b = pt[n] /\ k = Len(doc.fields[n].key) /\ v = Len(doc.fields[n].value) /\ q = Quoted(n)
    BY <1>2 DEF PairFacts
  <1>4. q \in {0, 1} /\ (q = 1 <=> doc.fields[n].quoted)
    <2>1. Quoted(n) \in {0, 1} /\ (Quoted(n) = 1 <=> doc.fields[n].quoted)
      BY <1>2 DEF PairFacts
    <2>. QED BY <1>3, <2>1
  <1>5. PICK c, a, e, z \in Nat :
          /\ c = ColonAt(pt, n) /\ a = ValueAt(pt, n) /\ e = ValueEnd(pt, n)
          /\ z = pt[n + 1] - 1 /\ z + 1 = pt[n + 1]
          /\ c = b + k + 2 /\ a = c + 1 + q /\ e = a + v /\ z = e + q
    <2>1. /\ ColonAt(pt, n) = b + k + 2
          /\ ValueAt(pt, n) = ColonAt(pt, n) + 1 + q /\ ValueEnd(pt, n) = ValueAt(pt, n) + v
          /\ pt[n + 1] = ValueEnd(pt, n) + q + 1
      BY <1>2, <1>3 DEF PairFacts
    <2>2. PICK c, a, e, z \in Nat :
            c = b + k + 2 /\ a = c + 1 + q /\ e = a + v /\ z = e + q
      OBVIOUS
    <2>3. pt[n + 1] = z + 1 /\ z = (z + 1) - 1
      BY <2>1, <2>2
    <2>. QED BY <2>1, <2>2, <2>3
  <1>6. PICK l \in Nat, t \in Int : l = Len(js) /\ t = LastAt(pt) /\ z <= t /\ t <= l
    <2>1. PICK y \in Nat : y = pt[Count + 1]
      BY <1>1
    <2>2. LastAt(pt) \in {y, y - 1}
      BY <1>1, <2>1
    <2>3. z + 1 <= y
      BY <1>2, <1>5, <2>1 DEF PairFacts
    <2>. QED BY <1>1, <2>2, <2>3
  <1>7. b <= l /\ c <= l /\ c + 1 <= l /\ e <= l /\ z <= l /\ b + k + 1 <= l
    <2>1. c = b + k + 2 /\ a = c + 1 + q /\ e = a + v /\ z = e + q /\ z <= l
      BY <1>5, <1>6
    <2>. QED BY <2>1
  <1>8. IF doc.fields[n].quoted THEN a = c + 2 /\ z = e + 1 ELSE a = c + 1 /\ z = e
    BY <1>4, <1>5
  <1>9. Inner + 2 * n <= Total /\ Inner + 2 * n <= MaxTokens
    BY <1>1
  <1>10. PairNumbers(pt, n, b, k, c, a, e, v, z)
    BY <1>3, <1>5, <1>6, <1>7, <1>8, <1>9 DEF PairNumbers
  <1>. QED BY <1>10

(* The key of a pair.                                                      *)
LEMMA AtKey ==
  ASSUME NEW pt, Lexing(pt), NEW n \in 1 .. Count, Open(tokens) = {1, Inner},
         pos = pt[n], Len(tokens) = Inner + 2 * n - 2
  PROVE  Advances(pt)
  <1>1. /\ Count \in Nat \ {0} /\ Inner \in {1, 3} /\ Total = Inner + 2 * Count
        /\ MaxTokens \in Nat /\ Len(js) \in Nat /\ JsmnInv /\ n \in Nat
        /\ (Inner = 3 <=> doc.nested)
    BY Numbers
  <1>2. PICK b, k, c, a, e, v, z \in Nat : PairNumbers(pt, n, b, k, c, a, e, v, z)
    BY NumbersOfPair
  <1>3. /\ b = pt[n] /\ k = Len(doc.fields[n].key) /\ ColonAt(pt, n) = c /\ c = b + k + 2
        /\ b <= Len(js) /\ b + k + 1 <= Len(js) /\ Inner + 2 * n <= MaxTokens
    BY <1>2 DEF PairNumbers
  <1>4. PairAt(pt, n) /\ RightTokens(pt) /\ UNCHANGED doc /\ jsmn_parse /\ parsed = "parsing"
        /\ doc.fields \in Fields
    BY DEF Lexing, Placed, Reply
  <1>5. pos <= Len(js) /\ Len(tokens) < MaxTokens /\ pos = b
    <2>1. pos = b /\ b <= Len(js)
      BY <1>3
    <2>2. Len(tokens) < MaxTokens
      BY <1>1, <1>3
    <2>. QED BY <2>1, <2>2
  <1>6. PICK w : w = doc.fields[n].key
    OBVIOUS
  <1>7. Plain(w) /\ Escaped(w) /\ Len(w) = k
    BY <1>3, <1>4, <1>6, FieldsAre
  <1>8. Char = Quote /\ Between(pos, w)
    <2>1. /\ js[b] = Quote /\ \A x \in 1 .. Len(w) : js[b + x] = w[x]
          /\ js[ColonAt(pt, n) - 1] = Quote
      BY <1>3, <1>4, <1>6 DEF PairAt
    <2>2. ColonAt(pt, n) - 1 = b + Len(w) + 1 /\ b + Len(w) + 1 <= Len(js)
      <3>1. c - 1 = b + k + 1
        <4>1. c = b + k + 2
          BY <1>3
        <4>. QED BY <4>1
      <3>. QED BY <1>3, <1>7, <3>1
    <2>. QED BY <1>5, <2>1, <2>2 DEF Between, Char
  <1>9. Grown("string", b + 1, b + k + 1)
    <2>1. Grown("string", pos + 1, pos + Len(w) + 1)
      BY <1>1, <1>4, <1>5, <1>7, <1>8, AtQuote
    <2>. QED BY <1>5, <1>7, <2>1
  <1>10. PICK st \in Nat, en \in Nat \ {0} :
           st = b + 1 /\ en = b + k + 1 /\ en = ColonAt(pt, n) - 1 /\ en + 1 = ColonAt(pt, n)
    <2>1. c = b + k + 2
      BY <1>3
    <2>2. PICK st \in Nat, en \in Nat \ {0} : st = b + 1 /\ en = b + k + 1
      OBVIOUS
    <2>3. en = c - 1 /\ en + 1 = c
      BY <2>1, <2>2
    <2>. QED BY <1>3, <2>2, <2>3
  <1>11. RightToken(pt, Len(tokens) + 1, [type |-> "string", start |-> st, end |-> en, size |-> 0])
    <2>1. /\ Len(tokens) + 1 = Inner + 2 * n - 1 /\ Len(tokens) + 1 \notin {1, Inner}
          /\ ~(doc.nested /\ Len(tokens) + 1 = 2)
          /\ \A m \in 1 .. Count : /\ Len(tokens) + 1 = Inner + 2 * m - 1 => m = n
                                   /\ Len(tokens) + 1 # Inner + 2 * m
      BY <1>1
    <2>. QED BY <1>3, <1>10, <2>1 DEF RightToken
  <1>12. /\ RightTokens(pt)' /\ Len(tokens') = Len(tokens) + 1 /\ Open(tokens') = Open(tokens)
         /\ pos' = en + 1 /\ parsed' = parsed
    <2>1. ~("string" \in Containers /\ en = 0)
      BY <1>10
    <2>2. Grown("string", st, en)
      BY <1>9, <1>10
    <2>3. /\ RightTokens(pt)' /\ Len(tokens') = Len(tokens) + 1 /\ Open(tokens') = Open(tokens)
          /\ pos' = (IF en = 0 THEN pos + 1 ELSE IF "string" = "string" THEN en + 1 ELSE en)
          /\ parsed' = parsed
      BY <1>1, <1>4, <1>11, <2>1, <2>2, RightGrown
    <2>. QED BY <1>10, <2>3
  <1>13. Stage(pt, pos', tokens')
    <2>1. Len(tokens') = Inner + 2 * n - 1 /\ pos' = ColonAt(pt, n)
      BY <1>1, <1>10, <1>12
    <2>. QED BY <1>12, <2>1 DEF Stage, InPair
  <1>. QED BY <1>4, <1>12, <1>13 DEF Advances

(* The colon of a pair, and the comma behind it.                           *)
LEMMA AtColon ==
  ASSUME NEW pt, Lexing(pt), NEW n \in 1 .. Count, Open(tokens) = {1, Inner},
         pos = ColonAt(pt, n), Len(tokens) = Inner + 2 * n - 1
  PROVE  Advances(pt)
  <1>1. PICK b, k, c, a, e, v, z \in Nat : PairNumbers(pt, n, b, k, c, a, e, v, z)
    BY NumbersOfPair
  <1>2. pos <= Len(js)
    BY <1>1 DEF PairNumbers
  <1>3. PairAt(pt, n) /\ RightTokens(pt) /\ UNCHANGED doc /\ jsmn_parse /\ parsed = "parsing"
        /\ JsmnInv
    BY DEF Lexing, Placed, Reply
  <1>4. pos' = pos + 1 /\ UNCHANGED <<js, tokens, parsed>>
    <2>1. Char \in {":", ","}
      BY <1>3 DEF PairAt, Char
    <2>. QED BY <1>2, <1>3, <2>1, AtMark
  <1>5. RightTokens(pt)'
    BY <1>3, <1>4, SamePlaces
  <1>6. Stage(pt, pos', tokens')
    BY <1>4 DEF Stage, InPair
  <1>. QED BY <1>3, <1>4, <1>5, <1>6 DEF Advances

(* The comma behind a pair.                                                *)
LEMMA AtComma ==
  ASSUME NEW pt, Lexing(pt), NEW n \in 1 .. Count, n # Count, Open(tokens) = {1, Inner},
         pos = pt[n + 1] - 1, Len(tokens) = Inner + 2 * n
  PROVE  Advances(pt)
  <1>1. PICK b, k, c, a, e, v, z \in Nat : PairNumbers(pt, n, b, k, c, a, e, v, z)
    BY NumbersOfPair
  <1>2. pos <= Len(js) /\ pos + 1 = pt[n + 1]
    BY <1>1 DEF PairNumbers
  <1>3. PairAt(pt, n) /\ RightTokens(pt) /\ UNCHANGED doc /\ jsmn_parse /\ parsed = "parsing"
        /\ JsmnInv
    BY DEF Lexing, Placed, Reply
  <1>4. pos' = pt[n + 1] /\ UNCHANGED <<js, tokens, parsed>>
    <2>1. Char \in {":", ","}
      BY <1>3 DEF PairAt, Char
    <2>2. pos' = pos + 1 /\ UNCHANGED <<js, tokens, parsed>>
      BY <1>2, <1>3, <2>1, AtMark
    <2>. QED BY <1>2, <2>2
  <1>5. RightTokens(pt)'
    BY <1>3, <1>4, SamePlaces
  <1>6. Stage(pt, pos', tokens')
    <2>1. n + 1 \in 1 .. Count /\ Len(tokens') = Inner + 2 * (n + 1) - 2
      <3>1. Count \in Nat /\ Inner \in {1, 3}
        BY Numbers
      <3>. QED BY <1>4, <3>1
    <2>. QED BY <1>4, <2>1 DEF Stage, InPair
  <1>. QED BY <1>3, <1>4, <1>5, <1>6 DEF Advances

(* The value of a pair, between quotes or not.                             *)
LEMMA AtValue ==
  ASSUME NEW pt, Lexing(pt), NEW n \in 1 .. Count, Open(tokens) = {1, Inner},
         pos = ColonAt(pt, n) + 1, Len(tokens) = Inner + 2 * n - 1
  PROVE  Advances(pt)
  <1>1. /\ Count \in Nat \ {0} /\ Inner \in {1, 3} /\ Total = Inner + 2 * Count
        /\ MaxTokens \in Nat /\ Len(js) \in Nat /\ JsmnInv /\ n \in Nat
        /\ (Inner = 3 <=> doc.nested)
    BY Numbers
  <1>2. PICK b, k, c, a, e, v, z \in Nat : PairNumbers(pt, n, b, k, c, a, e, v, z)
    BY NumbersOfPair
  <1>3. /\ v = Len(doc.fields[n].value) /\ c = ColonAt(pt, n)
        /\ a = ValueAt(pt, n) /\ e = ValueEnd(pt, n) /\ e = a + v
        /\ z = pt[n + 1] - 1
        /\ c + 1 <= Len(js) /\ e <= Len(js) /\ Inner + 2 * n <= MaxTokens
    BY <1>2 DEF PairNumbers
  <1>4. /\ doc.fields[n].quoted \in BOOLEAN
        /\ doc.fields[n].quoted => a = c + 2 /\ z = e + 1
        /\ ~doc.fields[n].quoted => a = c + 1 /\ z = e
    <2>1. doc.fields[n].quoted \in BOOLEAN
      BY FieldsAre DEF Lexing, Reply
    <2>. QED BY <1>2, <2>1 DEF PairNumbers
  <1>5. PairAt(pt, n) /\ RightTokens(pt) /\ UNCHANGED doc /\ jsmn_parse /\ parsed = "parsing"
        /\ doc.fields \in Fields
    BY DEF Lexing, Placed, Reply
  <1>6. pos <= Len(js) /\ Len(tokens) < MaxTokens /\ pos = c + 1
    <2>1. pos = c + 1 /\ c + 1 <= Len(js)
      BY <1>3
    <2>2. Len(tokens) < MaxTokens
      BY <1>1, <1>3
    <2>. QED BY <2>1, <2>2
  <1>7. PICK w : w = doc.fields[n].value
    OBVIOUS
  <1>8. /\ Plain(w) /\ w \in Seq(Chars) /\ Len(w) = v
        /\ IF doc.fields[n].quoted THEN Escaped(w) ELSE Bare(w)
    BY <1>3, <1>5, <1>7, FieldsAre
  <1>9. /\ \A x \in 1 .. Len(w) : js[a + x - 1] = w[x]
        /\ doc.fields[n].quoted => js[c + 1] = Quote /\ js[e] = Quote
        /\ js[z] \in {",", "}"}
    BY <1>3, <1>5, <1>7 DEF PairAt
  <1>10. PICK type \in {"string", "primitive"} :
           /\ type = (IF doc.fields[n].quoted THEN "string" ELSE "primitive")
           /\ Grown(type, a, e)
    <2>1. CASE doc.fields[n].quoted
      <3>1. a = c + 2 /\ e = c + 2 + v
        BY <1>3, <1>4, <2>1
      <3>2. Between(pos, w)
        <4>1. \A x \in 1 .. Len(w) : a + x - 1 = pos + x
          BY <1>6, <1>8, <3>1
        <4>2. pos + Len(w) + 1 = e
          BY <1>6, <1>8, <3>1
        <4>. QED BY <1>3, <1>9, <2>1, <4>1, <4>2 DEF Between
      <3>3. Char = Quote
        BY <1>6, <1>9, <2>1 DEF Char
      <3>4. Grown("string", pos + 1, pos + Len(w) + 1)
        BY <1>1, <1>5, <1>6, <1>8, <2>1, <3>2, <3>3, AtQuote
      <3>5. pos + 1 = a /\ pos + Len(w) + 1 = e
        <4>1. pos = c + 1 /\ Len(w) = v
          BY <1>6, <1>8
        <4>2. c + 1 + 1 = a /\ c + 1 + v + 1 = e
          BY <3>1
        <4>. QED BY <4>1, <4>2
      <3>. QED BY <2>1, <3>4, <3>5
    <2>2. CASE ~doc.fields[n].quoted
      <3>1. a = c + 1 /\ z = e /\ e = a + v /\ a = pos
        BY <1>3, <1>4, <1>6, <2>2
      <3>2. Before(pos, w)
        <4>1. \A x \in 1 .. Len(w) : js[pos + x - 1] = w[x]
          BY <1>9, <3>1
        <4>2. pos + Len(w) = e
          BY <1>8, <3>1
        <4>3. js[pos + Len(w)] \in {",", "}"} /\ pos + Len(w) <= Len(js)
          BY <1>3, <1>9, <3>1, <4>2
        <4>. QED BY <4>1, <4>3 DEF Before
      <3>3. Grown("primitive", pos, pos + Len(w))
        BY <1>1, <1>5, <1>6, <1>8, <2>2, <3>2, AtWord
      <3>4. pos = a /\ pos + Len(w) = e
        BY <1>8, <3>1
      <3>. QED BY <2>2, <3>3, <3>4
    <2>. QED BY <1>4, <2>1, <2>2
  <1>11. e # 0
    <2>1. a # 0
      BY <1>4
    <2>2. e = a + v
      BY <1>3
    <2>. QED BY <2>1, <2>2
  <1>12. RightToken(pt, Len(tokens) + 1, [type |-> type, start |-> a, end |-> e, size |-> 0])
    <2>1. /\ Len(tokens) + 1 = Inner + 2 * n /\ Len(tokens) + 1 \notin {1, Inner}
          /\ ~(doc.nested /\ Len(tokens) + 1 = 2)
          /\ \A m \in 1 .. Count : /\ Len(tokens) + 1 = Inner + 2 * m => m = n
                                   /\ Len(tokens) + 1 # Inner + 2 * m - 1
      BY <1>1
    <2>. QED BY <1>3, <1>10, <2>1 DEF RightToken
  <1>13. /\ RightTokens(pt)' /\ Len(tokens') = Len(tokens) + 1 /\ Open(tokens') = Open(tokens)
         /\ pos' = (IF type = "string" THEN e + 1 ELSE e) /\ parsed' = parsed
    <2>1. ~(type \in Containers /\ e = 0)
      BY <1>11
    <2>2. /\ RightTokens(pt)' /\ Len(tokens') = Len(tokens) + 1 /\ Open(tokens') = Open(tokens)
          /\ pos' = (IF e = 0 THEN pos + 1 ELSE IF type = "string" THEN e + 1 ELSE e)
          /\ parsed' = parsed
      BY <1>1, <1>5, <1>10, <1>12, <2>1, RightGrown
    <2>. QED BY <1>11, <2>2
  <1>14. Stage(pt, pos', tokens')
    <2>1. pos' = z
      BY <1>4, <1>10, <1>13
    <2>2. Len(tokens') = Inner + 2 * n /\ pos' = pt[n + 1] - 1
      BY <1>1, <1>3, <1>13, <2>1
    <2>. QED BY <1>13, <2>2 DEF Stage, InPair
  <1>. QED BY <1>5, <1>13, <1>14 DEF Advances

(* The bracket behind the last pair.                                       *)
LEMMA AtLast ==
  ASSUME NEW pt, Lexing(pt), Open(tokens) = {1, Inner},
         pos = pt[Count + 1] - 1, Len(tokens) = Inner + 2 * Count
  PROVE  Advances(pt)
  <1>1. /\ Count \in Nat \ {0} /\ Inner \in {1, 3} /\ Total = Inner + 2 * Count
        /\ Len(js) \in Nat /\ JsmnInv /\ Count \in 1 .. Count
        /\ (Inner = 3 <=> doc.nested) /\ pt[Count + 1] \in Nat
        /\ LastAt(pt) = pt[Count + 1] - (IF doc.nested THEN 0 ELSE 1)
    BY Numbers
  <1>2. PICK b, k, c, a, e, v, z \in Nat : PairNumbers(pt, Count, b, k, c, a, e, v, z)
    BY <1>1, NumbersOfPair
  <1>3. pos = z /\ z <= Len(js) /\ pos + 1 = pt[Count + 1]
    BY <1>2 DEF PairNumbers
  <1>4. PairAt(pt, Count) /\ RightTokens(pt) /\ UNCHANGED doc /\ jsmn_parse /\ parsed = "parsing"
    BY <1>1 DEF Lexing, Placed
  <1>5. Char = "}"
    BY <1>4 DEF PairAt, Char
  <1>6. Max(Open(tokens)) = Inner /\ Inner \in 1 .. Len(tokens) /\ Open(tokens) # {}
    <2>1. Open(tokens) # {} /\ tokens \in Seq(Toks)
      BY <1>1 DEF JsmnInv
    <2>2. Max(Open(tokens)) \in Open(tokens) /\ \A x \in Open(tokens) : x <= Max(Open(tokens))
      BY <2>1, OpenMax
    <2>. QED BY <1>1, <2>1, <2>2
  <1>7. tokens[Inner].type = "object"
    BY <1>4, <1>6 DEF RightTokens, RightToken
  <1>8. Closed(Inner)
    <2>1. tokens[Max(Open(tokens))].type = "object" /\ pos <= Len(js)
      BY <1>3, <1>6, <1>7
    <2>. QED BY <1>1, <1>4, <1>5, <1>6, <2>1, AtClose
  <1>9. /\ RightTokens(pt)' /\ Len(tokens') = Len(tokens)
        /\ Open(tokens') = Open(tokens) \ {Inner}
        /\ pos' = pos + 1 /\ UNCHANGED <<js, parsed>>
    <2>1. tokens'[Inner].end # 0
      BY <1>8 DEF Closed
    <2>. QED BY <1>1, <1>4, <1>6, <1>8, <2>1, RightClosed
  <1>10. Stage(pt, pos', tokens')
    <2>1. CASE doc.nested
      <3>1. Open(tokens') = {1} /\ pos' = pt[Count + 1] /\ Len(tokens') = Total
        BY <1>1, <1>3, <1>9, <2>1
      <3>. QED BY <2>1, <3>1 DEF Stage, InName
    <2>2. CASE ~doc.nested
      <3>1. Open(tokens') = {}
        BY <1>1, <1>9, <2>2
      <3>2. Len(tokens') = Total /\ pos' = LastAt(pt) + 1 /\ pos' > LastAt(pt)
        BY <1>1, <1>3, <1>9, <2>2
      <3>. QED BY <1>1, <3>1, <3>2 DEF Stage, BehindReply, TailTokens
    <2>. QED BY <2>1, <2>2
  <1>. QED BY <1>4, <1>9, <1>10 DEF Advances

(* What a step of the tokenizer does, wherever it is.                      *)
TailStep ==
  \/ Failed
  \/ \E type \in Types, start, end \in Nat :
       /\ Grown(type, start, end) /\ (end # 0 => end >= pos)
       /\ type = "array" => pos \in 1 .. Len(js) /\ js[pos] = "["
  \/ Open(tokens) # {} /\ Closed(Max(Open(tokens)))
  \/ pos' = pos + 1 /\ UNCHANGED <<js, tokens, parsed>>
  \/ Finish

(* A token behind the reply.                                               *)
LEMMA AnyAlloc ==
  ASSUME JsmnInv, NEW type \in Types, NEW start \in Nat, NEW end \in Nat, end # 0 => end >= pos,
         type = "array" => pos \in 1 .. Len(js) /\ js[pos] = "[",
         Alloc(type, start, end)
  PROVE  TailStep
  <1>1. CASE Len(tokens) >= MaxTokens
    <2>1. Fail("nomem")
      BY <1>1 DEF Alloc
    <2>. QED BY <2>1 DEF TailStep, Failed, Fail
  <1>2. CASE ~(Len(tokens) >= MaxTokens)
    <2>1. Len(tokens) < MaxTokens
      BY <1>2, TokensAssumption DEF JsmnInv
    <2>2. Grown(type, start, end)
      BY <2>1, AllocGrows
    <2>. QED BY <2>2 DEF TailStep
  <1>. QED BY <1>1, <1>2

(* Every step of the tokenizer is one of these.                            *)
LEMMA AnyStep ==
  ASSUME JsmnInv, jsmn_parse
  PROVE  TailStep
  <1>1. \A error \in {"invalid", "part"} : Fail(error) => TailStep
    BY DEF TailStep, Failed, Fail
  <1>2. pos \in Nat \ {0} /\ Len(js) \in Nat
    BY DEF JsmnInv
  <1>3. CASE OpenBracket
    <2>1. PICK type \in {"object", "array"} :
            Alloc(type, pos, 0) /\ (type = "array" => js[pos] = "[")
      BY <1>3 DEF OpenBracket, Char
    <2>2. pos \in 1 .. Len(js)
      <3>1. pos <= Len(js)
        BY <1>3 DEF OpenBracket, Reading
      <3>. QED BY <1>2, <3>1
    <2>. QED BY <1>2, <2>1, <2>2, AnyAlloc DEF Types
  <1>4. CASE CloseBracket
    <2>1. PICK last : last = Max(Open(tokens))
      OBVIOUS
    <2>2. \/ Fail("invalid")
          \/ /\ Open(tokens) # {} /\ tokens' = [tokens EXCEPT ![last].end = pos + 1]
             /\ pos' = pos + 1 /\ UNCHANGED <<js, parsed>>
      BY <1>4, <2>1 DEF CloseBracket
    <2>3. Open(tokens) # {} => last \in 1 .. Len(tokens)
      BY <2>1, OpenMax DEF JsmnInv
    <2>. QED BY <1>1, <2>1, <2>2, <2>3, Closes DEF TailStep
  <1>5. CASE jsmn_parse_string
    <2>1. PICK ends \in SUBSET (pos + 1 .. Len(js)) :
            \/ Fail("invalid")
            \/ Fail("part")
            \/ ends # {} /\ Alloc("string", pos + 1, Min(ends))
      BY <1>5 DEF jsmn_parse_string
    <2>2. CASE ends # {} /\ Alloc("string", pos + 1, Min(ends))
      <3>1. ends \in SUBSET Nat
        BY <1>2
      <3>2. Min(ends) \in ends
        BY <2>2, <3>1, LeastOf
      <3>3. PICK end \in Nat : end = Min(ends) /\ end >= pos
        <4>1. PICK end \in pos + 1 .. Len(js) : end = Min(ends)
          BY <3>2
        <4>. QED BY <1>2, <4>1
      <3>4. "string" \in Types /\ pos + 1 \in Nat
        BY <1>2 DEF Types
      <3>. QED BY <2>2, <3>3, <3>4, AnyAlloc
    <2>. QED BY <1>1, <2>1, <2>2
  <1>6. CASE jsmn_parse_primitive
    <2>. DEFINE ends == {k \in pos .. Len(js) : js[k] \in EndsPrimitive} \cup {Len(js) + 1}
    <2>1. Reading /\ (Fail("invalid") \/ Alloc("primitive", pos, Min(ends)))
      BY <1>6 DEF jsmn_parse_primitive
    <2>2. ends \in SUBSET Nat /\ ends # {} /\ \A k \in ends : k >= pos
      BY <1>2, <2>1 DEF Reading
    <2>. HIDE DEF ends
    <2>3. Min(ends) \in Nat /\ Min(ends) >= pos /\ "primitive" \in Types
      BY <2>2, LeastOf DEF Types
    <2>4. PICK end \in Nat : end = Min(ends) /\ end >= pos
      BY <2>3
    <2>. QED BY <1>1, <1>2, <2>1, <2>3, <2>4, AnyAlloc
  <1>7. CASE Skip \/ Colon \/ Comma
    BY <1>7 DEF Skip, Colon, Comma, TailStep
  <1>. QED BY <1>3, <1>4, <1>5, <1>6, <1>7 DEF jsmn_parse, TailStep

(* Behind the reply stands the tail.                                       *)
LEMMA TailText ==
  ASSUME NEW pt, Lexing(pt), pos > LastAt(pt), pos \in 1 .. Len(js)
  PROVE  js[pos] \in Range(doc.tail)
  <1>1. /\ Len(js) = LastAt(pt) + Len(doc.tail)
        /\ \A x \in 1 .. Len(doc.tail) : js[LastAt(pt) + x] = doc.tail[x]
    BY DEF Lexing, Placed
  <1>2. PICK w \in Nat : w = Len(doc.tail) /\ DOMAIN doc.tail = 1 .. w
    BY TextsAre DEF Lexing
  <1>3. PICK last \in Int : last = LastAt(pt)
    BY Numbers
  <1>4. PICK x \in Int : x = pos - last
    BY <1>3
  <1>5. x \in 1 .. w /\ last + x = pos
    BY <1>1, <1>2, <1>3, <1>4
  <1>6. js[pos] = doc.tail[x]
    BY <1>1, <1>2, <1>3, <1>5
  <1>. QED BY <1>2, <1>5, <1>6 DEF Range

(* Behind the reply anything may stand, and is not read as a part of it.   *)
LEMMA AtTail ==
  ASSUME NEW pt, Lexing(pt), BehindReply(pt, pos, tokens)
  PROVE  Lexed(pt)'
  <1>1. /\ Count \in Nat \ {0} /\ Inner \in {1, 3} /\ Total = Inner + 2 * Count
        /\ JsmnInv /\ Len(js) \in Nat /\ pos \in Nat \ {0} /\ Len(tokens) \in Nat
        /\ (doc.tail = <<>> => Len(js) = LastAt(pt))
        /\ (Inner = 3 <=> doc.nested) /\ pt[Count + 1] \in Nat
        /\ LastAt(pt) = pt[Count + 1] - (IF doc.nested THEN 0 ELSE 1)
        /\ tokens \in Seq(Toks)
    BY Numbers DEF JsmnInv
  <1>2. RightTokens(pt) /\ UNCHANGED doc /\ jsmn_parse /\ parsed = "parsing"
    BY DEF Lexing
  <1>3. /\ pos > LastAt(pt) /\ Len(tokens) >= Total /\ TailTokens(tokens)
        /\ \A k \in Open(tokens) : k > Total
        /\ doc.tail = <<>> => pos = LastAt(pt) + 1 /\ Len(tokens) = Total /\ Open(tokens) = {}
    BY DEF BehindReply
  <1>4. Total' = Total
    BY <1>2, SameFields
  <1>5. CASE Finish
    <2>1. UNCHANGED <<js, tokens>> /\ parsed' = IF Open(tokens) = {} THEN "ok" ELSE "part"
      BY <1>5 DEF Finish
    <2>2. RightTokens(pt)'
      BY <1>2, <2>1, SamePlaces
    <2>. QED BY <1>2, <1>3, <1>4, <2>1, <2>2 DEF Lexed, TailTokens, HasArray
  <1>6. CASE ~Finish
    <2>1. doc.tail # <<>>
      <3>1. ASSUME doc.tail = <<>> PROVE FALSE
        <4>1. pos > Len(js)
          BY <1>1, <1>3, <3>1
        <4>2. ~Reading
          BY <1>1, <4>1 DEF Reading
        <4>. QED
          BY <1>2, <1>6, <4>2 DEF jsmn_parse, OpenBracket, CloseBracket, jsmn_parse_string,
             jsmn_parse_primitive, Skip, Colon, Comma
      <3>. QED BY <3>1
    <2>2. LastAt(pt) \in Int
      BY <1>1
    <2>3. TailStep
      BY <1>1, <1>2, AnyStep
    <2>4. CASE Failed
      <3>1. UNCHANGED <<js, tokens>> /\ parsed' \in {"invalid", "nomem", "part"}
        BY <2>4 DEF Failed
      <3>2. RightTokens(pt)'
        BY <1>2, <3>1, SamePlaces
      <3>. QED BY <1>2, <2>1, <3>1, <3>2 DEF Lexed
    <2>5. SUFFICES ASSUME ~Failed
                   PROVE  Advances(pt)
      <3>1. Advances(pt) => Lexed(pt)'
        BY <1>2, SameStage DEF Lexed, Advances
      <3>. QED BY <2>4, <3>1
    <2>6. CASE pos' = pos + 1 /\ UNCHANGED <<js, tokens, parsed>>
      <3>1. RightTokens(pt)'
        BY <1>2, <2>6, SamePlaces
      <3>2. BehindReply(pt, pos', tokens')
        <4>1. pos' > LastAt(pt)
          BY <1>1, <1>3, <2>2, <2>6
        <4>. QED BY <1>3, <2>1, <2>6, <4>1 DEF BehindReply
      <3>. QED BY <1>2, <2>6, <3>1, <3>2 DEF Advances, Stage
    <2>7. CASE Open(tokens) # {} /\ Closed(Max(Open(tokens)))
      <3>1. PICK last \in 1 .. Len(tokens) : last = Max(Open(tokens)) /\ last > Total
        BY <1>1, <1>3, <2>7, OpenMax DEF JsmnInv
      <3>2. Closed(last) /\ tokens'[last].end # 0
        BY <2>7, <3>1 DEF Closed
      <3>3. /\ RightTokens(pt)' /\ Len(tokens') = Len(tokens)
            /\ Open(tokens') = Open(tokens) \ {last}
            /\ pos' = pos + 1 /\ UNCHANGED <<js, parsed>>
        BY <1>1, <1>2, <3>1, <3>2, RightClosed
      <3>4. BehindReply(pt, pos', tokens')
        <4>1. pos' > LastAt(pt)
          BY <1>1, <1>3, <2>2, <3>3
        <4>2. TailTokens(tokens')
          <5>1. \A k \in 1 .. Len(tokens) : tokens'[k].type = tokens[k].type
            BY <3>2 DEF Closed
          <5>. QED BY <1>3, <3>3, <5>1 DEF TailTokens
        <4>. QED BY <1>3, <2>1, <3>3, <4>1, <4>2 DEF BehindReply
      <3>. QED BY <1>2, <3>3, <3>4 DEF Advances, Stage
    <2>8. CASE \E type \in Types, start, end \in Nat :
                 /\ Grown(type, start, end) /\ (end # 0 => end >= pos)
                 /\ type = "array" => pos \in 1 .. Len(js) /\ js[pos] = "["
      <3>1. PICK type \in Types, start \in Nat, end \in Nat :
              /\ Grown(type, start, end) /\ (end # 0 => end >= pos)
              /\ type = "array" => pos \in 1 .. Len(js) /\ js[pos] = "["
        BY <2>8
      <3>2. RightToken(pt, Len(tokens) + 1,
                       [type |-> type, start |-> start, end |-> end, size |-> 0])
        <4>1. /\ Len(tokens) + 1 \notin {1, Inner} /\ ~(doc.nested /\ Len(tokens) + 1 = 2)
              /\ \A m \in 1 .. Count : /\ Len(tokens) + 1 # Inner + 2 * m - 1
                                       /\ Len(tokens) + 1 # Inner + 2 * m
          BY <1>1, <1>3
        <4>. QED BY <4>1 DEF RightToken
      <3>3. /\ RightTokens(pt)' /\ Len(tokens') = Len(tokens) + 1
            /\ Open(tokens') \subseteq Open(tokens) \cup {Len(tokens) + 1}
            /\ pos' = (IF end = 0 THEN pos + 1 ELSE IF type = "string" THEN end + 1 ELSE end)
            /\ UNCHANGED <<js, parsed>>
        BY <1>1, <1>2, <3>1, <3>2, RightGrown
      <3>4. BehindReply(pt, pos', tokens')
        <4>1. pos' > LastAt(pt)
          <5>1. pos' \in {pos + 1, end + 1, end} /\ pos' >= pos
            BY <1>1, <3>1, <3>3
          <5>. QED BY <1>1, <1>3, <2>2, <3>1, <5>1
        <4>2. Len(tokens') >= Total /\ \A k \in Open(tokens') : k > Total
          BY <1>1, <1>3, <3>3
        <4>3. TailTokens(tokens')
          <5>1. type = "array" => HasArray
            BY <1>3, <3>1, TailText DEF HasArray
          <5>2. /\ tokens'[Len(tokens) + 1].type = type
                /\ \A k \in 1 .. Len(tokens) : tokens'[k].type = tokens[k].type
            BY <3>1, <3>3 DEF Grown
          <5>3. \A k \in 1 .. Len(tokens') : k = Len(tokens) + 1 \/ k \in 1 .. Len(tokens)
            BY <1>1, <3>3
          <5>. QED BY <1>3, <5>1, <5>2, <5>3 DEF TailTokens
        <4>. QED BY <2>1, <4>1, <4>2, <4>3 DEF BehindReply
      <3>. QED BY <1>2, <3>3, <3>4 DEF Advances, Stage
    <2>. QED BY <1>6, <2>3, <2>5, <2>6, <2>7, <2>8 DEF TailStep
  <1>. QED BY <1>5, <1>6

(* The tokenizer makes of a reply the tokens it should, in order.          *)
LEMMA LexStep ==
  ASSUME NEW pt, Lexing(pt), Stage(pt, pos, tokens)
  PROVE  Lexed(pt)'
  <1>1. Advances(pt) => Lexed(pt)'
    BY SameStage DEF Lexed, Advances, Lexing
  <1>2. ASSUME NEW n \in 1 .. Count, Open(tokens) = {1, Inner}, InPair(pt, n, pos, tokens)
        PROVE  Advances(pt)
    <2>1. CASE n = Count /\ pos = pt[n + 1] - 1 /\ Len(tokens) = Inner + 2 * n
      BY <1>2, <2>1, AtLast
    <2>. QED BY <1>2, <2>1, AtKey, AtColon, AtValue, AtComma DEF InPair
  <1>. QED BY <1>1, <1>2, AtStart, AtName, AtTail DEF Stage

-----------------------------------------------------------------------------
(***************************************************************************)
(* Where the parts of a reply are in its text.                             *)
(***************************************************************************)
(* A text p is a text a, of la characters, and a text b behind it.         *)
Cat(p, a, la, b, lb) ==
  /\ p \in Seq(Chars) /\ a \in Seq(Chars) /\ b \in Seq(Chars)
  /\ la \in Nat /\ lb \in Nat /\ Len(a) = la /\ Len(b) = lb /\ Len(p) = la + lb
  /\ \A x \in 1 .. la : p[x] = a[x]
  /\ \A x \in 1 .. lb : p[la + x] = b[x]

(* One text behind another.                                                *)
LEMMA CatIs ==
  ASSUME NEW a \in Seq(Chars), NEW b \in Seq(Chars)
  PROVE  Cat(a \o b, a, Len(a), b, Len(b))
  <1>1. PICK la \in Nat, lb \in Nat : la = Len(a) /\ lb = Len(b)
    OBVIOUS
  <1>2. a \o b \in Seq(Chars) /\ Len(a \o b) = la + lb
    BY <1>1
  <1>3. \A x \in 1 .. la : (a \o b)[x] = a[x]
    BY <1>1
  <1>4. \A x \in 1 .. lb : (a \o b)[la + x] = b[x]
    BY <1>1
  <1>. QED BY <1>1, <1>2, <1>3, <1>4 DEF Cat

(* What a pair is made of: behind the colon c the value, of v characters,  *)
(* stands behind q quotes.                                                 *)
PairText(p, ky, k, value, v, quoted) ==
  /\ p \in Seq(Chars)
  /\ p[1] = Quote /\ p[k + 2] = Quote /\ p[k + 3] = ":"
  /\ \A x \in 1 .. k : p[1 + x] = ky[x]
  /\ quoted => /\ Len(p) = k + v + 5 /\ p[k + 4] = Quote /\ p[k + v + 5] = Quote
               /\ \A x \in 1 .. v : p[k + 4 + x] = value[x]
  /\ ~quoted => Len(p) = k + v + 3 /\ \A x \in 1 .. v : p[k + 3 + x] = value[x]

PairOf(ky, value, quoted) ==
  <<Quote>> \o ky \o <<Quote, ":">> \o (IF quoted THEN <<Quote>> \o value \o <<Quote>> ELSE value)

(* The key, its quotes and the colon before a text w.                      *)
Headed(p, ky, k, w, lw) ==
  /\ p \in Seq(Chars) /\ Len(p) = k + 3 + lw
  /\ p[1] = Quote /\ p[k + 2] = Quote /\ p[k + 3] = ":"
  /\ \A x \in 1 .. k : p[1 + x] = ky[x]
  /\ \A x \in 1 .. lw : p[k + 3 + x] = w[x]

(* A pair is made of its key and its value.                                *)
LEMMA PairIs ==
  ASSUME NEW ky \in Seq(Chars), NEW value \in Seq(Chars), NEW quoted \in BOOLEAN
  PROVE  PairText(PairOf(ky, value, quoted), ky, Len(ky), value, Len(value), quoted)
  <1>1. PICK q, m : q = <<Quote>> /\ m = <<Quote, ":">>
    OBVIOUS
  <1>2. q \in Seq(Chars) /\ m \in Seq(Chars)
    <2>1. {Quote, ":"} \subseteq Punctuation
      BY DEF Punctuation
    <2>. QED BY <1>1, <2>1, CharsAre
  <1>3. Len(q) = 1 /\ q[1] = Quote /\ Len(m) = 2 /\ m[1] = Quote /\ m[2] = ":"
    BY <1>1
  <1>4. PICK k \in Nat, v \in Nat : k = Len(ky) /\ v = Len(value)
    OBVIOUS
  <1>5. PICK u : u = q \o ky
    OBVIOUS
  <1>6. Cat(u, q, 1, ky, k)
    BY <1>2, <1>3, <1>4, <1>5, CatIs
  <1>7. PICK h : h = u \o m
    OBVIOUS
  <1>8. Cat(h, u, k + 1, m, 2)
    <2>1. u \in Seq(Chars) /\ Len(u) = 1 + k
      BY <1>6 DEF Cat
    <2>2. Cat(h, u, 1 + k, m, 2)
      BY <1>2, <1>3, <1>7, <2>1, CatIs
    <2>. QED BY <1>4, <2>2
  <1>9. /\ h \in Seq(Chars) /\ Len(h) = k + 3
        /\ h[1] = Quote /\ h[k + 2] = Quote /\ h[k + 3] = ":"
        /\ \A x \in 1 .. k : h[1 + x] = ky[x]
    <2>1. /\ h \in Seq(Chars) /\ Len(h) = k + 1 + 2
          /\ \A x \in 1 .. k + 1 : h[x] = u[x] 
          /\ h[k + 1 + 1] = m[1] /\ h[k + 1 + 2] = m[2]
      <3>1. 1 \in 1 .. 2 /\ 2 \in 1 .. 2
        OBVIOUS
      <3>. QED BY <1>8, <3>1 DEF Cat
    <2>2. u[1] = Quote /\ \A x \in 1 .. k : u[1 + x] = ky[x]
      BY <1>3, <1>6 DEF Cat
    <2>3. k + 1 + 1 = k + 2 /\ k + 1 + 2 = k + 3 /\ 1 \in 1 .. k + 1
          /\ \A x \in 1 .. k : 1 + x \in 1 .. k + 1
      BY <1>4
    <2>. QED BY <1>3, <2>1, <2>2, <2>3
  <1>10. ASSUME NEW w \in Seq(Chars), NEW lw \in Nat, Len(w) = lw, NEW p, p = h \o w
         PROVE  Headed(p, ky, k, w, lw)
    <2>1. Cat(p, h, k + 3, w, lw)
      BY <1>9, <1>10, CatIs
    <2>2. /\ p \in Seq(Chars) /\ Len(p) = k + 3 + lw
          /\ \A x \in 1 .. k + 3 : p[x] = h[x]
          /\ \A x \in 1 .. lw : p[k + 3 + x] = w[x]
      BY <2>1 DEF Cat
    <2>3. 1 \in 1 .. k + 3 /\ k + 2 \in 1 .. k + 3 /\ k + 3 \in 1 .. k + 3
          /\ \A x \in 1 .. k : 1 + x \in 1 .. k + 3
      BY <1>4
    <2>. QED BY <1>9, <2>2, <2>3 DEF Headed
  <1>11. CASE quoted
    <2>1. PICK y : y = q \o value
      OBVIOUS
    <2>2. Cat(y, q, 1, value, v)
      BY <1>2, <1>3, <1>4, <2>1, CatIs
    <2>3. PICK w : w = y \o q
      OBVIOUS
    <2>4. Cat(w, y, v + 1, q, 1)
      <3>1. y \in Seq(Chars) /\ Len(y) = 1 + v /\ 1 + v = v + 1
        BY <1>4, <2>2 DEF Cat
      <3>. QED BY <1>2, <1>3, <2>3, <3>1, CatIs
    <2>5. /\ w \in Seq(Chars) /\ Len(w) = v + 2 /\ w[1] = Quote /\ w[v + 2] = Quote
          /\ \A x \in 1 .. v : w[1 + x] = value[x]
      <3>1. /\ w \in Seq(Chars) /\ Len(w) = v + 1 + 1
            /\ \A x \in 1 .. v + 1 : w[x] = y[x]
            /\ w[v + 1 + 1] = q[1]
        <4>1. 1 \in 1 .. 1
          OBVIOUS
        <4>. QED BY <2>4, <4>1 DEF Cat
      <3>2. y[1] = Quote /\ \A x \in 1 .. v : y[1 + x] = value[x]
        BY <1>3, <2>2 DEF Cat
      <3>3. v + 1 + 1 = v + 2 /\ 1 \in 1 .. v + 1 /\ \A x \in 1 .. v : 1 + x \in 1 .. v + 1
        BY <1>4
      <3>. QED BY <1>3, <3>1, <3>2, <3>3
    <2>6. PICK p : p = h \o w
      OBVIOUS
    <2>7. PICK lw \in Nat : lw = v + 2
      OBVIOUS
    <2>8. Headed(p, ky, k, w, lw)
      <3>1. w \in Seq(Chars) /\ Len(w) = lw
        BY <2>5, <2>7
      <3>. QED BY <1>10, <2>6, <3>1
    <2>9. /\ k + 3 + lw = k + v + 5 /\ 1 \in 1 .. lw /\ v + 2 \in 1 .. lw
          /\ k + 3 + 1 = k + 4 /\ k + 3 + (v + 2) = k + v + 5
          /\ \A x \in 1 .. v : 1 + x \in 1 .. lw /\ k + 3 + (1 + x) = k + 4 + x
      BY <1>4, <2>7
    <2>10. PairText(p, ky, k, value, v, quoted)
      BY <1>11, <2>5, <2>8, <2>9 DEF PairText, Headed
    <2>. QED BY <1>1, <1>4, <1>5, <1>7, <1>11, <2>1, <2>3, <2>6, <2>10 DEF PairOf
  <1>12. CASE ~quoted
    <2>1. PICK p : p = h \o value
      OBVIOUS
    <2>2. Headed(p, ky, k, value, v)
      BY <1>4, <1>10, <2>1
    <2>3. k + 3 + v = k + v + 3
      BY <1>4
    <2>4. PairText(p, ky, k, value, v, quoted)
      BY <1>12, <2>2, <2>3 DEF PairText, Headed
    <2>. QED BY <1>1, <1>4, <1>5, <1>7, <1>12, <2>1, <2>4 DEF PairOf
  <1>. QED BY <1>11, <1>12

(* Where part n of a joined text begins, and the text up to its end.       *)
Sep(n) == IF n = 1 THEN 0 ELSE 1

Part(text, from, n, part, to) ==
  /\ to = from + Sep(n) + Len(part)
  /\ n # 1 => text[from + 1] = ","
  /\ \A x \in 1 .. Len(part) : text[from + Sep(n) + x] = part[x]

(* Every beginning of a joined text is one.                                *)
LEMMA JoinedTexts ==
  ASSUME NEW parts \in Seq(Seq(Chars)), NEW F, Joined(parts, F)
  PROVE  \A n \in 0 .. Len(parts) : F[n] \in Seq(Chars) /\ Len(F[n]) \in Nat
  <1>1. \A n \in 0 .. Len(parts) : F[n] \in Seq(Chars)
    BY Zenon DEF Joined
  <1>. QED BY <1>1

(* The empty text.                                                         *)
LEMMA EmptyIs == <<>> \in Seq(Chars) /\ Len(<<>>) = 0
  OBVIOUS

(* The last part of a joined text.                                         *)
LEMMA OnePart ==
  ASSUME NEW parts \in Seq(Seq(Chars)), NEW F, Joined(parts, F), NEW n \in 1 .. Len(parts)
  PROVE  /\ Part(F[n], Len(F[n - 1]), n, parts[n], Len(F[n]))
         /\ Len(F[n - 1]) \in Nat /\ Len(F[n]) \in Nat /\ Len(F[n - 1]) <= Len(F[n])
         /\ \A x \in 1 .. Len(F[n - 1]) : F[n][x] = F[n - 1][x]
  <1>1. n - 1 \in 0 .. Len(parts) /\ n \in 0 .. Len(parts)
    OBVIOUS
  <1>2. F[n - 1] \in Seq(Chars) /\ F[n] \in Seq(Chars) /\ parts[n] \in Seq(Chars)
    BY <1>1, JoinedTexts
  <1>3. PICK a \in Seq(Chars), b \in Seq(Chars), p \in Seq(Chars) :
          a = F[n - 1] /\ b = parts[n] /\ p = F[n]
    BY <1>2
  <1>4. PICK c \in Seq(Chars) : /\ p = a \o c \o b
                                /\ Len(c) = Sep(n) /\ Sep(n) \in Nat
                                /\ n # 1 => Sep(n) = 1 /\ c[1] = ","
    <2>1. PICK com : com = <<",">>
      OBVIOUS
    <2>2. com \in Seq(Chars)
      <3>1. "," \in Punctuation
        BY DEF Punctuation
      <3>. QED BY <2>1, <3>1, CharsAre
    <2>3. Len(com) = 1 /\ com[1] = ","
      BY <2>1
    <2>4. PICK none \in Seq(Chars) : none = <<>> /\ Len(none) = 0
      BY EmptyIs, Zenon
    <2>5. p = a \o (IF n = 1 THEN none ELSE com) \o b
      BY <1>3, <2>1, <2>4 DEF Joined
    <2>6. CASE n = 1
      <3>1. Sep(n) = 0 /\ p = a \o none \o b /\ 0 \in Nat
        BY <2>5, <2>6 DEF Sep
      <3>. QED BY <2>4, <2>6, <3>1, Zenon
    <2>7. CASE n # 1
      <3>1. Sep(n) = 1 /\ p = a \o com \o b /\ 1 \in Nat
        BY <2>5, <2>7 DEF Sep
      <3>. QED BY <2>2, <2>3, <3>1, Zenon
    <2>. QED BY <2>6, <2>7
  <1>5. PICK la \in Nat, lb \in Nat, lc \in Nat : la = Len(a) /\ lb = Len(b) /\ lc = Sep(n)
    <2>1. Len(a) \in Nat /\ Len(b) \in Nat
      OBVIOUS
    <2>. QED BY <1>4, <2>1, Zenon
  <1>6. PICK u : u = a \o c
    OBVIOUS
  <1>7. Cat(u, a, la, c, lc)
    BY <1>4, <1>5, <1>6, CatIs
  <1>8. PICK lu \in Nat : lu = la + lc
    OBVIOUS
  <1>9. u \in Seq(Chars) /\ Len(u) = lu
    BY <1>7, <1>8 DEF Cat
  <1>10. Cat(p, u, lu, b, lb)
    BY <1>4, <1>5, <1>6, <1>9, CatIs
  <1>11. Len(p) = la + lc + lb
    BY <1>8, <1>10 DEF Cat
  <1>12. \A x \in 1 .. lb : p[la + lc + x] = b[x]
    BY <1>8, <1>10 DEF Cat
  <1>13. \A x \in 1 .. lu : p[x] = u[x]
    BY <1>10 DEF Cat
  <1>14. \A x \in 1 .. la : p[x] = a[x]
    <2>1. \A x \in 1 .. la : x \in 1 .. lu /\ u[x] = a[x]
      BY <1>7, <1>8 DEF Cat
    <2>. QED BY <1>13, <2>1
  <1>15. n # 1 => p[la + 1] = ","
    <2>. SUFFICES ASSUME n # 1 PROVE p[la + 1] = ","
      OBVIOUS
    <2>1. lc = 1 /\ c[1] = ","
      BY <1>4, <1>5
    <2>2. la + 1 \in 1 .. lu /\ 1 \in 1 .. lc
      <3>1. lc = 1
        BY <2>1
      <3>. QED BY <1>8, <3>1
    <2>3. u[la + 1] = c[1]
      BY <1>7, <2>2 DEF Cat
    <2>. QED BY <1>13, <2>1, <2>2, <2>3
  <1>16. Part(p, la, n, b, la + lc + lb)
    BY <1>5, <1>12, <1>15 DEF Part
  <1>17. la <= la + lc + lb
    BY <1>5
  <1>18. /\ Part(p, Len(a), n, b, Len(p)) /\ Len(a) \in Nat /\ Len(p) \in Nat /\ Len(a) <= Len(p)
         /\ \A x \in 1 .. Len(a) : p[x] = a[x]
    BY <1>5, <1>11, <1>14, <1>16, <1>17
  <1>. QED BY <1>3, <1>18

(* A joined text begins with the parts joined so far.                      *)
Begins(text, w) == Len(w) <= Len(text) /\ \A x \in 1 .. Len(w) : text[x] = w[x]

(* A joined text begins with each of its beginnings.                       *)
LEMMA Starts ==
  ASSUME NEW parts \in Seq(Seq(Chars)), NEW F, Joined(parts, F), NEW m \in 0 .. Len(parts)
  PROVE  Begins(F[Len(parts)], F[m])
  <1>. DEFINE d == Len(parts) - m
              T == {n \in 0 .. d : Begins(F[m + n], F[m])}
  <1>1. d \in Nat /\ m + d = Len(parts) /\ \A n \in 0 .. Len(parts) : Len(F[n]) \in Nat
    BY JoinedTexts
  <1>2. 0 \in T
    <2>1. Begins(F[m], F[m]) /\ m + 0 = m
      BY <1>1 DEF Begins
    <2>. QED BY <1>1, <2>1
  <1>3. \A n \in 0 .. d - 1 : n \in T => n + 1 \in T
    <2>. SUFFICES ASSUME NEW n \in 0 .. d - 1, Begins(F[m + n], F[m])
                  PROVE  Begins(F[m + (n + 1)], F[m]) /\ n + 1 \in 0 .. d
      OBVIOUS
    <2>1. PICK e \in 1 .. Len(parts) : e = m + (n + 1) /\ e - 1 = m + n /\ n + 1 \in 0 .. d
      <3>1. m + (n + 1) \in 1 .. Len(parts) /\ m + (n + 1) - 1 = m + n /\ n + 1 \in 0 .. d
        OBVIOUS
      <3>. QED BY <3>1
    <2>2. /\ Len(F[e - 1]) \in Nat /\ Len(F[e]) \in Nat /\ Len(F[e - 1]) <= Len(F[e])
          /\ \A x \in 1 .. Len(F[e - 1]) : F[e][x] = F[e - 1][x]
      BY OnePart
    <2>3. Begins(F[e - 1], F[m]) /\ Len(F[m]) \in Nat
      BY <1>1, <2>1
    <2>4. Begins(F[e], F[m])
      <3>. HIDE DEF d, T
      <3>. QED BY <2>2, <2>3 DEF Begins
    <2>. QED BY <2>1, <2>4
  <1>4. d \in T
    <2>1. \A n \in 0 .. d : n \in T
      <3>. HIDE DEF T, d
      <3>. QED BY <1>1, <1>2, <1>3, UpTo
    <2>. HIDE DEF T
    <2>. QED BY <1>1, <2>1
  <1>. QED BY <1>1, <1>4

(* Every part of a joined text.                                            *)
LEMMA AllParts ==
  ASSUME NEW parts \in Seq(Seq(Chars)), NEW F, Joined(parts, F), NEW n \in 1 .. Len(parts)
  PROVE  /\ Part(F[Len(parts)], Len(F[n - 1]), n, parts[n], Len(F[n]))
         /\ Len(F[n]) <= Len(F[Len(parts)])
  <1>1. Begins(F[Len(parts)], F[n])
    BY Starts
  <1>2. Part(F[n], Len(F[n - 1]), n, parts[n], Len(F[n]))
        /\ Len(F[n - 1]) \in Nat /\ Len(F[n]) \in Nat
    BY OnePart
  <1>0. PICK p, w, t : p = parts[n] /\ w = F[n] /\ t = F[Len(parts)]
    OBVIOUS
  <1>3. PICK from \in Nat, to \in Nat, l \in Nat :
          from = Len(F[n - 1]) /\ to = Len(F[n]) /\ l = Len(p)
    <2>1. Len(p) \in Nat
      BY <1>0
    <2>. QED BY <1>2, <2>1, Zenon
  <1>4. to = from + Sep(n) + l /\ Sep(n) \in {0, 1} /\ (n # 1 => Sep(n) = 1)
    BY <1>0, <1>2, <1>3 DEF Part, Sep
  <1>5. \A x \in 1 .. to : t[x] = w[x]
    BY <1>0, <1>1, <1>3 DEF Begins
  <1>6. n # 1 => t[from + 1] = ","
    <2>1. n # 1 => from + 1 \in 1 .. to
      BY <1>4
    <2>2. n # 1 => w[from + 1] = ","
      BY <1>0, <1>2, <1>3 DEF Part
    <2>. QED BY <1>5, <2>1, <2>2
  <1>7. \A x \in 1 .. l : t[from + Sep(n) + x] = p[x]
    <2>1. \A x \in 1 .. l : from + Sep(n) + x \in 1 .. to
      BY <1>4
    <2>2. \A x \in 1 .. l : w[from + Sep(n) + x] = p[x]
      BY <1>0, <1>2, <1>3 DEF Part
    <2>. QED BY <1>5, <2>1, <2>2
  <1>8. Part(t, from, n, p, to)
    BY <1>3, <1>4, <1>6, <1>7 DEF Part
  <1>. QED BY <1>0, <1>1, <1>3, <1>8 DEF Begins

(* The brackets around a text of l characters, without a name and with one.*)
Braced(t, j, l) ==
  /\ t \in Seq(Chars) /\ Len(t) = l + 2
  /\ t[1] = "{" /\ t[l + 2] = "}"
  /\ \A x \in 1 .. l : t[1 + x] = j[x]

Named(t, j, l) ==
  /\ t \in Seq(Chars) /\ Len(t) = l + 8
  /\ t[1] = "{" /\ t[2] = Quote /\ t[3] = "n" /\ t[4] = Quote /\ t[5] = ":" /\ t[6] = "{"
  /\ t[l + 7] = "}" /\ t[l + 8] = "}"
  /\ \A x \in 1 .. l : t[6 + x] = j[x]

(* The text between two brackets.                                          *)
LEMMA BracedIs ==
  ASSUME NEW j \in Seq(Chars), NEW l \in Nat, Len(j) = l
  PROVE  Braced(<<"{">> \o j \o <<"}">>, j, l)
  <1>1. PICK o, c : o = <<"{">> /\ c = <<"}">>
    OBVIOUS
  <1>2. o \in Seq(Chars) /\ c \in Seq(Chars)
    <2>1. {"{", "}"} \subseteq Punctuation
      BY DEF Punctuation
    <2>. QED BY <1>1, <2>1, CharsAre
  <1>3. Len(o) = 1 /\ o[1] = "{" /\ Len(c) = 1 /\ c[1] = "}"
    BY <1>1
  <1>4. PICK u, t : u = o \o j /\ t = u \o c
    OBVIOUS
  <1>5. Cat(u, o, 1, j, l)
    BY <1>2, <1>3, <1>4, CatIs
  <1>6. Cat(t, u, l + 1, c, 1)
    <2>1. u \in Seq(Chars) /\ Len(u) = 1 + l /\ 1 + l = l + 1
      BY <1>5 DEF Cat
    <2>. QED BY <1>2, <1>3, <1>4, <2>1, CatIs
  <1>7. u[1] = o[1] /\ \A x \in 1 .. l : u[1 + x] = j[x]
    <2>1. 1 \in 1 .. 1
      OBVIOUS
    <2>. QED BY <1>5, <2>1 DEF Cat
  <1>8. /\ t \in Seq(Chars) /\ Len(t) = l + 1 + 1 /\ t[l + 1 + 1] = c[1]
        /\ \A x \in 1 .. l + 1 : t[x] = u[x]
    <2>1. 1 \in 1 .. 1
      OBVIOUS
    <2>. QED BY <1>6, <2>1 DEF Cat
  <1>9. l + 1 + 1 = l + 2 /\ 1 \in 1 .. l + 1 /\ \A x \in 1 .. l : 1 + x \in 1 .. l + 1
    OBVIOUS
  <1>10. Braced(t, j, l)
    BY <1>3, <1>7, <1>8, <1>9 DEF Braced
  <1>. QED BY <1>1, <1>4, <1>10

(* The text with a name around it.                                         *)
LEMMA NamedIs ==
  ASSUME NEW j, NEW l \in Nat, NEW b, Braced(b, j, l)
  PROVE  Named(<<"{", Quote, "n", Quote, ":">> \o b \o <<"}">>, j, l)
  <1>1. PICK o, c : o = <<"{", Quote, "n", Quote, ":">> /\ c = <<"}">>
    OBVIOUS
  <1>2. o \in Seq(Chars) /\ c \in Seq(Chars)
    <2>1. {"{", "}", Quote, "n", ":"} \subseteq Punctuation
      BY DEF Punctuation
    <2>. QED BY <1>1, <2>1, CharsAre
  <1>3. /\ Len(o) = 5 /\ Len(c) = 1 /\ c[1] = "}"
        /\ o[1] = "{" /\ o[2] = Quote /\ o[3] = "n" /\ o[4] = Quote /\ o[5] = ":"
    BY <1>1
  <1>4. PICK u, t : u = o \o b /\ t = u \o c
    OBVIOUS
  <1>5. PICK n \in Nat, m \in Nat : n = l + 2 /\ m = l + 7
    OBVIOUS
  <1>6. /\ b \in Seq(Chars) /\ Len(b) = n /\ b[1] = "{" /\ b[n] = "}"
        /\ \A x \in 1 .. l : b[1 + x] = j[x]
    BY <1>5 DEF Braced
  <1>7. Cat(u, o, 5, b, n)
    BY <1>2, <1>3, <1>4, <1>6, CatIs
  <1>8. Cat(t, u, m, c, 1)
    <2>1. u \in Seq(Chars) /\ Len(u) = m
      <3>1. u \in Seq(Chars) /\ Len(u) = 5 + n
        BY <1>7 DEF Cat
      <3>2. 5 + n = m
        BY <1>5
      <3>. QED BY <3>1, <3>2
    <2>. QED BY <1>2, <1>3, <1>4, <2>1, CatIs
  <1>9. /\ \A x \in 1 .. 5 : u[x] = o[x]
        /\ \A x \in 1 .. n : u[5 + x] = b[x]
    BY <1>7 DEF Cat
  <1>10. /\ t \in Seq(Chars) /\ Len(t) = m + 1 /\ t[m + 1] = c[1]
         /\ \A x \in 1 .. m : t[x] = u[x]
    <2>1. 1 \in 1 .. 1
      OBVIOUS
    <2>. QED BY <1>8, <2>1 DEF Cat
  <1>11. /\ m + 1 = l + 8 /\ m = l + 7 /\ m \in 1 .. m /\ n \in 1 .. n /\ 1 \in 1 .. n
         /\ 5 + n = m /\ 5 + 1 = 6
         /\ {1, 2, 3, 4, 5} \subseteq 1 .. 5 /\ {1, 2, 3, 4, 5, 6} \subseteq 1 .. m
         /\ \A x \in 1 .. l : 1 + x \in 1 .. n /\ 6 + x \in 1 .. m /\ 5 + (1 + x) = 6 + x
    BY <1>5
  <1>12. t[1] = "{" /\ t[2] = Quote /\ t[3] = "n" /\ t[4] = Quote /\ t[5] = ":"
    BY <1>3, <1>9, <1>10, <1>11
  <1>13. t[6] = "{" /\ t[l + 7] = "}" /\ t[l + 8] = "}"
    <2>1. u[6] = b[1] /\ u[m] = b[n]
      BY <1>9, <1>11
    <2>. QED BY <1>3, <1>6, <1>10, <1>11, <2>1
  <1>14. \A x \in 1 .. l : t[6 + x] = j[x]
    <2>. SUFFICES ASSUME NEW x \in 1 .. l PROVE t[6 + x] = j[x]
      OBVIOUS
    <2>1. t[6 + x] = u[6 + x] /\ u[5 + (1 + x)] = b[1 + x]
      BY <1>9, <1>10, <1>11
    <2>. QED BY <1>6, <1>11, <2>1
  <1>15. Named(t, j, l)
    BY <1>10, <1>11, <1>12, <1>13, <1>14 DEF Named
  <1>. QED BY <1>1, <1>4, <1>15

(* Part p of the text, behind its first b characters, is where pt says that *)
(* field n is.                                                             *)
(* The pair of field n stands behind the first b characters.               *)
Stands(pt, n, b, p) ==
  /\ PairText(p, doc.fields[n].key, Len(doc.fields[n].key),
              doc.fields[n].value, Len(doc.fields[n].value), doc.fields[n].quoted)
  /\ \A x \in 1 .. Len(p) : js[b + x] = p[x]
  /\ pt[n] = b + 1 /\ pt[n + 1] = b + Len(p) + 2
  /\ js[b + Len(p) + 1] = IF n = Count THEN "}" ELSE ","

(* A pair is where its text stands.                                        *)
LEMMA PairPlaced ==
  ASSUME doc.fields \in Fields, NEW pt, NEW n \in 1 .. Count, NEW b \in Nat, NEW p, Stands(pt, n, b, p)
  PROVE  PairAt(pt, n)
  <1>0. /\ Len(doc.fields[n].key) \in Nat /\ Len(doc.fields[n].value) \in Nat
        /\ doc.fields[n].quoted \in BOOLEAN
    BY FieldsAre DEF Plain
  <1>1. PICK k \in Nat, v \in Nat : k = Len(doc.fields[n].key) /\ v = Len(doc.fields[n].value)
    BY <1>0, Zenon
  <1>13. PICK ky, value, quoted :
           ky = doc.fields[n].key /\ value = doc.fields[n].value /\ quoted = doc.fields[n].quoted
    OBVIOUS
  <1>2. quoted \in BOOLEAN
    BY <1>0, <1>1, <1>13
  <1>3. PairText(p, ky, k, value, v, quoted)
    BY <1>1, <1>13, Zenon DEF Stands
  <1>4. PICK l \in Nat, z \in Nat, y \in Nat : l = Len(p) /\ z = b + l + 2 /\ y = b + l + 1
    <2>1. p \in Seq(Chars)
      BY <1>3, Zenon DEF PairText
    <2>2. PICK l \in Nat : l = Len(p)
      BY <2>1
    <2>3. b + l + 2 \in Nat /\ b + l + 1 \in Nat
      OBVIOUS
    <2>. QED BY <2>2, <2>3, Zenon
  <1>5. \A x \in 1 .. l : js[b + x] = p[x]
    BY <1>4, Zenon DEF Stands
  <1>6. js[y] = (IF n = Count THEN "}" ELSE ",") /\ pt[n] = b + 1 /\ pt[n + 1] = z /\ z - 1 = y
    <2>1. z - 1 = y
      BY <1>4
    <2>2. js[y] = (IF n = Count THEN "}" ELSE ",") /\ pt[n] = b + 1 /\ pt[n + 1] = z
      BY <1>4, Zenon DEF Stands
    <2>. QED BY <2>1, <2>2, Zenon
  <1>7. l >= k + 3 /\ (quoted => l = k + v + 5) /\ (~quoted => l = k + v + 3)
    <2>1. (quoted => l = k + v + 5) /\ (~quoted => l = k + v + 3)
      BY <1>3, <1>4 DEF PairText
    <2>. QED BY <1>2, <2>1
  <1>8. ColonAt(pt, n) = b + k + 3
    <2>1. ColonAt(pt, n) = (b + 1) + k + 2
      BY <1>1, <1>13, <1>6, Zenon DEF ColonAt
    <2>. QED BY <2>1
  <1>9. /\ js[pt[n]] = Quote
        /\ js[ColonAt(pt, n) - 1] = Quote
        /\ js[ColonAt(pt, n)] = ":"
    <2>1. p[1] = Quote /\ p[k + 2] = Quote /\ p[k + 3] = ":"
      BY <1>3 DEF PairText
    <2>2. 1 \in 1 .. l /\ k + 2 \in 1 .. l /\ k + 3 \in 1 .. l
      BY <1>4, <1>7
    <2>3. js[b + 1] = Quote /\ js[b + (k + 2)] = Quote /\ js[b + (k + 3)] = ":"
      BY <1>5, <2>1, <2>2
    <2>4. b + (k + 2) = ColonAt(pt, n) - 1 /\ b + (k + 3) = ColonAt(pt, n)
      BY <1>8
    <2>. QED BY <1>6, <2>3, <2>4
  <1>10. \A x \in 1 .. k : js[pt[n] + x] = ky[x]
    <2>. SUFFICES ASSUME NEW x \in 1 .. k PROVE js[b + 1 + x] = ky[x]
      BY <1>6
    <2>1. 1 + x \in 1 .. l /\ b + (1 + x) = b + 1 + x
      BY <1>4, <1>7
    <2>2. p[1 + x] = ky[x]
      BY <1>3 DEF PairText
    <2>3. js[b + (1 + x)] = p[1 + x]
      BY <1>5, <2>1
    <2>. QED BY <2>1, <2>2, <2>3
  <1>11. CASE quoted
    <2>1. Quoted(n) = 1
      BY <1>1, <1>13, <1>11 DEF Quoted
    <2>2. ValueAt(pt, n) = b + k + 5 /\ ValueEnd(pt, n) = b + k + 5 + v
      <3>1. ValueAt(pt, n) = b + k + 3 + 1 + 1
        BY <1>8, <2>1 DEF ValueAt
      <3>2. ValueAt(pt, n) = b + k + 5
        BY <3>1
      <3>. QED BY <1>1, <1>13, <3>2 DEF ValueEnd
    <2>3. p[k + 4] = Quote /\ p[k + v + 5] = Quote /\ \A x \in 1 .. v : p[k + 4 + x] = value[x]
      BY <1>3, <1>11 DEF PairText
    <2>4. l = k + v + 5 /\ k + 4 \in 1 .. l /\ k + v + 5 \in 1 .. l
      BY <1>7, <1>11
    <2>5. js[b + (k + 4)] = Quote /\ js[b + (k + v + 5)] = Quote
      BY <1>5, <2>3, <2>4
    <2>6. js[ColonAt(pt, n) + 1] = Quote /\ js[ValueEnd(pt, n)] = Quote
      <3>1. b + (k + 4) = ColonAt(pt, n) + 1 /\ b + (k + v + 5) = ValueEnd(pt, n)
        BY <1>8, <2>2
      <3>. QED BY <2>5, <3>1
    <2>7. \A x \in 1 .. v : js[ValueAt(pt, n) + x - 1] = value[x]
      <3>. SUFFICES ASSUME NEW x \in 1 .. v PROVE js[ValueAt(pt, n) + x - 1] = value[x]
        OBVIOUS
      <3>1. k + 4 + x \in 1 .. l /\ b + (k + 4 + x) = ValueAt(pt, n) + x - 1
        BY <2>2, <2>4
      <3>2. js[b + (k + 4 + x)] = p[k + 4 + x]
        BY <1>5, <3>1
      <3>. QED BY <2>3, <3>1, <3>2
    <2>8. z = ValueEnd(pt, n) + Quoted(n) + 1
      BY <1>4, <2>1, <2>2, <2>4
    <2>. QED BY <1>1, <1>13, <1>6, <1>9, <1>10, <2>6, <2>7, <2>8 DEF PairAt
  <1>12. CASE ~quoted
    <2>1. Quoted(n) = 0
      BY <1>1, <1>13, <1>12 DEF Quoted
    <2>2. ValueAt(pt, n) = b + k + 4 /\ ValueEnd(pt, n) = b + k + 4 + v
      <3>1. ValueAt(pt, n) = b + k + 3 + 1 + 0
        BY <1>8, <2>1 DEF ValueAt
      <3>2. ValueAt(pt, n) = b + k + 4
        BY <3>1
      <3>. QED BY <1>1, <1>13, <3>2 DEF ValueEnd
    <2>3. l = k + v + 3
      BY <1>7, <1>12
    <2>4. \A x \in 1 .. v : js[ValueAt(pt, n) + x - 1] = value[x]
      <3>. SUFFICES ASSUME NEW x \in 1 .. v PROVE js[ValueAt(pt, n) + x - 1] = value[x]
        OBVIOUS
      <3>1. k + 3 + x \in 1 .. l /\ b + (k + 3 + x) = ValueAt(pt, n) + x - 1
        BY <2>2, <2>3
      <3>2. js[b + (k + 3 + x)] = p[k + 3 + x] /\ p[k + 3 + x] = value[x]
        <4>1. p[k + 3 + x] = value[x]
          BY <1>3, <1>12 DEF PairText
        <4>. QED BY <1>5, <3>1, <4>1
      <3>. QED BY <3>1, <3>2
    <2>5. z = ValueEnd(pt, n) + Quoted(n) + 1
      BY <1>4, <2>1, <2>2, <2>3
    <2>. QED BY <1>1, <1>13, <1>6, <1>9, <1>10, <1>12, <2>4, <2>5 DEF PairAt
  <1>. QED BY <1>2, <1>11, <1>12

(* The texts between the commas of a reply.                                *)
PartsOf(fs) == [n \in DOMAIN fs |-> Pair(fs[n])]

(* The parts of a reply are its fields' pairs.                             *)
LEMMA PartsAre ==
  ASSUME NEW fs \in Fields
  PROVE  /\ PartsOf(fs) \in Seq(Seq(Chars)) /\ Len(PartsOf(fs)) = Len(fs)
         /\ \A n \in 1 .. Len(fs) :
              PairText(PartsOf(fs)[n], fs[n].key, Len(fs[n].key), fs[n].value, Len(fs[n].value),
                       fs[n].quoted)
  <1>1. DOMAIN fs = 1 .. Len(fs) /\ Len(fs) \in Nat
    BY TextsAre
  <1>2. ASSUME NEW n \in 1 .. Len(fs)
        PROVE  /\ Pair(fs[n]) \in Seq(Chars)
               /\ PairText(Pair(fs[n]), fs[n].key, Len(fs[n].key), fs[n].value, Len(fs[n].value),
                           fs[n].quoted)
    <2>1. PICK ky \in Seq(Chars), value \in Seq(Chars), quoted \in BOOLEAN :
            ky = fs[n].key /\ value = fs[n].value /\ quoted = fs[n].quoted
      BY TextsAre, Zenon
    <2>2. PairText(PairOf(ky, value, quoted), ky, Len(ky), value, Len(value), quoted)
      BY PairIs
    <2>3. PairOf(ky, value, quoted) = Pair(fs[n])
      BY <2>1, Zenon DEF PairOf, Pair
    <2>4. PairOf(ky, value, quoted) \in Seq(Chars)
      BY <2>2, Zenon DEF PairText
    <2>. QED BY <2>1, <2>2, <2>3, <2>4, Zenon
  <1>3. PICK l \in Nat : l = Len(fs)
    BY <1>1
  <1>4. PartsOf(fs) = [n \in 1 .. l |-> Pair(fs[n])]
    BY <1>1, <1>3, Zenon DEF PartsOf
  <1>5. \A n \in 1 .. l : PartsOf(fs)[n] = Pair(fs[n])
    BY <1>4
  <1>6. PartsOf(fs) \in Seq(Seq(Chars)) /\ Len(PartsOf(fs)) = l
    <2>1. \A n \in 1 .. l : Pair(fs[n]) \in Seq(Chars)
      BY <1>2, <1>3
    <2>. QED BY <1>4, <2>1
  <1>. QED BY <1>2, <1>3, <1>5, <1>6, Zenon

(* The joined text in its brackets.                                        *)
Ringed(t, j, l, nested) ==
  IF nested THEN Named(t, j, l) ELSE Braced(t, j, l)

(* A reply is its joined parts in brackets.                                *)
LEMMA RenderedIs ==
  ASSUME NEW fs, NEW nested \in BOOLEAN, NEW j \in Seq(Chars), j = Join(PartsOf(fs))
  PROVE  Ringed(Render(fs, nested), j, Len(j), nested)
  <1>1. PICK l \in Nat : l = Len(j)
    OBVIOUS
  <1>2. PICK b : b = <<"{">> \o j \o <<"}">>
    OBVIOUS
  <1>3. Braced(b, j, l)
    BY <1>1, <1>2, BracedIs
  <1>4. Named(<<"{", Quote, "n", Quote, ":">> \o b \o <<"}">>, j, l)
    BY <1>3, NamedIs
  <1>5. Render(fs, nested) = IF nested THEN <<"{", Quote, "n", Quote, ":">> \o b \o <<"}">> ELSE b
    BY <1>2, Zenon DEF Render, PartsOf
  <1>6. CASE nested
    BY <1>1, <1>4, <1>5, <1>6, Zenon DEF Ringed
  <1>7. CASE ~nested
    BY <1>1, <1>3, <1>5, <1>7, Zenon DEF Ringed
  <1>. QED BY <1>6, <1>7

(* Where the reply's text j, of l characters, is in js: part n ends e[n]   *)
(* characters behind the first b.                                          *)
Laid(j, l, b, e) ==
  /\ e \in [0 .. Count -> Nat] /\ e[0] = 0 /\ e[Count] = l
  /\ l \in Nat /\ b \in Nat /\ b = IF doc.nested THEN 6 ELSE 1
  /\ js[b] = "{" /\ js[b + l + 1] = "}"
  /\ doc.nested => /\ js[1] = "{" /\ js[2] = Quote /\ js[3] = "n" /\ js[4] = Quote /\ js[5] = ":"
                   /\ js[b + l + 2] = "}"
  /\ Len(js) = b + l + (IF doc.nested THEN 2 ELSE 1) + Len(doc.tail)
  /\ \A x \in 1 .. l : js[b + x] = j[x]
  /\ \A x \in 1 .. Len(doc.tail) : js[b + l + (IF doc.nested THEN 2 ELSE 1) + x] = doc.tail[x]
  /\ \A n \in 1 .. Count : Part(j, e[n - 1], n, PartsOf(doc.fields)[n], e[n]) /\ e[n] <= l

(* A reply has such a layout.                                              *)
LEMMA LaidOut ==
  ASSUME doc.fields \in Fields, doc.nested \in BOOLEAN, doc.tail \in Tails,
         js = Render(doc.fields, doc.nested) \o doc.tail
  PROVE  \E j, l, b, e : Laid(j, l, b, e)
  <1>1. PICK parts \in Seq(Seq(Chars)) : parts = PartsOf(doc.fields) /\ Len(parts) = Count
    BY PartsAre DEF Count
  <1>2. PICK F : Joined(parts, F) /\ Join(parts) = F[Len(parts)]
    BY JoinIs
  <1>3. Count \in Nat /\ Len(parts) \in 0 .. Len(parts) /\ 0 \in 0 .. Len(parts)
    BY <1>1, FieldsAre
  <1>4. PICK j \in Seq(Chars), l \in Nat : j = F[Count] /\ l = Len(j)
    <2>1. F[Count] \in Seq(Chars) /\ Len(F[Count]) \in Nat
      BY <1>1, <1>2, <1>3, JoinedTexts
    <2>. QED BY <2>1, Zenon
  <1>5. PICK e : e = [n \in 0 .. Count |-> Len(F[n])]
    OBVIOUS
  <1>6. e \in [0 .. Count -> Nat] /\ e[0] = 0 /\ e[Count] = l
    <2>1. F[0] = <<>> /\ Len(<<>>) = 0
      BY <1>2, EmptyIs DEF Joined
    <2>2. \A n \in 0 .. Count : Len(F[n]) \in Nat
      BY <1>1, <1>2, JoinedTexts
    <2>. QED BY <1>1, <1>3, <1>4, <1>5, <2>1, <2>2
  <1>7. \A n \in 1 .. Count : Part(j, e[n - 1], n, PartsOf(doc.fields)[n], e[n]) /\ e[n] <= l
    <2>. SUFFICES ASSUME NEW n \in 1 .. Count
                  PROVE  Part(j, e[n - 1], n, PartsOf(doc.fields)[n], e[n]) /\ e[n] <= l
      OBVIOUS
    <2>1. /\ Part(F[Count], Len(F[n - 1]), n, parts[n], Len(F[n]))
          /\ Len(F[n]) <= Len(F[Count])
      BY <1>1, <1>2, AllParts
    <2>2. e[n - 1] = Len(F[n - 1]) /\ e[n] = Len(F[n])
      BY <1>3, <1>5
    <2>. QED BY <1>1, <1>4, <2>1, <2>2
  <1>8. PICK t : t = Render(doc.fields, doc.nested)
    OBVIOUS
  <1>9. Ringed(t, j, l, doc.nested)
    BY <1>1, <1>2, <1>4, <1>8, RenderedIs
  <1>10. PICK b \in Nat, m \in Nat, w \in Nat :
           /\ b = IF doc.nested THEN 6 ELSE 1
           /\ m = b + l + (IF doc.nested THEN 2 ELSE 1)
           /\ w = Len(doc.tail)
    <2>1. Len(doc.tail) \in Nat
      BY TextsAre
    <2>2. \E b \in Nat, m \in Nat : /\ b = IF doc.nested THEN 6 ELSE 1
                                    /\ m = b + l + (IF doc.nested THEN 2 ELSE 1)
      OBVIOUS
    <2>. QED BY <2>1, <2>2, Zenon
  <1>11. /\ t \in Seq(Chars) /\ Len(t) = m
         /\ t[b] = "{" /\ t[b + l + 1] = "}"
         /\ doc.nested => /\ t[1] = "{" /\ t[2] = Quote /\ t[3] = "n" /\ t[4] = Quote /\ t[5] = ":"
                          /\ t[b + l + 2] = "}"
         /\ \A x \in 1 .. l : t[b + x] = j[x]
    <2>1. CASE doc.nested
      <3>1. b = 6 /\ m = l + 8 /\ b + l + 1 = l + 7 /\ b + l + 2 = l + 8
        BY <1>10, <2>1
      <3>2. Named(t, j, l)
        BY <1>9, <2>1 DEF Ringed
      <3>. QED BY <2>1, <3>1, <3>2 DEF Named
    <2>2. CASE ~doc.nested
      <3>1. b = 1 /\ m = l + 2 /\ b + l + 1 = l + 2
        BY <1>10, <2>2
      <3>2. Braced(t, j, l)
        BY <1>9, <2>2 DEF Ringed
      <3>. QED BY <2>2, <3>1, <3>2 DEF Braced
    <2>. QED BY <2>1, <2>2
  <1>12. Cat(js, t, m, doc.tail, w)
    <2>1. doc.tail \in Seq(Chars)
      BY TextsAre
    <2>. QED BY <1>8, <1>10, <1>11, <2>1, CatIs
  <1>13. /\ Len(js) = m + w /\ \A x \in 1 .. m : js[x] = t[x]
         /\ \A x \in 1 .. w : js[m + x] = doc.tail[x]
    BY <1>12, Zenon DEF Cat
  <1>14. /\ b \in 1 .. m /\ b + l + 1 \in 1 .. m
         /\ doc.nested => {1, 2, 3, 4, 5} \subseteq 1 .. m /\ b + l + 2 \in 1 .. m
         /\ \A x \in 1 .. l : b + x \in 1 .. m
    BY <1>10
  <1>15. /\ js[b] = "{" /\ js[b + l + 1] = "}"
         /\ doc.nested => /\ js[1] = "{" /\ js[2] = Quote /\ js[3] = "n" /\ js[4] = Quote /\ js[5] = ":"
                          /\ js[b + l + 2] = "}"
         /\ \A x \in 1 .. l : js[b + x] = j[x]
    BY <1>11, <1>13, <1>14
  <1>16. Laid(j, l, b, e)
    BY <1>6, <1>7, <1>10, <1>13, <1>15 DEF Laid
  <1>. QED BY <1>16

(* Field n begins at the place its part has.                               *)
LEMMA PartPlaced ==
  ASSUME doc.fields \in Fields, NEW j, NEW l, NEW b, NEW e, Laid(j, l, b, e),
         NEW pt, pt = [n \in 1 .. Count + 1 |-> IF n = 1 THEN b + 1 ELSE b + e[n - 1] + 2],
         NEW n \in 1 .. Count
  PROVE  PairAt(pt, n) /\ pt[n + 1] <= pt[Count + 1]
  <1>1. /\ e \in [0 .. Count -> Nat] /\ e[0] = 0 /\ e[Count] = l /\ l \in Nat /\ b \in Nat
        /\ \A x \in 1 .. l : js[b + x] = j[x]
    BY Zenon DEF Laid
  <1>2. \A m \in 1 .. Count : Part(j, e[m - 1], m, PartsOf(doc.fields)[m], e[m]) /\ e[m] <= l
    BY Zenon DEF Laid
  <1>3. Count \in Nat /\ doc.fields[n].quoted \in BOOLEAN
    BY FieldsAre
  <1>4. PICK p : p = PartsOf(doc.fields)[n]
    OBVIOUS
  <1>5. PairText(p, doc.fields[n].key, Len(doc.fields[n].key),
                 doc.fields[n].value, Len(doc.fields[n].value), doc.fields[n].quoted)
    BY <1>4, PartsAre, Zenon DEF Count
  <1>6. PICK q \in Nat : q = Len(p)
    <2>1. p \in Seq(Chars)
      BY <1>5 DEF PairText
    <2>. QED BY <2>1
  <1>7. PICK from \in Nat, to \in Nat, sep \in Nat :
          from = e[n - 1] /\ to = e[n] /\ sep = Sep(n)
    <2>1. n - 1 \in 0 .. Count /\ n \in 0 .. Count
      BY <1>3
    <2>2. e[n - 1] \in Nat /\ e[n] \in Nat /\ Sep(n) \in Nat
      BY <1>1, <2>1 DEF Sep
    <2>. QED BY <2>2, Zenon
  <1>8. /\ to = from + sep + q /\ to <= l
        /\ \A x \in 1 .. q : j[from + sep + x] = p[x]
    BY <1>2, <1>4, <1>6, <1>7, Zenon DEF Part
  <1>9. PICK at \in Nat : at = b + from + sep
    BY <1>1
  <1>10. pt[n] = at + 1
    <2>1. CASE n = 1
      <3>1. from = 0 /\ sep = 0 /\ pt[n] = b + 1
        BY <1>1, <1>3, <1>7, <2>1 DEF Sep
      <3>2. at = b
        BY <1>1, <1>9, <3>1
      <3>. QED BY <3>1, <3>2
    <2>2. CASE n # 1
      <3>1. sep = 1 /\ pt[n] = b + from + 2
        BY <1>3, <1>7, <2>2 DEF Sep
      <3>. QED BY <1>1, <1>9, <3>1
    <2>. QED BY <2>1, <2>2
  <1>11. pt[n + 1] = b + to + 2 /\ pt[Count + 1] = b + l + 2
    <2>1. n + 1 \in 1 .. Count + 1 /\ n + 1 # 1 /\ n + 1 - 1 = n
          /\ Count + 1 \in 1 .. Count + 1 /\ Count + 1 # 1 /\ Count + 1 - 1 = Count
      BY <1>3
    <2>2. \A m \in 1 .. Count + 1 : m # 1 => pt[m] = b + e[m - 1] + 2
      OBVIOUS
    <2>3. pt[n + 1] = b + e[n] + 2 /\ pt[Count + 1] = b + e[Count] + 2
      <3>0. PICK y, z : y = n + 1 /\ z = Count + 1
        OBVIOUS
      <3>1. /\ y \in 1 .. Count + 1 /\ z \in 1 .. Count + 1
            /\ y - 1 = n /\ z - 1 = Count /\ y # 1 /\ z # 1
        BY <1>3, <3>0
      <3>2. pt[y] = b + e[y - 1] + 2 /\ pt[z] = b + e[z - 1] + 2
        BY <2>2, <3>1
      <3>. QED BY <3>0, <3>1, <3>2
    <2>. QED BY <1>1, <1>7, <2>1, <2>3
  <1>12. \A x \in 1 .. q : js[at + x] = p[x]
    <2>. SUFFICES ASSUME NEW x \in 1 .. q PROVE js[at + x] = p[x]
      OBVIOUS
    <2>1. from + sep + x \in 1 .. l /\ b + (from + sep + x) = at + x
      BY <1>1, <1>8, <1>9
    <2>2. js[b + (from + sep + x)] = j[from + sep + x]
      BY <1>1, <2>1
    <2>. QED BY <1>8, <2>1, <2>2
  <1>13. js[at + q + 1] = IF n = Count THEN "}" ELSE ","
    <2>1. at + q + 1 = b + to + 1
      BY <1>1, <1>8, <1>9
    <2>2. CASE n = Count
      <3>1. to = l
        BY <1>1, <1>7, <2>2
      <3>2. js[b + l + 1] = "}"
        BY Zenon DEF Laid
      <3>. QED BY <2>1, <2>2, <3>1, <3>2
    <2>3. CASE n # Count
      <3>1. PICK m \in 1 .. Count : m = n + 1 /\ m - 1 = n /\ m # 1
        <4>1. n + 1 \in 1 .. Count /\ n + 1 - 1 = n /\ n + 1 # 1
          BY <1>3, <2>3
        <4>. QED BY <4>1
      <3>2. Part(j, to, m, PartsOf(doc.fields)[m], e[m]) /\ e[m] <= l
        BY <1>2, <1>7, <3>1
      <3>3. j[to + 1] = ","
        BY <3>1, <3>2, Zenon DEF Part
      <3>4. to + 1 \in 1 .. l
        <4>1. PICK w \in Nat, f \in Nat : w = Len(PartsOf(doc.fields)[m]) /\ f = e[m]
          <5>1. PartsOf(doc.fields)[m] \in Seq(Chars)
            BY PartsAre, Zenon DEF PairText, Count
          <5>2. Len(PartsOf(doc.fields)[m]) \in Nat
            BY <5>1
          <5>3. m \in 0 .. Count
            OBVIOUS
          <5>4. e[m] \in Nat
            BY <1>1, <5>3
          <5>. QED BY <5>2, <5>4, Zenon
        <4>2. f = to + Sep(m) + w /\ f <= l /\ Sep(m) = 1
          BY <3>1, <3>2, <4>1, Zenon DEF Part, Sep
        <4>3. f = to + 1 + w
          BY <4>2
        <4>. QED BY <1>1, <4>2, <4>3
      <3>5. js[b + (to + 1)] = ","
        BY <1>1, <3>3, <3>4
      <3>6. b + (to + 1) = at + q + 1
        BY <1>1, <2>1
      <3>. QED BY <2>3, <3>5, <3>6
    <2>. QED BY <2>2, <2>3
  <1>14. pt[n + 1] = at + q + 2
    <2>1. b + to + 2 = at + q + 2
      BY <1>1, <1>8, <1>9
    <2>. QED BY <1>11, <2>1
  <1>15. Stands(pt, n, at, p)
    BY <1>5, <1>6, <1>10, <1>12, <1>13, <1>14, Zenon DEF Stands
  <1>16. PairAt(pt, n)
    BY <1>15, PairPlaced
  <1>17. pt[n + 1] <= pt[Count + 1]
    BY <1>1, <1>8, <1>11
  <1>. QED BY <1>16, <1>17

(* A reply has its fields at some places.                                  *)
LEMMA ReplyPlaced ==
  ASSUME doc.fields \in Fields, doc.nested \in BOOLEAN, doc.tail \in Tails,
         js = Render(doc.fields, doc.nested) \o doc.tail
  PROVE  js # <<>> /\ \E pt : Placed(pt)
  <1>1. PICK j, l, b, e : Laid(j, l, b, e)
    BY LaidOut
  <1>2. PICK pt : pt = [n \in 1 .. Count + 1 |-> IF n = 1 THEN b + 1 ELSE b + e[n - 1] + 2]
    OBVIOUS
  <1>3. \A n \in 1 .. Count : PairAt(pt, n) /\ pt[n + 1] <= pt[Count + 1]
    BY <1>1, <1>2, PartPlaced
  <1>4. /\ e \in [0 .. Count -> Nat] /\ e[Count] = l /\ l \in Nat /\ b \in Nat
        /\ b = IF doc.nested THEN 6 ELSE 1
    BY <1>1, Zenon DEF Laid
  <1>5. Count \in Nat \ {0}
    BY FieldsAre
  <1>6. pt \in [1 .. Count + 1 -> Nat] /\ pt[1] = b + 1 /\ pt[Count + 1] = b + l + 2
    <2>1. \A n \in 1 .. Count + 1 : n # 1 => n - 1 \in 0 .. Count
      BY <1>5
    <2>2. \A n \in 1 .. Count + 1 : n # 1 => e[n - 1] \in Nat
      BY <1>4, <2>1
    <2>3. 1 \in 1 .. Count + 1 /\ Count + 1 \in 1 .. Count + 1 /\ Count + 1 # 1 /\ Count + 1 - 1 = Count
      BY <1>5
    <2>4. pt[1] = b + 1 /\ \A n \in 1 .. Count + 1 : n # 1 => pt[n] = b + e[n - 1] + 2
      BY <1>2, <2>3
    <2>5. pt[Count + 1] = b + e[Count] + 2
      <3>0. PICK z : z = Count + 1
        OBVIOUS
      <3>1. z \in 1 .. Count + 1 /\ z - 1 = Count /\ z # 1
        BY <1>5, <3>0
      <3>2. pt[z] = b + e[z - 1] + 2
        BY <2>4, <3>1
      <3>. QED BY <3>0, <3>1, <3>2
    <2>6. \A n \in 1 .. Count + 1 : pt[n] \in Nat
      BY <1>4, <2>2, <2>4
    <2>7. pt \in [1 .. Count + 1 -> Nat]
      <3>1. DOMAIN pt = 1 .. Count + 1 /\ pt = [n \in 1 .. Count + 1 |-> pt[n]]
        BY <1>2
      <3>. QED BY <2>6, <3>1
    <2>. QED BY <1>4, <2>3, <2>4, <2>5, <2>7
  <1>7. /\ pt[1] = (IF doc.nested THEN 7 ELSE 2) /\ pt[1] - 1 = b
        /\ b + l + 2 = pt[Count + 1]
        /\ LastAt(pt) = b + l + (IF doc.nested THEN 2 ELSE 1)
    BY <1>4, <1>6 DEF LastAt
  <1>8. /\ js[b] = "{"
        /\ doc.nested => /\ js[1] = "{" /\ js[2] = Quote /\ js[3] = "n" /\ js[4] = Quote /\ js[5] = ":"
                         /\ js[b + l + 2] = "}"
        /\ Len(js) = b + l + (IF doc.nested THEN 2 ELSE 1) + Len(doc.tail)
        /\ \A x \in 1 .. Len(doc.tail) :
             js[b + l + (IF doc.nested THEN 2 ELSE 1) + x] = doc.tail[x]
    BY <1>1, Zenon DEF Laid
  <1>9. Placed(pt)
    BY <1>3, <1>6, <1>7, <1>8, Zenon DEF Placed
  <1>10. js # <<>>
    <2>1. PICK w \in Nat : w = Len(doc.tail)
      BY TextsAre
    <2>2. Len(js) = b + l + (IF doc.nested THEN 2 ELSE 1) + w
      BY <1>8, <2>1, Zenon
    <2>3. Len(js) # 0
      BY <1>4, <2>2
    <2>. QED BY <2>3, EmptyIs
  <1>. QED BY <1>9, <1>10

-----------------------------------------------------------------------------
(***************************************************************************)
(* The invariant of a reply: its parts are at some places, the tokens read *)
(* are those of its parts and the table holds the fields read so far.      *)
(***************************************************************************)
(* The invariant holds at first.                                           *)
LEMMA ReplyStarts ==
  ASSUME Init
  PROVE  ReplyInv
  <1>. SUFFICES ASSUME doc # NoDoc, Fits
                PROVE  /\ doc.fields \in Fields /\ doc.nested \in BOOLEAN /\ doc.tail \in Tails
                       /\ sent
                       /\ \E pt : Placed(pt) /\ Lexed(pt)
                       /\ Filling
    BY DEF ReplyInv
  <1>1. /\ doc.fields \in Fields /\ doc.nested \in BOOLEAN /\ doc.tail \in Tails
        /\ js = Render(doc.fields, doc.nested) \o doc.tail /\ sent
    <2>1. PICK fs \in Fields, nested \in BOOLEAN, tail \in Tails :
            /\ doc = [fields |-> fs, nested |-> nested, tail |-> tail]
            /\ js = Render(fs, nested) \o tail /\ sent
      BY Zenon DEF Init, send_mal_command
    <2>2. doc.fields = fs /\ doc.nested = nested /\ doc.tail = tail
      BY <2>1
    <2>. QED BY <2>1, <2>2
  <1>2. PICK pt : Placed(pt)
    BY <1>1, ReplyPlaced
  <1>3. js # <<>>
    BY <1>1, ReplyPlaced
  <1>4. /\ tokens = <<>> /\ Len(tokens) = 0 /\ pos = 1 /\ parsed = "parsing"
        /\ i = 1 /\ ro = 0 /\ key = "object" /\ ret = Pending
        /\ s = Bytes /\ mem = [n \in 0 .. Bytes - 1 |-> IF n < s THEN Nul ELSE "o"]
    BY <1>3, EmptyIs DEF Init, jsmn_init, Fits
  <1>5. Lexed(pt)
    <2>1. RightTokens(pt)
      BY <1>4 DEF RightTokens
    <2>. QED BY <1>4, <2>1 DEF Lexed, Stage
  <1>6. Filling
    <2>1. Bytes \in Nat
      BY Offsets
    <2>2. /\ mem = [n \in 0 .. Bytes - 1 |-> mem[n]]
          /\ \A n \in 0 .. Bytes - 1 : mem[n] = Nul
      BY <1>4, <2>1
    <2>. QED BY <1>4, <2>2 DEF Filling, Progress
  <1>. QED BY <1>1, <1>2, <1>5, <1>6

(* Every step keeps the invariant.                                         *)
LEMMA ReplyStep ==
  ASSUME JsmnInv, ReplyInv, [Next]_vars
  PROVE  ReplyInv'
  <1>1. UNCHANGED <<js, sent, doc, s>>
    <2>1. Tokenize => UNCHANGED js
      BY DEF Tokenize, jsmn_parse, OpenBracket, CloseBracket, jsmn_parse_string, jsmn_parse_primitive,
             Skip, Colon, Comma, Finish, Alloc, Fail
    <2>2. Tokenize => UNCHANGED <<sent, doc, s>>
      BY DEF Tokenize
    <2>3. UNCHANGED jsmnVars => UNCHANGED js
      BY DEF jsmnVars
    <2>4. NotAnObject \/ FillEntry \/ Return \/ UNCHANGED vars => UNCHANGED <<jsmnVars, sent, doc, s>>
      BY DEF NotAnObject, FillEntry, Return, vars
    <2>. QED BY <2>1, <2>2, <2>3, <2>4 DEF Next
  <1>2. Fits' = Fits
    BY <1>1 DEF Fits
  <1>. SUFFICES ASSUME doc # NoDoc, Fits
                PROVE  (\E pt : Placed(pt) /\ Lexed(pt))' /\ Filling'
    BY <1>1, <1>2 DEF ReplyInv
  <1>3. doc.fields \in Fields /\ doc.nested \in BOOLEAN /\ doc.tail \in Tails /\ Filling
    BY DEF ReplyInv
  <1>4. PICK pt : Placed(pt) /\ Lexed(pt)
    BY DEF ReplyInv
  <1>5. Reply
    BY <1>3 DEF Reply
  <1>6. Placed(pt)'
    BY <1>1, <1>4, SamePlaces
  <1>7. CASE Tokenize
    <2>1. parsed = "parsing" /\ jsmn_parse /\ UNCHANGED <<doc, mem, i, ro, key, ret>>
      BY <1>7 DEF Tokenize, Parsing
    <2>2. Lexing(pt) /\ Stage(pt, pos, tokens)
      BY <1>3, <1>4, <1>5, <2>1 DEF Lexing, Lexed
    <2>3. Lexed(pt)'
      BY <2>2, LexStep
    <2>4. Filling'
      BY <1>3, <2>1, SameFilling
    <2>. QED BY <1>6, <2>3, <2>4
  <1>8. CASE FillEntry
    <2>1. Lexed(pt)' /\ Filling'
      BY <1>3, <1>4, <1>5, <1>8, FillStep
    <2>. QED BY <1>6, <2>1
  <1>9. CASE NotAnObject \/ Return
    <2>1. Lexed(pt)' /\ Filling'
      BY <1>3, <1>4, <1>5, <1>9, EndStep
    <2>. QED BY <1>6, <2>1
  <1>10. CASE UNCHANGED vars
    <2>1. UNCHANGED <<js, doc, pos, tokens, parsed, mem, i, ro, key, ret>>
      BY <1>10 DEF vars, jsmnVars
    <2>2. Filling'
      BY <1>3, <2>1, SameFilling
    <2>3. RightTokens(pt)' /\ Total' = Total
      BY <1>4, <2>1, SamePlaces, SameFields DEF Lexed
    <2>4. Stage(pt, pos, tokens)' <=> Stage(pt, pos, tokens)
      <3>1. Stage(pt, pos, tokens)' <=> Stage(pt, pos', tokens')
        BY <2>1, SameStage
      <3>. QED BY <2>1, <3>1
    <2>5. Lexed(pt)'
      BY <1>4, <2>1, <2>3, <2>4 DEF Lexed, TailTokens, HasArray
    <2>. QED BY <1>6, <2>2, <2>5
  <1>. QED BY <1>7, <1>8, <1>9, <1>10 DEF Next

(* What the invariant says of a reply that was answered.                   *)
LEMMA AnsweredIs ==
  ASSUME JsmnInv, ReplyInv, Answered
  PROVE  /\ doc.fields \in Fields
         /\ doc.tail = <<>> => ret = Count + 1
         /\ ret >= 0 => \A j \in SafeOnes :
              /\ Text(mem, ValueOf(j)) = Given(doc.fields[j])
              /\ Text(mem, KeyOf(j)) = KeyText(j)
  <1>1. /\ doc.fields \in Fields /\ doc.nested \in BOOLEAN /\ Filling
        /\ Fits /\ ret # Pending
    BY DEF ReplyInv, Answered
  <1>2. PICK pt : Placed(pt) /\ Lexed(pt)
    BY DEF ReplyInv, Answered
  <1>3. Reply
    BY <1>1 DEF Reply
  <1>. QED BY <1>1, <1>2, <1>3, ReadsReply

(* It says that the reply is read.                                         *)
LEMMA IsRead ==
  ASSUME JsmnInv, ReplyInv
  PROVE  ReplyRead
  <1>. SUFFICES ASSUME Answered
                PROVE  /\ doc.tail = <<>> => ret = Len(doc.fields) + 1
                       /\ ret >= 0 => \A j \in DOMAIN doc.fields : Safe(j) =>
                            /\ Text(mem, ValueOf(j)) = Given(doc.fields[j])
                            /\ Text(mem, KeyOf(j)) =
                                 IF j = 1 /\ ~doc.nested THEN <<>> ELSE doc.fields[j].key
    BY DEF ReplyRead
  <1>1. DOMAIN doc.fields = 1 .. Count
    BY AnsweredIs, TextsAre DEF Count
  <1>2. \A j \in DOMAIN doc.fields : Safe(j) => j \in SafeOnes
    BY <1>1 DEF SafeOnes
  <1>. QED BY <1>2, AnsweredIs DEF Count, KeyText

(* An empty errno is no error.                                             *)
LEMMA GivenZero ==
  ASSUME NEW f
  PROVE  NonZero(Given(f)) <=> NonZero(f.value)
  <1>1. CASE f.value = <<>>
    <2>1. ~NonZero(<<>>)
      BY DEF NonZero
    <2>2. ~NonZero(<<"NULL">>)
      BY DEF NonZero
    <2>. QED BY <1>1, <2>1, <2>2 DEF Given
  <1>2. CASE f.value # <<>>
    BY <1>2 DEF Given
  <1>. QED BY <1>1, <1>2

(* It says that the functions answer with the value.                       *)
LEMMA IsAnswered ==
  ASSUME JsmnInv, ReplyInv
  PROVE  ValueAnswered
  <1>. SUFFICES ASSUME Answered, ret >= 0, NEW name \in DOMAIN Wanted, NEW j,
                       j = IF NonZero(doc.fields[1].value) THEN 2 ELSE Wanted[name],
                       j \in DOMAIN doc.fields, Safe(1), Safe(j)
                PROVE  Answer(name) = Given(doc.fields[j])
    BY DEF ValueAnswered
  <1>1. 1 \in SafeOnes /\ j \in SafeOnes
    <2>1. DOMAIN doc.fields = 1 .. Count /\ Count \in Nat \ {0}
      BY AnsweredIs, TextsAre, FieldsAre DEF Count
    <2>. QED BY <2>1 DEF SafeOnes
  <1>2. /\ Text(mem, ValueOf(1)) = Given(doc.fields[1])
        /\ Text(mem, ValueOf(j)) = Given(doc.fields[j])
    BY <1>1, AnsweredIs
  <1>3. NonZero(Given(doc.fields[1])) <=> NonZero(doc.fields[1].value)
    BY GivenZero
  <1>4. ~(ret < 0)
    <2>1. Filling /\ ret # Pending
      BY DEF ReplyInv, Answered
    <2>2. ro \in Int
      BY <2>1 DEF Filling, Progress
    <2>3. ret \in Int
      BY <2>1, <2>2 DEF Filling
    <2>. QED BY <2>3
  <1>5. sent
    BY DEF ReplyInv, Answered
  <1>. QED BY <1>2, <1>3, <1>4, <1>5 DEF Answer, Silent

(* The invariant holds always.                                             *)
LEMMA RepliesHold == Spec => [](JsmnInv /\ ReplyInv)
  <1>1. Init => JsmnInv /\ ReplyInv
    BY MalStarts, ReplyStarts
  <1>2. JsmnInv /\ ReplyInv /\ [Next]_vars => (JsmnInv /\ ReplyInv)'
    BY MalStep, ReplyStep
  <1>. QED BY <1>1, <1>2, PTL DEF Spec

(* A reply that send_mal_command passes on and parse_maljson accepts is read *)
(* field by field into the table, whatever the lengths of its keys and values*)
(* and of the buffers and whatever follows it, but for the fields that are   *)
(* spoilt: those too long for their buffer, those a longer one before runs   *)
(* into, and the last one if an array follows the reply (maljson.cpp).       *)
THEOREM RepliesRead == Spec => []ReplyRead
  <1>1. JsmnInv /\ ReplyInv => ReplyRead
    BY IsRead
  <1>. QED BY <1>1, RepliesHold, PTL

(* The functions of mal.cpp give the value asked for, or the error message *)
(* when errno is set, of any such reply and whatever garbage follows it, if  *)
(* the field and errno are not spoilt.                                       *)
THEOREM ValuesAnswered == Spec => []ValueAnswered
  <1>1. JsmnInv /\ ReplyInv => ValueAnswered
    BY IsAnswered
  <1>. QED BY <1>1, RepliesHold, PTL

=============================================================================
