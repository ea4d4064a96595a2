-------------------------- MODULE KeyProgramsProofs -------------------------
(***************************************************************************)
(* Theorems of KeyPrograms, for every choice of programs, handlers, users   *)
(* and runs.                                                                *)
(***************************************************************************)
EXTENDS KeyPrograms, TLAPS

(* A press that shows in the variable was handled in this round, from the   *)
(* moment the variable was cleared on; and main has passed the first spin   *)
(* loop only on such a press.  Only the demo clears the variable late.       *)
PressCounted == pc \notin {"monitor", "armed", "over"} => (press => pressed)

Waited ==
  /\ pc = "armed" => program = "demo"
  /\ program = "quickstart" /\ pc = "release" => pressed
  /\ program = "demo" /\ ~timed /\ pc \in {"work", "release"} => pressed

(* The handler only runs while its edge is watched, and Quick Start leaves   *)
(* the variable to it.                                                        *)
Handling ==
  /\ pc \in {"monitor", "init"} => irq = "idle"
  /\ irq = "toggled" => program = "quickstart"
  /\ program = "quickstart" /\ irq # "idle" => (press <=> taken = "press")

IInv == TypeOK /\ PressCounted /\ Waited /\ Handling

LEMMA InitIInv == Init => IInv
<1>. SUFFICES ASSUME Init PROVE IInv
  OBVIOUS
<1>2. TypeOK
  <2>a. headless \in 0 .. 2
    BY ModeAssumption DEF Init
  <2>b. timed \in BOOLEAN
    BY Zenon DEF Init
  <2>1. headless \in 0 .. 2 /\ timed \in BOOLEAN
    BY <2>a, <2>b
  <2>2. runs \in 0 .. MaxRuns
    BY ModeAssumption DEF Init
  <2>3. paint \in [Threads -> [color : SUBSET Pins, left : SUBSET Pins]]
    BY DEF Init, Unpainted
  <2>4. spans \in Nat \X Nat
    BY DEF Init
  <2>5. raced \in BOOLEAN /\ pressed \in BOOLEAN /\ down \in BOOLEAN /\ press \in BOOLEAN
    BY Zenon DEF Init
  <2>6. keypress \in Int /\ held \in Nat /\ current_color \in SUBSET Pins /\ led \in SUBSET Pins
    BY DEF Init
  <2>. QED BY <2>1, <2>2, <2>3, <2>4, <2>5, <2>6, Zenon DEF Init, TypeOK
<1>3. PressCounted /\ Waited /\ Handling
  BY DEF Init, PressCounted, Waited, Handling
<1>. QED BY <1>2, <1>3 DEF IInv

(* Starting to write a colour keeps the LED's variables in their types.     *)
LEMMA BeginColorType ==
  ASSUME TypeOK, NEW t \in Threads, NEW c \in SUBSET Pins, BeginColor(t, c)
  PROVE  /\ paint' \in [Threads -> [color : SUBSET Pins, left : SUBSET Pins]]
         /\ led' \in SUBSET Pins
         /\ raced' \in BOOLEAN
  BY DEF TypeOK, BeginColor, Painting

LEMMA Colours == /\ RED \in SUBSET Pins /\ GREEN \in SUBSET Pins
                 /\ BLUE \in SUBSET Pins /\ WHITE \in SUBSET Pins
                 /\ "main" \in Threads /\ "irq" \in Threads
  BY DEF RED, GREEN, BLUE, WHITE, Pins, Threads

LEMMA WritePinIInv ==
  ASSUME IInv, NEW t \in Threads, WritePin(t)
  PROVE  IInv'
<1> DEFINE p == NextPin(t)
           one == IF paint[t].left = {p} THEN Unpainted
                  ELSE [color |-> paint[t].color, left |-> paint[t].left \ {p}]
<1>1. p \in Pins
  BY DEF NextPin, Pins
<1>2. paint[t] \in [color : SUBSET Pins, left : SUBSET Pins]
  BY DEF IInv, TypeOK
<1>3. one \in [color : SUBSET Pins, left : SUBSET Pins]
  BY <1>2 DEF Unpainted
<1>4. paint' = [paint EXCEPT ![t] = one] /\ led' = (led \ {p}) \cup (paint[t].color \cap {p})
  BY Zenon DEF WritePin
<1>5. paint' \in [Threads -> [color : SUBSET Pins, left : SUBSET Pins]]
  BY <1>3, <1>4 DEF IInv, TypeOK
<1>6. led' \in SUBSET Pins
  BY <1>1, <1>4 DEF IInv, TypeOK
<1>7. TypeOK'
  BY <1>5, <1>6 DEF WritePin, IInv, TypeOK, modeVars, keyVars, historyVars
<1>8. PressCounted' /\ Waited' /\ Handling'
  BY DEF WritePin, IInv, PressCounted, Waited, Handling, modeVars, keyVars, historyVars
<1>. QED BY <1>7, <1>8 DEF IInv

LEMMA MainIInv == IInv /\ MainNext => IInv'
<1>. SUFFICES ASSUME IInv, MainNext PROVE IInv'
  OBVIOUS
<1>. USE DEF IInv
<1>1. CASE Begin
  <2>1. TypeOK'
    <3>a. runs' \in 0 .. MaxRuns
      BY <1>1, ModeAssumption DEF Begin, TypeOK
    <3>1. CASE program = "demo"
      <4>1. timed' \in BOOLEAN
        BY <1>1, <3>1 DEF Begin, TypeOK
      <4>2. QED
        BY <1>1, <3>1, <3>a, <4>1 DEF Begin, TypeOK, modeVars, NoColor, colorVars
    <3>2. CASE program # "demo"
      <4>1. BeginColor("main", RED) /\ current_color' = RED
        BY <1>1, <3>2 DEF Begin
      <4>2. QED
        BY <1>1, <3>2, <3>a, <4>1, BeginColorType, Colours DEF Begin, TypeOK, modeVars
    <3>. QED BY <3>1, <3>2
  <2>2. PressCounted' /\ Waited' /\ Handling'
    BY <1>1 DEF Begin, Main, PressCounted, Waited, Handling, modeVars
  <2>. QED BY <2>1, <2>2
<1>2. CASE ClearPress
  <2>1. TypeOK'
    BY <1>2 DEF ClearPress, TypeOK, modeVars, NoColor, colorVars
  <2>2. PressCounted' /\ Waited'
    BY <1>2 DEF ClearPress, Main, PressCounted, Waited, modeVars
  <2>3. Handling'
    BY <1>2 DEF ClearPress, Main, Waited, Handling, modeVars
  <2>. QED BY <2>1, <2>2, <2>3
<1>3. CASE RequestKey
  BY <1>3 DEF RequestKey, Main, TypeOK, PressCounted, Waited, Handling, modeVars, keyVars,
              historyVars, NoColor, colorVars
<1>4. CASE CheckKeys
  BY <1>4 DEF CheckKeys, Main, TypeOK, PressCounted, Waited, Handling, modeVars, keyVars,
              historyVars, NoColor, colorVars
<1>5. CASE Top
  <2>1. TypeOK'
    <3>1. CASE program = "demo"
      <4>1. PICK c \in {RED, GREEN} : BeginColor("main", c)
        BY <1>5, <3>1 DEF Top
      <4>2. QED
        BY <1>5, <3>1, <4>1, BeginColorType, Colours
        DEF Top, TypeOK, modeVars, keyVars, historyVars
    <3>2. CASE program # "demo"
      <4>1. BeginColor("main", GREEN) /\ current_color' = GREEN
        BY <1>5, <3>2 DEF Top
      <4>2. QED
        BY <1>5, <3>2, <4>1, BeginColorType, Colours
        DEF Top, TypeOK, modeVars, keyVars, historyVars
    <3>. QED BY <3>1, <3>2
  <2>2. PressCounted' /\ Waited' /\ Handling'
    BY <1>5 DEF Top, Main, PressCounted, Waited, Handling, modeVars, keyVars, historyVars, TypeOK
  <2>. QED BY <2>1, <2>2
<1>6. CASE SeePress
  BY <1>6 DEF SeePress, Main, TypeOK, PressCounted, Waited, Handling, modeVars, keyVars,
              historyVars, NoColor, colorVars
<1>7. CASE Send
  BY <1>7 DEF Send, Main, TypeOK, PressCounted, Waited, Handling, modeVars, keyVars,
              historyVars, NoColor, colorVars
<1>8. CASE SeeRelease
  BY <1>8 DEF SeeRelease, Main, TypeOK, PressCounted, Waited, Handling, modeVars, keyVars,
              NoColor, colorVars
<1>9. CASE TestDuration
  <2>1. headless' \in 0 .. 2
    BY <1>9 DEF TestDuration, TypeOK
  <2>2. TypeOK'
    <3>1. CASE BeginColor("main", BLUE) /\ current_color' = BLUE /\ pc' = "work"
      BY <1>9, <2>1, <3>1, BeginColorType, Colours
      DEF TestDuration, TypeOK, modeVars, keyVars, historyVars
    <3>2. CASE NoColor /\ pc' \in {"over", "send"}
      BY <1>9, <2>1, <3>2
      DEF TestDuration, TypeOK, modeVars, keyVars, historyVars, NoColor, colorVars
    <3>. QED BY <1>9, <3>1, <3>2 DEF TestDuration
  <2>3. PressCounted' /\ Waited' /\ Handling'
    BY <1>9 DEF TestDuration, Main, PressCounted, Waited, Handling, TypeOK, modeVars, keyVars,
                historyVars
  <2>. QED BY <2>2, <2>3
<1>10. CASE End
  BY <1>10 DEF End, Main, TypeOK, PressCounted, Waited, Handling, modeVars, keyVars,
               historyVars, NoColor, colorVars
<1>11. CASE WritePin("main")
  BY <1>11, WritePinIInv, Colours
<1>. QED
  BY <1>1, <1>2, <1>3, <1>4, <1>5, <1>6, <1>7, <1>8, <1>9, <1>10, <1>11 DEF MainNext

LEMMA KeyIInv == IInv /\ (HandlerNext \/ Edge \/ EdgeUnwatched) => IInv'
<1>. SUFFICES ASSUME IInv, HandlerNext \/ Edge \/ EdgeUnwatched PROVE IInv'
  OBVIOUS
<1>. USE DEF IInv
<1>1. CASE HandlerColor
  <2>1. PICK c \in SUBSET Pins : BeginColor("irq", c)
    BY <1>1, Colours DEF HandlerColor, TypeOK
  <2>2. TypeOK'
    BY <1>1, <2>1, BeginColorType, Colours
    DEF HandlerColor, TypeOK, modeVars, keyVars, historyVars
  <2>3. PressCounted' /\ Waited' /\ Handling'
    BY <1>1 DEF HandlerColor, PressCounted, Waited, Handling, modeVars, keyVars, historyVars
  <2>. QED BY <2>2, <2>3
<1>2. CASE HandlerTime
  BY <1>2 DEF HandlerTime, TypeOK, PressCounted, Waited, Handling, modeVars, historyVars,
              NoColor, colorVars
<1>3. CASE WritePin("irq")
  BY <1>3, WritePinIInv, Colours
<1>4. CASE Edge
  <2>1. PICK span \in Spans :
           /\ spans' = IF press THEN <<spans[2], span>> ELSE spans
           /\ held' = IF down THEN span ELSE held
    BY <1>4 DEF Edge
  <2>2. span \in Nat /\ spans \in Nat \X Nat /\ spans' \in Nat \X Nat /\ held' \in Nat
    BY <2>1, ModeAssumption DEF TypeOK
  <2>3. press' \in BOOLEAN /\ down' \in BOOLEAN /\ pressed' \in BOOLEAN
    BY <1>4, Zenon DEF Edge, TypeOK
  <2>4. TypeOK'
    BY <1>4, <2>2, <2>3 DEF Edge, TypeOK, modeVars, NoColor, colorVars
  <2>5. PressCounted' /\ Waited'
    BY <1>4 DEF Edge, Watched, PressCounted, Waited, modeVars
  <2>6. Handling'
    BY <1>4 DEF Edge, Watched, Handling, modeVars, TypeOK
  <2>. QED BY <2>4, <2>5, <2>6
<1>5. CASE EdgeUnwatched
  BY <1>5 DEF EdgeUnwatched, TypeOK, PressCounted, Waited, Handling, modeVars, historyVars,
              NoColor, colorVars
<1>. QED BY <1>1, <1>2, <1>3, <1>4, <1>5 DEF HandlerNext

LEMMA StutterIInv == IInv /\ UNCHANGED vars => IInv'
  BY DEF IInv, TypeOK, PressCounted, Waited, Handling, vars, modeVars, keyVars, colorVars,
         historyVars

(* The invariant of the two programs and of the key's handler (demo.c and    *)
(* qsapp.cpp) holds in every reachable state.                                *)
THEOREM Inductive == Spec => []IInv
<1>1. IInv /\ [Next]_vars => IInv'
  BY MainIInv, KeyIInv, StutterIInv DEF Next
<1>. QED BY InitIInv, <1>1, PTL DEF Spec

(* The state of both programs, the LED and the handler keeps its types.     *)
THEOREM TypeCorrect == Spec => []TypeOK
<1>1. IInv => TypeOK
  BY DEF IInv
<1>. QED BY <1>1, Inductive, PTL

(* No round ends on a press an earlier round has used, however main and the *)
(* handler interleave.                                                      *)
THEOREM PressPerRound == Spec => OnePressPerRound
<1>1. IInv /\ [Next]_vars => [pc = "release" /\ pc' = "test" /\ ~timed => pressed]_vars
  <2>1. SUFFICES ASSUME IInv, pc = "release", ~timed PROVE pressed
    OBVIOUS
  <2>2. program \in {"demo", "quickstart"}
    BY <2>1, ModeAssumption DEF IInv, TypeOK
  <2>. QED BY <2>1, <2>2 DEF IInv, Waited
<1>. QED BY <1>1, Inductive, PTL DEF Spec, OnePressPerRound
-----------------------------------------------------------------------------
(***************************************************************************)
(* The LED of Quick Start.  As long as colours are written one at a time, a *)
(* thread inside do_color has already set the pins it has no longer left,   *)
(* and unless the handler still has to take back its white, the colour      *)
(* being written, or shown, is current_color.                               *)
(***************************************************************************)
OneAtATime == ~raced => ~(Painting("main") /\ Painting("irq"))

SetSoFar(t) ==
  ~raced /\ Painting(t) =>
    \A p \in Pins \ paint[t].left : p \in led <=> p \in paint[t].color

Due == program = "quickstart" /\ runs > 0 /\ ~raced /\ ~press /\ irq # "toggled"

DueIsCurrent ==
  Due => IF \E t \in Threads : Painting(t)
         THEN \E t \in Threads : Painting(t) /\ paint[t].color = current_color
         ELSE led = current_color

ColorInv == OneAtATime /\ (\A t \in Threads : SetSoFar(t)) /\ DueIsCurrent

LEMMA InitColorInv == Init => ColorInv
  BY DEF Init, ColorInv, OneAtATime, SetSoFar, DueIsCurrent, Due, Painting, Threads,
         Unpainted, ModeAssumption

(* A colour that is begun is the one due, or none is due.                   *)
LEMMA BeginColorInv ==
  ASSUME TypeOK, ColorInv, NEW t \in Threads, NEW c \in SUBSET Pins, BeginColor(t, c),
         Due' => c = current_color'
  PROVE  ColorInv'
<1>1. /\ paint'[t] = [color |-> c, left |-> Pins]
      /\ \A o \in Threads \ {t} : paint'[o] = paint[o]
  BY DEF BeginColor, TypeOK
<1>2. Painting(t)'
  BY <1>1 DEF Painting, Pins
<1>3. Other(t) \in Threads /\ Other(t) # t /\ Threads = {t, Other(t)}
  BY DEF Other, Threads
<1>4. ~raced' => ~Painting(Other(t))'
  BY <1>1, <1>3 DEF BeginColor, Painting
<1>5. OneAtATime'
  BY <1>3, <1>4 DEF OneAtATime, Threads
<1>6. ASSUME NEW o \in Threads PROVE SetSoFar(o)'
  <2>1. CASE o = t
    BY <1>1, <2>1 DEF SetSoFar
  <2>2. CASE o # t
    BY <1>3, <1>4, <2>2 DEF SetSoFar
  <2>. QED BY <2>1, <2>2
<1>7. DueIsCurrent'
  BY <1>1, <1>2 DEF DueIsCurrent
<1>. QED BY <1>5, <1>6, <1>7 DEF ColorInv

(* Steps that leave the LED's variables alone.                              *)
LEMMA NoColorInv ==
  ASSUME ColorInv, NoColor, Due' => Due
  PROVE  ColorInv'
BY DEF ColorInv, NoColor, colorVars, OneAtATime, SetSoFar, DueIsCurrent, Due, Painting

LEMMA WritePinColorInv ==
  ASSUME TypeOK, ColorInv, NEW t \in Threads, WritePin(t)
  PROVE  ColorInv'
<1> DEFINE p == NextPin(t)
<1>1. Painting(t) /\ p \in paint[t].left /\ p \in Pins /\ paint[t].left \subseteq Pins
  <2>1. paint[t].left \in SUBSET Pins
    BY DEF TypeOK
  <2>2. Painting(t)
    BY DEF WritePin
  <2>. QED BY <2>1, <2>2 DEF NextPin, Pins, Painting
<1>2. led' = (led \ {p}) \cup (paint[t].color \cap {p})
  BY Zenon DEF WritePin
<1>3. /\ paint'[t] = IF paint[t].left = {p} THEN Unpainted
                     ELSE [color |-> paint[t].color, left |-> paint[t].left \ {p}]
      /\ \A o \in Threads \ {t} : paint'[o] = paint[o]
  <2>1. paint' = [paint EXCEPT ![t] =
                   IF paint[t].left = {p} THEN Unpainted
                   ELSE [color |-> paint[t].color, left |-> paint[t].left \ {p}]]
    BY Zenon DEF WritePin
  <2>. QED BY <2>1 DEF TypeOK
<1>4. UNCHANGED <<program, runs, raced, press, irq, current_color>>
  BY DEF WritePin, modeVars, keyVars
<1>5. ~raced => \A o \in Threads \ {t} : ~Painting(o) /\ ~Painting(o)'
  BY <1>1, <1>3 DEF ColorInv, OneAtATime, Threads, Painting
<1>6. OneAtATime'
  BY <1>4, <1>5 DEF OneAtATime, Threads
<1>7. ~raced => \A q \in (Pins \ paint[t].left) \cup {p} : q \in led' <=> q \in paint[t].color
  <2>1. SUFFICES ASSUME ~raced, NEW q \in (Pins \ paint[t].left) \cup {p}
                 PROVE  q \in led' <=> q \in paint[t].color
    OBVIOUS
  <2>2. CASE q = p
    BY <1>2, <2>2
  <2>3. CASE q # p
    BY <1>1, <1>2, <2>1, <2>3 DEF ColorInv, SetSoFar
  <2>. QED BY <2>2, <2>3
<1>8. ASSUME NEW o \in Threads PROVE SetSoFar(o)'
  <2>1. CASE o = t /\ paint[t].left # {p}
    BY <1>1, <1>3, <1>4, <1>7, <2>1 DEF SetSoFar
  <2>2. CASE o = t /\ paint[t].left = {p}
    BY <1>3, <2>2 DEF SetSoFar, Painting, Unpainted
  <2>3. CASE o # t
    BY <1>4, <1>5, <2>3 DEF SetSoFar
  <2>. QED BY <2>1, <2>2, <2>3
<1>9. DueIsCurrent'
  <2>1. SUFFICES ASSUME Due'
                 PROVE  IF \E o \in Threads : Painting(o)'
                        THEN \E o \in Threads : Painting(o)' /\ paint'[o].color = current_color'
                        ELSE led' = current_color'
    BY DEF DueIsCurrent
  <2>2. Due /\ ~raced
    BY <1>4, <2>1 DEF Due
  <2>3. paint[t].color = current_color
    BY <1>1, <1>5, <2>2 DEF ColorInv, DueIsCurrent
  <2>4. CASE paint[t].left # {p}
    <3>1. Painting(t)' /\ paint'[t].color = current_color'
      BY <1>1, <1>3, <1>4, <2>3, <2>4 DEF Painting
    <3>. QED BY <3>1
  <2>5. CASE paint[t].left = {p}
    <3>1. ~\E o \in Threads : Painting(o)'
      BY <1>3, <1>5, <2>2, <2>5 DEF Painting, Unpainted
    <3>2. \A q \in Pins : q \in led' <=> q \in paint[t].color
      BY <1>7, <2>2, <2>5
    <3>3. led' \subseteq Pins /\ paint[t].color \subseteq Pins
      BY <1>1, <1>2 DEF TypeOK
    <3>. QED BY <1>4, <2>3, <3>1, <3>2, <3>3
  <2>. QED BY <2>4, <2>5
<1>. QED BY <1>6, <1>8, <1>9 DEF ColorInv

LEMMA MainColorInv == TypeOK /\ Waited /\ ColorInv /\ MainNext => ColorInv'
<1>. SUFFICES ASSUME TypeOK, Waited, ColorInv, MainNext PROVE ColorInv'
  OBVIOUS
<1>1. CASE Begin
  <2>1. CASE program = "demo"
    BY <1>1, <2>1, NoColorInv DEF Begin, Due, modeVars, NoColor, colorVars
  <2>2. CASE program # "demo"
    <3>1. BeginColor("main", RED) /\ current_color' = RED
      BY <1>1, <2>2 DEF Begin
    <3>. QED BY <3>1, BeginColorInv, Colours
  <2>. QED BY <2>1, <2>2
<1>2. CASE ClearPress
  BY <1>2, NoColorInv DEF ClearPress, Main, Waited, Due, modeVars, NoColor, colorVars
<1>3. CASE RequestKey \/ CheckKeys \/ SeePress \/ Send \/ SeeRelease \/ End
  BY <1>3, NoColorInv DEF RequestKey, CheckKeys, SeePress, Send, SeeRelease, End, Due,
                          modeVars, keyVars, NoColor, colorVars
<1>4. CASE Top
  <2>1. CASE program = "demo"
    <3>1. PICK c \in {RED, GREEN} : BeginColor("main", c)
      BY <1>4, <2>1 DEF Top
    <3>2. ~Due'
      BY <1>4, <2>1 DEF Top, Due, modeVars
    <3>. QED BY <3>1, <3>2, BeginColorInv, Colours
  <2>2. CASE program # "demo"
    <3>1. BeginColor("main", GREEN) /\ current_color' = GREEN
      BY <1>4, <2>2 DEF Top
    <3>. QED BY <3>1, BeginColorInv, Colours
  <2>. QED BY <2>1, <2>2
<1>5. CASE TestDuration
  <2>1. CASE NoColor
    BY <1>5, <2>1, NoColorInv DEF TestDuration, Due, modeVars, keyVars, NoColor, colorVars
  <2>2. CASE BeginColor("main", BLUE) /\ current_color' = BLUE
    BY <2>2, BeginColorInv, Colours
  <2>. QED BY <1>5, <2>1, <2>2 DEF TestDuration
<1>6. CASE WritePin("main")
  BY <1>6, WritePinColorInv, Colours
<1>. QED BY <1>1, <1>2, <1>3, <1>4, <1>5, <1>6 DEF MainNext

LEMMA KeyColorInv ==
  TypeOK /\ Handling /\ ColorInv /\ (HandlerNext \/ Edge \/ EdgeUnwatched) => ColorInv'
<1>. SUFFICES ASSUME TypeOK, Handling, ColorInv, HandlerNext \/ Edge \/ EdgeUnwatched
              PROVE  ColorInv'
  OBVIOUS
<1>1. CASE HandlerColor
  <2>1. press <=> taken = "press"
    BY <1>1 DEF HandlerColor, Handling
  <2>2. CASE press
    <3>1. BeginColor("irq", WHITE) /\ press'
      BY <1>1, <2>1, <2>2 DEF HandlerColor, keyVars
    <3>. QED BY <3>1, BeginColorInv, Colours DEF Due
  <2>3. CASE ~press
    <3>1. BeginColor("irq", current_color) /\ current_color' = current_color
      BY <1>1, <2>1, <2>3 DEF HandlerColor
    <3>. QED BY <3>1, BeginColorInv, Colours DEF TypeOK
  <2>. QED BY <2>2, <2>3
<1>2. CASE HandlerTime
  BY <1>2, NoColorInv DEF HandlerTime, Due, modeVars, NoColor, colorVars
<1>3. CASE WritePin("irq")
  BY <1>3, WritePinColorInv, Colours
<1>4. CASE Edge
  BY <1>4, NoColorInv DEF Edge, Due, modeVars, NoColor, colorVars
<1>5. CASE EdgeUnwatched
  BY <1>5, NoColorInv DEF EdgeUnwatched, Due, modeVars, NoColor, colorVars
<1>. QED BY <1>1, <1>2, <1>3, <1>4, <1>5 DEF HandlerNext

(* Quick Start's LED shows what it is doing whenever the key is up, both    *)
(* threads are done and the last colours did not overlap.                   *)
THEOREM LedShowsState == Spec => []ColourShown
<1>1. IInv /\ ColorInv /\ [Next]_vars => ColorInv'
  <2>1. TypeOK /\ ColorInv /\ UNCHANGED vars => ColorInv'
    BY DEF ColorInv, OneAtATime, SetSoFar, DueIsCurrent, Due, Painting, vars, modeVars,
           keyVars, colorVars
  <2>. QED BY <2>1, MainColorInv, KeyColorInv DEF Next, IInv
<1>2. ColorInv => ColourShown
  BY DEF ColorInv, DueIsCurrent, Due, ColourShown
<1>. QED BY InitColorInv, <1>1, <1>2, Inductive, PTL DEF Spec

-----------------------------------------------------------------------------
(***************************************************************************)
(* Leaving a program.  What main tests is the last time stored, which a     *)
(* handler under way may be about to replace; while the variable follows the *)
(* key, the last time is the one for which the key was held.  A run begins    *)
(* without one.                                                              *)
(***************************************************************************)
Storing == irq # "idle" /\ taken = "release"

Stored == keypress = (IF Storing THEN spans[1] ELSE spans[2]) \div 2

HeldSoFar ==
  /\ pc = "init" => held = 0
  /\ Watched /\ press = down /\ held # 0 => spans[2] = held

KeyInv == Stored /\ HeldSoFar

(* The borrow makes the difference of the seconds the whole seconds.        *)
LEMMA SecondsAre ==
  ASSUME NEW start \in 0 .. 1, NEW span \in Nat
  PROVE  Seconds(start, start + span) = span \div 2 /\ (span \div 2 > 3 <=> span >= Enough)
<1>1. start = 0 \/ start = 1
  OBVIOUS
<1>2. CASE start = 0
  BY <1>2 DEF Seconds, Enough
<1>3. CASE start = 1
  BY <1>3 DEF Seconds, Enough
<1>. QED BY <1>1, <1>2, <1>3

LEMMA InitHeld == Init => KeyInv
  BY DEF Init, KeyInv, Stored, Storing, HeldSoFar, Watched

LEMMA MainHeld == TypeOK /\ KeyInv /\ MainNext => KeyInv'
<1>. SUFFICES ASSUME TypeOK, KeyInv, MainNext PROVE KeyInv'
  OBVIOUS
<1>. USE DEF KeyInv, Stored, Storing, HeldSoFar, Watched
<1>1. CASE Begin \/ ClearPress
  BY <1>1 DEF Begin, ClearPress
<1>2. CASE RequestKey \/ CheckKeys \/ Top \/ SeePress \/ Send \/ TestDuration \/ End
  BY <1>2 DEF RequestKey, CheckKeys, Top, SeePress, Send, TestDuration, End, Main, keyVars,
              historyVars
<1>3. CASE SeeRelease
  BY <1>3 DEF SeeRelease, Main, keyVars
<1>4. CASE WritePin("main")
  BY <1>4 DEF WritePin, keyVars, historyVars
<1>. QED BY <1>1, <1>2, <1>3, <1>4 DEF MainNext

(* A release gives the time held to the handler, which stores it for main;   *)
(* a press changes neither.                                                  *)
LEMMA KeyHeld == TypeOK /\ KeyInv /\ (HandlerNext \/ Edge \/ EdgeUnwatched) => KeyInv'
<1>. SUFFICES ASSUME TypeOK, KeyInv, HandlerNext \/ Edge \/ EdgeUnwatched
              PROVE  KeyInv'
  OBVIOUS
<1>. USE DEF KeyInv, HeldSoFar, Watched
<1>1. CASE HandlerColor
  BY <1>1 DEF HandlerColor, keyVars, historyVars, Stored, Storing
<1>2. CASE HandlerTime
  <2>1. HeldSoFar'
    BY <1>2 DEF HandlerTime, historyVars
  <2>2. irq = "timing" /\ irq' = "idle" /\ spans' = spans
    BY <1>2 DEF HandlerTime
  <2>3. CASE taken = "press"
    <3>1. keypress' = keypress /\ keypress = spans[2] \div 2
      BY <1>2, <2>2, <2>3 DEF HandlerTime, Stored, Storing
    <3>. QED BY <2>1, <2>2, <3>1 DEF Stored, Storing
  <2>4. CASE taken # "press"
    <3>1. PICK start \in 0 .. 1 : keypress' = Seconds(start, start + spans[2])
      BY <1>2, <2>4 DEF HandlerTime
    <3>2. spans[2] \in Nat
      BY DEF TypeOK
    <3>3. keypress' = spans[2] \div 2
      BY <3>1, <3>2, SecondsAre
    <3>. QED BY <2>1, <2>2, <3>3 DEF Stored, Storing
  <2>. QED BY <2>3, <2>4
<1>3. CASE WritePin("irq")
  BY <1>3 DEF WritePin, keyVars, historyVars, Stored, Storing
<1>4. CASE Edge
  <2>1. PICK span \in Spans :
           /\ spans' = IF press THEN <<spans[2], span>> ELSE spans
           /\ held' = IF down THEN span ELSE held
    BY <1>4 DEF Edge
  <2>2. /\ irq = "idle" /\ irq' # "idle" /\ keypress' = keypress /\ pc' = pc
        /\ press' = ~press /\ down' = ~down /\ press \in BOOLEAN /\ down \in BOOLEAN
        /\ taken' = (IF press THEN "release" ELSE "press") /\ Watched
    BY <1>4, Zenon DEF Edge, TypeOK
  <2>3. Stored'
    <3>1. keypress = spans[2] \div 2
      BY <2>2 DEF Stored, Storing
    <3>2. CASE press
      <4>1. Storing' /\ spans'[1] = spans[2]
        BY <2>1, <2>2, <3>2 DEF Storing
      <4>. QED BY <2>2, <3>1, <4>1 DEF Stored
    <3>3. CASE ~press
      <4>1. ~Storing' /\ spans' = spans
        BY <2>1, <2>2, <3>3 DEF Storing
      <4>. QED BY <2>2, <3>1, <4>1 DEF Stored
    <3>. QED BY <3>2, <3>3
  <2>4. HeldSoFar'
    BY <2>1, <2>2
  <2>. QED BY <2>3, <2>4
<1>5. CASE EdgeUnwatched
  BY <1>5 DEF EdgeUnwatched, historyVars, Stored, Storing
<1>. QED BY <1>1, <1>2, <1>3, <1>4, <1>5 DEF HandlerNext

(* A program is left on the last time stored or about to be: after a press   *)
(* of 4 seconds or more and no other, unless -s keeps it, if main is stopped *)
(* by the handler and presses are taken for presses (the tests of            *)
(* keypress_time in demo.c and qsapp.cpp, on whole seconds).                 *)
THEOREM LongMeansExit == Spec => ExitMeansLong
<1>1. TypeOK /\ KeyInv /\ [Next]_vars => KeyInv'
  <2>1. KeyInv /\ UNCHANGED vars => KeyInv'
    BY DEF KeyInv, Stored, Storing, HeldSoFar, Watched, vars, keyVars, historyVars
  <2>. QED BY <2>1, MainHeld, KeyHeld DEF Next
<1>2. TypeOK /\ KeyInv /\ [Next]_vars =>
        [pc = "test" /\ pc' # "test" =>
           /\ \E i \in 1 .. 2 : pc' = "over" <=> spans[i] >= Enough /\ headless' = 0
           /\ handler = "interrupt" /\ press = down /\ held # 0 =>
                (pc' = "over" <=> held >= Enough /\ headless' = 0)]_vars
  <2>. SUFFICES ASSUME TypeOK, KeyInv, Next, pc = "test", pc' # "test"
                PROVE  /\ \E i \in 1 .. 2 : pc' = "over" <=> spans[i] >= Enough /\ headless' = 0
                       /\ handler = "interrupt" /\ press = down /\ held # 0 =>
                            (pc' = "over" <=> held >= Enough /\ headless' = 0)
    OBVIOUS
  <2>1. TestDuration
    BY DEF Next, MainNext, HandlerNext, Begin, ClearPress, RequestKey, CheckKeys, Top,
           SeePress, Send, SeeRelease, End, WritePin, HandlerColor, HandlerTime, Edge,
           EdgeUnwatched, Main
  <2>2. PICK i \in 1 .. 2 : i = (IF Storing THEN 1 ELSE 2)
    BY DEF Storing
  <2>3. keypress = spans[i] \div 2 /\ spans[i] \in Nat
    BY <2>2 DEF KeyInv, Stored, TypeOK
  <2>4. Leave <=> spans[i] >= Enough
    <3>1. spans[i] \div 2 > 3 <=> spans[i] >= Enough
      BY <2>3, SecondsAre
    <3>. QED BY <2>3, <3>1 DEF Leave
  <2>5. pc' = "over" <=> Leave /\ headless' = 0
    BY <2>1 DEF TestDuration
  <2>6. ASSUME handler = "interrupt", press = down, held # 0
        PROVE  pc' = "over" <=> held >= Enough /\ headless' = 0
    <3>1. i = 2
      BY <2>1, <2>2, <2>6 DEF TestDuration, Main, MainRuns, Storing
    <3>2. spans[2] = held
      BY <2>6 DEF KeyInv, HeldSoFar, Watched
    <3>. QED BY <2>4, <2>5, <3>1, <3>2
  <2>. QED BY <2>4, <2>5, <2>6
<1>3. IInv => TypeOK
  BY DEF IInv
<1>. QED BY <1>1, <1>2, <1>3, InitHeld, Inductive, PTL DEF Spec, ExitMeansLong
=============================================================================
