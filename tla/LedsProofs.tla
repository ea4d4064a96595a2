----------------------------- MODULE LedsProofs -----------------------------
(***************************************************************************)
(* Proofs about the LEDs.  The user LEDs (GpioLeds), for any set of         *)
(* addresses, any intervals and any number of commands: types, the balance  *)
(* of timers and references, and the dark LEDs after the emissions test.    *)
(* The WWAN LED (WwanMonitor), for any number of requests, network changes  *)
(* and failed transactions: types, and the blink timer is the one the shown *)
(* state asks for.                                                          *)
(***************************************************************************)
EXTENDS GpioLeds, WwanMonitor, FiniteSetTheorems, TLAPS

(* The pins whose entry holds a timer that exists: while main changes or    *)
(* stops a pin's timer, its entry still has the id of the deleted one.       *)
Changing == pc \in {"change", "changed", "stop"}
Created == pc \in {"started", "changed"} /\ new # None
Owned == {i \in Pins : timr[i] # None /\ (i = pin => ~Changing)}

(* The live timers are those of the pins, each with one of its own, and the *)
(* one main has created and not yet recorded.                                *)
Owns ==
  /\ pc \in {"start", "started"} => timr[pin] = None
  /\ Changing => timr[pin] # None
  /\ \A i \in Owned : timr[i] \in Live /\ timers[timr[i]] = rate[i]
  /\ \A i, j \in Owned : timr[i] = timr[j] => i = j
  /\ Created => /\ new \in Live /\ timers[new] = ivl
                /\ \A i \in Owned : timr[i] # new
  /\ \A n \in Live : (\E i \in Owned : timr[i] = n) \/ (Created /\ n = new)

One(i) == IF timr[i] # None THEN 1 ELSE 0
Claimed == IF pc \in {"start", "started"} THEN 1 ELSE 0

(* Each blinking pin has a reference, so has the call that starts one, and  *)
(* so has each create that failed.                                           *)
Counted == running = Held + One(0) + One(1) + One(2) + Claimed + stray

(* The emissions test uses the red LED only; once its timer is stopped, or  *)
(* could not be created, no callback is in flight and no timer is armed.     *)
Quiet == cb = None /\ \A n \in Live : timers[n] = 0

Emits ==
  /\ program = "monitor" => testing \in {"no", "begun", "blinking", "stopping"}
  /\ program = "emissions" =>
       /\ testing \in {"no", "emitting", "darkening", "dark"}
       /\ timr[1] = None /\ timr[2] = None /\ pin = 0
       /\ testing = "no" => timr[0] = None /\ pc = "prompt" /\ Quiet /\ stray = 0
       /\ testing = "emitting" =>
            /\ pc \in {"start", "started", "prompt", "dead"}
            /\ pc \in {"start", "started"} => stray = 0
            /\ pc = "prompt" => stray = 0 \/ timr[0] = None
            /\ pc # "dead" /\ Live = {} => Quiet
       /\ testing = "darkening" =>
            /\ pc \in {"stop", "start", "started", "prompt", "dead"}
            /\ pc = "stop" => stray = 0
            /\ pc \in {"start", "started"} => Quiet /\ ivl = 0
            /\ pc = "prompt" => Quiet
       /\ testing = "dark" => pc = "prompt" /\ Quiet

CallTypes == pin \in Pins /\ ivl \in Intervals \cup {0, 1} /\ new \in Nodes \cup {None}

(* A create that failed is within the bound.                                *)
Pending == pc \in {"started", "changed"} /\ new = None => stray < MaxFailures

IInv ==
  /\ TypeOK
  /\ CallTypes
  /\ Pending
  /\ pc # "dead" => Owns /\ Counted
  /\ Emits
  /\ DarkAfterEmissions

-----------------------------------------------------------------------------
LEMMA InitHolds == Init => IInv
  <1>. SUFFICES ASSUME Init PROVE IInv
    OBVIOUS
  <1>1. TypeOK /\ CallTypes
    BY BoundAssumption DEF Init, TypeOK, CallTypes, Live, Held, Pins
  <1>2. Owns
    BY DEF Init, Owns, Owned, Changing, Created, Live, Pins
  <1>3. Counted
    BY DEF Init, Counted, One, Claimed, Held, Pins
  <1>4. Emits /\ DarkAfterEmissions
    BY BoundAssumption DEF Init, Emits, DarkAfterEmissions, Pins, Quiet, Live
  <1>5. Pending
    BY DEF Init, Pending
  <1>. QED
    BY <1>1, <1>2, <1>3, <1>4, <1>5 DEF IInv

(* do_gpio_blink is entered: a pin with a timer loses it, another one takes *)
(* a reference.                                                              *)
LEMMA EnterKeeps ==
  ASSUME IInv, NEW i \in Pins, NEW t \in Intervals \cup {0, 1}, Enter(i, t)
  PROVE  /\ CallTypes' /\ Owns' /\ Counted'
         /\ Live' \subseteq Nodes /\ \A n \in Live' : timers'[n] \in Intervals \cup {0, 1}
         /\ running' \in Nat
         /\ pc' \in {"start", "change", "stop"}
  <1>1. pc = "prompt" /\ pin' = i /\ ivl' = t /\ UNCHANGED <<program, timr, rate, new, stray>>
    BY DEF Enter, gpioVars
  <1>2. Owns /\ Counted /\ TypeOK /\ CallTypes
    BY <1>1 DEF IInv
  <1>3. Owned = {j \in Pins : timr[j] # None}
    BY <1>1 DEF Owned, Changing
  <1>4. Held \in Nat /\ Held' = Held
    BY <1>1 DEF Held
  <1>5. CASE timr[i] # None
    <2>1. timers' = Forget(timr[i]) /\ pc' \in {"change", "stop"} /\ running' = running
      BY <1>1, <1>5 DEF Enter
    <2>2. Live' = Live \ {timr[i]} /\ \A n \in Live' : timers'[n] = timers[n]
      BY <2>1 DEF Live, Forget
    <2>3. Owned' = Owned \ {i}
      BY <1>1, <1>3, <1>5, <2>1 DEF Owned, Changing
    <2>4. Owns'
      BY <1>1, <1>2, <1>3, <1>5, <2>1, <2>2, <2>3 DEF Owns, Changing, Created
    <2>5. Counted'
      BY <1>1, <1>2, <1>4, <2>1 DEF Counted, One, Claimed
    <2>. QED
      BY <1>1, <1>2, <1>4, <2>1, <2>2, <2>4, <2>5 DEF TypeOK, CallTypes
  <1>6. CASE timr[i] = None
    <2>1. timers' = timers /\ pc' = "start" /\ running' = running + 1
      BY <1>1, <1>6 DEF Enter
    <2>2. Owned' = Owned /\ Live' = Live
      BY <1>1, <1>3, <1>6, <2>1 DEF Owned, Changing, Live
    <2>3. Owns'
      BY <1>1, <1>2, <1>6, <2>1, <2>2 DEF Owns, Changing, Created
    <2>4. running = Held + One(0) + One(1) + One(2) + stray
      BY <1>1, <1>2, <1>4 DEF Counted, Claimed, One, TypeOK
    <2>5. running' \in Nat
      BY <1>2, <2>1 DEF TypeOK
    <2>6. Counted'
      BY <1>1, <1>2, <1>4, <2>1, <2>4 DEF Counted, One, Claimed, TypeOK
    <2>. QED
      BY <1>1, <1>2, <2>1, <2>2, <2>3, <2>5, <2>6 DEF TypeOK, CallTypes
  <1>. QED
    BY <1>5, <1>6

LEMMA CreateKeeps ==
  ASSUME IInv, Create
  PROVE  IInv'
  <1>1. TypeOK /\ CallTypes /\ Owns /\ Counted /\ Emits
    BY DEF IInv, Create
  <1>2. /\ (pc = "start" /\ pc' = "started") \/ (pc = "change" /\ pc' = "changed")
        /\ UNCHANGED <<program, timr, rate, val, level, ft_mode, running, stray, cb, pin, ivl, testing>>
    BY DEF Create, gpioVars
  <1>3. Owned' = Owned
    BY <1>2 DEF Owned, Changing
  <1>4. Counted'
    BY <1>1, <1>2 DEF Counted, One, Claimed, Held
  <1>5. DarkAfterEmissions'
    BY <1>2 DEF IInv, DarkAfterEmissions
  <1>8. Pending'
    BY <1>1, <1>2, NoneAssumption DEF Pending, Create
  <1>6. CASE new' = None /\ timers' = timers
    <2>1. Live' = Live
      BY <1>6 DEF Live
    <2>2. Owns'
      BY <1>1, <1>2, <1>3, <1>6, <2>1 DEF Owns, Changing, Created
    <2>3. TypeOK' /\ CallTypes'
      BY <1>1, <1>2, <1>6, <2>1 DEF TypeOK, CallTypes, Held
    <2>4. Emits'
      BY <1>1, <1>2, <1>6, <2>1 DEF Emits, Quiet
    <2>. QED
      BY <1>4, <1>5, <1>8, <2>2, <2>3, <2>4 DEF IInv
  <1>7. ASSUME NEW n \in Nodes \ Live,
               new' = n, timers' = [m \in Live \cup {n} |-> IF m = n THEN ivl ELSE timers[m]]
        PROVE  IInv'
    <2>1. /\ Live' = Live \cup {n}
          /\ timers'[n] = ivl
          /\ \A m \in Live : timers'[m] = timers[m]
      BY <1>7 DEF Live
    <2>2. Owns'
      <3>1. Created' /\ ~Created /\ n # None /\ n \notin Live
        BY <1>2, <1>7, NoneAssumption DEF Created
      <3>. QED
        BY <1>1, <1>2, <1>3, <1>7, <2>1, <3>1 DEF Owns, Changing
    <2>3. TypeOK' /\ CallTypes'
      BY <1>1, <1>2, <1>7, <2>1 DEF TypeOK, CallTypes, Held
    <2>4. Emits'
      BY <1>1, <1>2, <2>1 DEF Emits, Quiet
    <2>. QED
      BY <1>4, <1>5, <1>8, <2>2, <2>3, <2>4 DEF IInv
  <1>. QED
    BY <1>6, <1>7 DEF Create

LEMMA RecordKeeps ==
  ASSUME IInv, Record
  PROVE  IInv'
  <1>1. TypeOK /\ CallTypes /\ Owns /\ Counted /\ Emits /\ pc \in {"started", "changed"}
    BY DEF IInv, Record
  <1>13. Pending
    BY DEF IInv
  <1>2. /\ timr' = [timr EXCEPT ![pin] = new]
        /\ rate' = [rate EXCEPT ![pin] = ivl]
        /\ stray' = IF new = None THEN stray + 1 ELSE stray
        /\ pc' = "prompt"
        /\ UNCHANGED <<program, ft_mode, timers, running, cb, pin, ivl, new, testing>>
    BY DEF Record, callVars
  <1>3. new \in Nodes \cup {None} /\ pin \in Pins
    BY <1>1 DEF CallTypes
  <1>4. timr'[pin] = new /\ rate'[pin] = ivl
    BY <1>1, <1>2, <1>3 DEF TypeOK
  <1>5. \A j \in Pins \ {pin} : timr'[j] = timr[j] /\ rate'[j] = rate[j]
    BY <1>1, <1>2 DEF TypeOK
  <1>6. pin \notin Owned /\ Owned' = IF new = None THEN Owned ELSE Owned \cup {pin}
    BY <1>1, <1>2, <1>3, <1>4, <1>5 DEF Owned, Changing, Owns
  <1>7. Owns'
    <2>1. Live' = Live
      BY <1>2 DEF Live
    <2>2. \A j \in Owned : timr'[j] = timr[j] /\ rate'[j] = rate[j] /\ j \in Pins
      BY <1>5, <1>6 DEF Owned
    <2>3. CASE new = None
      <3>1. Owned' = Owned /\ ~Created /\ ~Created'
        BY <1>2, <1>6, <2>3 DEF Created
      <3>. QED
        BY <1>1, <1>2, <2>1, <2>2, <3>1 DEF Owns, Changing
    <2>4. CASE new # None
      <3>1. Owned' = Owned \cup {pin} /\ Created /\ ~Created'
        BY <1>1, <1>2, <1>6, <2>4 DEF Created
      <3>. QED
        BY <1>1, <1>2, <1>4, <2>1, <2>2, <3>1 DEF Owns, Changing
    <2>. QED
      BY <2>3, <2>4
  <1>8. Counted'
    <2>1. /\ pc = "started" => timr[pin] = None /\ Claimed = 1
          /\ pc = "changed" => timr[pin] # None /\ Claimed = 0
          /\ Claimed' = 0
      BY <1>1, <1>2 DEF Owns, Changing, Claimed
    <2>2. One(pin) + Claimed = 1 /\ One(pin)' + stray' = 1 + stray
      BY <1>1, <1>2, <1>4, <2>1 DEF One, TypeOK
    <2>3. \A j \in Pins \ {pin} : One(j)' = One(j)
      BY <1>5 DEF One
    <2>4. Held' = Held /\ Held \in Nat /\ running' = running
      BY <1>2 DEF Held
    <2>5. /\ pin \in {0, 1, 2} /\ stray \in Nat /\ stray' \in Nat
          /\ One(0) \in Nat /\ One(1) \in Nat /\ One(2) \in Nat
          /\ One(0)' \in Nat /\ One(1)' \in Nat /\ One(2)' \in Nat
      BY <1>1, <1>2, <1>3 DEF Pins, TypeOK, One
    <2>6. running = Held + One(0) + One(1) + One(2) + Claimed + stray
      BY <1>1 DEF Counted
    <2>7. ASSUME NEW a \in Pins, NEW b \in Pins, pin \notin {a, b}
          PROVE  /\ One(a)' = One(a) /\ One(b)' = One(b)
      BY <2>3, <2>7
    <2>8. CASE pin = 0
      <3>1. One(1)' = One(1) /\ One(2)' = One(2)
        BY <2>7, <2>8 DEF Pins
      <3>2. One(0)' + stray' = 1 + stray /\ One(0) + Claimed = 1
        BY <1>2, <2>2, <2>8
      <3>. QED
        BY <1>1, <2>1, <2>4, <2>5, <2>6, <3>1, <3>2 DEF Counted
    <2>9. CASE pin = 1
      <3>1. One(0)' = One(0) /\ One(2)' = One(2)
        BY <2>7, <2>9 DEF Pins
      <3>2. One(1)' + stray' = 1 + stray /\ One(1) + Claimed = 1
        BY <1>2, <2>2, <2>9
      <3>. QED
        BY <1>1, <2>1, <2>4, <2>5, <2>6, <3>1, <3>2 DEF Counted
    <2>10. CASE pin = 2
      <3>1. One(0)' = One(0) /\ One(1)' = One(1)
        BY <2>7, <2>10 DEF Pins
      <3>2. One(2)' + stray' = 1 + stray /\ One(2) + Claimed = 1
        BY <1>2, <2>2, <2>10
      <3>. QED
        BY <1>1, <2>1, <2>4, <2>5, <2>6, <3>1, <3>2 DEF Counted
    <2>. QED
      BY <2>5, <2>8, <2>9, <2>10
  <1>9. TypeOK' /\ CallTypes'
    <2>1. timr' \in [Pins -> Nodes \cup {None}] /\ rate' \in [Pins -> Intervals \cup {0, 1}]
      BY <1>1, <1>2, <1>3 DEF TypeOK, CallTypes
    <2>2. val' \in [Pins -> {0, 1}] /\ level' \in [Pins -> {0, 1}]
      BY <1>1 DEF TypeOK, Record
    <2>3. stray' \in 0 .. MaxFailures
      BY <1>1, <1>2, <1>13, BoundAssumption DEF Pending, TypeOK
    <2>. QED
      BY <1>1, <1>2, <2>1, <2>2, <2>3 DEF TypeOK, CallTypes, Live
  <1>10. Emits'
    <2>1. CASE program = "monitor"
      BY <1>1, <1>2, <2>1 DEF Emits
    <2>2. CASE program = "emissions"
      <3>1. testing \in {"emitting", "darkening"} /\ pin = 0 /\ pc = "started"
        BY <1>1, <2>2 DEF Emits
      <3>2. Live' = Live /\ timr'[1] = timr[1] /\ timr'[2] = timr[2]
        BY <1>2, <1>5, <3>1 DEF Live, Pins
      <3>3. CASE testing = "emitting"
        BY <1>1, <1>2, <1>4, <2>2, <3>1, <3>2, <3>3 DEF Emits, Quiet
      <3>4. CASE testing = "darkening"
        BY <1>1, <1>2, <1>4, <2>2, <3>1, <3>2, <3>4 DEF Emits, Quiet
      <3>. QED
        BY <3>1, <3>3, <3>4
    <2>3. program \in {"monitor", "emissions"}
      BY <1>1, BoundAssumption DEF TypeOK
    <2>. QED
      BY <2>1, <2>2, <2>3
  <1>11. DarkAfterEmissions'
    BY <1>1, <1>2, BoundAssumption DEF DarkAfterEmissions, Emits, TypeOK
  <1>12. Pending'
    BY <1>2 DEF Pending
  <1>. QED
    BY <1>7, <1>8, <1>9, <1>10, <1>11, <1>12 DEF IInv

LEMMA ClearKeeps ==
  ASSUME IInv, Clear
  PROVE  IInv'
  <1>1. TypeOK /\ CallTypes /\ Owns /\ Counted /\ Emits /\ pc = "stop"
    BY DEF IInv, Clear
  <1>2. /\ timr' = [timr EXCEPT ![pin] = None] /\ rate' = [rate EXCEPT ![pin] = 0]
        /\ val' = [val EXCEPT ![pin] = 0]
        /\ running' = running - 1 /\ pc' = "prompt"
        /\ UNCHANGED <<program, level, ft_mode, timers, stray, cb, pin, ivl, new, testing>>
    BY DEF Clear, callVars
  <1>3. pin \in Pins /\ timr[pin] # None
    BY <1>1 DEF CallTypes, Owns, Changing
  <1>4. /\ timr'[pin] = None
        /\ \A j \in Pins \ {pin} : timr'[j] = timr[j] /\ rate'[j] = rate[j]
    BY <1>1, <1>2, <1>3 DEF TypeOK
  <1>5. Owned' = Owned /\ pin \notin Owned /\ Owned \subseteq Pins
    BY <1>1, <1>2, <1>3, <1>4 DEF Owned, Changing
  <1>6. Owns'
    BY <1>1, <1>2, <1>4, <1>5 DEF Owns, Changing, Created, Live
  <1>7. Held \in Nat /\ Held' = Held
    BY <1>2 DEF Held
  <1>8. Counted' /\ running' \in Nat
    BY <1>1, <1>2, <1>3, <1>4, <1>7 DEF Counted, One, Claimed, Pins, TypeOK
  <1>9. TypeOK' /\ CallTypes'
    BY <1>1, <1>2, <1>3, <1>7, <1>8 DEF TypeOK, CallTypes, Live
  <1>10. Emits'
    <2>1. CASE program = "monitor"
      BY <1>1, <1>2, <2>1 DEF Emits
    <2>2. CASE program = "emissions"
      <3>1. testing = "darkening" /\ pin = 0 /\ timr[1] = None /\ timr[2] = None /\ stray = 0
        BY <1>1, <2>2 DEF Emits
      <3>2. running = 1
        BY <1>1, <1>3, <2>2, <3>1 DEF Counted, One, Claimed, Held
      <3>3. cb' = None
        BY <1>2, <3>2 DEF Clear
      <3>4. Live' = {}
        <4>1. timr'[0] = None /\ timr'[1] = None /\ timr'[2] = None
          BY <1>4, <3>1 DEF Pins
        <4>. QED
          BY <1>2, <1>6, <4>1 DEF Owns, Owned, Created, Pins
      <3>. QED
        BY <1>2, <1>4, <2>2, <3>1, <3>3, <3>4 DEF Emits, Pins, Quiet
    <2>3. program \in {"monitor", "emissions"}
      BY <1>1, BoundAssumption DEF TypeOK
    <2>. QED
      BY <2>1, <2>2, <2>3
  <1>11. DarkAfterEmissions'
    BY <1>1, <1>2, BoundAssumption DEF DarkAfterEmissions, Emits, TypeOK
  <1>12. Pending'
    BY <1>2 DEF Pending
  <1>. QED
    BY <1>6, <1>8, <1>9, <1>10, <1>11, <1>12 DEF IInv

-----------------------------------------------------------------------------
(* Without a timer of a pin or of the call, there is no timer to look up.   *)
LEMMA LookupKeeps ==
  ASSUME IInv, NEW n \in Live, Lookup(n)
  PROVE  IInv'
  <1>1. TypeOK /\ CallTypes /\ Owns /\ Counted /\ Emits
    BY DEF IInv, Lookup
  <1>2. cb' = n /\ UNCHANGED <<program, timr, rate, val, level, ft_mode, timers, running, stray,
                               pc, pin, ivl, new, testing>>
    BY DEF Lookup, gpioVars, engineVars, callVars
  <1>3. TypeOK' /\ CallTypes' /\ Owns' /\ Counted'
    BY <1>1, <1>2 DEF TypeOK, CallTypes, Owns, Counted, Owned, Changing, Created, Live,
                      One, Claimed, Held
  <1>4. /\ ~Quiet /\ Live' = Live /\ n \in Live'
        /\ pc = "prompt" => \E i \in Pins : timr[i] # None
    BY <1>1, <1>2 DEF Lookup, Quiet, Owns, Owned, Created, Live
  <1>5. Emits'
    BY <1>1, <1>2, <1>4 DEF Emits, Pins
  <1>6. DarkAfterEmissions'
    BY <1>2 DEF IInv, DarkAfterEmissions
  <1>7. Pending'
    BY <1>2 DEF IInv, Pending
  <1>. QED
    BY <1>3, <1>5, <1>6, <1>7 DEF IInv

(* The search of the callback ends on a pin. *)
LEMMA TargetIsPin == Target \in Pins
  <1>1. Found \subseteq Pins /\ Pins \subseteq {0, 1, 2}
    BY DEF Found, Pins
  <1>2. ASSUME Found # {} PROVE \E i \in Found : \A j \in Found : i <= j
    <2>1. CASE 0 \in Found
      BY <1>1, <2>1
    <2>2. CASE 0 \notin Found /\ 1 \in Found
      BY <1>1, <2>2
    <2>3. CASE 0 \notin Found /\ 1 \notin Found
      <3>1. Found = {2}
        BY <1>1, <1>2, <2>3
      <3>. QED
        BY <3>1
    <2>. QED
      BY <2>1, <2>2, <2>3
  <1>3. CASE Found # {}
    <2>1. (CHOOSE i \in Found : \A j \in Found : i <= j) \in Found
      BY <1>2, <1>3
    <2>. QED
      BY <1>1, <1>3, <2>1 DEF Target
  <1>. QED
    BY <1>3 DEF Target, Pins

LEMMA GpioTimerTaskKeeps ==
  ASSUME IInv, GpioTimerTask
  PROVE  IInv'
  <1>1. TypeOK /\ CallTypes /\ Owns /\ Counted /\ Emits /\ cb # None
    BY DEF IInv, GpioTimerTask
  <1>2. /\ cb' = None /\ pc' \in {pc, "dead"}
        /\ UNCHANGED <<program, timr, rate, timers, running, stray, pin, ivl, new, testing>>
    BY DEF GpioTimerTask, engineVars, callVars
  <1>3. val' \in [Pins -> {0, 1}] /\ level' \in [Pins -> {0, 1}] /\ ft_mode' \in 0 .. 3
    <2>1. CASE Cycle
      BY <1>1, <2>1 DEF Cycle, TypeOK, Pins
    <2>2. CASE Toggle
      <3>1. val[Target] \in {0, 1} /\ 1 - val[Target] \in {0, 1}
        BY <1>1, TargetIsPin DEF TypeOK
      <3>. QED
        BY <1>1, <2>2, <3>1, TargetIsPin DEF Toggle, TypeOK
    <2>3. CASE UNCHANGED <<val, level, ft_mode>>
      BY <1>1, <2>3 DEF TypeOK
    <2>. QED
      BY <2>1, <2>2, <2>3 DEF GpioTimerTask
  <1>4. TypeOK' /\ CallTypes'
    BY <1>1, <1>2, <1>3 DEF TypeOK, CallTypes, Live, Held
  <1>5. pc' # "dead" => Owns' /\ Counted'
    BY <1>1, <1>2 DEF Owns, Counted, Owned, Changing, Created, Live, One, Claimed, Held
  <1>6. Emits'
    <2>1. CASE program = "monitor"
      BY <1>1, <1>2, <2>1 DEF Emits
    <2>2. CASE program = "emissions"
      <3>1. ~Quiet /\ Live' = Live /\ (Quiet' \/ \E n \in Live : timers[n] # 0)
        BY <1>1, <1>2 DEF Quiet, Live
      <3>2. testing \in {"emitting", "darkening"} /\ pc # "dead"
        BY <1>1, <2>2, <3>1 DEF Emits, GpioTimerTask
      <3>. QED
        BY <1>1, <1>2, <2>2, <3>1, <3>2 DEF Emits
    <2>3. program \in {"monitor", "emissions"}
      BY <1>1, BoundAssumption DEF TypeOK
    <2>. QED
      BY <2>1, <2>2, <2>3
  <1>7. DarkAfterEmissions'
    BY <1>1, <1>2, BoundAssumption DEF DarkAfterEmissions, Emits, TypeOK, Quiet
  <1>8. Pending'
    BY <1>2 DEF IInv, Pending
  <1>. QED
    BY <1>4, <1>5, <1>6, <1>7, <1>8 DEF IInv

-----------------------------------------------------------------------------
(* A call of do_gpio_blink keeps the invariant when its caller's own state  *)
(* fits.                                                                     *)
LEMMA CallerKeeps ==
  ASSUME IInv, NEW i \in Pins, NEW t \in Intervals \cup {0, 1}, Enter(i, t),
         ft_mode' \in 0 .. 3,
         testing' \in {"no", "begun", "blinking", "stopping", "emitting", "darkening"},
         Emits'
  PROVE  IInv'
  <1>1. UNCHANGED <<program, timr, rate, val, level, cb, stray>>
    BY DEF Enter, gpioVars
  <1>2. TypeOK' /\ CallTypes' /\ Owns' /\ Counted'
    BY <1>1, EnterKeeps DEF IInv, TypeOK, Held
  <1>3. DarkAfterEmissions'
    BY DEF DarkAfterEmissions
  <1>4. Pending'
    BY EnterKeeps DEF Pending
  <1>. QED
    BY <1>2, <1>3, <1>4 DEF IInv

(* The commands and tests of the monitor. *)
LEMMA MonitorKeeps ==
  ASSUME IInv, Blink \/ TestBegins \/ TestBlinks \/ TestStopsBlinking \/ TestEnds
  PROVE  IInv'
  <1>1. TypeOK /\ Emits /\ 0 \in Pins /\ {0, 1} \subseteq Intervals \cup {0, 1}
    BY DEF IInv, Pins
  <1>2. program \in {"monitor", "emissions"}
    BY <1>1, BoundAssumption DEF TypeOK
  <1>3. CASE Blink
    <2>1. PICK i \in Pins, t \in Intervals : Enter(i, t)
      BY <1>3 DEF Blink
    <2>2. program' = "monitor" /\ testing' = "no" /\ ft_mode' = ft_mode
      BY <1>3, <2>1 DEF Blink, Enter
    <2>3. Emits'
      BY <2>2 DEF Emits
    <2>. QED
      BY <1>1, <2>1, <2>2, <2>3, CallerKeeps DEF TypeOK
  <1>4. CASE TestBlinks
    <2>1. Enter(0, 1) /\ program' = program /\ testing' = "blinking" /\ ft_mode' = ft_mode
      BY <1>4 DEF TestBlinks, Enter
    <2>2. program = "monitor"
      BY <1>1, <1>2, <1>4 DEF TestBlinks, Emits
    <2>3. Emits'
      BY <2>1, <2>2 DEF Emits
    <2>. QED
      BY <1>1, <2>1, <2>3, CallerKeeps DEF TypeOK
  <1>5. CASE TestStopsBlinking
    <2>1. Enter(0, 0) /\ program' = program /\ testing' = "stopping" /\ ft_mode' = ft_mode
      BY <1>5 DEF TestStopsBlinking, Enter
    <2>2. program = "monitor"
      BY <1>1, <1>2, <1>5 DEF TestStopsBlinking, Emits
    <2>3. Emits'
      BY <2>1, <2>2 DEF Emits
    <2>. QED
      BY <1>1, <2>1, <2>3, CallerKeeps DEF TypeOK
  <1>6. CASE TestBegins \/ TestEnds
    <2>1. /\ testing' \in {"begun", "no"} /\ ft_mode' \in {ft_mode, 0, 2}
          /\ UNCHANGED <<program, timr, rate, val, level, timers, running, stray, cb, pc, pin, ivl, new>>
      BY <1>6 DEF TestBegins, TestEnds, gpioVars, engineVars, callVars
    <2>2. program = "monitor"
      BY <1>1, <1>2, <1>6 DEF TestBegins, TestEnds, Emits
    <2>3. TypeOK' /\ CallTypes'
      BY <1>1, <2>1 DEF IInv, TypeOK, CallTypes, Live, Held
    <2>4. pc' # "dead" => Owns' /\ Counted'
      BY <2>1 DEF IInv, Owns, Counted, Owned, Changing, Created, Live, One, Claimed, Held
    <2>5. Emits' /\ DarkAfterEmissions'
      BY <2>1, <2>2 DEF Emits, DarkAfterEmissions
    <2>6. Pending'
      BY <2>1 DEF IInv, Pending
    <2>. QED
      BY <2>3, <2>4, <2>5, <2>6 DEF IInv
  <1>. QED
    BY <1>3, <1>4, <1>5, <1>6

LEMMA EmissionsKeeps ==
  ASSUME IInv, EmissionsBegin \/ EmissionsEnd \/ EmissionsDarken
  PROVE  IInv'
  <1>1. TypeOK /\ Emits /\ 0 \in Pins
    BY DEF IInv, Pins
  <1>6. ASSUME pc = "prompt", timr[0] = None, program = "emissions"
        PROVE  Live = {} /\ Owns
    BY <1>1, <1>6 DEF IInv, Owns, Owned, Created, Emits, Pins
  <1>2. program = "emissions"
    BY <1>1, BoundAssumption
       DEF TypeOK, Emits, EmissionsBegin, EmissionsEnd, EmissionsDarken
  <1>3. CASE EmissionsBegin
    <2>1. /\ Enter(0, 1) /\ testing = "no" /\ testing' = "emitting" /\ ft_mode' = 1
          /\ UNCHANGED <<program, timr>> /\ pin' = 0
      BY <1>3 DEF EmissionsBegin, Enter, gpioVars
    <2>2. pc' = "start" /\ stray' = 0 /\ Quiet' /\ Live' = Live
      BY <1>1, <1>2, <2>1 DEF Enter, Emits, gpioVars, Quiet, Live
    <2>3. Emits'
      BY <1>1, <1>2, <2>1, <2>2 DEF Emits
    <2>. QED
      BY <1>1, <2>1, <2>3, CallerKeeps
  <1>4. CASE EmissionsEnd
    <2>1. /\ Enter(0, 0) /\ testing = "emitting" /\ testing' = "darkening" /\ ft_mode' = 0
          /\ UNCHANGED <<program, timr>> /\ pin' = 0 /\ pc = "prompt"
      BY <1>4 DEF EmissionsEnd, Enter, gpioVars
    <2>2. ASSUME timr[0] # None PROVE Emits'
      <3>1. pc' = "stop" /\ stray' = 0
        BY <1>1, <1>2, <2>1, <2>2 DEF Enter, Emits
      <3>. QED
        BY <1>1, <1>2, <2>1, <3>1 DEF Emits
    <2>3. ASSUME timr[0] = None PROVE Emits'
      <3>1. pc' = "start" /\ ivl' = 0 /\ UNCHANGED <<timers, cb>>
        BY <2>1, <2>3 DEF Enter, gpioVars
      <3>2. Quiet
        BY <1>1, <1>2, <1>6, <2>1, <2>3 DEF Emits
      <3>3. Quiet'
        BY <3>1, <3>2 DEF Quiet, Live
      <3>. QED
        BY <1>1, <1>2, <2>1, <3>1, <3>3 DEF Emits
    <2>4. Emits'
      BY <2>2, <2>3
    <2>. QED
      BY <1>1, <2>1, <2>4, CallerKeeps
  <1>5. CASE EmissionsDarken
    <2>1. /\ testing = "darkening" /\ pc = "prompt" /\ testing' = "dark"
          /\ level' = [i \in Pins |-> 0]
          /\ UNCHANGED <<program, timr, rate, val, ft_mode, timers, running, stray, cb, pc, pin, ivl, new>>
      BY <1>5 DEF EmissionsDarken, engineVars, callVars
    <2>2. TypeOK' /\ CallTypes'
      BY <1>1, <2>1 DEF IInv, TypeOK, CallTypes, Live, Held
    <2>3. Owns' /\ Counted'
      BY <2>1 DEF IInv, Owns, Counted, Owned, Changing, Created, Live, One, Claimed, Held
    <2>4. Emits' /\ DarkAfterEmissions'
      BY <1>1, <1>2, <2>1 DEF Emits, DarkAfterEmissions, Quiet, Live
    <2>5. Pending'
      BY <2>1 DEF IInv, Pending
    <2>. QED
      BY <2>2, <2>3, <2>4, <2>5 DEF IInv
  <1>. QED
    BY <1>3, <1>4, <1>5

LEMMA NextKeeps == IInv /\ [Next]_vars => IInv'
  <1>. SUFFICES ASSUME IInv, [Next]_vars PROVE IInv'
    OBVIOUS
  <1>1. CASE Next
    BY <1>1, MonitorKeeps, EmissionsKeeps, CreateKeeps, RecordKeeps, ClearKeeps, LookupKeeps,
       GpioTimerTaskKeeps DEF Next
  <1>2. CASE UNCHANGED vars
    BY <1>2 DEF vars, gpioVars, engineVars, callVars, IInv, TypeOK, CallTypes, Owns, Counted,
      Emits, DarkAfterEmissions, Owned, Changing, Created, Live, One, Claimed, Held, Pending, Quiet
  <1>. QED
    BY <1>1, <1>2

-----------------------------------------------------------------------------
(* The invariant holds in every state of do_gpio_blink, its callers in      *)
(* commands.cpp, facttest.cpp and emissions.cpp, and the callback.           *)
THEOREM Invariance == Spec => []IInv
  BY InitHolds, NextKeeps, PTL DEF Spec

(* Every variable of binio.c's blinking keeps to its type. *)
THEOREM TypeCorrect == Spec => []TypeOK
  <1>1. IInv => TypeOK
    BY DEF IInv
  <1>. QED
    BY <1>1, Invariance, PTL

(* After do_emissions_test no callback relights the LEDs: the last          *)
(* stop_IoTtimers waits for the one in flight.                               *)
THEOREM StaysDark == Spec => []DarkAfterEmissions
  <1>1. IInv => DarkAfterEmissions
    BY DEF IInv
  <1>. QED
    BY <1>1, Invariance, PTL

(* An injective image of some of the pins is as large as their number.      *)
LEMMA PinCount ==
  ASSUME NEW B \in SUBSET Pins, NEW f, \A i, j \in B : f[i] = f[j] => i = j
  PROVE  /\ Cardinality({f[i] : i \in B}) = Cardinality(B)
         /\ Cardinality(B) = (IF 0 \in B THEN 1 ELSE 0) + (IF 1 \in B THEN 1 ELSE 0)
                             + (IF 2 \in B THEN 1 ELSE 0)
  <1>. DEFINE Im(S) == {f[i] : i \in S}
              Size(S) == (IF 0 \in S THEN 1 ELSE 0) + (IF 1 \in S THEN 1 ELSE 0)
                         + (IF 2 \in S THEN 1 ELSE 0)
              Good(S) == /\ IsFiniteSet(S) /\ IsFiniteSet(Im(S))
                         /\ Cardinality(Im(S)) = Size(S) /\ Cardinality(S) = Size(S)
  <1>1. Good({})
    <2>1. Im({}) = {}
      OBVIOUS
    <2>. QED
      BY <2>1, FS_EmptySet
  <1>2. ASSUME NEW S \in SUBSET B, NEW p \in Pins, S \subseteq Pins \ {p}, Good(S)
        PROVE  Good(S \cup (B \cap {p}))
    <2>1. CASE p \notin B
      <3>1. S \cup (B \cap {p}) = S
        BY <2>1
      <3>. QED
        BY <1>2, <3>1
    <2>2. CASE p \in B
      <3>1. S \cup (B \cap {p}) = S \cup {p} /\ Im(S \cup {p}) = Im(S) \cup {f[p]}
        BY <2>2
      <3>2. p \notin S /\ f[p] \notin Im(S)
        BY <1>2, <2>2
      <3>3. IsFiniteSet(S \cup {p}) /\ Cardinality(S \cup {p}) = Size(S) + 1
        BY <1>2, <3>2, FS_AddElement
      <3>4. IsFiniteSet(Im(S) \cup {f[p]}) /\ Cardinality(Im(S) \cup {f[p]}) = Size(S) + 1
        <4>. HIDE DEF Im, Size
        <4>. QED
          BY <1>2, <3>2, FS_AddElement
      <3>5. Size(S \cup {p}) = Size(S) + 1
        BY <1>2, <3>2 DEF Pins
      <3>. QED
        BY <3>1, <3>3, <3>4, <3>5
    <2>. QED
      BY <2>1, <2>2
  <1>. HIDE DEF Good
  <1>. 0 \in Pins /\ 1 \in Pins /\ 2 \in Pins
    BY DEF Pins
  <1>3. Good(B \cap {0})
    <2>1. {} \cup (B \cap {0}) = B \cap {0}
      OBVIOUS
    <2>. QED
      BY <1>1, <1>2, <2>1
  <1>4. Good((B \cap {0}) \cup (B \cap {1}))
    BY <1>2, <1>3, B \cap {0} \in SUBSET B, B \cap {0} \subseteq Pins \ {1}
  <1>5. Good(((B \cap {0}) \cup (B \cap {1})) \cup (B \cap {2}))
    BY <1>2, <1>4, (B \cap {0}) \cup (B \cap {1}) \in SUBSET B,
       (B \cap {0}) \cup (B \cap {1}) \subseteq Pins \ {2}
  <1>6. ((B \cap {0}) \cup (B \cap {1})) \cup (B \cap {2}) = B
    <2>1. Pins = {0, 1, 2}
      BY DEF Pins
    <2>. QED
      BY <2>1
  <1>. QED
    BY <1>5, <1>6 DEF Good

(* Between commands each blinking pin owns one timer and one reference; the *)
(* only other references are the rest of the program's and one for each     *)
(* create that failed.                                                       *)
THEOREM Balanced == Spec => []TimersBalanced
  <1>1. ASSUME IInv PROVE TimersBalanced
    <2>. SUFFICES ASSUME pc = "prompt"
                  PROVE  LET blinking == {i \in Pins : timr[i] # None}
                         IN /\ Live = {timr[i] : i \in blinking}
                            /\ Cardinality(Live) = Cardinality(blinking)
                            /\ running = Held + Cardinality(blinking) + stray
                            /\ \A i \in blinking : timers[timr[i]] = rate[i]
      BY DEF TimersBalanced
    <2>. DEFINE blinking == {i \in Pins : timr[i] # None}
    <2>1. Owns /\ Counted /\ TypeOK
      BY <1>1 DEF IInv
    <2>2. Owned = blinking
      BY DEF Owned, Changing
    <2>3. /\ \A i \in blinking : timr[i] \in Live /\ timers[timr[i]] = rate[i]
          /\ \A i, j \in blinking : timr[i] = timr[j] => i = j
          /\ \A n \in Live : \E i \in blinking : timr[i] = n
      BY <2>1, <2>2 DEF Owns, Created
    <2>4. Live = {timr[i] : i \in blinking}
      BY <2>3
    <2>5. /\ Cardinality({timr[i] : i \in blinking}) = Cardinality(blinking)
          /\ Cardinality(blinking) = One(0) + One(1) + One(2)
      BY <2>3, PinCount, SMTT(30) DEF One, Pins
    <2>6. running = Held + Cardinality(blinking) + stray
      BY <2>1, <2>5 DEF Counted, Claimed, Held, One, TypeOK
    <2>. QED
      BY <2>3, <2>4, <2>5, <2>6
  <1>. QED
    BY <1>1, Invariance, PTL

-----------------------------------------------------------------------------
(***************************************************************************)
(* The WWAN LED.                                                           *)
(***************************************************************************)
(* The timer and the two state variables change together, in Show, so that *)
(* they agree in the middle of a sample, too.                               *)
WwanAgree ==
  /\ last_wwan_state = wwan_state
  /\ lost => wwan_timr = 0
  /\ ~lost => wwan_timr = Interval(wwan_state)

WwanInv == WwanTypeOK /\ WwanAgree

(* The MAL's part of the types.                                             *)
LEMMA MalKeepsTypes ==
  ASSUME WwanTypeOK, NEW t \in {"main", "timer"}, BeginMal(t) \/ EndMal(t)
  PROVE  mal_busy' \in {0, 1} /\ inMal' \subseteq {"main", "timer"}
  BY DEF WwanTypeOK, BeginMal, EndMal

(* A query counts at most one failure.                                      *)
LEMMA AnswersCount ==
  ASSUME WwanTypeOK, NEW p, NEW r \in Replies, Answers(p, r)
  PROVE  faults' \in 0 .. MaxFaults
  BY WwanBounds DEF WwanTypeOK, Answers, Replies

(* drive_wwan_io shows state s with the timer of s.                         *)
LEMMA ShowAgrees ==
  ASSUME WwanInv, NEW s \in 1 .. 4, Show(s)
  PROVE  /\ wwan_state' \in 0 .. 4 /\ last_wwan_state' \in 0 .. 4
         /\ wwan_timr' \in {0, 250, 500}
         /\ wwan_val' \in {0, 1} /\ led' \in {0, 1} /\ lost' \in BOOLEAN
         /\ WwanAgree'
  <1>1. Interval(s) \in {0, 250, 500}
    BY DEF Interval
  <1>2. wwan_state' = s /\ led' \in {0, 1}
    BY DEF WwanInv, WwanTypeOK, Show
  <1>3. CASE last_wwan_state = s
    BY <1>2, <1>3 DEF WwanInv, WwanTypeOK, WwanAgree, Show, wwan_blink
  <1>4. CASE last_wwan_state # s
    <2>1. last_wwan_state' = s /\ wwan_val' \in {0, 1}
      BY <1>4 DEF WwanInv, WwanTypeOK, Show, wwan_blink
    <2>2. \/ wwan_timr' = Interval(s) /\ lost' = FALSE
          \/ wwan_timr' = 0 /\ lost' = TRUE
      BY Zenon, <1>4 DEF Show, wwan_blink
    <2>3. WwanAgree'
      BY Zenon, <1>2, <2>1, <2>2 DEF WwanAgree
    <2>4. wwan_timr' \in {0, 250, 500}
      BY <1>1, <2>2
    <2>5. s \in 0 .. 4
      OBVIOUS
    <2>6. lost' \in BOOLEAN
      BY Zenon, <2>2
    <2>7. QED
      BY Zenon, <1>2, <2>1, <2>3, <2>4, <2>5, <2>6
  <1>5. QED
    BY <1>3, <1>4

LEMMA WwanInitHolds == WwanInit => WwanInv
  <1>1. \A s : s # 2 /\ s # 3 => Interval(s) = 0
    BY DEF Interval
  <1>2. WwanInit => WwanTypeOK
    <2>1. 0 \in 0 .. MaxChanges /\ 0 \in 0 .. MaxRequests /\ 0 \in 0 .. MaxFaults /\ 0 \in 0 .. 4
      BY WwanBounds
    <2>2. QED
      BY Zenon, <2>1 DEF WwanInit, WwanTypeOK, Networks
  <1>3. WwanInit => WwanAgree
    <2>1. Interval(0) = 0
      BY <1>1
    <2>2. QED
      BY Zenon, <2>1 DEF WwanInit, WwanAgree
  <1>4. QED
    BY <1>2, <1>3 DEF WwanInv

(* The three queries end a transaction, may fail, and may show a state.     *)
LEMMA QueriesKeep ==
  ASSUME WwanInv, GotAddress \/ GotMode \/ GotStatus
  PROVE  WwanInv'
  <1>1. CASE GotAddress
    <2>1. mal_busy' \in {0, 1} /\ inMal' \subseteq {"main", "timer"}
      BY <1>1, MalKeepsTypes DEF WwanInv, GotAddress
    <2>2. faults' \in 0 .. MaxFaults
      BY <1>1, AnswersCount DEF WwanInv, GotAddress
    <2>3. CASE UNCHANGED ledVars
      BY <1>1, <2>1, <2>2, <2>3 DEF WwanInv, WwanTypeOK, WwanAgree, GotAddress, Crash, ledVars, Replies
    <2>4. CASE Show(4) /\ tpc' = "idle" /\ ipAnswer' \in {"yes", "error"}
      BY <1>1, <2>1, <2>2, <2>4, ShowAgrees DEF WwanInv, WwanTypeOK, GotAddress
    <2>5. QED
      BY <1>1, <2>3, <2>4 DEF GotAddress, Crash
  <1>2. CASE GotMode
    <2>1. mal_busy' \in {0, 1} /\ inMal' \subseteq {"main", "timer"}
      BY <1>2, MalKeepsTypes DEF WwanInv, GotMode
    <2>2. faults' \in 0 .. MaxFaults
      BY <1>2, AnswersCount DEF WwanInv, GotMode
    <2>3. CASE UNCHANGED ledVars
      BY <1>2, <2>1, <2>2, <2>3 DEF WwanInv, WwanTypeOK, WwanAgree, GotMode, Crash, ledVars
    <2>4. CASE Show(3) /\ tpc' = "idle" /\ UNCHANGED ipAnswer
      BY <1>2, <2>1, <2>2, <2>4, ShowAgrees DEF WwanInv, WwanTypeOK, GotMode
    <2>5. QED
      BY <1>2, <2>3, <2>4 DEF GotMode, Crash
  <1>3. CASE GotStatus
    <2>1. mal_busy' \in {0, 1} /\ inMal' \subseteq {"main", "timer"}
      BY <1>3, MalKeepsTypes DEF WwanInv, GotStatus
    <2>2. faults' \in 0 .. MaxFaults
      BY <1>3, AnswersCount DEF WwanInv, GotStatus
    <2>3. PICK s \in 1 .. 4 : Show(s)
      BY <1>3 DEF GotStatus
    <2>4. QED
      BY <1>3, <2>1, <2>2, <2>3, ShowAgrees DEF WwanInv, WwanTypeOK, GotStatus
  <1>4. QED
    BY <1>1, <1>2, <1>3

LEMMA WwanNextKeeps == WwanInv /\ [WwanNext]_wwanVars => WwanInv'
  <1>. SUFFICES ASSUME WwanInv, [WwanNext]_wwanVars PROVE WwanInv'
    OBVIOUS
  <1>1. CASE MonTick
    BY <1>1 DEF WwanInv, WwanTypeOK, WwanAgree, MonTick, malVars, ledVars
  <1>2. CASE Ask
    BY <1>2, MalKeepsTypes DEF WwanInv, WwanTypeOK, WwanAgree, Ask, ledVars
  <1>3. CASE GotAddress \/ GotMode \/ GotStatus
    BY <1>3, QueriesKeep
  <1>4. CASE BlinkTick
    BY <1>4 DEF WwanInv, WwanTypeOK, WwanAgree, BlinkTick, malVars
  <1>5. CASE MainAsks
    BY <1>5, MalKeepsTypes, WwanBounds DEF WwanInv, WwanTypeOK, WwanAgree, MainAsks, ledVars
  <1>6. CASE MainAnswered
    BY <1>6, MalKeepsTypes DEF WwanInv, WwanTypeOK, WwanAgree, MainAnswered, ledVars
  <1>7. CASE MainWritesLed
    BY <1>7, WwanBounds DEF WwanInv, WwanTypeOK, WwanAgree, MainWritesLed, malVars
  <1>8. CASE NetworkChanges
    BY <1>8, WwanBounds DEF WwanInv, WwanTypeOK, WwanAgree, NetworkChanges, malVars, ledVars
  <1>9. CASE UNCHANGED wwanVars
    BY <1>9 DEF WwanInv, WwanTypeOK, WwanAgree, wwanVars, malVars, ledVars
  <1>10. QED
    BY <1>1, <1>2, <1>3, <1>4, <1>5, <1>6, <1>7, <1>8, <1>9 DEF WwanNext

(* The invariant of the WWAN monitor, wwan.c, holds in every state.          *)
THEOREM WwanInvariance == WwanSpec => []WwanInv
  BY WwanInitHolds, WwanNextKeeps, PTL DEF WwanSpec

(* Every variable of the WWAN monitor keeps to its type.                    *)
THEOREM WwanTypeCorrect == WwanSpec => []WwanTypeOK
  BY WwanInvariance, PTL DEF WwanInv

(* Between two samples of wwan_mon_task the blink timer is the one the      *)
(* state shown asks for, or could not be created, and the state shown is     *)
(* the last sampled (wwan_blink).                                            *)
THEOREM TimerFollowsState == WwanSpec => []TimerMatchesState
  <1>1. WwanInv => TimerMatchesState
    BY DEF WwanInv, WwanAgree, TimerMatchesState
  <1>2. QED
    BY <1>1, WwanInvariance, PTL
=============================================================================
