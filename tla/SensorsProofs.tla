--------------------------- MODULE SensorsProofs ---------------------------
(***************************************************************************)
(* Proofs about the sensors' uploads.  M2XSensors, for any number of        *)
(* devices, nodes, commands and uploads: what the shared handle, the        *)
(* engine's timers and its reference count have to do with each other while *)
(* commands and callbacks do not overlap.  Hts221, for any number of rounds *)
(* and failed accesses: a value that a thread computes alone is exact.      *)
(* Threads is that of Hts221; both modules have the same two.               *)
(***************************************************************************)
EXTENDS M2XSensors, Hts221, SequenceTheorems, TLAPS

Stages == {"start", "change", "kill", "create", "store", "stop"}

Jobs == [at : Stages \cup {"idle", "sending", "over"},
         dev : DevSet \cup {None}, ivl : 0..255, new : Nodes \cup {None}]

(* The callback's thread is outside its callback or in a place of it, main  *)
(* never uploads, and the end is everybody's.                                *)
Places ==
  /\ job["timer"].at \in Stages \cup {"sending"} => slot # 0
  /\ job["timer"].at = "sending" => slot \in DOMAIN Devices /\ job["timer"].dev \in DevSet
  /\ job["main"].at # "sending"
  /\ \A a \in Threads : job[a].at = "over" => \A b \in Threads : job[b].at = "over"
  /\ running = 0 => \A a \in Threads : job[a].at = "over"

(* Where commands and callbacks do not overlap, one thread runs at a time.  *)
Turns == when # "any" =>
  \/ job["main"].at = "idle"
  \/ job["timer"].at = "idle" /\ slot = 0

(* What a call leaves that stores handle h: the timer and a reference, if   *)
(* there is a timer, and a reference for each create that failed.            *)
Stored(h) ==
  /\ Live = {h} \ {None}
  /\ running = (IF h = None THEN 1 ELSE 2) + stray

(* What a thread has done of its sensor_* call.                             *)
Halfway == when # "any" =>
  \A a \in Threads :
    /\ job[a].at # "over"
    /\ job[a].at = "start" => m2x_sensor_timer = None /\ Live = {} /\ running = 1 + stray
    /\ job[a].at \in {"change", "kill"} =>
         m2x_sensor_timer # None /\ Live = {m2x_sensor_timer} /\ running = 2 + stray
    /\ job[a].at \in {"create", "stop"} => Live = {} /\ running = 2 + stray
    /\ job[a].at = "store" => Stored(job[a].new)

Calm == \A a \in Threads : job[a].at \in {"idle", "sending"}

(* Between the calls the handle is the timer and a reference.               *)
Balance == (when # "any" /\ Calm) => Stored(m2x_sensor_timer)

Alone == when = "ended" /\ stray = 0
Nothing == \A d \in DevSet : owed[d] = 0

(* A job that runs alone, no create having failed: the counters are what is owed, to one device, and *)
(* the timer is there exactly until the call that ends it.                   *)
Lone == Alone =>
  /\ iterations = owed
  /\ \A d, e \in DevSet : owed[d] > 0 /\ owed[e] > 0 => d = e
  /\ Calm => (m2x_sensor_timer = None <=> Nothing)
  /\ \A a \in Threads :
       /\ job[a].at = "store" => job[a].new # None
       /\ job[a].at \in {"start", "create", "store"} => ~Nothing
       /\ job[a].at \in {"kill", "stop"} => Nothing
       /\ job[a].at # "change"
  /\ job["timer"].at = "sending" => owed[job["timer"].dev] > 0

IInv == TypeOK /\ Places /\ Turns /\ Halfway /\ Balance /\ Lone

LEMMA TypesOfJobs ==
  ASSUME TypeOK
  PROVE  /\ job \in [Threads -> Jobs]
         /\ \A a \in Threads : job[a] \in Jobs
         /\ running \in Nat /\ stray \in Nat /\ Len(Devices) \in Nat /\ DOMAIN Devices = 1 .. Len(Devices)
         /\ Idle \in Jobs /\ Idle.at = "idle"
  <1>1. job \in [Threads -> Jobs] /\ running \in Nat /\ stray \in Nat
    BY BoundAssumption DEF TypeOK, Threads, Jobs, Stages
  <1>2. Len(Devices) \in Nat /\ DOMAIN Devices = 1 .. Len(Devices)
    BY DevicesAssumption, LenProperties
  <1>3. Idle \in Jobs /\ Idle.at = "idle"
    BY DEF Idle, Jobs
  <1>. QED
    BY <1>1, <1>2, <1>3

LEMMA InitInv == Init => IInv
  <1>. SUFFICES ASSUME Init PROVE IInv
    OBVIOUS
  <1>1. /\ \A a \in Threads : job[a] = Idle /\ job[a].at = "idle"
        /\ job = [a \in Threads |-> Idle] /\ slot = 0 /\ Live = {}
    BY DEF Init, Threads, Idle, Live
  <1>2. TypeOK
    <2>1. Len(Devices) \in Nat
      BY DevicesAssumption, LenProperties
    <2>2. job \in [{"main", "timer"} ->
               [at : {"idle", "start", "change", "kill", "create", "store", "stop",
                      "sending", "over"},
                dev : DevSet \cup {None}, ivl : 0..255, new : Nodes \cup {None}]]
      BY DEF Init, Idle
    <2>. QED
      BY <1>1, <2>1, <2>2, BoundAssumption DEF TypeOK, Init
  <1>3. Places /\ Turns /\ Halfway /\ Balance /\ Lone
    BY <1>1 DEF Places, Turns, Halfway, Balance, Stored, Lone, Alone, Nothing, Stages, Threads, Init
  <1>. QED
    BY <1>2, <1>3 DEF IInv

-----------------------------------------------------------------------------
(* The entry of a sensor_* call by thread a, with the timer's counters.     *)
LEMMA Enters ==
  ASSUME IInv, NEW a \in Threads, NEW d \in DevSet, NEW ivl \in 0..255, NEW count \in 0..255,
         SensorEnters(a, d, ivl, count)
  PROVE  /\ job' \in [Threads -> Jobs] /\ iterations' \in [DevSet -> -1..255]
         /\ \A b \in Threads : b # a => job'[b] = job[b]
         /\ job'[a].at = IF m2x_sensor_timer = None THEN "start"
                         ELSE IF ivl # 0 THEN "change" ELSE "kill"
         /\ job'[a].at = "kill" => iterations' = [iterations EXCEPT ![d] = 0]
         /\ job'[a].at # "kill" => iterations' = [iterations EXCEPT ![d] = count]
  <1>. DEFINE at == IF m2x_sensor_timer = None THEN "start"
                    ELSE IF ivl # 0 THEN "change" ELSE "kill"
              j == [at |-> at, dev |-> d, ivl |-> ivl, new |-> None]
  <1>1. job' = [job EXCEPT ![a] = j]
    BY DEF SensorEnters
  <1>2. iterations' = [iterations EXCEPT ![d] = IF at = "kill" THEN 0 ELSE count]
    BY DEF SensorEnters
  <1>3. j \in Jobs /\ j.at = at
    BY DEF Jobs, Stages
  <1>4. job \in [Threads -> Jobs] /\ iterations \in [DevSet -> -1..255]
    BY TypesOfJobs DEF IInv, TypeOK
  <1>5. job' \in [Threads -> Jobs] /\ job'[a] = j /\ \A b \in Threads : b # a => job'[b] = job[b]
    <2>. HIDE DEF j
    <2>. QED
      BY <1>1, <1>3, <1>4
  <1>6. iterations' \in [DevSet -> -1..255]
    BY <1>2, <1>4
  <1>. QED
    BY <1>2, <1>3, <1>5, <1>6

(* A thread's next place, and the place alone.                              *)
LEMMA Goes ==
  ASSUME IInv, NEW a \in Threads, NEW at \in Stages, Goto(a, at)
  PROVE  /\ job' \in [Threads -> Jobs]
         /\ \A b \in Threads : b # a => job'[b] = job[b]
         /\ job'[a].at = at /\ job'[a].new = job[a].new
  <1>1. job \in [Threads -> Jobs] /\ job[a] \in Jobs
    BY TypesOfJobs DEF IInv
  <1>2. job' = [job EXCEPT ![a] = [job[a] EXCEPT !.at = at]]
    BY DEF Goto
  <1>3. [job[a] EXCEPT !.at = at] \in Jobs
    BY <1>1 DEF Jobs
  <1>. QED
    BY <1>1, <1>2, <1>3 DEF Jobs

LEMMA Ends ==
  ASSUME IInv, Over
  PROVE  job' \in [Threads -> Jobs] /\ \A b \in Threads : job'[b].at = "over"
  <1>1. job \in [Threads -> Jobs]
    BY TypesOfJobs DEF IInv
  <1>2. [Idle EXCEPT !.at = "over"] \in Jobs /\ [Idle EXCEPT !.at = "over"].at = "over"
    BY DEF Jobs, Idle
  <1>3. job' = [b \in Threads |-> [Idle EXCEPT !.at = "over"]]
    BY <1>1 DEF Over
  <1>. QED
    BY <1>2, <1>3

LEMMA Rests ==
  ASSUME IInv, NEW a \in Threads, job' = [job EXCEPT ![a] = Idle]
  PROVE  /\ job' \in [Threads -> Jobs]
         /\ \A b \in Threads : b # a => job'[b] = job[b]
         /\ job'[a] = Idle /\ job'[a].at = "idle"
  <1>1. job \in [Threads -> Jobs] /\ Idle \in Jobs /\ Idle.at = "idle"
    BY TypesOfJobs DEF IInv
  <1>. QED
    BY <1>1

(* What TypeOK says of the jobs, in its own words.                          *)
LEMMA JobsAreTyped ==
  job' \in [Threads -> Jobs] =>
    job' \in [{"main", "timer"} ->
               [at : {"idle", "start", "change", "kill", "create", "store", "stop",
                      "sending", "over"},
                dev : DevSet \cup {None}, ivl : 0..255, new : Nodes \cup {None}]]
  BY DEF Threads, Jobs, Stages

-----------------------------------------------------------------------------
LEMMA CommandKeeps ==
  ASSUME IInv, NEW d \in DevSet, NEW y \in Counts, NEW x \in Periods, Tx2M2X(d, y, x)
  PROVE  IInv'
  <1>1. /\ job["main"].at = "idle" /\ commands < MaxCommands /\ commands' = commands + 1
        /\ when # "any" => slot = 0
        /\ when = "ended" => (stray = 0 => Nothing) /\ x \in 1..255 /\ y \in 1..255
        /\ SensorEnters("main", d, Byte(x), Byte(y))
        /\ owed' = [owed EXCEPT ![d] = IF x = 0 THEN 0 ELSE y]
        /\ UNCHANGED <<when, m2x_sensor_timer, timers, running, stray, slot>>
    BY DEF Tx2M2X, Nothing
  <1>2. /\ x \in Nat /\ y \in Nat /\ Byte(x) \in 0..255 /\ Byte(y) \in 0..255
        /\ x \in 1..255 => Byte(x) = x
        /\ y \in 1..255 => Byte(y) = y
    BY BoundAssumption DEF Byte
  <1>3. "main" \in Threads /\ "timer" \in Threads /\ "main" # "timer"
        /\ \A a \in Threads : a = "main" \/ a = "timer"
    BY DEF Threads
  <1>4. /\ job' \in [Threads -> Jobs] /\ iterations' \in [DevSet -> -1..255]
        /\ job'["timer"] = job["timer"]
        /\ job'["main"].at = IF m2x_sensor_timer = None THEN "start"
                             ELSE IF Byte(x) # 0 THEN "change" ELSE "kill"
        /\ job'["main"].at # "kill" => iterations' = [iterations EXCEPT ![d] = Byte(y)]
    <2>1. SensorEnters("main", d, Byte(x), Byte(y))
      BY <1>1
    <2>2. Byte(x) \in 0..255 /\ Byte(y) \in 0..255
      BY <1>2
    <2>3. "main" \in Threads /\ "timer" \in Threads /\ "main" # "timer"
      BY <1>3
    <2>4. PICK ivl \in 0 .. 255, count \in 0 .. 255 : ivl = Byte(x) /\ count = Byte(y)
      BY <2>2
    <2>5. SensorEnters("main", d, ivl, count)
      BY <2>1, <2>4
    <2>6. /\ job' \in [Threads -> Jobs] /\ iterations' \in [DevSet -> -1..255]
          /\ \A b \in Threads : b # "main" => job'[b] = job[b]
          /\ job'["main"].at = IF m2x_sensor_timer = None THEN "start"
                               ELSE IF ivl # 0 THEN "change" ELSE "kill"
          /\ job'["main"].at # "kill" => iterations' = [iterations EXCEPT ![d] = count]
      <3>1. PICK a \in Threads : a = "main"
        BY <2>3
      <3>2. SensorEnters(a, d, ivl, count)
        BY <2>5, <3>1
      <3>3. /\ job' \in [Threads -> Jobs] /\ iterations' \in [DevSet -> -1..255]
            /\ \A b \in Threads : b # a => job'[b] = job[b]
            /\ job'[a].at = IF m2x_sensor_timer = None THEN "start"
                            ELSE IF ivl # 0 THEN "change" ELSE "kill"
            /\ job'[a].at = "kill" => iterations' = [iterations EXCEPT ![d] = 0]
            /\ job'[a].at # "kill" => iterations' = [iterations EXCEPT ![d] = count]
        BY <3>2, Enters, ZenonT(60)
      <3>. QED BY <3>1, <3>3
    <2>. QED
      BY <2>3, <2>4, <2>6
  <1>5. job'["main"].at \in {"start", "change", "kill"}
    BY <1>4
  <1>6. TypeOK'
    <2>1. owed' \in [DevSet -> Nat] /\ commands' \in 0..MaxCommands
      BY <1>1, <1>2, BoundAssumption DEF IInv, TypeOK
    <2>. QED
      BY <1>1, <1>4, <2>1, JobsAreTyped DEF IInv, TypeOK, Live
  <1>7. job["timer"].at # "over" /\ (when # "any" => job["timer"].at = "idle")
    BY <1>1, <1>3, TypesOfJobs DEF IInv, Places, Jobs
  <1>8. Places'
    BY <1>1, <1>3, <1>4, <1>5, <1>7 DEF IInv, Places
  <1>9. Turns'
    BY <1>1, <1>4, <1>7 DEF Turns
  <1>10. Halfway'
    <2>1. when # "any" => Calm
      BY <1>1, <1>3, <1>7 DEF Calm
    <2>2. when # "any" => /\ Live = {m2x_sensor_timer} \ {None}
                          /\ running = (IF m2x_sensor_timer = None THEN 1 ELSE 2) + stray
      BY <2>1 DEF IInv, Balance, Stored
    <2>. QED
      BY <1>1, <1>3, <1>4, <1>7, <2>2 DEF Halfway, Stored, Live
  <1>11. Balance'
    BY <1>3, <1>5 DEF Balance, Stored, Calm
  <1>12. Lone'
    <2>. SUFFICES ASSUME when = "ended", stray = 0 PROVE Lone'
      BY <1>1 DEF Lone, Alone
    <2>1. /\ Nothing /\ x # 0 /\ Byte(y) = y /\ y > 0 /\ job["timer"].at = "idle"
          /\ owed' = [owed EXCEPT ![d] = y]
      <3>1. Nothing /\ x \in 1..255 /\ y \in 1..255
        BY <1>1
      <3>2. x # 0 /\ y > 0 /\ Byte(y) = y
        BY <1>2, <3>1
      <3>3. owed' = [owed EXCEPT ![d] = y]
        BY <1>1, <3>2
      <3>. QED
        BY <1>7, <3>1, <3>2, <3>3
    <2>2. m2x_sensor_timer = None /\ iterations = owed
      BY <1>1, <1>3, <2>1 DEF IInv, Lone, Alone, Calm
    <2>3. job'["main"].at = "start" /\ iterations' = owed'
      BY <1>4, <2>1, <2>2
    <2>4. owed'[d] = y /\ \A e \in DevSet : e # d => owed'[e] = 0
      BY <2>1 DEF IInv, TypeOK, Nothing
    <2>5. ~Nothing'
      BY <2>1, <2>4 DEF Nothing
    <2>. QED
      <3>1. iterations' = owed'
        BY <2>3
      <3>2. \A e, f \in DevSet : owed'[e] > 0 /\ owed'[f] > 0 => e = f
        BY <2>4
      <3>3. ~Calm'
        BY <1>3, <2>3 DEF Calm
      <3>4. \A a \in Threads :
               /\ job'[a].at \in {"start", "create", "store"} => ~Nothing'
               /\ job'[a].at \notin {"kill", "stop", "change", "store"}
        BY <1>3, <1>4, <2>1, <2>3, <2>5
      <3>5. job'["timer"].at # "sending"
        BY <1>4, <2>1
      <3>. QED
        BY <3>1, <3>2, <3>3, <3>4, <3>5 DEF Lone, Alone
  <1>. QED
    BY <1>6, <1>8, <1>9, <1>10, <1>11, <1>12 DEF IInv

(* A step of thread a inside a call: where no two overlap, the other rests. *)
LEMMA OtherRests ==
  ASSUME IInv, NEW a \in Threads, job[a].at \in Stages, when # "any"
  PROVE  /\ \A b \in Threads : b # a => job[b].at = "idle"
         /\ a = "main" => slot = 0
  BY DEF IInv, Turns, Places, Threads, Stages

(* A thread goes from one place of its call to another, or ends it.         *)
LEMMA CallPlaces ==
  ASSUME IInv, NEW a \in Threads, job[a].at \in Stages,
         job' \in [Threads -> Jobs],
         \A b \in Threads : b # a => job'[b] = job[b],
         job'[a].at \in Stages \cup {"idle"},
         running' # 0, UNCHANGED <<slot, when>>
  PROVE  Places' /\ Turns'
  <1>1. \A b \in Threads : b = "main" \/ b = "timer"
    BY DEF Threads
  <1>2. \A b \in Threads : job[b].at # "over" /\ job'[b].at # "over"
    BY DEF IInv, Places, Stages
  <1>3. Places'
    <2>1. job'["timer"].at \in Stages \cup {"sending"} => slot # 0
      BY <1>1 DEF IInv, Places, Stages, Threads
    <2>2. job'["timer"].at = "sending" => job'["timer"] = job["timer"]
      BY <1>1 DEF Stages, Threads
    <2>3. job'["main"].at # "sending"
      BY <1>1 DEF IInv, Places, Stages, Threads
    <2>. QED
      BY <1>2, <2>1, <2>2, <2>3 DEF IInv, Places
  <1>4. Turns'
    <2>. SUFFICES ASSUME when # "any" PROVE Turns'
      BY DEF Turns
    <2>1. \A b \in Threads : b # a => job'[b].at = "idle"
      BY OtherRests
    <2>2. a = "main" => slot = 0
      BY OtherRests
    <2>. QED
      BY <1>1, <2>1, <2>2 DEF Turns, Threads
  <1>. QED
    BY <1>3, <1>4

LEMMA DeleteKeeps ==
  ASSUME IInv, NEW a \in Threads, SensorDeletes(a)
  PROVE  IInv'
  <1>1. /\ job[a].at \in {"change", "kill"} /\ job[a].at \in Stages
        /\ UNCHANGED <<when, iterations, m2x_sensor_timer, running, stray, slot, commands, owed>>
    BY DEF SensorDeletes, Stages
  <1>2. CASE m2x_sensor_timer \notin Live \cup {None}
    <2>1. Over /\ UNCHANGED timers
      BY <1>2 DEF SensorDeletes
    <2>2. job' \in [Threads -> Jobs] /\ \A b \in Threads : job'[b].at = "over"
      BY <2>1, Ends
    <2>3. when = "any"
      BY <1>1, <1>2 DEF IInv, Halfway, Stored
    <2>4. TypeOK'
      BY <1>1, <2>1, <2>2, JobsAreTyped DEF IInv, TypeOK, Live
    <2>5. Places'
      BY <2>2 DEF Places, Stages, Threads
    <2>. QED
      BY <1>1, <2>3, <2>4, <2>5 DEF IInv, Turns, Halfway, Balance, Stored, Lone, Alone
  <1>3. CASE m2x_sensor_timer \in Live \cup {None}
    <2>1. /\ timers' = [n \in Live \ {m2x_sensor_timer} |-> timers[n]]
          /\ Goto(a, IF job[a].at = "change" THEN "create" ELSE "stop")
      BY <1>3 DEF SensorDeletes
    <2>2. /\ job' \in [Threads -> Jobs]
          /\ \A b \in Threads : b # a => job'[b] = job[b]
          /\ job'[a].at = IF job[a].at = "change" THEN "create" ELSE "stop"
      <3>1. (IF job[a].at = "change" THEN "create" ELSE "stop") \in Stages
        BY DEF Stages
      <3>. QED
        BY <2>1, <3>1, Goes
    <2>3. TypeOK'
      <3>1. Live' = Live \ {m2x_sensor_timer} /\ \A n \in Live' : timers'[n] = timers[n]
        BY <2>1 DEF Live
      <3>. QED
        BY <1>1, <2>2, <3>1, JobsAreTyped DEF IInv, TypeOK
    <2>4. Places' /\ Turns'
      <3>1. running # 0
        BY <1>1 DEF IInv, Places
      <3>2. job'[a].at \in Stages
        BY <2>2 DEF Stages
      <3>. QED
        BY <1>1, <2>2, <3>1, <3>2, CallPlaces
    <2>5. Halfway'
      <3>. SUFFICES ASSUME when # "any" PROVE Halfway'
        BY <1>1 DEF Halfway, Stored
      <3>1. m2x_sensor_timer # None /\ Live = {m2x_sensor_timer} /\ running = 2 + stray
        BY <1>1 DEF IInv, Halfway, Stored
      <3>2. Live' = {} /\ running' = 2 + stray
        BY <1>1, <2>1, <3>1 DEF Live
      <3>3. \A b \in Threads : b # a => job'[b].at = "idle"
        BY <1>1, <2>2, OtherRests
      <3>. QED
        BY <1>1, <2>2, <3>2, <3>3 DEF Halfway, Stored
    <2>6. Balance'
      BY <2>2 DEF Balance, Stored, Calm
    <2>7. Lone'
      <3>. SUFFICES ASSUME when = "ended", stray = 0 PROVE Lone'
        BY <1>1 DEF Lone, Alone
      <3>1. job[a].at = "kill" /\ Nothing
        BY <1>1 DEF IInv, Lone, Alone
      <3>2. job'[a].at = "stop"
        BY <2>2, <3>1
      <3>3. \A b \in Threads : b # a => job'[b].at = "idle"
        BY <1>1, <2>2, OtherRests
      <3>4. ~Calm' /\ Nothing'
        BY <1>1, <3>1, <3>2 DEF Calm, Nothing
      <3>5. \A b \in Threads : job'[b].at \in {"idle", "stop"}
        BY <3>2, <3>3
      <3>6. job'["timer"].at # "sending"
        BY <3>5 DEF Threads
      <3>. QED
        BY <1>1, <3>4, <3>5, <3>6 DEF IInv, Lone, Alone
    <2>. QED
      BY <2>3, <2>4, <2>5, <2>6, <2>7 DEF IInv
  <1>. QED
    BY <1>2, <1>3

LEMMA StartKeeps ==
  ASSUME IInv, NEW a \in Threads, SensorStarts(a)
  PROVE  IInv'
  <1>1. /\ job[a].at = "start" /\ job[a].at \in Stages /\ running' = running + 1
        /\ Goto(a, "create")
        /\ UNCHANGED <<when, iterations, m2x_sensor_timer, timers, stray, slot, commands, owed>>
    BY DEF SensorStarts, Stages
  <1>2. /\ job' \in [Threads -> Jobs]
        /\ \A b \in Threads : b # a => job'[b] = job[b]
        /\ job'[a].at = "create"
    <2>1. "create" \in Stages
      BY DEF Stages
    <2>. QED
      BY <1>1, <2>1, Goes
  <1>3. running' \in Nat /\ running' # 0
    BY <1>1, TypesOfJobs DEF IInv
  <1>4. TypeOK'
    BY <1>1, <1>2, <1>3, JobsAreTyped DEF IInv, TypeOK, Live
  <1>5. Places' /\ Turns'
    <2>1. job'[a].at \in Stages
      BY <1>2 DEF Stages
    <2>. QED
      BY <1>1, <1>2, <1>3, <2>1, CallPlaces
  <1>6. when # "any" => \A b \in Threads : b # a => job'[b].at = "idle"
    BY <1>1, <1>2, OtherRests
  <1>7. Halfway'
    <2>. SUFFICES ASSUME when # "any" PROVE Halfway'
      BY <1>1 DEF Halfway, Stored
    <2>1. Live' = {} /\ running' = 2 + stray
      <3>1. Live = {} /\ running = 1 + stray /\ stray \in Nat
        BY <1>1, TypesOfJobs DEF IInv, Halfway, Stored
      <3>. QED
        BY <1>1, <3>1 DEF Live
    <2>. QED
      BY <1>1, <1>2, <1>6, <2>1 DEF Halfway, Stored
  <1>8. Balance'
    BY <1>2 DEF Balance, Stored, Calm
  <1>9. Lone'
    <2>. SUFFICES ASSUME when = "ended", stray = 0 PROVE Lone'
      BY <1>1 DEF Lone, Alone
    <2>1. ~Nothing' /\ ~Calm'
      BY <1>1, <1>2 DEF IInv, Lone, Alone, Nothing, Calm
    <2>2. \A b \in Threads : job'[b].at \in {"idle", "create"}
      BY <1>2, <1>6
    <2>3. job'["timer"].at # "sending"
      BY <2>2 DEF Threads
    <2>. QED
      BY <1>1, <2>1, <2>2, <2>3 DEF IInv, Lone, Alone
  <1>. QED
    BY <1>4, <1>5, <1>7, <1>8, <1>9 DEF IInv

(* What a create changes, whether it hands out node n or fails.             *)
LEMMA CreateKeeps ==
  ASSUME IInv, NEW a \in Threads, SensorCreates(a)
  PROVE  IInv'
  <1>1. /\ job[a].at = "create" /\ job[a].at \in Stages
        /\ UNCHANGED <<when, iterations, m2x_sensor_timer, running, slot, commands, owed>>
    BY DEF SensorCreates, Stages
  <1>2. PICK n \in Nodes \cup {None} :
          /\ job' = [job EXCEPT ![a].at = "store", ![a].new = n]
          /\ Live' = Live \cup ({n} \ {None})
          /\ \A m \in Live' : timers'[m] = IF m = n THEN job[a].ivl ELSE timers[m]
          /\ stray' = IF n = None THEN stray + 1 ELSE stray
          /\ n = None => stray < MaxFailures
    <2>1. ASSUME NEW n \in Nodes \ Live,
                 timers' = [m \in Live \cup {n} |-> IF m = n THEN job[a].ivl ELSE timers[m]]
          PROVE  /\ Live' = Live \cup {n}
                 /\ \A m \in Live' : timers'[m] = IF m = n THEN job[a].ivl ELSE timers[m]
      BY <2>1 DEF Live
    <2>2. None \notin Nodes
      BY NoneAssumption
    <2>3. CASE /\ stray < MaxFailures
               /\ stray' = stray + 1
               /\ job' = [job EXCEPT ![a].at = "store", ![a].new = None]
               /\ UNCHANGED timers
      <3>1. Live' = Live /\ None \notin Live
        BY <2>2, <2>3 DEF Live, IInv, TypeOK
      <3>2. \A m \in Live' : timers'[m] = IF m = None THEN job[a].ivl ELSE timers[m]
        BY <2>3, <3>1
      <3>3. Live' = Live \cup ({None} \ {None})
        BY <3>1
      <3>4. stray' = IF None = None THEN stray + 1 ELSE stray
        BY <2>3
      <3>5. PICK n \in Nodes \cup {None} : n = None
        OBVIOUS
      <3>6. /\ job' = [job EXCEPT ![a].at = "store", ![a].new = n]
            /\ stray < MaxFailures
        BY <2>3, <3>5
      <3>. QED
        BY <3>2, <3>3, <3>4, <3>5, <3>6
    <2>4. CASE \E n \in Nodes \ Live :
                 /\ timers' = [m \in Live \cup {n} |-> IF m = n THEN job[a].ivl
                                                        ELSE timers[m]]
                 /\ job' = [job EXCEPT ![a].at = "store", ![a].new = n]
                 /\ UNCHANGED stray
      <3>1. PICK n \in Nodes \ Live :
                 /\ timers' = [m \in Live \cup {n} |-> IF m = n THEN job[a].ivl
                                                        ELSE timers[m]]
                 /\ job' = [job EXCEPT ![a].at = "store", ![a].new = n]
                 /\ UNCHANGED stray
        BY <2>4
      <3>2. n # None /\ {n} \ {None} = {n}
        BY <2>2
      <3>. QED
        BY <2>1, <3>1, <3>2
    <2>. QED
      BY <2>3, <2>4 DEF SensorCreates
  <1>3. /\ job' \in [Threads -> Jobs]
        /\ \A b \in Threads : b # a => job'[b] = job[b]
        /\ job'[a].at = "store" /\ job'[a].new = n
    <2>1. job \in [Threads -> Jobs] /\ job[a] \in Jobs
      BY TypesOfJobs DEF IInv
    <2>. DEFINE j == [job[a] EXCEPT !.at = "store", !.new = n]
    <2>2. j \in Jobs /\ j.at = "store" /\ j.new = n
      BY <2>1 DEF Jobs, Stages
    <2>3. job' = [job EXCEPT ![a] = j]
      BY <1>2, <2>1
    <2>. HIDE DEF j
    <2>. QED
      BY <2>1, <2>2, <2>3
  <1>4. stray \in Nat /\ stray' \in 0..MaxFailures /\ running \in Nat
    BY <1>2, TypesOfJobs, BoundAssumption DEF IInv, TypeOK
  <1>5. TypeOK'
    <2>1. job[a].ivl \in 0..255
      BY TypesOfJobs DEF IInv, Jobs
    <2>2. Live' \subseteq Nodes /\ \A m \in Live' : timers'[m] \in 0..255
      BY <1>2, <2>1 DEF IInv, TypeOK
    <2>. QED
      BY <1>1, <1>3, <1>4, <2>2, JobsAreTyped DEF IInv, TypeOK
  <1>6. Places' /\ Turns'
    <2>1. job'[a].at \in Stages /\ running' # 0
      BY <1>1, <1>3 DEF IInv, Places, Stages
    <2>. QED
      BY <1>1, <1>3, <2>1, CallPlaces
  <1>7. when # "any" => \A b \in Threads : b # a => job'[b].at = "idle"
    BY <1>1, <1>3, OtherRests
  <1>8. Halfway'
    <2>. SUFFICES ASSUME when # "any" PROVE Halfway'
      BY <1>1 DEF Halfway
    <2>1. Live = {} /\ running = 2 + stray
      BY <1>1 DEF IInv, Halfway
    <2>2. Live' = {n} \ {None} /\ running' = (IF n = None THEN 1 ELSE 2) + stray'
      BY <1>1, <1>2, <1>4, <2>1
    <2>. QED
      BY <1>3, <1>7, <2>2 DEF Halfway, Stored
  <1>9. Balance'
    BY <1>3 DEF Balance, Calm
  <1>10. Lone'
    <2>. SUFFICES ASSUME when = "ended", stray' = 0 PROVE Lone'
      BY <1>1 DEF Lone, Alone
    <2>1. stray = 0 /\ n # None
      BY <1>2, <1>4
    <2>2. ~Nothing' /\ ~Calm'
      BY <1>1, <1>3, <2>1 DEF IInv, Lone, Alone, Nothing, Calm
    <2>3. \A b \in Threads : \/ job'[b].at = "idle"
                             \/ job'[b].at = "store" /\ job'[b].new # None
      BY <1>3, <1>7, <2>1
    <2>4. job'["timer"].at # "sending"
      BY <2>3 DEF Threads
    <2>. QED
      BY <1>1, <2>1, <2>2, <2>3, <2>4 DEF IInv, Lone, Alone
  <1>. QED
    BY <1>5, <1>6, <1>8, <1>9, <1>10 DEF IInv

LEMMA StoreKeeps ==
  ASSUME IInv, NEW a \in Threads, SensorStores(a)
  PROVE  IInv'
  <1>1. /\ job[a].at = "store" /\ job[a].at \in Stages
        /\ m2x_sensor_timer' = job[a].new
        /\ job' = [job EXCEPT ![a] = Idle]
        /\ UNCHANGED <<when, iterations, timers, running, stray, slot, commands, owed>>
    BY DEF SensorStores, Stages
  <1>2. /\ job' \in [Threads -> Jobs]
        /\ \A b \in Threads : b # a => job'[b] = job[b]
        /\ job'[a].at = "idle"
    BY <1>1, Rests
  <1>3. TypeOK'
    <2>1. m2x_sensor_timer' \in Nodes \cup {None}
      BY <1>1, TypesOfJobs DEF IInv, Jobs
    <2>. QED
      BY <1>1, <1>2, <2>1, JobsAreTyped DEF IInv, TypeOK, Live
  <1>4. Places' /\ Turns'
    <2>1. running' # 0
      BY <1>1 DEF IInv, Places
    <2>. QED
      BY <1>1, <1>2, <2>1, CallPlaces
  <1>5. when # "any" => \A b \in Threads : job'[b].at = "idle"
    BY <1>1, <1>2, OtherRests
  <1>6. Halfway'
    BY <1>1, <1>5 DEF Halfway, Stored
  <1>7. Balance'
    <2>. SUFFICES ASSUME when # "any" PROVE Balance'
      BY <1>1 DEF Balance, Stored
    <2>1. Stored(job[a].new)
      BY <1>1 DEF IInv, Halfway, Stored
    <2>2. Live' = Live
      BY <1>1 DEF Live
    <2>. QED
      BY <1>1, <2>1, <2>2 DEF Balance, Stored
  <1>8. Lone'
    <2>. SUFFICES ASSUME when = "ended", stray = 0 PROVE Lone'
      BY <1>1 DEF Lone, Alone
    <2>1. ~Nothing' /\ m2x_sensor_timer' # None
      BY <1>1 DEF IInv, Lone, Alone, Halfway, Stored, Nothing
    <2>2. \A b \in Threads : job'[b].at = "idle"
      BY <1>5
    <2>3. job'["timer"].at # "sending"
      BY <2>2 DEF Threads
    <2>. QED
      BY <1>1, <2>1, <2>2, <2>3 DEF IInv, Lone, Alone
  <1>. QED
    BY <1>3, <1>4, <1>6, <1>7, <1>8 DEF IInv

LEMMA StopKeeps ==
  ASSUME IInv, NEW a \in Threads, SensorStops(a)
  PROVE  IInv'
  <1>1. /\ job[a].at = "stop" /\ job[a].at \in Stages
        /\ running' = running - 1 /\ m2x_sensor_timer' = None
        /\ UNCHANGED <<when, iterations, timers, stray, slot, commands, owed>>
    BY DEF SensorStops, Stages
  <1>2. running \in Nat /\ running # 0
    BY <1>1, TypesOfJobs DEF IInv, Places
  <1>3. CASE running = 1
    <2>1. job' \in [Threads -> Jobs] /\ \A b \in Threads : job'[b].at = "over"
      BY <1>3, Ends DEF SensorStops
    <2>2. when = "any"
      <3>1. stray \in Nat /\ (when # "any" => running = 2 + stray)
        BY <1>1, TypesOfJobs DEF IInv, Halfway
      <3>. QED
        BY <1>3, <3>1
    <2>3. TypeOK'
      <3>1. running' \in Nat /\ stray' \in 0..MaxFailures
        BY <1>1, <1>3 DEF IInv, TypeOK
      <3>. QED
        BY <1>1, <2>1, <3>1, JobsAreTyped DEF IInv, TypeOK, Live
    <2>4. Places'
      BY <2>1 DEF Places, Stages, Threads
    <2>. QED
      BY <1>1, <2>2, <2>3, <2>4 DEF IInv, Turns, Halfway, Balance, Stored, Lone, Alone
  <1>4. CASE running # 1
    <2>1. /\ job' \in [Threads -> Jobs]
          /\ \A b \in Threads : b # a => job'[b] = job[b]
          /\ job'[a].at = "idle"
      <3>1. job' = [job EXCEPT ![a] = Idle]
        BY <1>4 DEF SensorStops
      <3>. QED
        BY <3>1, Rests
    <2>2. running' \in Nat /\ running' # 0
      BY <1>1, <1>2, <1>4
    <2>3. TypeOK'
      BY <1>1, <2>1, <2>2, JobsAreTyped DEF IInv, TypeOK, Live
    <2>4. Places' /\ Turns'
      BY <1>1, <2>1, <2>2, CallPlaces
    <2>5. when # "any" => \A b \in Threads : job'[b].at = "idle"
      BY <1>1, <2>1, OtherRests
    <2>6. Halfway'
      BY <1>1, <2>5 DEF Halfway, Stored
    <2>7. Balance'
      <3>. SUFFICES ASSUME when # "any" PROVE Balance'
        BY <1>1 DEF Balance, Stored
      <3>1. Live = {} /\ running = 2 + stray /\ stray \in Nat
        BY <1>1, TypesOfJobs DEF IInv, Halfway, Stored
      <3>2. Live' = {} /\ running' = 1 + stray'
        BY <1>1, <3>1 DEF Live
      <3>. QED
        BY <1>1, <3>2 DEF Balance, Stored
    <2>8. Lone'
      <3>. SUFFICES ASSUME when = "ended", stray = 0 PROVE Lone'
        BY <1>1 DEF Lone, Alone
      <3>1. Nothing'
        BY <1>1 DEF IInv, Lone, Alone, Nothing
      <3>2. \A b \in Threads : job'[b].at = "idle"
        BY <2>5
      <3>3. job'["timer"].at # "sending"
        BY <3>2 DEF Threads
      <3>. QED
        BY <1>1, <3>1, <3>2, <3>3 DEF IInv, Lone, Alone
    <2>. QED
      BY <2>3, <2>4, <2>6, <2>7, <2>8 DEF IInv
  <1>. QED
    BY <1>3, <1>4

-----------------------------------------------------------------------------
(* The callback begins, goes on or returns, between two uploads.            *)
LEMMA SlotKeeps ==
  ASSUME IInv, TimerFires \/ SkipDevice \/ TimerReturns
  PROVE  IInv'
  <1>1. /\ job["timer"].at = "idle"
        /\ UNCHANGED <<when, iterations, m2x_sensor_timer, timers, running, stray, job, commands, owed>>
    BY DEF TimerFires, SkipDevice, TimerReturns
  <1>2. slot' \in 0..(Len(Devices) + 1)
    <2>1. Len(Devices) \in Nat /\ DOMAIN Devices = 1 .. Len(Devices)
      BY TypesOfJobs DEF IInv
    <2>. QED
      BY <2>1 DEF TimerFires, SkipDevice, TimerReturns
  <1>3. when # "any" => job["main"].at = "idle"
    <2>1. TimerFires \/ slot # 0
      <3>1. Len(Devices) \in Nat /\ DOMAIN Devices = 1 .. Len(Devices)
        BY TypesOfJobs DEF IInv
      <3>. QED
        BY <3>1 DEF SkipDevice, TimerReturns
    <2>2. TimerFires => (when # "any" => job["main"].at = "idle")
      BY DEF TimerFires
    <2>. QED
      BY <2>1, <2>2 DEF IInv, Turns
  <1>4. TypeOK'
    BY <1>1, <1>2 DEF IInv, TypeOK, Live
  <1>5. Places' /\ Turns'
    BY <1>1, <1>3 DEF IInv, Places, Turns, Stages
  <1>6. Halfway' /\ Balance' /\ Lone'
    BY <1>1 DEF IInv, Halfway, Balance, Stored, Lone, Alone, Nothing, Calm, Live
  <1>. QED
    BY <1>4, <1>5, <1>6 DEF IInv

LEMMA UploadKeeps ==
  ASSUME IInv, Upload
  PROVE  IInv'
  <1>. DEFINE d == Devices[slot]
              j == [Idle EXCEPT !.at = "sending", !.dev = d]
  <1>1. /\ job["timer"].at = "idle" /\ slot \in DOMAIN Devices /\ iterations[d] # 0
        /\ job' = [job EXCEPT !["timer"] = j]
        /\ UNCHANGED <<when, iterations, m2x_sensor_timer, timers, running, stray, slot, commands, owed>>
    BY DEF Upload
  <1>2. slot # 0 /\ d \in DevSet
    <2>1. Len(Devices) \in Nat /\ DOMAIN Devices = 1 .. Len(Devices)
      BY TypesOfJobs DEF IInv
    <2>. QED
      BY <1>1, <2>1 DEF DevSet
  <1>. HIDE DEF d
  <1>3. j \in Jobs /\ j.at = "sending" /\ j.dev = d
    <2>1. Idle \in Jobs
      BY TypesOfJobs DEF IInv
    <2>. QED
      BY <1>2, <2>1 DEF Jobs
  <1>. HIDE DEF j
  <1>4. /\ job' \in [Threads -> Jobs] /\ job'["main"] = job["main"]
        /\ job'["timer"].at = "sending" /\ job'["timer"].dev = d
    <2>1. job \in [Threads -> Jobs] /\ "timer" \in Threads /\ "main" \in Threads
      BY TypesOfJobs DEF IInv, Threads
    <2>. QED
      BY <1>1, <1>3, <2>1
  <1>5. \A b \in Threads : b = "main" \/ b = "timer"
    BY DEF Threads
  <1>6. TypeOK'
    BY <1>1, <1>4, JobsAreTyped DEF IInv, TypeOK, Live
  <1>7. job["main"].at # "over" /\ running # 0
    BY <1>1 DEF IInv, Places, Threads
  <1>8. Places' /\ Turns'
    BY <1>1, <1>2, <1>4, <1>5, <1>7 DEF IInv, Places, Turns, Stages
  <1>9. Halfway'
    BY <1>1, <1>4, <1>5 DEF IInv, Halfway, Stored, Live, Threads
  <1>10. Calm' => Calm
    BY <1>1, <1>4, <1>5 DEF Calm, Threads
  <1>11. Balance'
    BY <1>1, <1>10 DEF IInv, Balance, Stored, Live
  <1>12. Lone'
    <2>. SUFFICES ASSUME when = "ended", stray = 0 PROVE Lone'
      BY <1>1 DEF Lone, Alone
    <2>1. iterations = owed /\ owed[d] > 0
      BY <1>1, <1>2 DEF IInv, Lone, Alone, TypeOK
    <2>2. Calm /\ Calm'
      <3>1. job["main"].at = "idle"
        BY <1>2 DEF IInv, Turns
      <3>. QED
        BY <1>1, <1>4, <1>5, <3>1 DEF Calm
    <2>3. \A a \in Threads : job'[a].at \in {"idle", "sending"}
      BY <2>2 DEF Calm
    <2>. QED
      BY <1>1, <1>4, <2>1, <2>2, <2>3 DEF IInv, Lone, Alone, Nothing
  <1>. QED
    BY <1>6, <1>8, <1>9, <1>11, <1>12 DEF IInv

LEMMA UploadedKeeps ==
  ASSUME IInv, Uploaded
  PROVE  IInv'
  <1>. DEFINE d == job["timer"].dev
  <1>1. /\ job["timer"].at = "sending" /\ slot' = slot + 1
        /\ owed' = [owed EXCEPT ![d] = IF @ > 0 THEN @ - 1 ELSE 0]
        /\ UNCHANGED <<when, m2x_sensor_timer, timers, running, stray, commands>>
    BY DEF Uploaded
  <1>2. d \in DevSet /\ slot \in 1 .. Len(Devices) /\ Len(Devices) \in Nat
    BY <1>1, TypesOfJobs DEF IInv, Places
  <1>3. "main" \in Threads /\ "timer" \in Threads /\ \A b \in Threads : b = "main" \/ b = "timer"
    BY DEF Threads
  <1>4. /\ job["main"].at \notin {"over", "sending"} /\ running # 0
        /\ when # "any" => job["main"].at = "idle"
    BY <1>1, <1>2, <1>3 DEF IInv, Places, Turns
  <1>5. owed' \in [DevSet -> Nat] /\ slot' \in 1 .. Len(Devices) + 1
    BY <1>1, <1>2 DEF IInv, TypeOK
  <1>6. when # "any" => Calm
    BY <1>1, <1>3, <1>4 DEF Calm
  <1>7. when = "ended" /\ stray = 0 =>
            /\ iterations = owed /\ owed[d] > 0 /\ m2x_sensor_timer # None
                          /\ \A e \in DevSet : e # d => owed[e] = 0
    <2>. SUFFICES ASSUME when = "ended", stray = 0
                  PROVE  /\ iterations = owed /\ owed[d] > 0 /\ m2x_sensor_timer # None
                         /\ \A e \in DevSet : e # d => owed[e] = 0
      OBVIOUS
    <2>1. iterations = owed /\ owed[d] > 0 /\ owed \in [DevSet -> Nat]
      BY <1>1 DEF IInv, Lone, Alone, TypeOK
    <2>2. ~Nothing
      BY <1>2, <2>1 DEF Nothing
    <2>3. m2x_sensor_timer # None
      BY <1>6, <2>2 DEF IInv, Lone, Alone
    <2>4. \A e \in DevSet : e # d => ~(owed[e] > 0)
      BY <1>2, <2>1 DEF IInv, Lone, Alone
    <2>. QED
      BY <2>1, <2>3, <2>4
  <1>. HIDE DEF d
  <1>8. CASE iterations[d] = 1
    <2>1. SensorEnters("timer", d, 0, 0)
      BY <1>8 DEF Uploaded, d
    <2>2. /\ job' \in [Threads -> Jobs] /\ iterations' \in [DevSet -> -1..255]
          /\ \A b \in Threads : b # "timer" => job'[b] = job[b]
          /\ job'["timer"].at = IF m2x_sensor_timer = None THEN "start" ELSE "kill"
          /\ iterations' = [iterations EXCEPT ![d] = 0]
      <3>1. 0 \in 0..255 /\ "timer" \in Threads
        BY <1>3
      <3>2. /\ job' \in [Threads -> Jobs] /\ iterations' \in [DevSet -> -1..255]
            /\ \A b \in Threads : b # "timer" => job'[b] = job[b]
            /\ job'["timer"].at = IF m2x_sensor_timer = None THEN "start"
                                  ELSE IF 0 # 0 THEN "change" ELSE "kill"
            /\ job'["timer"].at = "kill" => iterations' = [iterations EXCEPT ![d] = 0]
            /\ job'["timer"].at # "kill" => iterations' = [iterations EXCEPT ![d] = 0]
        BY <1>2, <2>1, <3>1, Enters
      <3>. QED
        BY <3>2
    <2>3. TypeOK'
      BY <1>1, <1>5, <2>2, JobsAreTyped DEF IInv, TypeOK, Live
    <2>4. job'["main"] = job["main"] /\ job'["timer"].at \in {"start", "kill"}
      BY <1>3, <2>2
    <2>5. Places' /\ Turns'
      BY <1>1, <1>3, <1>4, <1>5, <2>4 DEF IInv, Places, Turns, Stages
    <2>6. Halfway'
      <3>. SUFFICES ASSUME when # "any" PROVE Halfway'
        BY <1>1 DEF Halfway, Stored
      <3>1. /\ Live = {m2x_sensor_timer} \ {None}
            /\ running = (IF m2x_sensor_timer = None THEN 1 ELSE 2) + stray
        BY <1>6 DEF IInv, Balance, Stored
      <3>2. Live' = Live
        BY <1>1 DEF Live
      <3>3. job'["main"].at = "idle"
        BY <1>4, <2>4
      <3>4. /\ job'["timer"].at \notin {"over", "change", "create", "stop", "store"}
            /\ job'["timer"].at = "start" => m2x_sensor_timer = None
            /\ job'["timer"].at = "kill" => m2x_sensor_timer # None
        BY <2>2
      <3>. QED
        BY <1>1, <1>3, <3>1, <3>2, <3>3, <3>4 DEF Halfway, Stored
    <2>7. ~Calm'
      BY <1>3, <2>4 DEF Calm
    <2>8. Lone'
      <3>. SUFFICES ASSUME when = "ended", stray = 0 PROVE Lone'
        BY <1>1 DEF Lone, Alone
      <3>1. job'["timer"].at = "kill" /\ job'["main"].at = "idle"
        BY <1>4, <1>7, <2>2, <2>4
      <3>2. owed' = [owed EXCEPT ![d] = 0]
        <4>1. owed[d] = 1 /\ owed \in [DevSet -> Nat]
          BY <1>7, <1>8 DEF IInv, TypeOK
        <4>. QED
          BY <1>1, <1>2, <4>1 DEF d
      <3>3. iterations' = owed' /\ Nothing'
        <4>1. owed \in [DevSet -> Nat]
          BY DEF IInv, TypeOK
        <4>. QED
          BY <1>2, <1>7, <2>2, <3>2, <4>1 DEF Nothing
      <3>4. \A e, f \in DevSet : owed'[e] > 0 /\ owed'[f] > 0 => e = f
        BY <3>3 DEF Nothing
      <3>. QED
        BY <1>3, <2>7, <3>1, <3>3, <3>4 DEF Lone, Alone
    <2>. QED
      BY <2>3, <2>5, <2>6, <2>7, <2>8 DEF IInv, Balance, Stored
  <1>9. CASE iterations[d] # 1
    <2>1. /\ iterations' = [iterations EXCEPT ![d] = IF @ < 1 THEN -1 ELSE @ - 1]
          /\ job' = [job EXCEPT !["timer"] = Idle]
      BY <1>9 DEF Uploaded, d
    <2>2. /\ job' \in [Threads -> Jobs] /\ job'["main"] = job["main"]
          /\ job'["timer"].at = "idle"
      BY <1>3, <2>1, Rests
    <2>3. iterations' \in [DevSet -> -1..255]
      <3>1. iterations \in [DevSet -> -1..255] /\ iterations[d] \in -1..255
        BY <1>2 DEF IInv, TypeOK
      <3>2. (IF iterations[d] < 1 THEN -1 ELSE iterations[d] - 1) \in -1..255
        BY <3>1
      <3>. QED
        BY <2>1, <3>1, <3>2
    <2>4. TypeOK'
      BY <1>1, <1>5, <2>2, <2>3, JobsAreTyped DEF IInv, TypeOK, Live
    <2>5. Places' /\ Turns'
      BY <1>1, <1>3, <1>4, <1>5, <2>2 DEF IInv, Places, Turns, Stages
    <2>6. when # "any" => \A b \in Threads : job'[b].at = "idle"
      BY <1>3, <1>4, <2>2
    <2>7. Halfway'
      BY <1>1, <2>6 DEF Halfway, Stored
    <2>8. Balance'
      BY <1>1, <1>6 DEF IInv, Balance, Stored, Live
    <2>9. Lone'
      <3>. SUFFICES ASSUME when = "ended", stray = 0 PROVE Lone'
        BY <1>1 DEF Lone, Alone
      <3>1. owed \in [DevSet -> Nat] /\ owed[d] > 1
        BY <1>2, <1>7, <1>9 DEF IInv, TypeOK
      <3>2. owed' = [owed EXCEPT ![d] = owed[d] - 1]
        <4>1. owed[d] > 0
          BY <1>2, <3>1
        <4>2. owed' = [owed EXCEPT ![d] = IF owed[d] > 0 THEN owed[d] - 1 ELSE 0]
          BY <1>1
        <4>. QED
          BY <4>1, <4>2
      <3>3. iterations' = [owed EXCEPT ![d] = owed[d] - 1]
        <4>1. iterations = owed /\ ~(owed[d] < 1)
          BY <1>2, <1>7, <3>1
        <4>2. iterations' = [owed EXCEPT ![d] = IF owed[d] < 1 THEN -1 ELSE owed[d] - 1]
          BY <2>1, <4>1
        <4>. QED
          BY <4>1, <4>2
      <3>4. owed'[d] > 0 /\ \A e \in DevSet : e # d => owed'[e] = 0
        BY <1>2, <1>7, <3>1, <3>2
      <3>5. ~Nothing' /\ \A e, f \in DevSet : owed'[e] > 0 /\ owed'[f] > 0 => e = f
        BY <1>2, <3>4 DEF Nothing
      <3>6. \A b \in Threads : job'[b].at = "idle"
        BY <2>6
      <3>7. job'["timer"].at # "sending"
        BY <2>2
      <3>. QED
        BY <1>1, <1>7, <3>2, <3>3, <3>5, <3>6, <3>7 DEF Lone, Alone
    <2>. QED
      BY <2>4, <2>5, <2>7, <2>8, <2>9 DEF IInv
  <1>. QED
    BY <1>8, <1>9

LEMMA StutterKeeps ==
  ASSUME IInv, UNCHANGED vars
  PROVE  IInv'
  <1>1. TypeOK'
    BY DEF IInv, TypeOK, Live, vars
  <1>2. Places' /\ Turns' /\ Halfway'
    BY DEF IInv, Places, Turns, Halfway, Stored, Live, vars
  <1>3. Balance' /\ Lone'
    BY DEF IInv, Balance, Stored, Lone, Alone, Calm, Nothing, Live, vars
  <1>. QED
    BY <1>1, <1>2, <1>3 DEF IInv

-----------------------------------------------------------------------------
(* Every reachable state satisfies the invariant.                           *)
THEOREM Invariance == Spec => []IInv
  <1>1. Init => IInv
    BY InitInv
  <1>2. IInv /\ [Next]_vars => IInv'
    BY CommandKeeps, DeleteKeeps, StartKeeps, CreateKeeps, StoreKeeps, StopKeeps, SlotKeeps,
       UploadKeeps, UploadedKeeps, StutterKeeps
       DEF Next, SensorSteps, TimerSteps, Threads
  <1>. QED
    BY <1>1, <1>2, PTL DEF Spec

(* The state keeps its types, whatever overlaps: a counter is an unsigned   *)
(* char or -1, whether tx2m2x or tx2m2x_timer wrote it last.                 *)
THEOREM TypeCorrect == Spec => []TypeOK
  <1>1. IInv => TypeOK
    BY DEF IInv
  <1>. QED
    BY <1>1, Invariance, PTL

(* For any devices, counts and periods: while commands and callbacks do not *)
(* overlap the handle of m2x.c is the one timer there is, with one reference *)
(* to the engine besides those that failed creates have left; and until one  *)
(* fails, a job that ran alone leaves neither.                               *)
THEOREM OneTimer == Spec => []HandleIsTheTimer
  <1>1. IInv => HandleIsTheTimer
    <2>. SUFFICES ASSUME IInv, Quiet PROVE HandleIsTheTimer
      BY DEF HandleIsTheTimer
    <2>1. Calm
      BY DEF Quiet, Calm, Threads
    <2>2. when = "ended" /\ stray = 0 /\ (\A d \in DevSet : owed[d] = 0) =>
            m2x_sensor_timer = None /\ \A d \in DevSet : iterations[d] = 0
      BY <2>1 DEF IInv, Lone, Alone, Nothing
    <2>. QED
      BY <2>1, <2>2 DEF IInv, Balance, Stored, HandleIsTheTimer
  <1>. QED
    BY <1>1, Invariance, PTL
-----------------------------------------------------------------------------
(***************************************************************************)
(* Hts221.                                                                 *)
(***************************************************************************)
Calls == [op : {"get", "read"}, kind : Kinds]
Stops == {"idle", "call", "again", "calibrate", "status", "high", "low", "compute"}
PartStates == {"none", "ok", "zero"}

HtsTypes ==
  /\ cal \in [AllWords -> [lower : PartStates, upper : PartStates]]
  /\ value \in [Kinds -> SUBSET {"none", "zero", "torn"}]
  /\ pc \in [Threads -> Stops]
  /\ plan \in [Threads -> Seq(Calls)]
  /\ reg \in [Threads -> 1 .. Len(Registers)]
  /\ spoils \in [Threads -> SUBSET {"zero", "torn"}]
  /\ clean \in [Threads -> BOOLEAN]

(* The calls a thread still makes end with the reading of a value, and while*)
(* it is inside one, that is a get.                                          *)
Planned ==
  \A t \in Threads :
    /\ pc[t] # "calibrate" => reg[t] = 1
    /\ pc[t] \notin {"low", "compute"} => spoils[t] = {}
    /\ pc[t] # "idle" => plan[t] # <<>> /\ plan[t][Len(plan[t])].op = "read"
    /\ Busy(t) => Head(plan[t]).op = "get"

(* What a register gives to a word is there.                                *)
GivenLower(r) ==
  Registers[r].as \in {"byte", "low"} => \A w \in Registers[r].of : cal[w].lower = "ok"
GivenUpper(r) ==
  Registers[r].as # "low" => \A w \in Registers[r].of : cal[w].upper = "ok"

AllOk == \A w \in AllWords : cal[w].lower = "ok" /\ cal[w].upper = "ok"

(* A thread that has read alone and without failure has got what the        *)
(* registers it has read give, and no other thread is about to change it.    *)
CleanIsOk ==
  \A t \in Threads : Busy(t) /\ clean[t] =>
    /\ ~At(Other(t), "calibrate")
    /\ At(t, "calibrate") =>
         \A r \in 1 .. reg[t] - 1 : GivenLower(r) /\ GivenUpper(r)
    /\ ~At(t, "calibrate") => AllOk
    /\ At(t, "low") \/ At(t, "compute") => spoils[t] \subseteq {"torn"}

HtsInv == HtsTypes /\ Planned /\ CleanIsOk

(* The registers one by one. *)
LEMMA RegistersAre ==
  /\ Len(Registers) = 13
  /\ \A r \in 1 .. 13 :
       /\ Registers[r].as \in {"byte", "low", "bits", "or"}
       /\ Registers[r].of \subseteq AllWords
  <1>1. Len(Registers) = 13
    BY DEF Registers
  <1>2. ASSUME NEW r \in 1 .. 13
        PROVE  /\ Registers[r].as \in {"byte", "low", "bits", "or"}
               /\ Registers[r].of \subseteq AllWords
    BY DEF Registers, AllWords, Words
  <1>. QED BY <1>1, <1>2

(* A later register of a word adds its upper part only.                     *)
LEMMA LaterAddsUpper ==
  ASSUME NEW r \in 1 .. 13, NEW n \in 1 .. 13, r < n,
         NEW w \in Registers[r].of, w \in Registers[n].of
  PROVE  Registers[n].as \in {"bits", "or"} /\ Registers[r].as = "low"
  BY DEF Registers

(* The registers give all parts of all words.                               *)
LEMMA AllGiven ==
  ASSUME NEW w \in AllWords
  PROVE  /\ \E r \in 1 .. 13 : w \in Registers[r].of /\ Registers[r].as \in {"byte", "low"}
         /\ \E r \in 1 .. 13 : w \in Registers[r].of /\ Registers[r].as # "low"
  BY DEF Registers, AllWords, Words

LEMMA PlansAre ==
  ASSUME NEW p \in {do_hts2m2x, DemoReading}
  PROVE  p \in Seq(Calls) /\ p # <<>> /\ p[Len(p)].op = "read"
  <1>1. \A k \in Kinds : get(k) \in Calls /\ read(k) \in Calls /\ read(k).op = "read"
    BY DEF get, read, Calls
  <1>2. "temperature" \in Kinds /\ "humidity" \in Kinds
    BY DEF Kinds
  <1>3. CASE p = do_hts2m2x
    BY <1>1, <1>2, <1>3 DEF do_hts2m2x
  <1>4. CASE p = DemoReading
    BY <1>1, <1>2, <1>4 DEF DemoReading
  <1>. QED BY <1>3, <1>4

LEMMA OtherIs ==
  ASSUME NEW t \in Threads
  PROVE  /\ Other(t) \in Threads /\ Other(t) # t
         /\ \A u \in Threads : u = t \/ u = Other(t)
         /\ Other(Other(t)) = t
  BY DEF Threads, Other

LEMMA HtsInitHolds == HtsInit => HtsInv
  <1>. SUFFICES ASSUME HtsInit PROVE HtsInv
    OBVIOUS
  <1>1. HtsTypes
    BY RegistersAre DEF HtsInit, HtsTypes, PartStates, Stops
  <1>2. Planned
    BY DEF HtsInit, Planned, Busy
  <1>3. CleanIsOk
    BY DEF HtsInit, CleanIsOk, Busy
  <1>. QED BY <1>1, <1>2, <1>3 DEF HtsInv

LEMMA TailEnd ==
  ASSUME NEW S, NEW s \in Seq(S), s # <<>>
  PROVE  /\ Len(s) \in Nat \ {0} /\ Head(s) = s[1] /\ s[1] \in S
         /\ Tail(s) \in Seq(S) /\ Len(Tail(s)) = Len(s) - 1
         /\ Len(s) # 1 => Tail(s) # <<>>
         /\ Tail(s) # <<>> => Len(s) # 1 /\ Tail(s)[Len(Tail(s))] = s[Len(s)]
  <1>1. Len(s) \in Nat \ {0} /\ Head(s) = s[1] /\ s[1] \in S
    BY EmptySeq
  <1>2. Tail(s) \in Seq(S) /\ Len(Tail(s)) = Len(s) - 1
    BY <1>1
  <1>3. Len(s) # 1 => Tail(s) # <<>>
    BY <1>1, <1>2, EmptySeq
  <1>4. Tail(s) # <<>> => Len(s) # 1 /\ Tail(s)[Len(Tail(s))] = s[Len(s)]
    <2>. SUFFICES ASSUME Tail(s) # <<>> PROVE Len(s) # 1 /\ Tail(s)[Len(s) - 1] = s[Len(s)]
      BY <1>2
    <2>1. Len(s) # 1
      BY <1>2, EmptySeq
    <2>. QED BY <1>1, <2>1
  <1>. QED BY <1>1, <1>2, <1>3, <1>4

(* In a call, the thread reads a sample of one kind. *)
LEMMA CallIs ==
  ASSUME HtsTypes, Planned, NEW t \in Threads, ~At(t, "idle")
  PROVE  /\ plan[t] \in Seq(Calls) /\ plan[t] # <<>>
         /\ Head(plan[t]) \in Calls /\ Kind(t) \in Kinds
         /\ Tail(plan[t]) \in Seq(Calls)
         /\ Len(plan[t]) # 1 =>
              Tail(plan[t]) # <<>> /\ Tail(plan[t])[Len(Tail(plan[t]))].op = "read"
         /\ Head(plan[t]).op = "get" => Len(plan[t]) # 1
  <1>1. plan[t] \in Seq(Calls) /\ plan[t] # <<>> /\ plan[t][Len(plan[t])].op = "read"
    BY DEF HtsTypes, Planned, At
  <1>2. Head(plan[t]) \in Calls
    BY <1>1, TailEnd
  <1>3. Kind(t) \in Kinds
    BY <1>2 DEF Kind, Calls
  <1>. QED BY <1>1, <1>2, <1>3, TailEnd

(* What a step of t does to the plans and the positions: it stays Planned.   *)
LEMMA PlannedKept ==
  ASSUME Planned, NEW t \in Threads,
         \A u \in Threads \ {t} :
           pc'[u] = pc[u] /\ plan'[u] = plan[u] /\ reg'[u] = reg[u] /\ spoils'[u] = spoils[u],
         pc'[t] # "calibrate" => reg'[t] = 1,
         pc'[t] \notin {"low", "compute"} => spoils'[t] = {},
         pc'[t] # "idle" => plan'[t] # <<>> /\ plan'[t][Len(plan'[t])].op = "read",
         pc'[t] \notin {"idle", "call", "again"} => Head(plan'[t]).op = "get"
  PROVE  Planned'
  BY DEF Planned, Busy

LEMMA CleanKept ==
  ASSUME CleanIsOk, NEW t \in Threads, cal' = cal,
         \A u \in Threads \ {t} :
           pc'[u] = pc[u] /\ reg'[u] = reg[u] /\ spoils'[u] = spoils[u] /\ (clean'[u] => clean[u]),
         pc'[t] = "calibrate" /\ pc[t] # "calibrate" =>
           ~(Busy(Other(t)) /\ clean'[Other(t)]),
         Busy(t)' /\ clean'[t] =>
           /\ ~At(Other(t), "calibrate")
           /\ pc'[t] = "calibrate" => reg'[t] = 1
           /\ pc'[t] # "calibrate" => AllOk
           /\ pc'[t] \in {"low", "compute"} => spoils'[t] \subseteq {"torn"}
  PROVE  CleanIsOk'
  <1>. SUFFICES ASSUME NEW u \in Threads, Busy(u)', clean'[u]
                PROVE  /\ ~At(Other(u), "calibrate")'
                       /\ At(u, "calibrate")' =>
                            \A r \in 1 .. reg'[u] - 1 : GivenLower(r)' /\ GivenUpper(r)'
                       /\ ~At(u, "calibrate")' => AllOk'
                       /\ At(u, "low")' \/ At(u, "compute")' => spoils'[u] \subseteq {"torn"}
    BY DEF CleanIsOk
  <1>1. \A r : GivenLower(r)' = GivenLower(r) /\ GivenUpper(r)' = GivenUpper(r)
    BY DEF GivenLower, GivenUpper
  <1>2. AllOk' = AllOk
    BY DEF AllOk
  <1>3. CASE u = t
    <2>1. 1 .. reg'[t] - 1 = {} \/ pc'[t] # "calibrate"
      BY <1>3
    <2>2. Other(t) \in Threads \ {t}
      BY OtherIs
    <2>. QED BY <1>1, <1>2, <1>3, <2>1, <2>2 DEF At
  <1>4. CASE u # t
    <2>1. Other(u) = t /\ Other(t) = u
      BY <1>4, OtherIs
    <2>2. Busy(u) /\ clean[u]
      BY <1>4 DEF Busy
    <2>3. ~(pc'[t] = "calibrate")
      BY <1>4, <2>1, <2>2 DEF CleanIsOk, At
    <2>. QED BY <1>1, <1>2, <1>4, <2>1, <2>2, <2>3 DEF CleanIsOk, At
  <1>. QED BY <1>3, <1>4

(* The steps of a thread, one by one. *)
LEMMA GetKeeps ==
  ASSUME HtsInv, NEW t \in Threads, Get(t)
  PROVE  HtsInv'
  <1>. USE DEF HtsInv
  <1>1. HtsTypes'
    <2>1. pc' \in [Threads -> Stops]
      BY DEF HtsTypes, Get, Stops
    <2>2. clean' \in [Threads -> BOOLEAN]
      <3>1. CASE inited
        <4>1. clean' = [u \in Threads |-> IF u = t THEN ~At(Other(t), "calibrate")
                                         ELSE clean[u] /\ ~Busy(u)]
          BY <3>1 DEF Get, Share
        <4>2. clean \in [Threads -> BOOLEAN]
          BY DEF HtsTypes
        <4>3. ASSUME NEW u \in Threads
              PROVE  clean'[u] \in BOOLEAN
          BY <4>1, <4>2 DEF At, Busy
        <4>. QED BY <4>1, <4>3, SMT
      <3>2. CASE ~inited
        BY <3>2 DEF Get, HtsTypes
      <3>. QED BY <3>1, <3>2
    <2>3. UNCHANGED <<cal, value, plan, reg, spoils>>
      BY DEF Get
    <2>. QED BY <2>1, <2>2, <2>3 DEF HtsTypes
  <1>2. Planned'
    BY CallIs, PlannedKept DEF HtsTypes, Get, At, Planned
  <1>3. CleanIsOk'
    <2>1. CASE ~inited
      BY <2>1, CleanKept DEF HtsTypes, Get, Busy
    <2>2. CASE inited
      <3>1. /\ \A u \in Threads \ {t} :
                  pc'[u] = pc[u] /\ reg'[u] = reg[u] /\ spoils'[u] = spoils[u]
            /\ pc'[t] = "calibrate" /\ reg'[t] = 1 /\ cal' = cal
        BY <2>2 DEF HtsTypes, Planned, Get, At
      <3>2. /\ clean'[t] = ~At(Other(t), "calibrate")
            /\ \A u \in Threads \ {t} : clean'[u] = (clean[u] /\ ~Busy(u))
        BY <2>2 DEF Get, Share
      <3>. QED BY <3>1, <3>2, CleanKept, OtherIs
    <2>. QED BY <2>1, <2>2
  <1>. QED BY <1>1, <1>2, <1>3

LEMMA BeginKeeps ==
  ASSUME HtsInv, NEW t \in Threads, Begin(t)
  PROVE  HtsInv'
  <1>. USE DEF HtsInv
  <1>1. PICK p \in {do_hts2m2x, DemoReading} : plan' = [plan EXCEPT ![t] = p]
    BY DEF Begin
  <1>2. /\ pc' = [pc EXCEPT ![t] = "call"]
        /\ UNCHANGED <<cal, value, reg, spoils, clean>>
    BY DEF Begin
  <1>3. HtsTypes'
    BY <1>1, <1>2, PlansAre DEF HtsTypes, Stops
  <1>4. Planned'
    <2>1. /\ pc'[t] = "call" /\ plan'[t] = p
          /\ reg'[t] = 1 /\ spoils'[t] = {}
          /\ \A u \in Threads \ {t} :
               pc'[u] = pc[u] /\ plan'[u] = plan[u] /\ reg'[u] = reg[u] /\ spoils'[u] = spoils[u]
      BY <1>1, <1>2 DEF HtsTypes, Planned, Begin, At
    <2>. QED BY <2>1, PlansAre, PlannedKept
  <1>5. CleanIsOk'
    BY <1>2, CleanKept DEF HtsTypes, Busy
  <1>. QED BY <1>3, <1>4, <1>5

LEMMA RepeatKeeps ==
  ASSUME HtsInv, NEW t \in Threads, Repeat(t)
  PROVE  HtsInv'
  <1>. USE DEF HtsInv
  <1>1. HtsTypes'
    BY DEF HtsTypes, Repeat, Stops
  <1>2. Planned'
    BY PlannedKept, CallIs DEF HtsTypes, Planned, Repeat, At
  <1>3. CleanIsOk'
    BY CleanKept DEF HtsTypes, Repeat, Busy
  <1>. QED BY <1>1, <1>2, <1>3

LEMMA CalibrationKeeps ==
  ASSUME HtsInv, NEW t \in Threads, getCalibration(t)
  PROVE  HtsInv'
  <1>. USE DEF HtsInv
  <1>1. PICK ok \in BOOLEAN :
          /\ cal' = [w \in AllWords |->
                       IF w \in Registers[reg[t]].of
                       THEN Put(cal[w], Registers[reg[t]].as, IF ok THEN "ok" ELSE "zero")
                       ELSE cal[w]]
          /\ clean' = [clean EXCEPT ![t] = @ /\ ok]
    BY DEF getCalibration
  <1>2. /\ pc[t] = "calibrate" /\ spoils[t] = {}
        /\ UNCHANGED <<value, plan, spoils>>
        /\ reg[t] \in 1 .. 13 /\ \A u \in Threads : reg[u] \in 1 .. 13
    BY RegistersAre DEF getCalibration, At, HtsTypes, Planned
  <1>3. \/ reg[t] < 13 /\ reg' = [reg EXCEPT ![t] = @ + 1] /\ pc' = pc
        \/ reg[t] = 13 /\ reg' = [reg EXCEPT ![t] = 1] /\ pc' = [pc EXCEPT ![t] = "status"]
    BY <1>2, RegistersAre DEF getCalibration
  <1>4. HtsTypes'
    <2>1. ASSUME NEW w \in AllWords
          PROVE  Put(cal[w], Registers[reg[t]].as, IF ok THEN "ok" ELSE "zero")
                   \in [lower : PartStates, upper : PartStates]
      <3>1. cal[w] \in [lower : PartStates, upper : PartStates]
        BY DEF HtsTypes
      <3>2. Registers[reg[t]].as \in {"byte", "low", "bits", "or"}
        BY <1>2, RegistersAre
      <3>. QED BY <3>1, <3>2 DEF Put, PartStates
    <2>2. cal' \in [AllWords -> [lower : PartStates, upper : PartStates]]
      BY <1>1, <2>1 DEF HtsTypes
    <2>3. pc' \in [Threads -> Stops] /\ reg' \in [Threads -> 1 .. 13]
      <3>1. CASE reg[t] < 13 /\ reg' = [reg EXCEPT ![t] = @ + 1] /\ pc' = pc
        BY <1>2, <3>1, RegistersAre DEF HtsTypes
      <3>2. CASE reg' = [reg EXCEPT ![t] = 1] /\ pc' = [pc EXCEPT ![t] = "status"]
        BY <3>2, RegistersAre DEF HtsTypes, Stops
      <3>. QED BY <1>3, <3>1, <3>2
    <2>4. clean' \in [Threads -> BOOLEAN]
      BY <1>1 DEF HtsTypes
    <2>. QED BY <1>2, <2>2, <2>3, <2>4, RegistersAre DEF HtsTypes
  <1>5. Planned'
    BY <1>2, <1>3, PlannedKept DEF Planned, HtsTypes, Busy
  <1>6. CleanIsOk'
    <2>. SUFFICES ASSUME NEW u \in Threads, Busy(u)', clean'[u]
                  PROVE  /\ ~At(Other(u), "calibrate")'
                         /\ At(u, "calibrate")' =>
                              \A r \in 1 .. reg'[u] - 1 : GivenLower(r)' /\ GivenUpper(r)'
                         /\ ~At(u, "calibrate")' => AllOk'
                         /\ At(u, "low")' \/ At(u, "compute")' => spoils'[u] \subseteq {"torn"}
      BY DEF CleanIsOk
    <2>1. u = t
      <3>. SUFFICES ASSUME u # t PROVE FALSE
        OBVIOUS
      <3>1. clean[u] /\ Busy(u) /\ Other(u) = t
        BY <1>1, <1>3, OtherIs DEF HtsTypes, Busy
      <3>. QED BY <3>1, <1>2 DEF CleanIsOk, At
    <2>2. clean[t] /\ ok /\ Busy(t)
      BY <1>1, <1>2, <2>1 DEF HtsTypes, Busy
    <2>3. pc[Other(t)] # "calibrate" /\ pc'[Other(t)] = pc[Other(t)]
      BY <1>3, <2>2, OtherIs DEF CleanIsOk, At, HtsTypes
    <2>4. \A r \in 1 .. reg[t] - 1 : GivenLower(r) /\ GivenUpper(r)
      BY <1>2, <2>2 DEF CleanIsOk, At
    <2>5. ASSUME NEW r \in 1 .. reg[t]
          PROVE  GivenLower(r)' /\ GivenUpper(r)'
      <3>. SUFFICES ASSUME NEW w \in Registers[r].of
                    PROVE  /\ Registers[r].as \in {"byte", "low"} => cal'[w].lower = "ok"
                           /\ Registers[r].as # "low" => cal'[w].upper = "ok"
        BY DEF GivenLower, GivenUpper
      <3>1. r \in 1 .. 13 /\ w \in AllWords
        BY <1>2, RegistersAre
      <3>2. cal[w] \in [lower : PartStates, upper : PartStates]
        BY <3>1 DEF HtsTypes
      <3>3. CASE w \in Registers[reg[t]].of
        <4>1. cal'[w] = Put(cal[w], Registers[reg[t]].as, "ok")
          BY <1>1, <2>2, <3>1, <3>3
        <4>2. CASE r = reg[t]
          BY <4>1, <4>2, <3>1, <3>2, RegistersAre DEF Put
        <4>3. CASE r # reg[t]
          <5>1. Registers[reg[t]].as \in {"bits", "or"} /\ Registers[r].as = "low"
            BY <1>2, <3>1, <3>3, <4>3, LaterAddsUpper
          <5>2. cal[w].lower = "ok"
            BY <1>2, <2>4, <4>3, <5>1 DEF GivenLower
          <5>. QED BY <3>2, <4>1, <5>1, <5>2 DEF Put
        <4>. QED BY <4>2, <4>3
      <3>4. CASE w \notin Registers[reg[t]].of
        <4>1. cal'[w] = cal[w] /\ r # reg[t]
          BY <1>1, <3>1, <3>4
        <4>. QED BY <1>2, <2>4, <4>1 DEF GivenLower, GivenUpper
      <3>. QED BY <3>3, <3>4
    <2>6. CASE reg[t] < 13
      <3>1. reg'[t] = reg[t] + 1 /\ pc'[t] = "calibrate"
        BY <1>2, <1>3, <2>6 DEF HtsTypes
      <3>. QED BY <1>2, <2>1, <2>3, <2>5, <3>1 DEF At
    <2>7. CASE reg[t] = 13
      <3>1. pc'[t] = "status"
        BY <1>3, <2>7 DEF HtsTypes
      <3>2. AllOk'
        BY <2>5, <2>7, AllGiven DEF AllOk, GivenLower, GivenUpper
      <3>. QED BY <2>1, <2>3, <3>1, <3>2 DEF At
    <2>. QED BY <1>2, <2>6, <2>7
  <1>. QED BY <1>4, <1>5, <1>6

LEMMA ReadStatusKeeps ==
  ASSUME HtsInv, NEW t \in Threads, ReadStatus(t)
  PROVE  HtsInv'
  <1>. USE DEF HtsInv
  <1>1. PICK new \in BOOLEAN :
          /\ pc' = [pc EXCEPT ![t] = IF new THEN "high" ELSE "again"]
          /\ clean' = [clean EXCEPT ![t] = @ \/ ~new]
    BY DEF ReadStatus
  <1>2. /\ pc[t] = "status" /\ reg[t] = 1 /\ spoils[t] = {} /\ Busy(t)
        /\ UNCHANGED <<cal, value, plan, reg, spoils>>
    BY DEF ReadStatus, At, Planned, Busy
  <1>3. HtsTypes'
    BY <1>1, <1>2 DEF HtsTypes, Stops
  <1>4. Planned'
    BY <1>1, <1>2, PlannedKept DEF HtsTypes, Planned
  <1>5. CleanIsOk'
    <2>1. Busy(t)' /\ clean'[t] => clean[t] /\ pc'[t] = "high"
      BY <1>1 DEF HtsTypes, Busy
    <2>2. \A u \in Threads \ {t} : pc'[u] = pc[u] /\ clean'[u] = clean[u]
      BY <1>1 DEF HtsTypes
    <2>3. pc'[t] # "calibrate"
      BY <1>1 DEF HtsTypes
    <2>4. clean[t] => AllOk /\ ~At(Other(t), "calibrate")
      BY <1>2 DEF CleanIsOk, At
    <2>. QED BY <1>2, <2>1, <2>2, <2>3, <2>4, CleanKept
  <1>. QED BY <1>3, <1>4, <1>5

(* The two reads of the sample's bytes *)
LEMMA SampleReadKeeps ==
  ASSUME HtsInv, NEW t \in Threads, ReadHigh(t) \/ ReadLow(t)
  PROVE  HtsInv'
  <1>. USE DEF HtsInv
  <1>1. PICK ok \in BOOLEAN, next \in {"low", "compute"}, seen \in SUBSET {"zero", "torn"} :
          /\ pc' = [pc EXCEPT ![t] = next]
          /\ clean' = [clean EXCEPT ![t] = @ /\ ok]
          /\ spoils' = [spoils EXCEPT ![t] = seen]
          /\ ok => seen = spoils[t]
    <2>1. CASE ReadHigh(t)
      <3>1. PICK ok \in BOOLEAN :
              /\ spoils' = [spoils EXCEPT ![t] = IF ok THEN @ ELSE {"zero"}]
              /\ clean' = [clean EXCEPT ![t] = @ /\ ok]
        BY <2>1 DEF ReadHigh
      <3>. WITNESS ok \in BOOLEAN, "low" \in {"low", "compute"}
      <3>2. (IF ok THEN spoils[t] ELSE {"zero"}) \in SUBSET {"zero", "torn"}
        BY DEF HtsTypes
      <3>. QED BY <2>1, <3>1, <3>2 DEF ReadHigh
    <2>2. CASE ReadLow(t)
      <3>1. PICK ok \in BOOLEAN :
              /\ spoils' = [spoils EXCEPT ![t] = IF ok THEN @ ELSE @ \cup {"zero"}]
              /\ clean' = [clean EXCEPT ![t] = @ /\ ok]
        BY <2>2 DEF ReadLow
      <3>. WITNESS ok \in BOOLEAN, "compute" \in {"low", "compute"}
      <3>2. (IF ok THEN spoils[t] ELSE spoils[t] \cup {"zero"}) \in SUBSET {"zero", "torn"}
        BY DEF HtsTypes
      <3>. QED BY <2>2, <3>1, <3>2 DEF ReadLow
    <2>. QED BY <2>1, <2>2
  <1>2. /\ pc[t] \in {"high", "low"} /\ reg[t] = 1 /\ Busy(t)
        /\ pc[t] = "high" => spoils[t] = {}
        /\ UNCHANGED <<cal, value, plan, reg>>
    BY DEF ReadHigh, ReadLow, At, Planned, Busy
  <1>3. HtsTypes'
    BY <1>1, <1>2 DEF HtsTypes, Stops
  <1>4. Planned'
    BY <1>1, <1>2, PlannedKept DEF HtsTypes, Planned
  <1>5. CleanIsOk'
    <2>1. clean'[t] => clean[t] /\ spoils'[t] = spoils[t]
      BY <1>1 DEF HtsTypes
    <2>2. \A u \in Threads \ {t} :
            pc'[u] = pc[u] /\ clean'[u] = clean[u] /\ spoils'[u] = spoils[u]
      BY <1>1 DEF HtsTypes
    <2>3. pc'[t] # "calibrate"
      BY <1>1 DEF HtsTypes
    <2>4. clean[t] => AllOk /\ ~At(Other(t), "calibrate") /\ spoils[t] \subseteq {"torn"}
      BY <1>2 DEF CleanIsOk, At
    <2>. QED BY <1>2, <2>1, <2>2, <2>3, <2>4, CleanKept
  <1>. QED BY <1>3, <1>4, <1>5

LEMMA ComputeKeeps ==
  ASSUME HtsInv, NEW t \in Threads, Compute(t)
  PROVE  HtsInv'
  <1>. USE DEF HtsInv
  <1>1. /\ pc[t] = "compute" /\ reg[t] = 1 /\ Busy(t)
        /\ pc' = [pc EXCEPT ![t] = "call"]
        /\ plan' = [plan EXCEPT ![t] = Tail(@)]
        /\ spoils' = [spoils EXCEPT ![t] = {}]
        /\ clean' = [clean EXCEPT ![t] = TRUE]
        /\ UNCHANGED <<cal, reg>>
    BY DEF Compute, At, Planned, Busy
  <1>2. /\ Tail(plan[t]) \in Seq(Calls) /\ Kind(t) \in Kinds
        /\ Tail(plan[t]) # <<>> /\ Tail(plan[t])[Len(Tail(plan[t]))].op = "read"
    BY <1>1, CallIs DEF Planned, At
  <1>3. HtsTypes'
    <2>1. Words(Kind(t)) \subseteq AllWords
      BY <1>2 DEF Words, AllWords, Kinds
    <2>2. Parts(Kind(t)) \subseteq PartStates
      BY <2>1 DEF Parts, HtsTypes
    <2>3. spoils[t] \cup (Parts(Kind(t)) \ {"ok"}) \in SUBSET {"none", "zero", "torn"}
      BY <2>2 DEF HtsTypes, PartStates
    <2>4. value' \in [Kinds -> SUBSET {"none", "zero", "torn"}]
      BY <1>2, <2>3 DEF HtsTypes, Compute
    <2>. QED BY <1>1, <1>2, <2>4 DEF HtsTypes, Stops
  <1>4. Planned'
    <2>1. pc'[t] = "call" /\ reg'[t] = 1 /\ spoils'[t] = {} /\ plan'[t] = Tail(plan[t])
      BY <1>1 DEF HtsTypes
    <2>2. \A u \in Threads \ {t} :
            pc'[u] = pc[u] /\ plan'[u] = plan[u] /\ reg'[u] = reg[u] /\ spoils'[u] = spoils[u]
      BY <1>1 DEF HtsTypes
    <2>. QED BY <1>2, <2>1, <2>2, PlannedKept
  <1>5. CleanIsOk'
    <2>1. \A u \in Threads \ {t} :
            pc'[u] = pc[u] /\ clean'[u] = clean[u] /\ spoils'[u] = spoils[u]
      BY <1>1 DEF HtsTypes
    <2>2. pc'[t] = "call" /\ ~Busy(t)'
      BY <1>1 DEF HtsTypes, Busy
    <2>. QED BY <1>1, <2>1, <2>2, CleanKept
  <1>. QED BY <1>3, <1>4, <1>5

LEMMA ReadKeeps ==
  ASSUME HtsInv, NEW t \in Threads, Read(t)
  PROVE  HtsInv'
  <1>. USE DEF HtsInv
  <1>1. /\ pc[t] = "call" /\ reg[t] = 1 /\ spoils[t] = {}
        /\ plan' = [plan EXCEPT ![t] = Tail(@)]
        /\ pc' = [pc EXCEPT ![t] = IF Len(plan[t]) = 1 THEN "idle" ELSE "call"]
        /\ UNCHANGED <<cal, value, reg, spoils, clean>>
    BY DEF Read, At, Planned
  <1>2. /\ Tail(plan[t]) \in Seq(Calls)
        /\ Len(plan[t]) # 1 =>
             Tail(plan[t]) # <<>> /\ Tail(plan[t])[Len(Tail(plan[t]))].op = "read"
    BY <1>1, CallIs DEF At
  <1>3. HtsTypes'
    BY <1>1, <1>2 DEF HtsTypes, Stops
  <1>4. Planned'
    <2>1. /\ pc'[t] = (IF Len(plan[t]) = 1 THEN "idle" ELSE "call") /\ plan'[t] = Tail(plan[t])
          /\ reg'[t] = 1 /\ spoils'[t] = {}
          /\ \A u \in Threads \ {t} :
               pc'[u] = pc[u] /\ plan'[u] = plan[u] /\ reg'[u] = reg[u] /\ spoils'[u] = spoils[u]
      BY <1>1 DEF HtsTypes
    <2>. QED BY <1>2, <2>1, PlannedKept
  <1>5. CleanIsOk'
    BY <1>1, CleanKept DEF HtsTypes, Busy
  <1>. QED BY <1>3, <1>4, <1>5

LEMMA SampleKeeps ==
  ASSUME HtsInv, Sample
  PROVE  HtsInv'
  <1>. USE DEF HtsInv
  <1>1. UNCHANGED <<cal, value, pc, plan, reg, clean>>
    BY DEF Sample
  <1>2. spoils' = [t \in Threads |-> IF At(t, "low") THEN spoils[t] \cup {"torn"} ELSE spoils[t]]
    BY DEF Sample
  <1>3. HtsTypes'
    BY <1>1, <1>2 DEF HtsTypes
  <1>4. Planned'
    BY <1>1, <1>2 DEF Planned, Busy, At
  <1>5. CleanIsOk'
    BY <1>1, <1>2 DEF CleanIsOk, Busy, At, AllOk, GivenLower, GivenUpper
  <1>. QED BY <1>3, <1>4, <1>5

LEMMA HtsNextKeeps == HtsInv /\ [HtsNext]_htsVars => HtsInv'
  <1>. SUFFICES ASSUME HtsInv, [HtsNext]_htsVars PROVE HtsInv'
    OBVIOUS
  <1>1. CASE UNCHANGED htsVars
    BY <1>1 DEF HtsInv, htsVars, threadVars, HtsTypes, Planned, CleanIsOk, Busy, At, AllOk,
       GivenLower, GivenUpper
  <1>2. CASE Sample
    BY <1>2, SampleKeeps
  <1>3. ASSUME NEW t \in Threads, Begin(t) \/ Step(t)
        PROVE  HtsInv'
    BY <1>3, BeginKeeps, GetKeeps, RepeatKeeps, CalibrationKeeps, ReadStatusKeeps,
       SampleReadKeeps, ComputeKeeps, ReadKeeps DEF Step
  <1>. QED BY <1>1, <1>2, <1>3 DEF HtsNext

(* What a thread computes alone has no unread or failed part in it.          *)
LEMMA ComputesExactly ==
  ASSUME HtsInv, NEW t \in Threads, Compute(t), clean[t]
  PROVE  value'[Kind(t)] \subseteq {"torn"}
  <1>. USE DEF HtsInv
  <1>1. pc[t] = "compute" /\ Busy(t) /\ Kind(t) \in Kinds
    BY CallIs DEF Compute, At, Busy
  <1>2. AllOk /\ spoils[t] \subseteq {"torn"}
    BY <1>1 DEF CleanIsOk, At
  <1>3. Words(Kind(t)) \subseteq AllWords
    BY <1>1 DEF Words, AllWords, Kinds
  <1>4. Parts(Kind(t)) \subseteq {"ok"}
    BY <1>2, <1>3 DEF Parts, AllOk
  <1>. QED BY <1>1, <1>2, <1>4 DEF Compute, HtsTypes

(* A value that a thread computes without another thread's reading or a      *)
(* failed access in between is exact (HTS221.cpp, getCalibration and the     *)
(* two getters), for any number of rounds of both threads and of failures.   *)
THEOREM ExactAlone == HtsSpec => AloneIsExact
  <1>1. HtsInv /\ [HtsNext]_htsVars =>
          [\A t \in Threads : Compute(t) /\ clean[t] => value'[Kind(t)] \subseteq {"torn"}]_htsVars
    BY ComputesExactly
  <1>. QED BY <1>1, HtsInitHolds, HtsNextKeeps, PTL DEF HtsSpec, AloneIsExact
=============================================================================
