----------------------------- MODULE M2XSensors -----------------------------
(***************************************************************************)
(* Timed uploads to M2X, m2x.c: tx2m2x Y X Z starts a job that sends device*)
(* Z's reading Y times, every X seconds.  The three devices have an        *)
(* iteration counter each and share one timer, whose callback serves every *)
(* counter that is not zero.  The last upload of a job cancels the timer   *)
(* through the same sensor_* function that main starts jobs with.          *)
(*                                                                         *)
(* Main runs the command, the timer thread the callback; each engine call  *)
(* is one step and so is each read or write of the shared handle.          *)
(***************************************************************************)
EXTENDS Integers, SequencesExt

CONSTANTS
  Devices,      \* <<"HTS221", "LIS2DW12", "ADC">>, in the callback's order
  Nodes,        \* addresses a timer_node may get, reused after free
  None,
  Counts,       \* numbers typed for Y, before the cast
  Periods,      \* numbers typed for X, before the cast
  MaxCommands,  \* bound on the tx2m2x commands
  MaxFailures,  \* bound on the failed create_IoTtimer calls
  Modes         \* when the user types commands: "ended", all the uploads of
                \* the last one are done (or a timer for them could not be
                \* created); "between", no callback runs and
                \* none starts while a command does (it has the first second
                \* of the timer to store its handle); "any", at any time

ASSUME DevicesAssumption == Devices \in Seq(STRING)
ASSUME NoneAssumption == None \notin Nodes
ASSUME BoundAssumption ==
  /\ Counts \subseteq Nat
  /\ Periods \subseteq Nat
  /\ MaxCommands \in Nat
  /\ MaxFailures \in Nat
  /\ Modes \subseteq {"ended", "between", "any"}

VARIABLES
  when,              \* which of the Modes this behaviour has
  iterations,        \* hts221_iterations, lis2dw12_iterations, adc_iterations
  m2x_sensor_timer,
  timers,            \* the engine's live nodes, with their intervals
  running,           \* IoTtimers_running, 1 of it held by wwan.c
  stray,             \* history: create_IoTtimer calls that failed
  job,               \* per thread: the sensor_* call it is in, or idle
  slot,              \* the callback's position in Devices, 0 outside it
  commands,
  owed               \* uploads promised by the last command for a device

vars == <<when, iterations, m2x_sensor_timer, timers, running, stray, job, slot,
          commands, owed>>

DevSet == {Devices[k] : k \in DOMAIN Devices}
Live == DOMAIN timers
Idle == [at |-> "idle", dev |-> None, ivl |-> 0, new |-> None]

(* (unsigned char)atoi(...) *)
Byte(n) == n % 256

Init ==
  /\ when \in Modes
  /\ iterations = [d \in DevSet |-> 0]
  /\ m2x_sensor_timer = None
  /\ timers = [n \in {} |-> 0]
  /\ running = 1
  /\ stray = 0
  /\ job = [a \in {"main", "timer"} |-> Idle]
  /\ slot = 0
  /\ commands = 0
  /\ owed = [d \in DevSet |-> 0]

-----------------------------------------------------------------------------
(* Mutant: the count is set only where a timer runs already.                *)
SensorEntersUncounted(a, d, ivl, count) ==
  LET at == IF m2x_sensor_timer = None THEN "start"
            ELSE IF ivl # 0 THEN "change" ELSE "kill"
  IN /\ job' = [job EXCEPT ![a] = [at |-> at, dev |-> d, ivl |-> ivl, new |-> None]]
     /\ iterations' = [iterations EXCEPT ![d] =
                         IF at = "kill" THEN 0 ELSE IF at = "start" THEN @ ELSE count]

(* sensor_hts221, sensor_lis2dw12 and sensor_adc differ only in the counter.*)
(* The handle decides between changing, killing and starting.               *)
SensorEnters(a, d, ivl, count) ==
  LET at == IF m2x_sensor_timer = None THEN "start"
            ELSE IF ivl # 0 THEN "change" ELSE "kill"
  IN /\ job' = [job EXCEPT ![a] = [at |-> at, dev |-> d, ivl |-> ivl, new |-> None]]
     /\ iterations' = [iterations EXCEPT ![d] = IF at = "kill" THEN 0 ELSE count]

Goto(a, at) == job' = [job EXCEPT ![a].at = at]

(* Nothing of this module runs on: the process died, or the engine stopped. *)
Over == job' = [b \in DOMAIN job |-> [Idle EXCEPT !.at = "over"]]

(* delete_IoTtimer(m2x_sensor_timer): freeing a node twice, when the other  *)
(* thread has deleted it meanwhile, ends the process; a null id is ignored. *)
SensorDeletes(a) ==
  /\ job[a].at \in {"change", "kill"}
  /\ IF m2x_sensor_timer \notin Live \cup {None}
       THEN /\ Over
            /\ UNCHANGED timers
       ELSE /\ timers' = [n \in Live \ {m2x_sensor_timer} |-> timers[n]]
            /\ Goto(a, IF job[a].at = "change" THEN "create" ELSE "stop")
  /\ UNCHANGED <<when, iterations, m2x_sensor_timer, running, stray, slot, commands, owed>>

(* start_IoTtimers *)
SensorStarts(a) ==
  /\ job[a].at = "start"
  /\ running' = running + 1
  /\ Goto(a, "create")
  /\ UNCHANGED <<when, iterations, m2x_sensor_timer, timers, stray, slot, commands, owed>>

(* create_IoTtimer, which returns 0 when the memory or the timer cannot be  *)
(* had.  Nobody checks: the reference taken for the timer stays, and so does *)
(* the device's count.                                                       *)
SensorCreates(a) ==
  /\ job[a].at = "create"
  /\ \/ \E n \in Nodes \ Live :
          /\ timers' = [m \in Live \cup {n} |-> IF m = n THEN job[a].ivl ELSE timers[m]]
          /\ job' = [job EXCEPT ![a].at = "store", ![a].new = n]
          /\ UNCHANGED stray
     \/ /\ stray < MaxFailures
        /\ stray' = stray + 1
        /\ job' = [job EXCEPT ![a].at = "store", ![a].new = None]
        /\ UNCHANGED timers
  /\ UNCHANGED <<when, iterations, m2x_sensor_timer, running, slot, commands, owed>>

(* The handle is whatever was returned.  sensor_hts221 and sensor_adc go on *)
(* to start the data service, which touches none of this.                    *)

SensorStores(a) ==
  /\ job[a].at = "store"
  /\ m2x_sensor_timer' = job[a].new
  /\ job' = [job EXCEPT ![a] = Idle]
  /\ UNCHANGED <<when, iterations, timers, running, stray, slot, commands, owed>>

(* Mutant: the killed timer's id stays in the handle. *)
SensorStopsKeepingId(a) ==
  /\ job[a].at = "stop"
  /\ running' = running - 1
  /\ IF running = 1 THEN Over ELSE job' = [job EXCEPT ![a] = Idle]
  /\ UNCHANGED <<when, iterations, m2x_sensor_timer, timers, stray, slot, commands, owed>>

(* stop_IoTtimers, and the handle is cleared.  wwan.c holds a reference, so *)
(* the engine runs on, unless a job was cancelled twice at once.             *)
SensorStops(a) ==
  /\ job[a].at = "stop"
  /\ running' = running - 1
  /\ m2x_sensor_timer' = None
  /\ IF running = 1 THEN Over ELSE job' = [job EXCEPT ![a] = Idle]
  /\ UNCHANGED <<when, iterations, timers, stray, slot, commands, owed>>

-----------------------------------------------------------------------------
(* command_tx2m2x *)
Tx2M2X(d, y, x) ==
  /\ job["main"].at = "idle"
  /\ commands < MaxCommands
  /\ commands' = commands + 1
  /\ when # "any" => slot = 0
  /\ when = "ended" => /\ stray = 0 => \A e \in DevSet : owed[e] = 0
                       /\ x \in 1..255 /\ y \in 1..255
  /\ SensorEnters("main", d, Byte(x), Byte(y))
  /\ owed' = [owed EXCEPT ![d] = IF x = 0 THEN 0 ELSE y]
  /\ UNCHANGED <<when, m2x_sensor_timer, timers, running, stray, slot>>

(* The timer thread starts tx2m2x_timer. *)
TimerFires ==
  /\ job["timer"].at = "idle"
  /\ slot = 0
  /\ \E n \in Live : timers[n] # 0
  /\ when # "any" => job["main"].at = "idle"
  /\ slot' = 1
  /\ UNCHANGED <<when, iterations, m2x_sensor_timer, timers, running, stray, job, commands, owed>>

(* One device of tx2m2x_timer: a counter that is not zero is served.  The   *)
(* upload takes seconds (sensor, MAL and two HTTP requests).                 *)
Upload ==
  /\ job["timer"].at = "idle"
  /\ slot \in DOMAIN Devices
  /\ iterations[Devices[slot]] # 0
  /\ job' = [job EXCEPT !["timer"] = [Idle EXCEPT !.at = "sending", !.dev = Devices[slot]]]
  /\ UNCHANGED <<when, iterations, m2x_sensor_timer, timers, running, stray, slot, commands, owed>>

(* The count goes down after the upload, from what it is then; every value  *)
(* below zero is -1.  At zero the timer is cancelled.                        *)
Uploaded ==
  /\ job["timer"].at = "sending"
  /\ LET d == job["timer"].dev IN
       /\ owed' = [owed EXCEPT ![d] = IF @ > 0 THEN @ - 1 ELSE 0]
       /\ IF iterations[d] = 1
            THEN SensorEnters("timer", d, 0, 0)
            ELSE /\ iterations' = [iterations EXCEPT ![d] = IF @ < 1 THEN -1 ELSE @ - 1]
                 /\ job' = [job EXCEPT !["timer"] = Idle]
  /\ slot' = slot + 1
  /\ UNCHANGED <<when, m2x_sensor_timer, timers, running, stray, commands>>

SkipDevice ==
  /\ job["timer"].at = "idle"
  /\ slot \in DOMAIN Devices
  /\ iterations[Devices[slot]] = 0
  /\ slot' = slot + 1
  /\ UNCHANGED <<when, iterations, m2x_sensor_timer, timers, running, stray, job, commands, owed>>

TimerReturns ==
  /\ job["timer"].at = "idle"
  /\ slot > Len(Devices)
  /\ slot' = 0
  /\ UNCHANGED <<when, iterations, m2x_sensor_timer, timers, running, stray, job, commands, owed>>

SensorSteps(a) ==
  \/ SensorDeletes(a)
  \/ SensorStarts(a)
  \/ SensorCreates(a)
  \/ SensorStores(a)
  \/ SensorStops(a)

TimerSteps ==
  \/ TimerFires
  \/ Upload
  \/ Uploaded
  \/ SkipDevice
  \/ TimerReturns

Next ==
  \/ \E d \in DevSet, y \in Counts, x \in Periods : Tx2M2X(d, y, x)
  \/ \E a \in {"main", "timer"} : SensorSteps(a)
  \/ TimerSteps

Spec == Init /\ [][Next]_vars

(* A call returns, a callback returns (the sensors answer), and an armed    *)
(* timer keeps being served (IoTTimers, DueIsServed).                       *)
FairSpec ==
  /\ Spec
  /\ WF_vars(SensorSteps("main"))
  /\ WF_vars(SensorSteps("timer"))
  /\ WF_vars(TimerSteps)

-----------------------------------------------------------------------------
(* Whatever overlaps, a count stays what an unsigned char holds, or drops   *)
(* below zero when a job is cancelled during its upload.                     *)
TypeOK ==
  /\ iterations \in [DevSet -> -1..255]
  /\ m2x_sensor_timer \in Nodes \cup {None}
  /\ Live \subseteq Nodes
  /\ \A n \in Live : timers[n] \in 0..255
  /\ running \in Nat
  /\ stray \in 0..MaxFailures
  /\ job \in [{"main", "timer"} ->
               [at : {"idle", "start", "change", "kill", "create", "store", "stop",
                      "sending", "over"},
                dev : DevSet \cup {None}, ivl : 0..255, new : Nodes \cup {None}]]
  /\ slot \in 0..(Len(Devices) + 1)
  /\ commands \in 0..MaxCommands
  /\ owed \in [DevSet -> Nat]

Quiet == slot = 0 /\ \A a \in {"main", "timer"} : job[a].at = "idle"

(* As long as commands and callbacks do not overlap, the handle is the one  *)
(* timer the jobs have, and they hold one reference to the engine for it:    *)
(* none is leaked or dropped, whichever of the four paths through sensor_*   *)
(* main and the callback take, and in which order, but for the one that each *)
(* create_IoTtimer that failed has left behind.  Until one has failed, a job *)
(* that ran alone and is over leaves nothing that would send again.          *)
HandleIsTheTimer ==
  /\ (when # "any" /\ Quiet) =>
       /\ Live = {m2x_sensor_timer} \ {None}
       /\ running = (IF m2x_sensor_timer = None THEN 1 ELSE 2) + stray
  /\ (when = "ended" /\ stray = 0 /\ Quiet /\ \A d \in DevSet : owed[d] = 0) =>
       /\ m2x_sensor_timer = None
       /\ \A d \in DevSet : iterations[d] = 0

(* A job that runs alone sends as often as it was told to, if its timer and *)
(* those before it could be created.                                         *)
LoneJobEnds ==
  \A d \in DevSet : (when = "ended" /\ owed[d] > 0) ~> (owed[d] = 0 \/ stray > 0)
=============================================================================
