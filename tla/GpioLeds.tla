------------------------------ MODULE GpioLeds ------------------------------
(***************************************************************************)
(* The user LEDs, binio.c: the blink command gives each of three pins a    *)
(* periodic timer whose callback toggles the pin, and the factory test     *)
(* (facttest.cpp) borrows the same callback to cycle the three colours.    *)
(* Main runs the commands, the timer thread the callbacks.                 *)
(*                                                                         *)
(* Of the engine (IoTTimers) this module keeps the nodes that exist and    *)
(* are armed, the reference count, and the callback in flight: the thread  *)
(* has looked a node up and not finished with it while main goes on.  A     *)
(* create may fail; a failure to start the thread is IoTTimers' business.    *)
(***************************************************************************)
EXTENDS Naturals, FiniteSets

CONSTANTS
  Nodes,        \* addresses a timer_node may get, reused after free
  None,
  Intervals,    \* intervals typed at the prompt, 0 stops
  MaxCommands,  \* bound on the blink and factory test commands
  MaxFailures,  \* bound on the timers that cannot be created
  Programs      \* "monitor", "emissions": what main.cpp was started for

ASSUME NoneAssumption == None \notin Nodes
ASSUME BoundAssumption ==
  /\ Intervals \subseteq Nat
  /\ MaxCommands \in Nat /\ MaxFailures \in Nat
  /\ Programs \subseteq {"monitor", "emissions"}

Pins == 0 .. 2   \* gpios[]: the red, green and blue LED

VARIABLES
  program,   \* which of the Programs runs
  timr,      \* gpios[i].timr
  rate,      \* gpios[i].rate
  val,       \* gpios[i].val
  level,     \* what was written to the pin last
  ft_mode,
  timers,    \* the engine's live nodes, with their intervals
  running,   \* IoTtimers_running
  cb,        \* the node whose callback is in flight
  pc,        \* where main is inside do_gpio_blink
  pin, ivl, new,  \* the pin and interval of the call, what create returned
  stray,     \* history: the references whose timer could not be created
  testing,   \* how far main is in the factory or emissions test
  commands

engineVars == <<timers, running, stray>>
callVars == <<pin, ivl, new>>
gpioVars == <<timr, rate, val, level>>
vars == <<program, gpioVars, ft_mode, engineVars, cb, pc, callVars, testing, commands>>

(* The references the rest of the program holds: wwan.c's in the monitor.   *)
Held == IF program = "monitor" THEN 1 ELSE 0

Init ==
  /\ program \in Programs
  /\ timr = [i \in Pins |-> None]
  /\ rate = [i \in Pins |-> 0]
  /\ val = [i \in Pins |-> 0]
  /\ level = [i \in Pins |-> 0]
  /\ ft_mode = 0
  /\ timers = [n \in {} |-> 0]
  /\ running = Held
  /\ stray = 0
  /\ cb = None
  /\ pc = "prompt"
  /\ pin = 0
  /\ ivl = 0
  /\ new = None
  /\ testing = "no"
  /\ commands = 0

Live == DOMAIN timers
Forget(n) == [m \in Live \ {n} |-> timers[m]]

-----------------------------------------------------------------------------
(* do_gpio_blink(i, t): a running timer is deleted first, to be replaced or *)
(* to stop; without one a reference is taken and a timer started, whatever  *)
(* the interval.                                                            *)
Enter(i, t) ==
  /\ pc = "prompt"
  /\ pin' = i
  /\ ivl' = t
  /\ IF timr[i] # None
       THEN /\ timers' = Forget(timr[i])
            /\ pc' = IF t # 0 THEN "change" ELSE "stop"
            /\ UNCHANGED running
       ELSE /\ running' = running + 1
            /\ pc' = "start"
            /\ UNCHANGED timers
  /\ UNCHANGED <<program, gpioVars, cb, new, stray>>

(* create_IoTtimer; malloc may return an address freed just before.  When   *)
(* there is no memory or no descriptor it returns 0.                         *)
Create ==
  /\ pc \in {"start", "change"}
  /\ \/ \E n \in Nodes \ Live :
          /\ new' = n
          /\ timers' = [m \in Live \cup {n} |-> IF m = n THEN ivl ELSE timers[m]]
     \/ /\ stray < MaxFailures
        /\ new' = None
        /\ UNCHANGED timers
  /\ pc' = IF pc = "start" THEN "started" ELSE "changed"
  /\ UNCHANGED <<program, gpioVars, ft_mode, running, stray, cb, pin, ivl, testing, commands>>

(* Mutant: the pin of a failed create keeps the id of the deleted timer. *)
RecordUnlessFailed ==
  /\ pc \in {"started", "changed"}
  /\ timr' = IF new = None THEN timr ELSE [timr EXCEPT ![pin] = new]
  /\ rate' = [rate EXCEPT ![pin] = ivl]
  /\ IF pc = "started"
       THEN /\ val' = [val EXCEPT ![pin] = 1]
            /\ level' = [level EXCEPT ![pin] = 1]
       ELSE UNCHANGED <<val, level>>
  /\ stray' = IF new = None THEN stray + 1 ELSE stray
  /\ pc' = "prompt"
  /\ UNCHANGED <<program, ft_mode, timers, running, cb, callVars, testing, commands>>

(* What create returned goes to gpios[] unchecked; a pin that was not       *)
(* blinking is lit.  With 0 recorded the pin counts as not blinking, and    *)
(* its reference belongs to nobody.                                          *)
Record ==
  /\ pc \in {"started", "changed"}
  /\ timr' = [timr EXCEPT ![pin] = new]
  /\ rate' = [rate EXCEPT ![pin] = ivl]
  /\ IF pc = "started"
       THEN /\ val' = [val EXCEPT ![pin] = 1]
            /\ level' = [level EXCEPT ![pin] = 1]
       ELSE UNCHANGED <<val, level>>
  /\ stray' = IF new = None THEN stray + 1 ELSE stray
  /\ pc' = "prompt"
  /\ UNCHANGED <<program, ft_mode, timers, running, cb, callVars, testing, commands>>

(* Mutant: the entry is cleared while a callback is still in flight. *)
ClearWithoutJoin ==
  /\ pc = "stop"
  /\ running' = running - 1
  /\ timr' = [timr EXCEPT ![pin] = None]
  /\ rate' = [rate EXCEPT ![pin] = 0]
  /\ val' = [val EXCEPT ![pin] = 0]
  /\ pc' = "prompt"
  /\ UNCHANGED <<program, level, ft_mode, timers, stray, cb, callVars, testing, commands>>

(* stop_IoTtimers, which as the last user waits for the callback in flight; *)
(* then the entry is cleared.                                               *)
Clear ==
  /\ pc = "stop"
  /\ running = 1 => cb = None
  /\ running' = running - 1
  /\ timr' = [timr EXCEPT ![pin] = None]
  /\ rate' = [rate EXCEPT ![pin] = 0]
  /\ val' = [val EXCEPT ![pin] = 0]
  /\ pc' = "prompt"
  /\ UNCHANGED <<program, level, ft_mode, timers, stray, cb, callVars, testing, commands>>

-----------------------------------------------------------------------------
(* The blink command of the monitor. *)
Blink ==
  /\ program = "monitor"
  /\ commands < MaxCommands
  /\ commands' = commands + 1
  /\ testing = "no"
  /\ \E i \in Pins, t \in Intervals : Enter(i, t)
  /\ UNCHANGED <<ft_mode, testing>>

(* command_facttest, called from the monitor: switch to factory mode, ...   *)
TestBegins ==
  /\ program = "monitor"
  /\ commands < MaxCommands
  /\ commands' = commands + 1
  /\ pc = "prompt"
  /\ testing = "no"
  /\ testing' = "begun"
  /\ ft_mode' = IF ft_mode = 0 THEN 2 ELSE ft_mode
  /\ UNCHANGED <<program, gpioVars, engineVars, cb, pc, callVars>>

(* ... blink through the red LED's timer, ...                               *)
TestBlinks ==
  /\ testing = "begun"
  /\ testing' = "blinking"
  /\ Enter(0, 1)
  /\ UNCHANGED <<ft_mode, commands>>

(* ... stop it, ...                                                         *)
TestStopsBlinking ==
  /\ testing = "blinking"
  /\ testing' = "stopping"
  /\ Enter(0, 0)
  /\ UNCHANGED <<ft_mode, commands>>

(* ... and restore the mode. *)
TestEnds ==
  /\ testing = "stopping"
  /\ pc = "prompt"
  /\ testing' = "no"
  /\ ft_mode' = IF ft_mode = 2 THEN 0 ELSE ft_mode
  /\ UNCHANGED <<program, gpioVars, engineVars, cb, pc, callVars, commands>>

(* do_emissions_test runs without the monitor: factory mode 1, the red      *)
(* LED's timer, ...                                                         *)
EmissionsBegin ==
  /\ program = "emissions"
  /\ testing = "no"
  /\ testing' = "emitting"
  /\ ft_mode' = 1
  /\ Enter(0, 1)
  /\ UNCHANGED commands

(* ... on the key press the mode is left and the timer stopped, ...         *)
EmissionsEnd ==
  /\ testing = "emitting"
  /\ testing' = "darkening"
  /\ ft_mode' = 0
  /\ Enter(0, 0)
  /\ UNCHANGED commands

(* ... and the LEDs are put out. *)
EmissionsDarken ==
  /\ testing = "darkening"
  /\ pc = "prompt"
  /\ testing' = "dark"
  /\ level' = [i \in Pins |-> 0]
  /\ UNCHANGED <<program, timr, rate, val, ft_mode, engineVars, cb, pc, callVars, commands>>

-----------------------------------------------------------------------------
(* The timer thread has read an expired timer and found its node. *)
Lookup(n) ==
  /\ pc # "dead"
  /\ cb = None
  /\ timers[n] # 0
  /\ cb' = n
  /\ UNCHANGED <<program, gpioVars, ft_mode, engineVars, pc, callVars, testing, commands>>

(* gpio_timer_task in factory mode: red, blue, green, red ... *)
Cycle ==
  /\ ft_mode # 0
  /\ \/ ft_mode = 1 /\ level' = [level EXCEPT ![1] = 0, ![0] = 1]
     \/ ft_mode = 2 /\ level' = [level EXCEPT ![0] = 0, ![2] = 1]
     \/ ft_mode = 3 /\ level' = [level EXCEPT ![2] = 0, ![1] = 1]
  /\ ft_mode' = IF ft_mode = 3 THEN 1 ELSE ft_mode + 1
  /\ UNCHANGED val

(* Otherwise the pin whose entry holds the timer's id is toggled; the search*)
(* that finds no entry ends on the last pin.                                *)
Found == {i \in Pins : timr[i] = cb}
Target == IF Found = {} THEN 2 ELSE CHOOSE i \in Found : \A j \in Found : i <= j

(* Mutant: the search stops one pin short. *)
ToggleShort ==
  /\ ft_mode = 0
  /\ LET i == IF Target = 2 THEN 1 ELSE Target IN
       /\ val' = [val EXCEPT ![i] = 1 - @]
       /\ level' = [level EXCEPT ![i] = 1 - val[i]]
  /\ UNCHANGED ft_mode

Toggle ==
  /\ ft_mode = 0
  /\ val' = [val EXCEPT ![Target] = 1 - @]
  /\ level' = [level EXCEPT ![Target] = 1 - val[Target]]
  /\ UNCHANGED ft_mode

(* The callback reads its node first: if main has deleted the timer since   *)
(* the lookup that memory is stale, or the process crashes.                 *)
GpioTimerTask ==
  /\ cb # None
  /\ pc # "dead"
  /\ \/ (Cycle \/ Toggle) /\ UNCHANGED pc
     \/ cb \notin Live /\ pc' = "dead" /\ UNCHANGED <<val, level, ft_mode>>
  /\ cb' = None
  /\ UNCHANGED <<program, timr, rate, engineVars, callVars, testing, commands>>

Next ==
  \/ Blink
  \/ TestBegins \/ TestBlinks \/ TestStopsBlinking \/ TestEnds
  \/ EmissionsBegin \/ EmissionsEnd \/ EmissionsDarken
  \/ Create \/ Record \/ Clear
  \/ \E n \in Live : Lookup(n)
  \/ GpioTimerTask

Spec == Init /\ [][Next]_vars

(* Calls of main return, callbacks return, and every armed timer keeps being*)
(* served (IoTTimers, DueIsServed).                                         *)
FairSpec ==
  /\ Spec
  /\ WF_vars(Create \/ Record \/ Clear)
  /\ WF_vars(GpioTimerTask)
  /\ \A n \in Nodes : SF_vars(n \in Live /\ Lookup(n))

-----------------------------------------------------------------------------
(* Every variable keeps to its type. *)
TypeOK ==
  /\ program \in Programs
  /\ timr \in [Pins -> Nodes \cup {None}]
  /\ rate \in [Pins -> Intervals \cup {0, 1}]
  /\ val \in [Pins -> {0, 1}]
  /\ level \in [Pins -> {0, 1}]
  /\ ft_mode \in 0 .. 3
  /\ Live \subseteq Nodes /\ \A n \in Live : timers[n] \in Intervals \cup {0, 1}
  /\ running \in Nat /\ stray \in 0 .. MaxFailures
  /\ cb \in Nodes \cup {None}
  /\ pc \in {"prompt", "start", "change", "stop", "started", "changed", "dead"}
  /\ testing \in {"no", "begun", "blinking", "stopping",
                  "emitting", "darkening", "dark"}

(* Between commands each blinking pin owns one timer and one reference.     *)
(* Nothing else has a timer, and besides the pins and the rest of the        *)
(* program only the creates that failed keep a reference, one each: no other*)
(* sequence of starts, rate changes, stops and tests leaks a timer or a      *)
(* reference, or stops the engine under a pin that blinks.                    *)
TimersBalanced ==
  pc = "prompt" =>
    LET blinking == {i \in Pins : timr[i] # None}
    IN /\ Live = {timr[i] : i \in blinking}
       /\ Cardinality(Live) = Cardinality(blinking)
       /\ running = Held + Cardinality(blinking) + stray
       /\ \A i \in blinking : timers[timr[i]] = rate[i]

(* A pin left blinking outside factory mode goes on and off forever.        *)
Blinks ==
  \A i \in Pins :
    <>[](pc = "prompt" /\ ft_mode = 0 /\ timr[i] # None /\ rate[i] > 0)
      => []<>(level[i] = 0) /\ []<>(level[i] = 1)

(* After the emissions test the LEDs stay dark: no callback outlives the    *)
(* stop_IoTtimers that precedes the last writes.                            *)
DarkAfterEmissions == testing = "dark" => \A i \in Pins : level[i] = 0

=============================================================================
