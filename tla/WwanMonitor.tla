---------------------------- MODULE WwanMonitor ----------------------------
(***************************************************************************)
(* The WWAN LED, wwan.c: every 125 ms the timer thread asks the MAL manager*)
(* for the network state (up to three transactions of mal.cpp) and shows it*)
(* on the LED, with a second timer when the LED blinks.  Meanwhile main    *)
(* runs MAL transactions of its own and may write the LED (wwanled and the *)
(* demos).  mal_busy is the only thing the two threads agree on.           *)
(*                                                                         *)
(* Callbacks do not overlap (IoTTimers), so the timer thread is one        *)
(* process.  wwan_rate is written and never read: it is left out.          *)
(***************************************************************************)
EXTENDS Naturals

CONSTANTS
  MaxRequests,   \* bound on what main does
  MaxChanges,    \* bound on the changes of the network
  MaxFaults      \* bound on the MAL transactions of the timer thread that
                 \* go wrong

ASSUME WwanBounds ==
  MaxRequests \in Nat /\ MaxChanges \in Nat /\ MaxFaults \in Nat

VARIABLES
  net,             \* the network: "none", "signal", "online" or "address"
  changes,         \* how often it changed
  mal_busy,
  inMal,           \* the threads inside send_mal_command
  faults,          \* how many of them went wrong
  requests,        \* what main has done so far
  tpc,             \* what the timer thread will ask next
  ipAnswer,        \* what the last address query of the timer thread got
  wwan_state,
  last_wwan_state,
  wwan_timr,       \* the period of the blink timer, 0 when there is none
  wwan_val,
  led,             \* the brightness written last
  lost             \* history: the blink timer asked for last was not created

malVars == <<mal_busy, inMal>>
ledVars == <<wwan_state, last_wwan_state, wwan_timr, wwan_val, led, lost>>
wwanVars == <<net, changes, malVars, faults, requests, tpc, ipAnswer, ledVars>>

Networks == {"none", "signal", "online", "address"}

WwanInit ==
  /\ net = "none"
  /\ changes = 0
  /\ mal_busy = 0
  /\ inMal = {}
  /\ faults = 0
  /\ requests = 0
  /\ tpc = "idle"
  /\ ipAnswer = "unasked"
  /\ wwan_state = 0
  /\ last_wwan_state = 0
  /\ wwan_timr = 0
  /\ wwan_val = 0
  /\ led = 0
  /\ lost = FALSE

Running == tpc # "dead"

-----------------------------------------------------------------------------
(* send_mal_command: the flag is set on entry and cleared on every way out. *)
BeginMal(t) ==
  /\ t \notin inMal
  /\ inMal' = inMal \cup {t}
  /\ mal_busy' = 1

EndMal(t) ==
  /\ t \in inMal
  /\ inMal' = inMal \ {t}
  /\ mal_busy' = 0

(* What a query about p answers: the truth now; when the manager reports an *)
(* error, the error text; when the transaction fails nothing is received,   *)
(* and the uninitialized reply parses to an old answer or not at all.       *)
Answers(p, r) ==
  \/ r = (IF p THEN "yes" ELSE "no") /\ UNCHANGED faults
  \/ /\ r \in {"yes", "no", "error", "null"}
     /\ faults < MaxFaults
     /\ faults' = faults + 1

Replies == {"yes", "no", "error", "null"}

(* Mutant: a running blink timer is not replaced by one of another rate. *)
BlinkKeepingRate(s, interval) ==
  IF last_wwan_state = s THEN UNCHANGED <<last_wwan_state, wwan_timr, wwan_val, lost>>
  ELSE /\ last_wwan_state' = s
       /\ wwan_timr' = IF wwan_timr # 0 /\ interval # 0 THEN wwan_timr ELSE interval
       /\ wwan_val' = IF interval # 0 /\ wwan_timr # 0 THEN wwan_val ELSE 0
       /\ lost' = FALSE

(* wwan_blink for state s: a state shown already is left alone; otherwise   *)
(* the blink timer is created, replaced or removed.  The LED write of the   *)
(* last case is overwritten by the one that follows it in drive_wwan_io.    *)
(* A timer that cannot be created (the handle is 0) is not missed.           *)
wwan_blink(s, interval) ==
  IF last_wwan_state = s THEN UNCHANGED <<last_wwan_state, wwan_timr, wwan_val, lost>>
  ELSE /\ last_wwan_state' = s
       /\ \/ wwan_timr' = interval /\ lost' = FALSE
          \/ interval # 0 /\ wwan_timr' = 0 /\ lost' = TRUE
       /\ wwan_val' = IF interval # 0 /\ wwan_timr # 0 THEN wwan_val ELSE 0

(* State 4: an address, LED on.  State 3: on-line, fast.  State 2: signal,  *)
(* slow.  State 1: nothing, LED off.                                        *)
Interval(s) == CASE s = 3 -> 250 [] s = 2 -> 500 [] OTHER -> 0

(* Mutant: the LED is written only when the state changes. *)
ShowOnChange(s) ==
  /\ wwan_state' = s
  /\ wwan_blink(s, Interval(s))
  /\ led' = CASE s = 4 /\ last_wwan_state # 4 -> 1
             [] s = 1 /\ last_wwan_state # 1 -> 0
             [] OTHER -> led

Show(s) ==
  /\ wwan_state' = s
  /\ wwan_blink(s, Interval(s))
  /\ led' = CASE s = 4 -> 1 [] s = 1 -> 0 [] OTHER -> led

-----------------------------------------------------------------------------
(* wwan_mon_task: drive_wwan_io gives up at once when the MAL is busy. *)
MonTick ==
  /\ tpc = "idle"
  /\ tpc' = IF mal_busy = 1 THEN "idle" ELSE "address"
  /\ UNCHANGED <<net, changes, malVars, faults, requests, ipAnswer, ledVars>>

Ask ==
  /\ tpc \in {"address", "mode", "status"}
  /\ BeginMal("timer")
  /\ UNCHANGED <<net, changes, faults, requests, tpc, ipAnswer, ledVars>>

Crash == tpc' = "dead" /\ UNCHANGED <<ipAnswer, ledVars>>

(* get_ipAddr: any text but "0.0.0.0" counts as an address, an error text   *)
(* included; a reply that does not parse is a null pointer.                 *)
GotAddress ==
  /\ tpc = "address"
  /\ EndMal("timer")
  /\ \E r \in Replies :
       /\ Answers(net = "address", r)
       /\ \/ r = "null" /\ Crash
          \/ /\ r \in {"yes", "error"}
             /\ ipAnswer' = r
             /\ Show(4)
             /\ tpc' = "idle"
          \/ /\ r = "no"
             /\ ipAnswer' = r
             /\ tpc' = "mode"
             /\ UNCHANGED ledVars
  /\ UNCHANGED <<net, changes, requests>>

(* getOperatingMode: 0 is on-line, and so is an error text. *)
GotMode ==
  /\ tpc = "mode"
  /\ EndMal("timer")
  /\ \E r \in Replies :
       /\ Answers(net \in {"online", "address"}, r)
       /\ \/ r = "null" /\ Crash
          \/ /\ r \in {"yes", "error"}
             /\ Show(3)
             /\ tpc' = "idle"
             /\ UNCHANGED ipAnswer
          \/ /\ r = "no"
             /\ tpc' = "status"
             /\ UNCHANGED <<ipAnswer, ledVars>>
  /\ UNCHANGED <<net, changes, requests>>

(* get_wwan_status: the parse result is ignored and its table was cleared,  *)
(* so only a real signal value is nonzero.                                  *)
GotStatus ==
  /\ tpc = "status"
  /\ EndMal("timer")
  /\ \E r \in Replies :
       /\ Answers(net # "none", r)
       /\ Show(IF r = "yes" THEN 2 ELSE 1)
  /\ tpc' = "idle"
  /\ UNCHANGED <<net, changes, requests, ipAnswer>>

(* wwan_timer_task: toggle. *)
BlinkTick ==
  /\ tpc = "idle"
  /\ wwan_timr # 0
  /\ wwan_val' = 1 - wwan_val
  /\ led' = wwan_val'
  /\ UNCHANGED <<net, changes, malVars, faults, requests, tpc, ipAnswer, wwan_state,
                 last_wwan_state, wwan_timr, lost>>

-----------------------------------------------------------------------------
(* Main: a command with one MAL transaction, or one that writes the LED.    *)
MainAsks ==
  /\ Running
  /\ requests < MaxRequests
  /\ requests' = requests + 1
  /\ BeginMal("main")
  /\ UNCHANGED <<net, changes, faults, tpc, ipAnswer, ledVars>>

MainAnswered ==
  /\ Running
  /\ EndMal("main")
  /\ UNCHANGED <<net, changes, faults, requests, tpc, ipAnswer, ledVars>>

MainWritesLed ==
  /\ Running
  /\ "main" \notin inMal
  /\ requests < MaxRequests
  /\ requests' = requests + 1
  /\ led' \in {0, 1}
  /\ UNCHANGED <<net, changes, malVars, faults, tpc, ipAnswer, wwan_state,
                 last_wwan_state, wwan_timr, wwan_val, lost>>

NetworkChanges ==
  /\ Running
  /\ changes < MaxChanges
  /\ changes' = changes + 1
  /\ net' \in Networks \ {net}
  /\ UNCHANGED <<malVars, faults, requests, tpc, ipAnswer, ledVars>>

WwanNext ==
  \/ MonTick
  \/ Ask
  \/ GotAddress
  \/ GotMode
  \/ GotStatus
  \/ BlinkTick
  \/ MainAsks
  \/ MainAnswered
  \/ MainWritesLed
  \/ NetworkChanges

WwanSpec == WwanInit /\ [][WwanNext]_wwanVars

(* Both timers are periodic, and every transaction ends. *)
WwanFairSpec ==
  /\ WwanSpec
  /\ SF_wwanVars(MonTick)
  /\ SF_wwanVars(BlinkTick)
  /\ WF_wwanVars(Ask)
  /\ WF_wwanVars(GotAddress \/ GotMode \/ GotStatus)
  /\ WF_wwanVars(MainAnswered)

-----------------------------------------------------------------------------
(* Every variable keeps to its type. *)
WwanTypeOK ==
  /\ net \in Networks
  /\ changes \in 0 .. MaxChanges
  /\ mal_busy \in {0, 1}
  /\ inMal \subseteq {"main", "timer"}
  /\ requests \in 0 .. MaxRequests
  /\ tpc \in {"idle", "address", "mode", "status", "dead"}
  /\ ipAnswer \in {"unasked", "yes", "no", "error"}
  /\ wwan_state \in 0 .. 4
  /\ last_wwan_state \in 0 .. 4
  /\ wwan_timr \in {0, 250, 500}
  /\ wwan_val \in {0, 1}
  /\ led \in {0, 1}
  /\ faults \in 0 .. MaxFaults
  /\ lost \in BOOLEAN

(* Between two samples the blink timer is the one the shown state asks for, *)
(* or could not be created, through any sequence of states; and the state   *)
(* shown is the last sampled.                                                *)
TimerMatchesState ==
  tpc = "idle" =>
    /\ last_wwan_state = wwan_state
    /\ wwan_timr = IF lost THEN 0 ELSE Interval(wwan_state)

(* A network that stays as it is gets shown: LED on, off, or blinking at    *)
(* the rate of its state, also after errors of the MAL and after main has   *)
(* written the LED.                                                          *)
Shown(s) ==
  /\ wwan_state = s
  /\ wwan_timr = Interval(s)

Stays(n) == net = n /\ Running /\ ~lost

StableIsShown ==
  /\ <>[]Stays("address") => <>[](Shown(4) /\ led = 1)
  /\ <>[]Stays("none") => <>[](Shown(1) /\ led = 0)
  /\ <>[]Stays("online") => /\ <>[]Shown(3)
                            /\ []<>(led = 0)
                            /\ []<>(led = 1)
  /\ <>[]Stays("signal") => /\ <>[]Shown(2)
                            /\ []<>(led = 0)
                            /\ []<>(led = 1)
=============================================================================
