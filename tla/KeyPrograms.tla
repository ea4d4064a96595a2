---------------------------- MODULE KeyPrograms ----------------------------
(***************************************************************************)
(* The two programs that the USER key drives: the M2X demo (demo.c) and the *)
(* Quick Start application (qsapp.cpp).  Main loops over sending readings   *)
(* and waiting for the key by spinning on a variable, and the handler of    *)
(* the key's interrupt, run by hwlib, changes that variable, the LED and    *)
(* the duration of the press by which main decides to leave.                *)
(*                                                                         *)
(* Time is counted in half seconds.  What is sent, the demo's relay and its *)
(* ADC timer are left out.                                                   *)
(***************************************************************************)
EXTENDS Integers

CONSTANTS
  Programs,   \* "demo", "quickstart"
  Headless,   \* values of headless: 0, 1 for -u and -f, 2 for -s
  Handlers,   \* "interrupt": main is stopped while it runs; "thread": it is not
  Users,      \* "any"; "patient": every interval between two edges is Enough
  Spans,      \* the intervals between two edges, in half seconds
  MaxRuns     \* bound on the demo's runs from the monitor

ASSUME ModeAssumption ==
  /\ Programs \subseteq {"demo", "quickstart"}
  /\ Headless \subseteq 0 .. 2
  /\ Handlers \subseteq {"interrupt", "thread"}
  /\ Users \subseteq {"any", "patient"}
  /\ Spans \subseteq Nat \ {0}
  /\ MaxRuns \in Nat \ {0}

VARIABLES
  program, handler, user,
  headless,
  timed,           \* headless_timed: the demo does not wait for a press
  pc,              \* where main is
  press,           \* button_press, bpress
  keypress,        \* keypress_time.tv_sec
  current_color,
  led,             \* the pins that are lit
  paint,           \* of each thread inside do_color: the colour, the pins left
  irq,             \* where the handler is
  down,            \* the key
  taken,           \* what the handler has taken its edge for
  spans,           \* key_release less key_press, of the last two releases
  runs,
  pressed,         \* history: a press was handled since the last round's end
  held,            \* history: how long the key was last held in this run, or 0
  raced            \* history: the last two colours were written at once

modeVars == <<program, handler, user>>
keyVars == <<press, keypress, taken, spans, down>>
colorVars == <<current_color, led, paint, raced>>
historyVars == <<pressed, held>>
vars == <<modeVars, headless, timed, pc, keyVars, colorVars, historyVars, irq, runs>>

Pins == {"red", "green", "blue"}
RED == {"red"}
GREEN == {"green"}
BLUE == {"blue"}
WHITE == Pins
Threads == {"main", "irq"}

TypeOK ==
  /\ program \in Programs /\ handler \in Handlers /\ user \in Users
  /\ headless \in 0 .. 2 /\ timed \in BOOLEAN
  /\ pc \in {"monitor", "init", "armed", "ready", "send", "wait", "work",
             "release", "test", "over"}
  /\ press \in BOOLEAN /\ keypress \in Int
  /\ current_color \in SUBSET Pins /\ led \in SUBSET Pins
  /\ paint \in [Threads -> [color : SUBSET Pins, left : SUBSET Pins]]
  /\ irq \in {"idle", "toggled", "timing"}
  /\ down \in BOOLEAN /\ taken \in {"press", "release"}
  /\ spans \in Nat \X Nat
  /\ runs \in 0 .. MaxRuns
  /\ pressed \in BOOLEAN /\ raced \in BOOLEAN
  /\ held \in Nat

Unpainted == [color |-> {}, left |-> {}]

(* The monitor with its prompt; main.cpp starts Quick Start at once. *)
Init ==
  /\ program \in Programs
  /\ handler \in Handlers
  /\ user \in Users
  /\ headless \in IF program = "demo" THEN Headless ELSE {0}
  /\ timed \in IF headless = 0 THEN {FALSE} ELSE BOOLEAN
  /\ pc = "monitor"
  /\ press = FALSE
  /\ keypress = 0
  /\ current_color = {}
  /\ led = {}
  /\ paint = [t \in Threads |-> Unpainted]
  /\ irq = "idle"
  /\ down \in BOOLEAN
  /\ taken = "release"
  /\ spans = <<0, 0>>
  /\ runs = IF headless = 0 THEN 0 ELSE MaxRuns - 1   \* one run, then app_exit
  /\ pressed = FALSE
  /\ held = 0
  /\ raced = FALSE

(***************************************************************************)
(* The LED: three writes, during which the other thread may write, too.     *)
(***************************************************************************)
Painting(t) == paint[t].left # {}

Other(t) == CHOOSE o \in Threads : o # t

(* do_color is called. *)
BeginColor(t, c) ==
  /\ paint' = [paint EXCEPT ![t] = [color |-> c, left |-> Pins]]
  /\ raced' = Painting(Other(t))
  /\ UNCHANGED led

NextPin(t) == IF "red" \in paint[t].left THEN "red"
              ELSE IF "green" \in paint[t].left THEN "green" ELSE "blue"

(* gpio_write in do_color *)
WritePin(t) ==
  LET p == NextPin(t)
  IN /\ Painting(t)
     /\ led' = (led \ {p}) \cup (paint[t].color \cap {p})
     /\ paint' = [paint EXCEPT ![t] =
                    IF paint[t].left = {p} THEN Unpainted
                    ELSE [color |-> paint[t].color, left |-> paint[t].left \ {p}]]
     /\ UNCHANGED <<modeVars, headless, timed, pc, keyVars, current_color, raced,
                    historyVars, irq, runs>>

NoColor == UNCHANGED colorVars

(* Main steps only between its colour writes, and not during an interrupt.  *)
MainRuns == ~Painting("main") /\ (handler = "interrupt" => irq = "idle")

Main(at) == MainRuns /\ pc = at

(***************************************************************************)
(* Main.                                                                   *)
(***************************************************************************)
(* The demo requests the key's interrupt and clears button_press after it;  *)
(* Quick Start clears bpress before.  The command may give the demo an      *)
(* interval, which later runs inherit.                                      *)
Begin ==
  /\ Main("monitor")
  /\ runs < MaxRuns
  /\ runs' = runs + 1
  /\ IF program = "demo"
       THEN /\ pc' = "armed"
            /\ timed' \in {timed, TRUE}
            /\ UNCHANGED press
            /\ NoColor
       ELSE /\ pc' = "init"
            /\ UNCHANGED timed
            /\ press' = FALSE
            /\ current_color' = RED
            /\ BeginColor("main", RED)
  /\ pressed' = FALSE
  /\ held' = 0
  /\ UNCHANGED <<modeVars, headless, keypress, taken, spans, down, irq>>

ClearPress ==
  /\ Main("armed")
  /\ press' = FALSE
  /\ held' = 0
  /\ pc' = "send"
  /\ NoColor
  /\ UNCHANGED <<modeVars, headless, timed, keypress, taken, spans, down, pressed, irq, runs>>

(* Quick Start: the interrupt is requested, then keys and device are        *)
(* checked, which may end it.                                               *)
RequestKey ==
  /\ Main("init")
  /\ pc' = "ready"
  /\ NoColor
  /\ UNCHANGED <<modeVars, headless, timed, keyVars, historyVars, irq, runs>>

CheckKeys ==
  /\ Main("ready")
  /\ pc' \in {"send", "over"}
  /\ NoColor
  /\ UNCHANGED <<modeVars, headless, timed, keyVars, historyVars, irq, runs>>

(* The top of the loop: the demo shows the colour FLOW answers with, Quick  *)
(* Start waits in green.                                                    *)
Top ==
  /\ Main("send")
  /\ IF program = "demo"
       THEN /\ pc' = IF timed THEN "work" ELSE "wait"
            /\ \E c \in {RED, GREEN} : BeginColor("main", c)
            /\ UNCHANGED current_color
       ELSE /\ pc' = "wait"
            /\ current_color' = GREEN
            /\ BeginColor("main", GREEN)
  /\ UNCHANGED <<modeVars, headless, timed, keyVars, historyVars, irq, runs>>

SeePress ==
  /\ Main("wait")
  /\ press
  /\ pc' = IF program = "demo" THEN "work" ELSE "release"
  /\ NoColor
  /\ UNCHANGED <<modeVars, headless, timed, keyVars, historyVars, irq, runs>>

(* The demo sends before it waits for the key to come up, Quick Start after *)
(* that.                                                                    *)
Send ==
  /\ Main("work")
  /\ pc' = IF program = "demo" THEN "release" ELSE "send"
  /\ NoColor
  /\ UNCHANGED <<modeVars, headless, timed, keyVars, historyVars, irq, runs>>

(* Mutant: main does not wait for the release. *)
SeeReleaseAtOnce ==
  /\ Main("release")
  /\ pc' = "test"
  /\ pressed' = FALSE
  /\ NoColor
  /\ UNCHANGED <<modeVars, headless, timed, keyVars, held, irq, runs>>

SeeRelease ==
  /\ Main("release")
  /\ ~press
  /\ pc' = "test"
  /\ pressed' = FALSE
  /\ NoColor
  /\ UNCHANGED <<modeVars, headless, timed, keyVars, held, irq, runs>>

(* The test of keypress_time *)
Leave == keypress > 3

(* Mutant: headless is not reset. *)
TestKeepingHeadless ==
  /\ Main("test")
  /\ headless' = headless
  /\ IF Leave /\ headless' = 0
       THEN pc' = "over" /\ NoColor
       ELSE IF program = "demo" THEN pc' = "send" /\ NoColor
       ELSE /\ pc' = "work"
            /\ current_color' = BLUE
            /\ BeginColor("main", BLUE)
  /\ UNCHANGED <<modeVars, timed, keyVars, historyVars, irq, runs>>

TestDuration ==
  /\ Main("test")
  /\ headless' = IF Leave /\ headless = 1 THEN 0 ELSE headless
  /\ IF Leave /\ headless' = 0
       THEN pc' = "over" /\ NoColor
       ELSE IF program = "demo" THEN pc' = "send" /\ NoColor
       ELSE /\ pc' = "work"
            /\ current_color' = BLUE
            /\ BeginColor("main", BLUE)
  /\ UNCHANGED <<modeVars, timed, keyVars, historyVars, irq, runs>>

(* gpio_deinit of the key; the demo returns to the monitor, from which it   *)
(* may be started again.  Only keypress_time outlives it.                   *)
End ==
  /\ Main("over")
  /\ irq = "idle"
  /\ ~Painting("irq")
  /\ program = "demo" /\ runs < MaxRuns
  /\ pc' = "monitor"
  /\ NoColor
  /\ UNCHANGED <<modeVars, headless, timed, keyVars, historyVars, irq, runs>>

(***************************************************************************)
(* The key.                                                                *)
(***************************************************************************)
Watched == pc \notin {"monitor", "init", "over"}

(* Four seconds, in half seconds, make tv_sec more than 3. *)
Enough == 8

(* The key goes down or up while no program watches it. *)
EdgeUnwatched ==
  /\ ~Watched
  /\ irq = "idle"
  /\ down' = ~down
  /\ NoColor
  /\ UNCHANGED <<modeVars, headless, timed, pc, press, keypress, taken, spans, irq, runs,
                 historyVars>>

(* The handler is called: it takes the edge for a press or a release by the *)
(* variable, which it tests once and changes first.                          *)
Edge ==
  /\ Watched
  /\ irq = "idle"
  /\ down' = ~down
  /\ press' = ~press
  /\ taken' = IF press THEN "release" ELSE "press"
  /\ \E span \in Spans :
       /\ user = "patient" => span >= Enough
       /\ spans' = IF press THEN <<spans[2], span>> ELSE spans
       /\ held' = IF down THEN span ELSE held
  /\ pressed' = (pressed \/ press')
  /\ irq' = IF program = "quickstart" THEN "toggled" ELSE "timing"
  /\ NoColor
  /\ UNCHANGED <<modeVars, headless, timed, pc, keypress, runs>>

(* Mutant: the LED stays white after a release. *)
HandlerColorKept ==
  /\ irq = "toggled"
  /\ BeginColor("irq", WHITE)
  /\ irq' = "timing"
  /\ UNCHANGED <<modeVars, headless, timed, pc, keyVars, current_color, historyVars, runs>>

HandlerColor ==
  /\ irq = "toggled"
  /\ BeginColor("irq", IF taken = "press" THEN WHITE ELSE current_color)
  /\ irq' = "timing"
  /\ UNCHANGED <<modeVars, headless, timed, pc, keyVars, current_color, historyVars, runs>>

(* Mutant: the seconds are subtracted without a borrow. *)
SecondsNoBorrow(start, stop) == stop \div 2 - start \div 2

(* The whole seconds between two times of CLOCK_MONOTONIC *)
Seconds(start, stop) ==
  IF stop % 2 < start % 2 THEN stop \div 2 - start \div 2 - 1
                              ELSE stop \div 2 - start \div 2

(* The handler takes the time; after a release it stores how long it is     *)
(* since the press, which began on a second or between two.                  *)
HandlerTime ==
  /\ irq = "timing"
  /\ ~Painting("irq")
  /\ \E key_press \in 0 .. 1 :
       keypress' = IF taken = "press" THEN keypress
                   ELSE Seconds(key_press, key_press + spans[2])
  /\ irq' = "idle"
  /\ NoColor
  /\ UNCHANGED <<modeVars, headless, timed, pc, press, taken, spans, down, historyVars, runs>>

MainNext ==
  \/ Begin \/ ClearPress \/ RequestKey \/ CheckKeys \/ Top
  \/ SeePress \/ Send \/ SeeRelease \/ TestDuration \/ End
  \/ (handler = "interrupt" => irq = "idle") /\ WritePin("main")

HandlerNext == HandlerColor \/ HandlerTime \/ WritePin("irq")

Next == MainNext \/ HandlerNext \/ Edge \/ EdgeUnwatched

Spec == Init /\ [][Next]_vars

(* Main spins, so it sees every press and release that lasts; the handler   *)
(* returns; the user goes on using the key.                                 *)
FairSpec == Spec /\ SF_vars(MainNext) /\ WF_vars(HandlerNext) /\ WF_vars(Edge)

(***************************************************************************)
(* Properties.                                                             *)
(***************************************************************************)
(* Sending follows presses one to one: no round of either program ends on a *)
(* press that an earlier round has used (the two spin loops of demo.c and   *)
(* WAIT_FOR_BPRESS), unless the demo was told not to wait.                  *)
OnePressPerRound ==
  [][pc = "release" /\ pc' = "test" /\ ~timed => pressed]_vars

(* The decision to leave is made on the last time the handler stored or is   *)
(* about to store, the time before in the latter case, and asks for 4        *)
(* seconds, since what is compared with 3 is whole seconds.  If main is      *)
(* stopped while the handler runs, it is the time for which the key was held *)
(* last, unless the handler takes presses for releases.                      *)
ExitMeansLong ==
  [][pc = "test" /\ pc' # "test" =>
       /\ \E i \in 1 .. 2 : pc' = "over" <=> spans[i] >= Enough /\ headless' = 0
       /\ handler = "interrupt" /\ press = down /\ held # 0 =>
            (pc' = "over" <=> held >= Enough /\ headless' = 0)]_vars

(* A user who holds the key for 4 seconds each time gets out of both         *)
(* programs, even when the handler runs beside main and a duration is read  *)
(* before it is stored; except with -s, where the demo has no end.          *)
LongPressesEnd == user = "patient" /\ headless # 2 => <>(pc = "over")

(* When both threads are done with the LED, wrote it one after the other,   *)
(* and the key is up, it shows what Quick Start is doing: the handler's     *)
(* white is always taken back to the colour main set meanwhile (do_color,   *)
(* qsa_irq_callback).                                                       *)
ColourShown ==
  /\ program = "quickstart" /\ runs > 0
  /\ irq = "idle" /\ ~press /\ ~raced
  /\ \A t \in Threads : ~Painting(t)
  => led = current_color
=============================================================================
