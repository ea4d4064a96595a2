---------------------------- MODULE FactoryTest ----------------------------
(***************************************************************************)
(* The programs that search for a position: the factory test (facttest.cpp)*)
(* from the command line or the monitor, the emissions test (emissions.cpp)*)
(* the gps command (commands.cpp) and the rounds of Quick Start (qsapp.cpp).*)
(* Main talks to the MAL manager itself before and after the search, in the*)
(* monitor and in Quick Start the WWAN sampler (wwan.c) does from the timer *)
(* thread at any time, and the factory test ends with the test of the wires *)
(* between the pins of the extended I/O sockets.                             *)
(*                                                                         *)
(* A process follows the other; the modem keeps the receiver as it is.  The*)
(* LEDs are in GpioLeds, the uploads in CloudPrograms.  ADC, I2C and SPI    *)
(* tests read a value and print it.                                          *)
(***************************************************************************)
EXTENDS GpsSearch, Sequences

VARIABLES
  prog,        \* what main runs: monitor, factory, emissions, quickstart
  called,      \* the monitor has called the factory test
  pc,          \* where main is
  query,       \* the next of its queries
  user_press,
  leftOn,      \* history: the receiver was on at the start, after the last disableGPS,
               \* or when the sampler ended the process
  sampler,     \* which query of its sample the WWAN sampler is at, 0 between samples
  pair,        \* the pair of pins under test
  wire,        \* joined, or the input stuck at a level
  r1, r2,
  out,         \* the level of the output
  rst_m2_detected,
  ioFailed,    \* history: a write or a read of this pair failed
  verdict      \* what was printed of this pair

xioVars == <<pair, wire, r1, r2, out, rst_m2_detected, ioFailed, verdict>>
mainVars == <<prog, called, pc, query, user_press, leftOn, sampler>>
vars == <<gpsVars, mainVars, xioVars>>

(* cs_m1 -> rst_m1, int_m1 -> pwm_m1, rst_m2, int_m2 -> pwm_m2              *)
Pairs == <<"rst_m1", "pwm_m1", "rst_m2", "pwm_m2">>

(* The queries of the factory test and of Quick Start, in order.            *)
Queries ==
  CASE prog = "factory" ->
         <<"getModelID", "getFirmwareVersion", "getAppsVersion", "getMALManVer",
           "get_ipAddr", "getICCID", "getIMEI", "getIMSI", "get_wwan_status">>
    [] prog = "quickstart" -> <<"getICCID", "get_wwan_status">>
    [] OTHER -> <<>>

(* These return NULL for a reply that cannot be parsed; the std::string it   *)
(* is assigned to ends the process.                                           *)
MayReturnNull(q) == q \notin {"getAppsVersion", "get_wwan_status"}

(* The flag and the sampler begin anew with every process.                  *)
NoTransactions ==
  /\ mal' = {} /\ mal_busy' = FALSE /\ overlapped' = FALSE
  /\ sampler' = 0

(* A process starts with one of the options: -r goes before -9.              *)
Start(p) ==
  /\ prog' = p
  /\ emission_test' \in {b \in BOOLEAN : /\ p = "emissions" => b
                                         /\ b => p \in {"emissions", "factory"}}
  /\ pc' = IF p = "emissions" THEN "press" ELSE "data"
  /\ since' \in -1 .. GPS_TO + 1

Programs == {"monitor", "factory", "emissions", "quickstart"}

Init ==
  /\ GpsInit
  /\ emission_test = FALSE
  /\ prog = "monitor" /\ called = FALSE
  /\ pc = "ended"
  /\ query = 1
  /\ user_press = FALSE
  /\ leftOn = FALSE
  /\ sampler = 0
  /\ pair = 1 /\ wire = "joined"
  /\ r1 = FALSE /\ r2 = FALSE /\ out = FALSE
  /\ rst_m2_detected = FALSE
  /\ ioFailed = FALSE /\ verdict = "none"

NewProcess ==
  /\ pc = "ended"
  /\ \E p \in Programs : Start(p)
  /\ called' = FALSE
  /\ query' = 1
  /\ user_press' = FALSE
  /\ leftOn' = gpsOn
  /\ NoTransactions
  /\ UNCHANGED <<gps, search, done, om3, stamped, age, last, gpsOn, xioVars>>

-----------------------------------------------------------------------------
(* Main's own transactions with the MAL manager; at the prompt those of the *)
(* monitor's commands.  Main does not look at mal_busy.                       *)
MainAsks ==
  /\ pc \in {"data", "queries", "poll", "off", "prompt"}
  /\ pc = "poll" => ~user_press
  /\ Enter("main")
  /\ UNCHANGED <<gps, search, done, om3, emission_test, since, stamped, age, last, gpsOn, mainVars, xioVars>>

MainAnswered(at) == pc = at /\ Exit("main")
GpsRests == UNCHANGED <<gps, search, done, om3, emission_test, since, stamped, age, last, gpsOn>>

(* Two commands, both of which must be sent; after a failure main sleeps    *)
(* and tries again.                                                           *)
start_data_service ==
  /\ MainAnswered("data")
  /\ \/ UNCHANGED pc
     \/ pc' = [factory |-> "press", emissions |-> "search",
               quickstart |-> "queries", monitor |-> "prompt"][prog]
  /\ IF pc' = "search"
     THEN BeginSearch("check_gps", FALSE) /\ UNCHANGED <<emission_test, gpsOn>>
     ELSE GpsRests
  /\ user_press' = (user_press /\ pc' # "press")
  /\ UNCHANGED <<prog, called, query, leftOn, sampler, xioVars>>

Query ==
  /\ MainAnswered("queries")
  /\ LET q == Queries[query]
         more == query < Len(Queries)
     IN  \/ q = "getModelID" /\ UNCHANGED <<query, pc>>       \* service is not ready
         \/ /\ query' = IF more THEN query + 1 ELSE 1
            /\ pc' = IF more THEN "queries" ELSE IF prog = "factory" THEN "create" ELSE "loop"
  /\ GpsRests
  /\ UNCHANGED <<prog, called, user_press, leftOn, sampler, xioVars>>

QueryCrash ==
  /\ pc = "queries" /\ "main" \in mal
  /\ MayReturnNull(Queries[query])
  /\ query' = 1 /\ pc' = "ended"
  /\ NoTransactions
  /\ GpsRests
  /\ UNCHANGED <<prog, called, user_press, leftOn, xioVars>>

(* get_wwan_status in the emissions test lights the WWAN LED by the signal.  *)
Poll ==
  /\ MainAnswered("poll") \/ MainAnswered("prompt")
  /\ GpsRests
  /\ UNCHANGED <<mainVars, xioVars>>

(* Mutant: the emissions test ends as the factory test does.                 *)
SwitchOffNothing ==
  /\ MainAnswered("off")
  /\ UNCHANGED <<gpsOn, leftOn>>
  /\ pc' = "ended"
  /\ UNCHANGED <<gps, search, done, om3, emission_test, since, stamped, age, last,
                 prog, called, query, user_press, sampler, xioVars>>

(* disableGPS at the end of the emissions test.                              *)
SwitchOff ==
  /\ MainAnswered("off")
  /\ gpsOn' \in {gpsOn, FALSE}
  /\ leftOn' = gpsOn'
  /\ pc' = "ended"
  /\ UNCHANGED <<gps, search, done, om3, emission_test, since, stamped, age, last,
                 prog, called, query, user_press, sampler, xioVars>>

MainMal == MainAsks \/ start_data_service \/ Query \/ QueryCrash \/ Poll \/ SwitchOff

-----------------------------------------------------------------------------
(* The search, in a thread or called by main, which then waits for its end. *)
GpsThread ==
  /\ Searching
  /\ leftOn' = IF gps = "disableGPS" /\ gps' = "ended" THEN gpsOn' ELSE leftOn
  /\ UNCHANGED <<prog, called, pc, query, user_press, sampler, xioVars>>

Time == Tick /\ UNCHANGED <<mainVars, xioVars>>

(* The monitor's commands.                                                   *)
Command ==
  /\ pc = "prompt" /\ "main" \notin mal
  /\ \/ /\ prog' = "factory" /\ called' = TRUE
        /\ pc' = "data"
        /\ GpsRests
     \/ /\ pc' = "search"
        /\ BeginSearch("command_gps", FALSE)
        /\ UNCHANGED <<prog, called, emission_test, gpsOn>>
  /\ UNCHANGED <<malVars, query, user_press, leftOn, sampler, xioVars>>

(* A round of Quick Start stamps gps_start and creates the thread.           *)
Round ==
  /\ pc = "loop"
  /\ BeginSearch("check_gps", TRUE)
  /\ pc' = "search"
  /\ UNCHANGED <<emission_test, gpsOn, malVars, prog, called, query, user_press, leftOn, sampler, xioVars>>

(* The factory test creates the thread, unless -m was given ...              *)
CreateThread ==
  /\ pc = "create"
  /\ \/ /\ BeginSearch("check_gps", FALSE)
        /\ pc' = "stamp"
        /\ UNCHANGED <<emission_test, gpsOn>>
     \/ /\ pc' = "search"
        /\ GpsRests
  /\ UNCHANGED <<malVars, prog, called, query, user_press, leftOn, sampler, xioVars>>

(* ... and stamps gps_start when it runs already.                            *)
Stamp ==
  /\ pc = "stamp"
  /\ since' = 0
  /\ stamped' = TRUE
  /\ pc' = "search"
  /\ UNCHANGED <<gps, search, done, om3, emission_test, age, last, gpsOn, malVars, prog, called, query, user_press, leftOn, sampler, xioVars>>

End == IF called THEN "prompt" ELSE "ended"

Wirings == {"joined", "low", "high"}

XioBegins ==
  /\ r1' = FALSE /\ r2' = FALSE /\ out' = FALSE
  /\ rst_m2_detected' = FALSE
  /\ ioFailed' = FALSE /\ verdict' = "none"

(* The search is over: pthread_join, or check_gps returns.                   *)
Join ==
  /\ pc = "search"
  /\ IF gps = "idle" THEN UNCHANGED gpsVars ELSE EndSearch
  /\ pc' \in [factory |-> {"xio", End}, emissions |-> {"poll"},     \* extendedIO
             quickstart |-> {"loop"}, monitor |-> {"prompt"}][prog]
  /\ prog' = IF pc' = "prompt" THEN "monitor" ELSE prog
  /\ called' = (called /\ pc' # "prompt")
  /\ IF pc' = "xio"
     THEN pair' = 1 /\ wire' \in Wirings /\ XioBegins
     ELSE UNCHANGED xioVars
  /\ UNCHANGED <<query, user_press, leftOn, sampler>>

(* Quick Start's user holds the key, the monitor's types exit.               *)
Leave ==
  /\ pc \in {"loop", "prompt"} /\ "main" \notin mal
  /\ pc' = "ended"
  /\ NoTransactions
  /\ GpsRests
  /\ UNCHANGED <<prog, called, query, user_press, leftOn, xioVars>>

-----------------------------------------------------------------------------
(* The WWAN sampler runs once main has started the data service, in the     *)
(* factory test too when the monitor has called it.                           *)
Sampled ==
  \/ prog \in {"monitor", "quickstart"} /\ pc \notin {"data", "ended"}
  \/ called /\ pc # "ended"

(* drive_wwan_io gives up when it finds the flag up, and does not look again*)
(* before its other queries.                                                  *)
WwanTick ==
  /\ Sampled
  /\ sampler = 0 /\ ~mal_busy
  /\ sampler' = 1
  /\ UNCHANGED <<gpsVars, prog, called, pc, query, user_press, leftOn, xioVars>>

WwanAsks ==
  /\ sampler # 0
  /\ Enter("wwan")
  /\ UNCHANGED <<gps, search, done, om3, emission_test, since, stamped, age, last, gpsOn, mainVars, xioVars>>

(* The address may make the others needless, and so may the mode.            *)
WwanAnswered ==
  /\ Exit("wwan")
  /\ sampler' \in {0} \cup {n \in {sampler + 1} : n <= 3}
  /\ GpsRests
  /\ UNCHANGED <<prog, called, pc, query, user_press, leftOn, xioVars>>

(* A reply to one of the first two that cannot be parsed is a null pointer,  *)
(* which ends the process.                                                     *)
WwanCrash ==
  /\ "wwan" \in mal /\ sampler # 3
  /\ pc' = "ended"
  /\ gps' = "idle" /\ search' = "check_gps" /\ age' = 0 /\ last' = "none"
  /\ done' = FALSE /\ om3' = FALSE /\ stamped' = FALSE
  /\ user_press' = FALSE /\ query' = 1
  /\ pair' = 1 /\ wire' = "joined" /\ XioBegins
  /\ leftOn' = gpsOn
  /\ NoTransactions
  /\ UNCHANGED <<emission_test, since, gpsOn, prog, called>>

Wwan == WwanTick \/ WwanAsks \/ WwanAnswered \/ WwanCrash

-----------------------------------------------------------------------------
(* The key's interrupt, from its request to gpio_deinit; the factory test no*)
(* longer looks at user_press after the first press.                          *)
gpio_ftirq_callback ==
  /\ pc \in {"press", "release", "poll", "letgo"} \cup
           (IF prog = "emissions" THEN {"data", "search"} ELSE {})
  /\ user_press' = ~user_press
  /\ UNCHANGED <<gpsVars, prog, called, pc, query, leftOn, sampler, xioVars>>

(* Mutant: the search starts with the queries, to save time.                 *)
SeeKeySearching ==
  /\ UNCHANGED <<prog, called, query, user_press, leftOn, sampler, xioVars, malVars, emission_test, gpsOn>>
  /\ \/ /\ pc = "release" /\ ~user_press /\ BeginSearch("check_gps", FALSE)
        /\ pc' = IF prog = "emissions" THEN "data" ELSE "queries"
     \/ pc = "press" /\ user_press /\ pc' = "release" /\ GpsRests

(* WAIT_FOR_BPRESS, and the end of the emissions test.                        *)
SeeKey ==
  /\ \/ pc = "press" /\ user_press /\ pc' = "release"
     \/ pc = "release" /\ ~user_press /\ pc' = IF prog = "emissions" THEN "data" ELSE "queries"
     \/ pc = "poll" /\ "main" \notin mal /\ user_press /\ pc' = "letgo"
     \/ pc = "letgo" /\ ~user_press /\ pc' = "off"
  /\ UNCHANGED <<gpsVars, prog, called, query, user_press, leftOn, sampler, xioVars>>

-----------------------------------------------------------------------------
(* The wires.  gpio_write and gpio_read may fail: the level stays, the value*)
(* read stays that of the read before, of another pair even.                  *)
Input(level) == IF wire = "joined" THEN level ELSE wire = "high"

WriteAndRead(level, r) ==
  \E written, isRead \in BOOLEAN :
     /\ out' = IF written THEN level ELSE out
     /\ r' = IF isRead THEN Input(out') ELSE r
     /\ ioFailed' = (ioFailed \/ ~written \/ ~isRead)

Testing(at) == pc = at /\ UNCHANGED <<gpsVars, prog, called, query, user_press, leftOn, sampler>>

ReadHigh ==
  /\ Testing("xio")
  /\ Pairs[pair] # "rst_m2"
  /\ WriteAndRead(TRUE, r1)
  /\ pc' = "low"
  /\ UNCHANGED <<pair, wire, r2, rst_m2_detected, verdict>>

(* Mutant: the second level is read into the first variable.                 *)
ReadLowAgain ==
  /\ Testing("low")
  /\ WriteAndRead(FALSE, r1)
  /\ pc' = "print"
  /\ UNCHANGED <<pair, wire, r2, rst_m2_detected, verdict>>

ReadLow ==
  /\ Testing("low")
  /\ WriteAndRead(FALSE, r2)
  /\ pc' = "print"
  /\ UNCHANGED <<pair, wire, r1, rst_m2_detected, verdict>>

(* loopbackTest of the SPI has pulsed rst_m2, whose interrupt may be late;   *)
(* main looks here for it and nowhere else.                                   *)
gpio_rst_m2_callback ==
  /\ Testing("xio") /\ UNCHANGED pc
  /\ Pairs[pair] = "rst_m2" /\ wire = "joined"
  /\ ~rst_m2_detected
  /\ rst_m2_detected' = TRUE
  /\ UNCHANGED <<pair, wire, r1, r2, out, ioFailed, verdict>>

PrintVerdict ==
  /\ \/ Testing("print") /\ verdict' = IF r1 # r2 THEN "OK" ELSE "FAIL"
     \/ /\ Testing("xio")
        /\ Pairs[pair] = "rst_m2"
        /\ verdict' = IF rst_m2_detected THEN "OK" ELSE "FAIL"
  /\ pc' = "printed"
  /\ UNCHANGED <<pair, wire, r1, r2, out, rst_m2_detected, ioFailed>>

(* The pins of the next pair are low.                                         *)
NextPair ==
  /\ pc = "printed"
  /\ pair' = IF pair < Len(Pairs) THEN pair + 1 ELSE 1
  /\ pc' = IF pair < Len(Pairs) THEN "xio" ELSE End
  /\ prog' = IF pc' = "prompt" THEN "monitor" ELSE prog
  /\ called' = (called /\ pc' # "prompt")
  /\ wire' \in IF pc' = "xio" THEN Wirings ELSE {"joined"}
  /\ out' = FALSE
  /\ ioFailed' = FALSE
  /\ verdict' = "none"
  /\ r1' = (r1 /\ pc' = "xio") /\ r2' = (r2 /\ pc' = "xio")
  /\ rst_m2_detected' = FALSE
  /\ UNCHANGED <<gpsVars, query, user_press, leftOn, sampler>>

Wires == ReadHigh \/ ReadLow \/ gpio_rst_m2_callback \/ PrintVerdict \/ NextPair

Next ==
  \/ NewProcess
  \/ MainMal
  \/ GpsThread
  \/ Time
  \/ Command
  \/ Round
  \/ CreateThread
  \/ Stamp
  \/ Join
  \/ Leave
  \/ Wwan
  \/ gpio_ftirq_callback
  \/ SeeKey
  \/ Wires

(* The search is scheduled, the MAL manager answers, and time passes.        *)
Fairness ==
  /\ WF_vars(GpsThread)
  /\ WF_vars(Time)

Spec == Init /\ [][Next]_vars /\ Fairness

-----------------------------------------------------------------------------
(* The factory test starts its search only when main is done with the MAL    *)
(* manager: "don't start it until we are done accessing the MAL for other    *)
(* info" (facttest.cpp:270); main and the search never use it at once, in    *)
(* any of the programs.  The sampler, which only the monitor and Quick Start  *)
(* have, may join either of them: mal_busy keeps it from beginning a sample   *)
(* until two transactions have overlapped, since it tests the flag only once  *)
(* and nobody else does, and the first to end drops it for both.              *)
MalExclusive ==
  /\ ~({"main", "gps"} \subseteq mal)
  /\ "wwan" \in mal => Sampled
  /\ mal_busy \/ mal = {} \/ overlapped

(* A search gets its whole time: it ends with a fix, or when more than GPS_TO*)
(* seconds have passed, or when no poll of it was ever answered and the table*)
(* holds what it held before; and check_gps when gps_start was not stamped.   *)
SearchIsFull ==
  [][(gps = "check" /\ gps' \in {"disableGPS", "ended"}) =>
       \/ last \in {"fix", "none"}
       \/ (search = "check_gps") /\ (age > GPS_TO \/ ~stamped)]_vars

(* check_gps ends, fix or no fix, however its transactions fail.  For the     *)
(* emissions test, where the program prints that there is no timeout          *)
(* (facttest.cpp:119), nothing is claimed.                                     *)
SearchEnds ==
  (gps = "setGPSmode" /\ search = "check_gps" /\ ~emission_test)
    ~> (gps \in {"ended", "idle"})

(* Where the programs rest and end the receiver is off, unless the last      *)
(* disableGPS failed, it was on when the process began, or the factory test   *)
(* ran with the emissions test's option.                                       *)
GpsReleased ==
  (pc \in {"prompt", "loop", "ended"} /\ gpsOn) =>
    leftOn \/ (prog = "factory" /\ emission_test)

Joined == wire = "joined"

(* What is printed of a pair whose writes and reads succeeded is true of its *)
(* wire; the interrupt of rst_m2 may be too late to be seen.                   *)
XioVerdict ==
  /\ verdict = "OK" => Joined \/ ioFailed
  /\ verdict = "FAIL" => ~Joined \/ ioFailed \/ Pairs[pair] = "rst_m2"
=============================================================================
