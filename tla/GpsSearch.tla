------------------------------ MODULE GpsSearch ------------------------------
(***************************************************************************)
(* The search for a position: check_gps (facttest.cpp), run as a thread by *)
(* the factory test and by Quick Start and called by the emissions test,   *)
(* and command_gps (commands.cpp), over the GPS functions of mal.cpp.      *)
(*                                                                         *)
(* Each of those functions is a transaction with the MAL manager, begun and*)
(* answered in two steps; it may fail.  Of the table om only om[3].value is*)
(* kept, which the loop tests: whether atoi makes it nonzero.  Seconds pass*)
(* in the environment.                                                      *)
(***************************************************************************)
EXTENDS Integers

CONSTANT GPS_TO          \* seconds a search may take

ASSUME TimeoutAssumption == GPS_TO \in Nat

VARIABLES
  gps,            \* where the search is: idle, a function of mal.cpp, check
  search,         \* "check_gps", "command_gps"
  done,           \* local done
  om3,            \* om[3].value is a nonzero number; a local, not initialized
  emission_test,
  since,          \* seconds since gps_start was stamped
  stamped,        \* history: it was stamped for this search before its first test
  age,            \* history: seconds since the search began
  last,           \* history: what the last poll that succeeded in it reported
  gpsOn,          \* the modem searches
  mal,            \* the threads inside a transaction
  mal_busy,
  overlapped      \* history: one of these began while another was inside

malVars == <<mal, mal_busy, overlapped>>
gpsVars == <<gps, search, done, om3, emission_test, since, stamped, age, last, gpsOn, malVars>>

Upto(n) == IF n > GPS_TO THEN GPS_TO + 1 ELSE n

(* Until gps_start is stamped the time since then, in milliseconds, does not*)
(* fit in a long of 32 bits, and may be anything.                            *)
GpsInit ==
  /\ gps = "idle"
  /\ search = "check_gps"
  /\ done = FALSE
  /\ om3 = FALSE
  /\ since \in -1 .. GPS_TO + 1
  /\ stamped = FALSE
  /\ age = 0
  /\ last = "none"
  /\ gpsOn = FALSE
  /\ mal = {} /\ mal_busy = FALSE /\ overlapped = FALSE

(* Time counts while a search runs.                                          *)
Tick ==
  /\ gps # "idle"
  /\ since' = Upto(since + 1)
  /\ age' = Upto(age + 1)
  /\ <<since', age'>> # <<since, age>>
  /\ UNCHANGED <<gps, search, done, om3, emission_test, stamped, last, gpsOn, malVars>>

(* The search begins, with whatever its stack holds for om; gps_start was    *)
(* stamped just before it, or some time ago.                                 *)
BeginSearch(which, isStamped) ==
  /\ gps' = "setGPSmode"
  /\ search' = which
  /\ done' = FALSE
  /\ om3' \in BOOLEAN
  /\ since' \in IF isStamped THEN {0} ELSE since .. GPS_TO + 1
  /\ stamped' = isStamped
  /\ age' = 0
  /\ last' = "none"

(* Its thread has ended: what it kept is gone.                               *)
EndSearch ==
  /\ gps = "ended"
  /\ gps' = "idle"
  /\ search' = "check_gps"
  /\ done' = FALSE
  /\ om3' = FALSE
  /\ stamped' = FALSE
  /\ age' = 0
  /\ last' = "none"
  /\ UNCHANGED <<emission_test, since, gpsOn, malVars>>

-----------------------------------------------------------------------------
(* send_mal_command, which raises the flag, whoever is inside, and drops it *)
(* on every way out.                                                         *)
Enter(thread) ==
  /\ thread \notin mal
  /\ mal' = mal \cup {thread}
  /\ mal_busy' = TRUE
  /\ overlapped' = (mal # {})

Exit(thread) ==
  /\ thread \in mal
  /\ mal' = mal \ {thread}
  /\ mal_busy' = FALSE
  /\ overlapped' = (overlapped /\ mal' # {})

(* The transactions of the search, in their order.                          *)
Ask ==
  /\ gps \in {"setGPSmode", "getGPSconfig", "enableGPS", "resetGPS", "getGPSlocation", "disableGPS"}
  /\ Enter("gps")
  /\ UNCHANGED <<gps, search, done, om3, emission_test, since, stamped, age, last, gpsOn>>

Answered(at) == gps = at /\ Exit("gps")

setGPSmode ==
  /\ Answered("setGPSmode")
  /\ gps' = "getGPSconfig"
  /\ UNCHANGED <<search, done, om3, emission_test, since, stamped, age, last, gpsOn>>

(* The configuration goes to the same table, unless the transaction fails.  *)
getGPSconfig ==
  /\ Answered("getGPSconfig")
  /\ om3' \in BOOLEAN
  /\ gps' = "enableGPS"
  /\ UNCHANGED <<search, done, emission_test, since, stamped, age, last, gpsOn>>

enableGPS ==
  /\ Answered("enableGPS")
  /\ gpsOn' \in {gpsOn, TRUE}
  /\ gps' = IF search = "check_gps" THEN "resetGPS" ELSE "getGPSlocation"
  /\ UNCHANGED <<search, done, om3, emission_test, since, stamped, age, last>>

resetGPS ==
  /\ Answered("resetGPS")
  /\ gps' = "getGPSlocation"
  /\ UNCHANGED <<search, done, om3, emission_test, since, stamped, age, last, gpsOn>>

(* A poll.  A transaction that fails returns 0 and leaves the table; a reply*)
(* that cannot be parsed clears it.                                          *)
getGPSlocation ==
  /\ Answered("getGPSlocation")
  /\ \/ \E fix \in BOOLEAN :
          /\ fix => gpsOn
          /\ om3' = fix
          /\ last' = IF fix THEN "fix" ELSE "none yet"
     \/ UNCHANGED <<om3, last>>
  /\ done' = om3'
  /\ gps' = "check"
  /\ UNCHANGED <<search, emission_test, since, stamped, age, gpsOn>>

(* Mutant: the timeout ends the search one second early.                     *)
CheckEarly ==
  /\ gps = "check"
  /\ LET timedOut == search = "check_gps" /\ since >= GPS_TO
         off == IF search = "check_gps" /\ emission_test THEN "ended" ELSE "disableGPS"
     IN  gps' = IF done \/ timedOut THEN off ELSE "getGPSlocation"
  /\ UNCHANGED <<search, done, om3, emission_test, since, stamped, age, last, gpsOn, malVars>>

(* Mutant: no search has a timeout.                                          *)
CheckForever ==
  /\ gps = "check"
  /\ LET off == IF search = "check_gps" /\ emission_test THEN "ended" ELSE "disableGPS"
     IN  gps' = IF done THEN off ELSE "getGPSlocation"
  /\ UNCHANGED <<search, done, om3, emission_test, since, stamped, age, last, gpsOn, malVars>>

(* After a poll: the search ends with a fix or, in check_gps, when the time *)
(* since gps_start is over.  The emissions test keeps the receiver on.       *)
Check ==
  /\ gps = "check"
  /\ LET timedOut == search = "check_gps" /\ since > GPS_TO
         off == IF search = "check_gps" /\ emission_test THEN "ended" ELSE "disableGPS"
     IN  gps' = IF done \/ timedOut THEN off ELSE "getGPSlocation"
  /\ UNCHANGED <<search, done, om3, emission_test, since, stamped, age, last, gpsOn, malVars>>

(* Its result is not looked at: a receiver may be left on.                  *)
disableGPS ==
  /\ Answered("disableGPS")
  /\ gpsOn' \in {gpsOn, FALSE}
  /\ gps' = "ended"
  /\ UNCHANGED <<search, done, om3, emission_test, since, stamped, age, last>>

Searching ==
  \/ Ask
  \/ setGPSmode
  \/ getGPSconfig
  \/ enableGPS
  \/ resetGPS
  \/ getGPSlocation
  \/ Check
  \/ disableGPS
=============================================================================
