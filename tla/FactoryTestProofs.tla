------------------------- MODULE FactoryTestProofs -------------------------
(***************************************************************************)
(* Proofs about FactoryTest, for any timeout of the search: main and the   *)
(* search never ask the MAL manager at once and mal_busy is down only when *)
(* nobody asks it or two threads have, the receiver is given back, a search*)
(* gets its time, and what is printed of the wires is true.                *)
(***************************************************************************)
EXTENDS FactoryTest, TLAPS

Asking == {"setGPSmode", "getGPSconfig", "enableGPS", "resetGPS", "getGPSlocation", "disableGPS"}
Before == {"setGPSmode", "getGPSconfig", "enableGPS", "resetGPS"}

SearchTypes ==
  /\ gps \in Asking \cup {"idle", "check", "ended"}
  /\ search \in {"check_gps", "command_gps"}
  /\ since \in -1 .. GPS_TO + 1 /\ age \in 0 .. GPS_TO + 1
  /\ last \in {"none", "none yet", "fix"}
  /\ mal \subseteq {"main", "gps", "wwan"}

(* The threads are inside a transaction only where they make one, and the   *)
(* search runs only while main waits for it or is about to.                  *)
Where ==
  /\ gps # "idle" => pc \in {"stamp", "search"}
  /\ pc = "stamp" => gps # "idle"
  /\ "gps" \in mal => gps \in Asking
  /\ "main" \in mal => pc \in {"data", "queries", "poll", "off", "prompt"}

(* Each program has places of its own, and the option of the emissions test *)
(* belongs to two of them.                                                    *)
Places ==
  /\ prog \in Programs
  /\ prog = "monitor" => pc \in {"data", "prompt", "search", "ended"}
  /\ prog = "quickstart" => pc \in {"data", "queries", "search", "loop", "ended"}
  /\ prog = "emissions" =>
       /\ pc \in {"press", "release", "data", "search", "poll", "letgo", "off", "ended"}
       /\ emission_test
  /\ prog = "factory" =>
       pc \in {"data", "press", "release", "queries", "create", "stamp", "search", "xio",
               "low", "print", "printed", "ended"}
  /\ called => prog = "factory" /\ ~emission_test
  /\ emission_test => prog \in {"emissions", "factory"}

(* Where the receiver may be on that is not left on for good.               *)
Released ==
  gpsOn => \/ leftOn
           \/ prog = "factory" /\ emission_test
           \/ gps \in {"resetGPS", "getGPSlocation", "check", "disableGPS"}
           \/ prog = "emissions" /\ pc \in {"search", "poll", "letgo", "off"}

(* A stamped search is at least as old as its stamp, and om[3] holds a fix  *)
(* of this search or what was there before its first answer.                 *)
Timed ==
  /\ stamped => gps # "idle" /\ since <= age
  /\ gps \in Before => last = "none"
  /\ om3 => last # "none yet"
  /\ gps = "check" /\ done => om3

(* Without a failure the levels read are those the wire gives.              *)
Levels ==
  /\ wire \in Wirings
  /\ {r1, r2, out, ioFailed} \subseteq BOOLEAN
  /\ rst_m2_detected => wire = "joined"
  /\ pc \in {"low", "print"} => /\ Pairs[pair] # "rst_m2"
                                /\ ~ioFailed => (r1 <=> wire # "low")
  /\ pc = "print" /\ ~ioFailed => (r2 <=> wire = "high")
  /\ pc # "printed" => verdict = "none"
  /\ verdict \in {"none", "OK", "FAIL"}
  /\ XioVerdict

Core == SearchTypes /\ Where /\ Places /\ Released /\ Timed /\ Levels

(* Of two threads inside a transaction one began while the other was inside;*)
(* the sampler asks where it runs.                                            *)
Flagged ==
  /\ mal_busy \in BOOLEAN /\ overlapped \in BOOLEAN
  /\ mal_busy \/ mal = {} \/ overlapped
  /\ overlapped \/ \E thread \in {"main", "gps", "wwan"} : mal \subseteq {thread}

Sampling ==
  /\ sampler # 0 => Sampled
  /\ "wwan" \in mal => sampler # 0

IInv == Core /\ Flagged /\ Sampling

-----------------------------------------------------------------------------
LEMMA InitHolds == Init => IInv
  <1>. SUFFICES ASSUME Init PROVE IInv
    OBVIOUS
  <1>1. SearchTypes /\ Where /\ Places /\ Released /\ Timed
    BY TimeoutAssumption
       DEF Init, GpsInit, SearchTypes, Where, Places, Released, Timed, Asking, Before, Programs
  <1>2. Levels
    BY DEF Init, Levels, XioVerdict, Joined, Wirings
  <1>3. Flagged /\ Sampling
    BY DEF Init, GpsInit, Flagged, Sampling
  <1>. QED
    BY <1>1, <1>2, <1>3 DEF IInv, Core

(* The wires stay right while main is elsewhere.                            *)
LEMMA LevelsStay ==
  ASSUME Levels, UNCHANGED xioVars,
         pc' \in {pc} \cup {"data", "queries", "press", "release", "create", "stamp", "search",
                            "loop", "poll", "letgo", "off", "prompt", "ended"},
         pc' # pc => pc # "printed"
  PROVE  Levels'
  BY DEF Levels, xioVars, XioVerdict, Joined, Wirings, Pairs

LEMMA NewProcessKeeps ==
  ASSUME Core, NewProcess
  PROVE  Core'
  <1>1. PICK p \in Programs : Start(p)
    BY DEF NewProcess
  <1>2. /\ pc = "ended" /\ prog' = p /\ pc' \in {"press", "data"}
        /\ p # "emissions" => pc' = "data"
        /\ called' = FALSE /\ mal' = {} /\ leftOn' = gpsOn
        /\ UNCHANGED <<gps, search, done, om3, stamped, age, last, gpsOn, xioVars>>
        /\ since' \in -1 .. GPS_TO + 1
    BY <1>1 DEF NewProcess, Start, NoTransactions
  <1>3. emission_test' => p \in {"emissions", "factory"}
    BY <1>1 DEF Start, Programs
  <1>4. p = "emissions" => emission_test'
    BY <1>1 DEF Start
  <1>5. gps = "idle" /\ ~stamped
    BY <1>2 DEF Core, Where, Timed
  <1>6. SearchTypes' /\ Where' /\ Places' /\ Released' /\ Timed'
    BY <1>1, <1>2, <1>3, <1>4, <1>5
       DEF Core, SearchTypes, Where, Places, Released, Timed, Asking, Before, Programs
  <1>7. Levels'
    BY <1>2, LevelsStay DEF Core
  <1>. QED
    BY <1>6, <1>7 DEF Core

(* The modem's search of a position begins with the table as it is.         *)
LEMMA BeginSearchKeeps ==
  ASSUME Core, NEW which \in {"check_gps", "command_gps"}, NEW b \in BOOLEAN,
         BeginSearch(which, b), UNCHANGED <<gpsOn, leftOn, emission_test>>, gps = "idle",
         pc' \in {"search", "stamp"}, mal' \subseteq mal \ {"main"},
         Places', pc' # "printed" /\ pc # "printed", UNCHANGED xioVars,
         prog' = prog
  PROVE  Core'
  <1>1. gps' = "setGPSmode" /\ search' = which /\ age' = 0 /\ last' = "none"
    BY DEF BeginSearch
  <1>2. since' \in -1 .. GPS_TO + 1 /\ (stamped' => since' = 0)
    <2>1. since' = 0 \/ since' \in since .. GPS_TO + 1
      BY Zenon DEF BeginSearch
    <2>2. stamped' => since' = 0
      BY Zenon DEF BeginSearch
    <2>3. since \in -1 .. GPS_TO + 1
      BY DEF Core, SearchTypes
    <2>. QED
      BY <2>1, <2>2, <2>3, TimeoutAssumption
  <1>3. SearchTypes'
    <2>1. mal \subseteq {"main", "gps", "wwan"}
      BY DEF Core, SearchTypes
    <2>2. 0 \in 0 .. GPS_TO + 1
      BY TimeoutAssumption
    <2>. QED
      BY <1>1, <1>2, <2>1, <2>2 DEF SearchTypes, Asking
  <1>4. Where'
    BY <1>1 DEF Core, SearchTypes, Where, Asking
  <1>5. Released'
    BY DEF Core, Places, Released
  <1>6. Timed'
    BY <1>1, <1>2 DEF Timed
  <1>7. Levels'
    BY LevelsStay DEF Core
  <1>. QED
    BY <1>3, <1>4, <1>5, <1>6, <1>7 DEF Core

-----------------------------------------------------------------------------
(* Main's transactions. *)
LEMMA MainMalKeeps ==
  ASSUME Core, MainMal
  PROVE  Core'
  <1>1. prog \in Programs /\ Core
    BY DEF Core, Places
  <1>2. CASE MainAsks
    <2>1. /\ pc \in {"data", "queries", "poll", "off", "prompt"} /\ mal' = mal \cup {"main"}
          /\ UNCHANGED <<gps, search, done, om3, emission_test, since, stamped, age, last, gpsOn,
                         prog, called, pc, query, user_press, leftOn, xioVars>>
      BY <1>2 DEF MainAsks, Enter, mainVars
    <2>2. SearchTypes' /\ Where' /\ Places' /\ Released' /\ Timed'
      BY <2>1 DEF Core, SearchTypes, Where, Places, Released, Timed
    <2>3. Levels'
      BY <2>1, LevelsStay DEF Core
    <2>. QED
      BY <2>2, <2>3 DEF Core
  <1>3. CASE start_data_service
    <2>1. /\ pc = "data" /\ mal' = mal \ {"main"}
          /\ UNCHANGED <<prog, called, query, leftOn, xioVars, emission_test, gpsOn>>
      BY <1>3 DEF start_data_service, MainAnswered, Exit, GpsRests
    <2>2. /\ pc' \in {"data", "press", "search", "queries", "prompt"}
          /\ pc' = "press" => prog = "factory"
          /\ pc' = "search" => prog = "emissions"
          /\ pc' = "queries" => prog = "quickstart"
          /\ pc' = "prompt" => prog = "monitor"
      BY <1>1, <1>3, <2>1 DEF start_data_service, Programs
    <2>3. gps = "idle" /\ Places'
      BY <1>1, <2>1, <2>2 DEF Core, Where, Places
    <2>4. CASE pc' = "search"
      <3>1. BeginSearch("check_gps", FALSE)
        BY <1>3, <2>4 DEF start_data_service
      <3>. QED
        BY <2>1, <2>3, <2>4, <3>1, BeginSearchKeeps
    <2>5. CASE pc' # "search"
      <3>1. UNCHANGED <<gps, search, done, om3, since, stamped, age, last>>
        BY <1>3, <2>5 DEF start_data_service, GpsRests
      <3>2. SearchTypes' /\ Where' /\ Timed'
        BY <2>1, <2>2, <2>3, <2>5, <3>1 DEF Core, SearchTypes, Where, Timed
      <3>3. Released'
        BY <2>1, <2>3, <3>1 DEF Core, Released
      <3>4. Levels'
        BY <2>1, <2>2, LevelsStay DEF Core
      <3>. QED
        BY <2>3, <3>2, <3>3, <3>4 DEF Core
    <2>. QED
      BY <2>4, <2>5
  <1>4. CASE Query \/ Poll
    <2>1. /\ pc \in {"queries", "poll", "prompt"} /\ mal' = mal \ {"main"}
          /\ pc' \in {pc, "create", "loop"}
          /\ UNCHANGED <<gps, search, done, om3, emission_test, since, stamped, age, last, gpsOn,
                         prog, called, leftOn, xioVars>>
      BY <1>4 DEF Query, Poll, MainAnswered, Exit, GpsRests, mainVars
    <2>2. /\ pc' = "create" => prog = "factory"
          /\ pc' = "loop" => prog # "factory"
          /\ pc \in {"poll", "prompt"} => pc' = pc
      BY <1>4, <2>1 DEF Query, Poll, MainAnswered, Exit, mainVars
    <2>3. gps = "idle"
      BY <2>1 DEF Core, Where
    <2>4. SearchTypes' /\ Where' /\ Timed'
      BY <2>1, <2>3 DEF Core, SearchTypes, Where, Timed
    <2>5. Places' /\ Released'
      BY <2>1, <2>2, <2>3 DEF Core, Places, Released, Programs
    <2>6. Levels'
      BY <2>1, LevelsStay DEF Core
    <2>. QED
      BY <2>4, <2>5, <2>6 DEF Core
  <1>6. CASE QueryCrash
    <2>1. /\ pc = "queries" /\ pc' = "ended" /\ mal' = {}
          /\ UNCHANGED <<gps, search, done, om3, emission_test, since, stamped, age, last, gpsOn,
                         prog, called, leftOn, xioVars>>
      BY <1>6 DEF QueryCrash, NoTransactions, GpsRests
    <2>2. SearchTypes' /\ Where' /\ Places' /\ Released' /\ Timed'
      BY <2>1 DEF Core, SearchTypes, Where, Places, Released, Timed
    <2>3. Levels'
      BY <2>1, LevelsStay DEF Core
    <2>. QED
      BY <2>2, <2>3 DEF Core
  <1>5. CASE SwitchOff
    <2>1. /\ pc = "off" /\ pc' = "ended" /\ mal' = mal \ {"main"} /\ leftOn' = gpsOn'
          /\ UNCHANGED <<gps, search, done, om3, emission_test, since, stamped, age, last,
                         prog, called, xioVars>>
      BY <1>5 DEF SwitchOff, MainAnswered, Exit
    <2>2. SearchTypes' /\ Where' /\ Places' /\ Released' /\ Timed'
      BY <2>1 DEF Core, SearchTypes, Where, Places, Released, Timed
    <2>3. Levels'
      BY <2>1, LevelsStay DEF Core
    <2>. QED
      BY <2>2, <2>3 DEF Core
  <1>. QED
    BY <1>2, <1>3, <1>4, <1>5, <1>6 DEF MainMal

(* The search: a transaction is begun, ends, or its result is looked at.    *)
LEMMA GpsThreadKeeps ==
  ASSUME Core, GpsThread
  PROVE  Core'
  <1>1. /\ UNCHANGED <<prog, called, pc, xioVars>>
        /\ leftOn' = IF gps = "disableGPS" /\ gps' = "ended" THEN gpsOn' ELSE leftOn
    BY DEF GpsThread
  <1>2. UNCHANGED <<search, emission_test, since, stamped, age>> /\ gps # "idle" /\ gps' # "idle"
    BY DEF GpsThread, Searching, Ask, setGPSmode, getGPSconfig, enableGPS, resetGPS,
           getGPSlocation, Check, disableGPS, Answered, Enter, Exit
  <1>3. mal' \subseteq mal \cup {"gps"} /\ ("gps" \in mal' => gps' \in Asking)
    <2>1. CASE Ask
      BY <2>1 DEF Ask, Enter, Asking
    <2>2. CASE Check
      BY <2>2 DEF Check, malVars, Core, Where, Asking
    <2>3. CASE ~Ask /\ ~Check
      <3>1. mal' = mal \ {"gps"}
        BY <2>3 DEF GpsThread, Searching, setGPSmode, getGPSconfig, enableGPS, resetGPS,
                    getGPSlocation, disableGPS, Answered, Exit
      <3>. QED
        BY <3>1
    <2>. QED
      BY <2>1, <2>2, <2>3
  <1>4. gps' \in Asking \cup {"check", "ended"} /\ last' \in {last, "fix", "none yet"}
    BY DEF Core, SearchTypes, GpsThread, Searching, Ask, setGPSmode, getGPSconfig, enableGPS,
           resetGPS, getGPSlocation, Check, disableGPS, Answered, Enter, Exit, Asking
  <1>5. SearchTypes' /\ Where' /\ Places'
    BY <1>1, <1>2, <1>3, <1>4 DEF Core, SearchTypes, Where, Places
  <1>6. Released'
    <2>1. CASE enableGPS
      <3>1. gps' \in {"resetGPS", "getGPSlocation"}
        BY <2>1 DEF enableGPS
      <3>. QED
        BY <3>1 DEF Released
    <2>2. CASE disableGPS
      <3>1. leftOn' = gpsOn'
        BY <1>1, <2>2 DEF disableGPS, Answered, Exit
      <3>. QED
        BY <3>1 DEF Released
    <2>3. CASE Check
      <3>1. /\ gps = "check" /\ gpsOn' = gpsOn /\ leftOn' = leftOn
            /\ gps' \in {"getGPSlocation", "disableGPS"} \/ emission_test
        BY <1>1, <2>3 DEF Check
      <3>2. emission_test => prog = "factory" \/ (prog = "emissions" /\ pc = "search")
        BY <1>2 DEF Core, Where, Places
      <3>. QED
        BY <1>1, <1>2, <3>1, <3>2 DEF Released
    <2>4. CASE Ask \/ setGPSmode \/ getGPSconfig \/ resetGPS \/ getGPSlocation
      <3>1. /\ gpsOn' = gpsOn /\ (gps # "disableGPS" \/ gps' = gps)
            /\ \/ gps' = gps /\ gps \in Asking
               \/ gps \in {"setGPSmode", "getGPSconfig"}
               \/ gps' \in {"getGPSlocation", "check"}
        BY <2>4 DEF Ask, setGPSmode, getGPSconfig, resetGPS, getGPSlocation, Answered, Enter, Exit, Asking
      <3>2. leftOn' = leftOn
        BY <1>1, <3>1
      <3>. QED
        BY <1>1, <1>2, <3>1, <3>2 DEF Core, Released
    <2>. QED
      BY <2>1, <2>2, <2>3, <2>4 DEF GpsThread, Searching
  <1>7. Timed'
    <2>1. CASE getGPSlocation
      <3>1. gps' = "check" /\ done' = om3'
        BY <2>1 DEF getGPSlocation
      <3>2. om3' => last' # "none yet"
        <4>1. CASE UNCHANGED <<om3, last>>
          BY <4>1 DEF Core, Timed
        <4>2. CASE \E fix \in BOOLEAN : om3' = fix /\ last' = IF fix THEN "fix" ELSE "none yet"
          <5>1. PICK fix \in BOOLEAN : om3' = fix /\ last' = IF fix THEN "fix" ELSE "none yet"
            BY <4>2
          <5>2. fix => last' = "fix"
            BY <5>1
          <5>. QED
            BY <5>1, <5>2
        <4>. QED
          BY <2>1, <4>1, <4>2 DEF getGPSlocation
      <3>. QED
        BY <1>2, <3>1, <3>2 DEF Core, Timed, Before
    <2>2. CASE getGPSconfig
      BY <1>2, <2>2 DEF Core, Timed, Before, getGPSconfig, Answered, Exit
    <2>3. CASE Ask \/ setGPSmode \/ enableGPS \/ resetGPS \/ Check \/ disableGPS
      <3>1. /\ UNCHANGED <<done, om3, last>>
            /\ gps' = "check" => gps = "check"
            /\ gps' \in Before => gps \in Before
        BY <2>3 DEF Ask, setGPSmode, enableGPS, resetGPS, Check, disableGPS, Answered, Enter, Exit, Before
      <3>. QED
        BY <1>2, <3>1 DEF Core, Timed
    <2>. QED
      BY <2>1, <2>2, <2>3 DEF GpsThread, Searching
  <1>8. Levels'
    BY <1>1, LevelsStay DEF Core
  <1>. QED
    BY <1>5, <1>6, <1>7, <1>8 DEF Core

LEMMA TimeKeeps ==
  ASSUME Core, Time
  PROVE  Core'
  <1>1. /\ since' = Upto(since + 1) /\ age' = Upto(age + 1)
        /\ UNCHANGED <<gps, search, done, om3, emission_test, stamped, last, gpsOn, mal>>
        /\ UNCHANGED <<prog, called, pc, query, user_press, leftOn, xioVars>>
    BY DEF Time, Tick, malVars, mainVars
  <1>2. since \in -1 .. GPS_TO + 1 /\ age \in 0 .. GPS_TO + 1
    BY DEF Core, SearchTypes
  <1>3. /\ since' \in -1 .. GPS_TO + 1 /\ age' \in 0 .. GPS_TO + 1
        /\ since <= age => since' <= age'
    BY <1>1, <1>2, TimeoutAssumption DEF Upto
  <1>4. SearchTypes'
    BY <1>1, <1>3 DEF Core, SearchTypes
  <1>5. Where' /\ Places' /\ Released'
    BY <1>1 DEF Core, Where, Places, Released
  <1>6. Timed'
    BY <1>1, <1>3 DEF Core, Timed
  <1>7. Levels'
    BY <1>1, LevelsStay DEF Core
  <1>. QED
    BY <1>4, <1>5, <1>6, <1>7 DEF Core

-----------------------------------------------------------------------------
(* Main begins a search: the gps command, a round, the factory test.        *)
LEMMA BeginnersKeep ==
  ASSUME Core, Command \/ Round \/ CreateThread \/ Stamp
  PROVE  Core'
  <1>1. CASE Command /\ pc' = "data"
    <2>1. /\ pc = "prompt" /\ prog' = "factory" /\ called' = TRUE
          /\ UNCHANGED <<gps, search, done, om3, emission_test, since, stamped, age, last, gpsOn,
                         mal, leftOn, xioVars>>
      BY <1>1 DEF Command, GpsRests, malVars
    <2>2. prog = "monitor" /\ gps = "idle"
      BY <2>1 DEF Core, Where, Places, Programs
    <2>3. ~emission_test
      BY <2>2 DEF Core, Places
    <2>4. SearchTypes' /\ Where' /\ Places' /\ Released' /\ Timed'
      BY <1>1, <2>1, <2>2, <2>3
         DEF Core, SearchTypes, Where, Places, Released, Timed, Programs
    <2>5. Levels'
      BY <1>1, <2>1, LevelsStay DEF Core
    <2>. QED
      BY <2>4, <2>5 DEF Core
  <1>2. CASE Command /\ pc' # "data"
    <2>1. /\ pc = "prompt" /\ pc' = "search" /\ BeginSearch("command_gps", FALSE)
          /\ UNCHANGED <<prog, called, emission_test, gpsOn, mal, leftOn, xioVars>>
      BY <1>2 DEF Command, malVars
    <2>2. gps = "idle" /\ "main" \notin mal /\ Places'
      BY <1>2, <2>1 DEF Command, Core, Where, Places, Programs
    <2>. QED
      BY <2>1, <2>2, BeginSearchKeeps
  <1>3. CASE Round
    <2>1. /\ pc = "loop" /\ pc' = "search" /\ BeginSearch("check_gps", TRUE)
          /\ UNCHANGED <<prog, called, emission_test, gpsOn, mal, leftOn, xioVars>>
      BY <1>3 DEF Round, malVars
    <2>2. gps = "idle" /\ "main" \notin mal /\ Places'
      BY <2>1 DEF Core, Where, Places, Programs
    <2>. QED
      BY <2>1, <2>2, BeginSearchKeeps
  <1>4. CASE CreateThread /\ pc' = "stamp"
    <2>1. /\ pc = "create" /\ BeginSearch("check_gps", FALSE)
          /\ UNCHANGED <<prog, called, emission_test, gpsOn, mal, leftOn, xioVars>>
      BY <1>4 DEF CreateThread, malVars
    <2>2. gps = "idle" /\ "main" \notin mal /\ Places'
      BY <1>4, <2>1 DEF Core, Where, Places, Programs
    <2>. QED
      BY <1>4, <2>1, <2>2, BeginSearchKeeps
  <1>5. CASE CreateThread /\ pc' # "stamp"
    <2>1. /\ pc = "create" /\ pc' = "search"
          /\ UNCHANGED <<gps, search, done, om3, emission_test, since, stamped, age, last, gpsOn,
                         mal, prog, called, leftOn, xioVars>>
      BY <1>5 DEF CreateThread, GpsRests, malVars
    <2>2. SearchTypes' /\ Where' /\ Places' /\ Released' /\ Timed'
      BY <2>1 DEF Core, SearchTypes, Where, Places, Released, Timed, Programs
    <2>3. Levels'
      BY <2>1, LevelsStay DEF Core
    <2>. QED
      BY <2>2, <2>3 DEF Core
  <1>6. CASE Stamp
    <2>1. /\ pc = "stamp" /\ pc' = "search" /\ since' = 0
          /\ UNCHANGED <<gps, search, done, om3, emission_test, age, last, gpsOn, mal,
                         prog, called, leftOn, xioVars>>
      BY <1>6 DEF Stamp, malVars
    <2>2. age \in 0 .. GPS_TO + 1
      BY DEF Core, SearchTypes
    <2>3. 0 \in -1 .. GPS_TO + 1 /\ 0 <= age
      BY <2>2, TimeoutAssumption
    <2>4. SearchTypes' /\ Where' /\ Places' /\ Released' /\ Timed'
      BY <2>1, <2>3 DEF Core, SearchTypes, Where, Places, Released, Timed, Programs
    <2>5. Levels'
      BY <2>1, LevelsStay DEF Core
    <2>. QED
      BY <2>4, <2>5 DEF Core
  <1>. QED
    BY <1>1, <1>2, <1>3, <1>4, <1>5, <1>6

-----------------------------------------------------------------------------
LEMMA JoinKeeps ==
  ASSUME Core, Join
  PROVE  Core'
  <1>1. prog \in Programs
    BY DEF Core, Places
  <1>2. pc = "search" /\ UNCHANGED <<query, user_press, leftOn>>
    BY DEF Join
  <1>3. /\ prog = "factory" => pc' \in {"xio", End}
        /\ prog = "emissions" => pc' = "poll"
        /\ prog = "quickstart" => pc' = "loop"
        /\ prog = "monitor" => pc' = "prompt"
    BY <1>1 DEF Join, Programs
  <1>4. /\ prog' = IF pc' = "prompt" THEN "monitor" ELSE prog
        /\ called' = (called /\ pc' # "prompt")
        /\ pc' \in {"xio", "ended", "prompt", "poll", "loop"}
        /\ pc' = "prompt" => prog = "monitor" \/ called
        /\ pc' = "xio" => prog = "factory"
    BY <1>1, <1>3 DEF Join, End, Programs
  <1>5. /\ gps \in {"idle", "ended"} /\ gps' = "idle"
        /\ UNCHANGED <<gpsOn, mal, emission_test, since>>
        /\ search' \in {search, "check_gps"} /\ age' \in {age, 0}
        /\ last' \in {last, "none"}
    BY DEF Join, EndSearch, gpsVars, malVars
  <1>6. Timed'
    <2>1. CASE gps = "idle"
      BY <2>1 DEF Join, gpsVars, Core, Timed, Before
    <2>2. CASE gps # "idle"
      <3>1. gps' = "idle" /\ stamped' = FALSE /\ om3' = FALSE
        BY <2>2 DEF Join, EndSearch
      <3>. QED
        BY <3>1 DEF Timed, Before
    <2>. QED
      BY <2>1, <2>2
  <1>7. SearchTypes' /\ Where'
    <2>1. 0 \in 0 .. GPS_TO + 1
      BY TimeoutAssumption
    <2>2. SearchTypes'
      BY <1>5, <2>1 DEF Core, SearchTypes
    <2>3. Where'
      BY <1>2, <1>4, <1>5 DEF Core, Where, Asking
    <2>. QED
      BY <2>2, <2>3
  <1>8. Places'
    <2>1. CASE pc' = "prompt"
      <3>1. prog' = "monitor" /\ ~called' /\ ~emission_test
        BY <1>4, <2>1 DEF Core, Places
      <3>. QED
        BY <1>5, <2>1, <3>1 DEF Places, Programs
    <2>2. CASE pc' # "prompt"
      BY <1>1, <1>3, <1>4, <1>5, <2>2 DEF Core, Places, Programs, End
    <2>. QED
      BY <2>1, <2>2
  <1>9. Released'
    <2>1. CASE prog = "emissions"
      BY <1>2, <1>3, <1>4, <2>1 DEF Released
    <2>2. CASE prog # "emissions"
      <3>1. gpsOn => leftOn \/ (prog = "factory" /\ emission_test)
        BY <1>5, <2>2 DEF Core, Released
      <3>2. prog = "factory" /\ emission_test => prog' = "factory"
        BY <1>4 DEF Core, Places
      <3>. QED
        BY <1>2, <1>5, <3>1, <3>2 DEF Released
    <2>. QED
      BY <2>1, <2>2
  <1>10. Levels'
    <2>1. CASE pc' = "xio"
      <3>1. /\ wire' \in Wirings /\ rst_m2_detected' = FALSE /\ verdict' = "none"
            /\ r1' = FALSE /\ r2' = FALSE /\ out' = FALSE /\ ioFailed' = FALSE
        BY <2>1 DEF Join, XioBegins
      <3>. QED
        BY <2>1, <3>1 DEF Levels, XioVerdict
    <2>2. CASE pc' # "xio"
      <3>1. UNCHANGED xioVars
        BY <2>2 DEF Join
      <3>. QED
        BY <1>2, <1>4, <2>2, <3>1, LevelsStay DEF Core
    <2>. QED
      BY <2>1, <2>2
  <1>. QED
    BY <1>6, <1>7, <1>8, <1>9, <1>10 DEF Core

(* The process ends: its user leaves it, or the sampler follows a null      *)
(* pointer.                                                                   *)
LEMMA LeaveKeeps ==
  ASSUME Core, Leave
  PROVE  Core'
  <1>1. /\ pc \in {"loop", "prompt"} /\ pc' = "ended" /\ mal' = {}
        /\ UNCHANGED <<gps, search, done, om3, emission_test, since, stamped, age, last, gpsOn,
                       prog, called, leftOn, xioVars>>
    BY DEF Leave, NoTransactions, GpsRests
  <1>2. SearchTypes' /\ Where' /\ Places' /\ Released' /\ Timed'
    BY <1>1 DEF Core, SearchTypes, Where, Places, Released, Timed, Programs
  <1>3. Levels'
    BY <1>1, LevelsStay DEF Core
  <1>. QED
    BY <1>2, <1>3 DEF Core

LEMMA WwanKeeps ==
  ASSUME Core, Wwan
  PROVE  Core'
  <1>1. CASE WwanTick \/ WwanAsks \/ WwanAnswered
    <2>1. /\ UNCHANGED <<gps, search, done, om3, emission_test, since, stamped, age, last, gpsOn,
                         prog, called, pc, leftOn, xioVars>>
          /\ mal' \subseteq mal \cup {"wwan"}
      BY <1>1 DEF WwanTick, WwanAsks, WwanAnswered, Enter, Exit, GpsRests, gpsVars, malVars, mainVars
    <2>2. SearchTypes' /\ Where'
      BY <2>1 DEF Core, SearchTypes, Where
    <2>3. Places' /\ Released'
      BY <2>1 DEF Core, Places, Released
    <2>4. Timed'
      BY <2>1 DEF Core, Timed
    <2>5. Levels'
      BY <2>1, LevelsStay DEF Core
    <2>. QED
      BY <2>2, <2>3, <2>4, <2>5 DEF Core
  <1>2. CASE WwanCrash
    <2>1. /\ pc' = "ended" /\ mal' = {} /\ leftOn' = gpsOn
          /\ gps' = "idle" /\ search' = "check_gps" /\ age' = 0 /\ last' = "none"
          /\ done' = FALSE /\ om3' = FALSE /\ stamped' = FALSE
          /\ wire' = "joined" /\ rst_m2_detected' = FALSE
          /\ r1' = FALSE /\ r2' = FALSE /\ out' = FALSE
          /\ ioFailed' = FALSE /\ verdict' = "none"
          /\ UNCHANGED <<emission_test, since, gpsOn, prog, called>>
      BY <1>2 DEF WwanCrash, NoTransactions, XioBegins
    <2>2. 0 \in 0 .. GPS_TO + 1
      BY TimeoutAssumption
    <2>3. SearchTypes'
      BY <2>1, <2>2 DEF Core, SearchTypes
    <2>4. Where' /\ Places' /\ Released' /\ Timed'
      BY <2>1 DEF Core, Where, Places, Released, Timed, Before, Programs
    <2>5. Levels'
      BY <2>1 DEF Levels, XioVerdict, Wirings
    <2>. QED
      BY <2>3, <2>4, <2>5 DEF Core
  <1>. QED
    BY <1>1, <1>2 DEF Wwan

(* The loops that wait for the key. *)
LEMMA KeyKeeps ==
  ASSUME Core, gpio_ftirq_callback \/ SeeKey
  PROVE  Core'
  <1>1. UNCHANGED <<gpsVars, prog, called, query, leftOn, xioVars>>
    BY DEF gpio_ftirq_callback, SeeKey
  <1>2. \/ pc' = pc
        \/ pc = "press" /\ pc' = "release"
        \/ pc = "release" /\ pc' = IF prog = "emissions" THEN "data" ELSE "queries"
        \/ pc = "poll" /\ pc' = "letgo" /\ "main" \notin mal
        \/ pc = "letgo" /\ pc' = "off"
    BY DEF gpio_ftirq_callback, SeeKey
  <1>3. gps' = gps /\ mal' = mal /\ gpsOn' = gpsOn /\ emission_test' = emission_test
    BY <1>1 DEF gpsVars, malVars
  <1>4. SearchTypes' /\ Timed'
    BY <1>1 DEF Core, SearchTypes, Timed, gpsVars, malVars
  <1>5. Where'
    BY <1>2, <1>3 DEF Core, Where
  <1>6. Places'
    BY <1>1, <1>2, <1>3 DEF Core, Places, Programs
  <1>7. Released'
    BY <1>1, <1>2, <1>3 DEF Core, Released, Places
  <1>8. Levels'
    BY <1>1, <1>2, LevelsStay DEF Core
  <1>. QED
    BY <1>4, <1>5, <1>6, <1>7, <1>8 DEF Core

-----------------------------------------------------------------------------
(* A write and a read that succeed give the level the wire has.             *)
LEMMA HighIsRead ==
  ASSUME Levels, WriteAndRead(TRUE, r1)
  PROVE  /\ {r1', out', ioFailed'} \subseteq BOOLEAN
         /\ ~ioFailed' => (r1' <=> wire # "low")
  <1>1. PICK written \in BOOLEAN, isRead \in BOOLEAN :
          /\ out' = IF written THEN TRUE ELSE out
          /\ r1' = IF isRead THEN Input(out') ELSE r1
          /\ ioFailed' = (ioFailed \/ ~written \/ ~isRead)
    BY DEF WriteAndRead
  <1>2. out \in BOOLEAN /\ r1 \in BOOLEAN /\ ioFailed \in BOOLEAN /\ wire \in Wirings
    BY DEF Levels
  <1>3. out' \in BOOLEAN /\ (written => out' = TRUE)
    BY Zenon, <1>1, <1>2
  <1>4. /\ Input(out') \in BOOLEAN
        /\ wire = "low" => Input(TRUE) = FALSE
        /\ wire = "high" => Input(TRUE) = TRUE
        /\ wire = "joined" => Input(TRUE) = TRUE
    BY Zenon, <1>3, "low" # "high", "low" # "joined", "high" # "joined" DEF Input
  <1>5. r1' \in BOOLEAN /\ (isRead => r1' = Input(out'))
    BY Zenon, <1>1, <1>2, <1>4
  <1>6. ioFailed' \in BOOLEAN /\ (~ioFailed' => written /\ isRead)
    BY Zenon, <1>1, <1>2
  <1>7. ASSUME ~ioFailed' PROVE r1' = Input(TRUE)
    BY Zenon, <1>3, <1>5, <1>6, <1>7
  <1>. QED
    BY <1>2, <1>3, <1>4, <1>5, <1>6, <1>7 DEF Wirings

LEMMA LowIsRead ==
  ASSUME Levels, WriteAndRead(FALSE, r2)
  PROVE  /\ {r2', out', ioFailed'} \subseteq BOOLEAN
         /\ ~ioFailed' => (r2' <=> wire = "high")
         /\ ioFailed => ioFailed'
  <1>1. PICK written \in BOOLEAN, isRead \in BOOLEAN :
          /\ out' = IF written THEN FALSE ELSE out
          /\ r2' = IF isRead THEN Input(out') ELSE r2
          /\ ioFailed' = (ioFailed \/ ~written \/ ~isRead)
    BY DEF WriteAndRead
  <1>2. out \in BOOLEAN /\ r2 \in BOOLEAN /\ ioFailed \in BOOLEAN /\ wire \in Wirings
    BY DEF Levels
  <1>3. out' \in BOOLEAN /\ (written => out' = FALSE)
    BY Zenon, <1>1, <1>2
  <1>4. /\ Input(out') \in BOOLEAN
        /\ wire = "low" => Input(FALSE) = FALSE
        /\ wire = "high" => Input(FALSE) = TRUE
        /\ wire = "joined" => Input(FALSE) = FALSE
    BY Zenon, <1>3, "low" # "high", "low" # "joined", "high" # "joined" DEF Input
  <1>5. r2' \in BOOLEAN /\ (isRead => r2' = Input(out'))
    BY Zenon, <1>1, <1>2, <1>4
  <1>6. ioFailed' \in BOOLEAN /\ (~ioFailed' => written /\ isRead) /\ (ioFailed => ioFailed')
    BY Zenon, <1>1, <1>2
  <1>7. ASSUME ~ioFailed' PROVE r2' = Input(FALSE)
    BY Zenon, <1>3, <1>5, <1>6, <1>7
  <1>. QED
    BY <1>2, <1>3, <1>4, <1>5, <1>6, <1>7 DEF Wirings

LEMMA WiresKeep ==
  ASSUME Core, Wires
  PROVE  Core'
  <1>1. /\ UNCHANGED <<gpsVars, query, user_press, leftOn>>
        /\ pc \in {"xio", "low", "print", "printed"}
        /\ pc' \in {"xio", "low", "print", "printed", End}
    BY DEF Wires, ReadHigh, ReadLow, gpio_rst_m2_callback, PrintVerdict, NextPair, Testing,
           mainVars
  <1>2. prog = "factory" /\ gps = "idle"
    BY <1>1 DEF Core, Places, Where, Programs
  <1>3. /\ pc' = "prompt" => prog' = "monitor" /\ ~called'
        /\ pc' # "prompt" => prog' = prog
        /\ called' => called
    <2>1. CASE NextPair
      <3>1. (pc' = "prompt" => prog' = "monitor") /\ (pc' # "prompt" => prog' = prog)
        BY <2>1 DEF NextPair
      <3>2. (called' => called) /\ (called' => pc' # "prompt")
        BY Zenon, <2>1 DEF NextPair
      <3>. QED
        BY <3>1, <3>2
    <2>2. CASE ReadHigh \/ ReadLow \/ gpio_rst_m2_callback \/ PrintVerdict
      <3>1. pc' # "prompt" /\ prog' = prog /\ called' = called
        BY <1>1, <2>2
           DEF ReadHigh, ReadLow, gpio_rst_m2_callback, PrintVerdict, Testing, mainVars
      <3>. QED
        BY Zenon, <3>1
    <2>. QED
      BY <2>1, <2>2 DEF Wires
  <1>4. SearchTypes' /\ Where' /\ Timed'
    BY <1>1, <1>2 DEF Core, SearchTypes, Where, Timed, gpsVars, malVars, End
  <1>5. Places' /\ Released'
    <2>1. emission_test' = emission_test /\ gpsOn' = gpsOn
      BY <1>1 DEF gpsVars, malVars
    <2>2. CASE pc' = "prompt"
      <3>1. called /\ ~emission_test
        BY <1>1, <2>2 DEF End, Core, Places
      <3>2. gpsOn => leftOn
        BY <1>2, <3>1 DEF Core, Released
      <3>. QED
        BY <1>1, <1>3, <2>1, <2>2, <3>1, <3>2 DEF Places, Released, Programs
    <2>3. CASE pc' # "prompt"
      BY <1>1, <1>2, <1>3, <2>1, <2>3 DEF Core, Places, Released, Programs, End
    <2>. QED
      BY <2>2, <2>3
  <1>6. Levels'
    <2>0. Levels
      BY DEF Core
    <2>1. CASE ReadHigh
      <3>1. /\ pc = "xio" /\ pc' = "low" /\ Pairs[pair] # "rst_m2" /\ WriteAndRead(TRUE, r1)
            /\ UNCHANGED <<pair, wire, r2, rst_m2_detected, verdict>>
        BY <2>1 DEF ReadHigh, Testing
      <3>. QED
        BY <2>0, <3>1, HighIsRead DEF Levels, XioVerdict, Joined
    <2>2. CASE ReadLow
      <3>1. /\ pc = "low" /\ pc' = "print" /\ WriteAndRead(FALSE, r2)
            /\ UNCHANGED <<pair, wire, r1, rst_m2_detected, verdict>>
        BY <2>2 DEF ReadLow, Testing
      <3>. QED
        BY <2>0, <3>1, LowIsRead DEF Levels, XioVerdict, Joined
    <2>3. CASE gpio_rst_m2_callback
      <3>1. /\ wire = "joined" /\ rst_m2_detected' = TRUE /\ pc = "xio"
            /\ UNCHANGED <<pc, pair, wire, r1, r2, out, ioFailed, verdict>>
        BY <2>3 DEF gpio_rst_m2_callback, Testing
      <3>. QED
        BY <2>0, <3>1 DEF Levels, XioVerdict, Joined
    <2>4. CASE PrintVerdict
      <3>1. /\ pc' = "printed"
            /\ UNCHANGED <<pair, wire, r1, r2, out, rst_m2_detected, ioFailed>>
        BY <2>4 DEF PrintVerdict, Testing
      <3>2. CASE pc = "print"
        <4>1. /\ r1 # r2 => verdict' = "OK"
              /\ r1 = r2 => verdict' = "FAIL"
          BY Zenon, <2>4, <3>2, "print" # "xio" DEF PrintVerdict, Testing
        <4>. QED
          BY <2>0, <3>1, <3>2, <4>1 DEF Levels, XioVerdict, Joined, Wirings
      <3>3. CASE pc # "print"
        <4>1. /\ Pairs[pair] = "rst_m2"
              /\ rst_m2_detected => verdict' = "OK"
              /\ ~rst_m2_detected => verdict' = "FAIL"
          BY Zenon, <2>4, <3>3 DEF PrintVerdict, Testing
        <4>. QED
          BY <2>0, <3>1, <4>1 DEF Levels, XioVerdict, Joined
      <3>. QED
        BY <3>2, <3>3
    <2>5. CASE NextPair
      <3>1. /\ pc' \in {"xio", End} /\ wire' \in Wirings /\ verdict' = "none"
            /\ out' = FALSE /\ ioFailed' = FALSE
            /\ r1' = (r1 /\ pc' = "xio") /\ r2' = (r2 /\ pc' = "xio")
            /\ rst_m2_detected' = FALSE
        BY <2>5 DEF NextPair, Wirings
      <3>2. r1' \in BOOLEAN /\ r2' \in BOOLEAN
        BY <2>0, <3>1 DEF Levels
      <3>. QED
        BY <3>1, <3>2 DEF Levels, XioVerdict, End
    <2>. QED
      BY <2>1, <2>2, <2>3, <2>4, <2>5 DEF Wires
  <1>. QED
    BY <1>4, <1>5, <1>6 DEF Core

-----------------------------------------------------------------------------
(* The flag and those inside.  A transaction that begins raises the flag, and*)
(* when it drops it at its end another is inside only if the two overlapped. *)
LEMMA EnterFlagged ==
  ASSUME Flagged, NEW thread \in {"main", "gps", "wwan"}, Enter(thread)
  PROVE  Flagged'
  BY DEF Flagged, Enter

LEMMA ExitFlagged ==
  ASSUME Flagged, NEW thread \in {"main", "gps", "wwan"}, Exit(thread)
  PROVE  Flagged'
  <1>1. mal_busy' = FALSE /\ mal' = mal \ {thread} /\ overlapped' = (overlapped /\ mal' # {})
    BY DEF Exit
  <1>2. CASE overlapped
    BY <1>1, <1>2 DEF Flagged
  <1>3. CASE ~overlapped
    <2>1. PICK one \in {"main", "gps", "wwan"} : mal \subseteq {one}
      BY <1>3 DEF Flagged
    <2>2. mal' = {}
      BY <1>1, <2>1 DEF Exit
    <2>. QED
      BY <1>1, <2>2 DEF Flagged
  <1>. QED
    BY <1>2, <1>3 DEF Flagged

LEMMA NextFlagged ==
  ASSUME Flagged, Next
  PROVE  Flagged'
  <1>1. \/ \E thread \in {"main", "gps", "wwan"} : Enter(thread) \/ Exit(thread)
        \/ NoTransactions
        \/ UNCHANGED malVars
    <2>1. CASE MainMal
      BY <2>1 DEF MainMal, MainAsks, start_data_service, Query, QueryCrash, Poll, SwitchOff, MainAnswered
    <2>2. CASE GpsThread
      BY <2>2 DEF GpsThread, Searching, Ask, setGPSmode, getGPSconfig, enableGPS, resetGPS,
                  getGPSlocation, Check, disableGPS, Answered
    <2>3. CASE Wwan
      BY <2>3 DEF Wwan, WwanTick, WwanAsks, WwanAnswered, WwanCrash, gpsVars
    <2>4. CASE NewProcess \/ Leave
      BY <2>4 DEF NewProcess, Leave
    <2>5. CASE Time \/ Command \/ Round \/ CreateThread \/ Stamp
      BY <2>5 DEF Time, Tick, Command, Round, CreateThread, Stamp
    <2>6. CASE Join
      BY <2>6 DEF Join, EndSearch, gpsVars
    <2>7. CASE gpio_ftirq_callback \/ SeeKey \/ Wires
      BY <2>7 DEF gpio_ftirq_callback, SeeKey, Wires, ReadHigh, ReadLow, gpio_rst_m2_callback,
                  PrintVerdict, NextPair, Testing, gpsVars
    <2>. QED
      BY <2>1, <2>2, <2>3, <2>4, <2>5, <2>6, <2>7 DEF Next
  <1>2. CASE \E thread \in {"main", "gps", "wwan"} : Enter(thread) \/ Exit(thread)
    BY <1>2, EnterFlagged, ExitFlagged
  <1>3. CASE NoTransactions
    BY <1>3 DEF NoTransactions, Flagged
  <1>4. CASE UNCHANGED malVars
    BY <1>4 DEF malVars, Flagged
  <1>. QED
    BY <1>1, <1>2, <1>3, <1>4

(* The sampler and what main runs. *)
LEMMA NextSampling ==
  ASSUME Core, Sampling, Next
  PROVE  Sampling'
  <1>1. CASE NoTransactions
    BY <1>1 DEF NoTransactions, Sampling
  <1>2. CASE /\ sampler' = sampler /\ ("wwan" \in mal' => "wwan" \in mal)
             /\ Sampled => Sampled'
    BY <1>2 DEF Sampling
  <1>3. CASE Wwan
    <2>1. CASE WwanTick
      BY <2>1 DEF WwanTick, Sampling, Sampled
    <2>2. CASE WwanAsks
      BY <2>2 DEF WwanAsks, Enter, Sampling, Sampled, mainVars
    <2>3. CASE WwanAnswered
      BY <2>3 DEF WwanAnswered, Exit, Sampling, Sampled
    <2>4. CASE WwanCrash
      BY <1>1, <2>4 DEF WwanCrash
    <2>. QED
      BY <1>3, <2>1, <2>2, <2>3, <2>4 DEF Wwan
  <1>4. CASE MainMal
    <2>1. CASE QueryCrash
      BY <1>1, <2>1 DEF QueryCrash
    <2>2. CASE MainAsks \/ Poll
      BY <1>2, <2>2 DEF MainAsks, Poll, MainAnswered, Enter, Exit, Sampled, mainVars
    <2>3. CASE start_data_service
      <3>1. /\ pc = "data" /\ pc' # "ended"
            /\ UNCHANGED <<prog, called, sampler>> /\ mal' \subseteq mal
        BY <2>3 DEF start_data_service, MainAnswered, Exit, Core, Places, Programs
      <3>. QED
        BY <1>2, <3>1 DEF Sampled
    <2>4. CASE Query
      <3>1. /\ pc = "queries" /\ pc' \in {"queries", "create", "loop"}
            /\ UNCHANGED <<prog, called, sampler>> /\ mal' \subseteq mal
        BY <2>4 DEF Query, MainAnswered, Exit
      <3>. QED
        BY <1>2, <3>1 DEF Sampled
    <2>5. CASE SwitchOff
      <3>1. pc = "off" /\ ~Sampled
        BY <2>5 DEF SwitchOff, MainAnswered, Core, Places, Sampled, Programs
      <3>. QED
        BY <1>2, <2>5, <3>1 DEF SwitchOff, MainAnswered, Exit
    <2>. QED
      BY <1>4, <2>1, <2>2, <2>3, <2>4, <2>5 DEF MainMal
  <1>5. CASE GpsThread \/ Time
    <2>1. UNCHANGED <<prog, called, pc, sampler>> /\ ("wwan" \in mal' => "wwan" \in mal)
      BY <1>5 DEF GpsThread, Time, Tick, mainVars, malVars, Searching, Ask, setGPSmode, getGPSconfig,
                  enableGPS, resetGPS, getGPSlocation, Check, disableGPS, Answered, Enter, Exit
    <2>. QED
      BY <1>2, <2>1 DEF Sampled
  <1>6. CASE NewProcess \/ Leave
    BY <1>1, <1>6 DEF NewProcess, Leave
  <1>7. CASE Command
    <2>1. /\ pc' \in {"data", "search"} /\ UNCHANGED <<mal, sampler>>
          /\ called' \/ (UNCHANGED <<prog, called>> /\ pc' = "search")
      BY <1>7 DEF Command, malVars
    <2>. QED
      BY <1>2, <2>1 DEF Sampled
  <1>8. CASE Round \/ CreateThread \/ Stamp
    <2>1. /\ pc' \in {"search", "stamp"} /\ UNCHANGED <<prog, called, mal, sampler>>
      BY <1>8 DEF Round, CreateThread, Stamp, malVars
    <2>. QED
      BY <1>2, <2>1 DEF Sampled
  <1>9. CASE Join
    <2>1. prog \in Programs /\ (called => prog = "factory")
      BY DEF Core, Places
    <2>2. /\ UNCHANGED <<mal, sampler>> /\ pc' # "data"
          /\ pc' = "prompt" => prog' = "monitor"
          /\ pc' # "prompt" => prog' = prog
          /\ pc' = "ended" => prog = "factory" /\ ~called
      BY <1>9, <2>1 DEF Join, EndSearch, End, gpsVars, malVars, Programs
    <2>3. called /\ pc' # "prompt" => called'
      BY Zenon, <1>9 DEF Join
    <2>. QED
      BY <1>2, <2>1, <2>2, <2>3 DEF Sampled
  <1>10. CASE gpio_ftirq_callback \/ SeeKey
    <2>1. /\ UNCHANGED <<prog, called, mal, sampler>>
          /\ pc' = pc \/ (pc' # "ended" /\ (pc' = "data" => prog = "emissions"))
      BY <1>10 DEF gpio_ftirq_callback, SeeKey, gpsVars, malVars
    <2>. QED
      BY <1>2, <2>1 DEF Sampled
  <1>11. CASE Wires
    <2>1. pc \in {"xio", "low", "print", "printed"} /\ UNCHANGED <<mal, sampler>>
      BY <1>11 DEF Wires, ReadHigh, ReadLow, gpio_rst_m2_callback, PrintVerdict, NextPair, Testing,
                   gpsVars, malVars
    <2>2. prog = "factory"
      BY <2>1 DEF Core, Places, Programs
    <2>3. \/ UNCHANGED <<prog, called>> /\ pc' \in {"xio", "low", "print", "printed"}
          \/ NextPair
      BY <1>11 DEF Wires, ReadHigh, ReadLow, gpio_rst_m2_callback, PrintVerdict, Testing
    <2>4. ASSUME NextPair
          PROVE  /\ pc' = "prompt" => prog' = "monitor"
                 /\ pc' = "ended" => ~called
                 /\ called /\ pc' = "xio" => called'
                 /\ pc' = "xio" => prog' = prog
                 /\ pc' \in {"prompt", "ended", "xio"}
      <3>1. called /\ pc' # "prompt" => called'
        BY Zenon, <2>4 DEF NextPair
      <3>2. /\ pc' = "prompt" => prog' = "monitor"
            /\ pc' # "prompt" => prog' = prog
            /\ pc' \in {"xio", End}
        BY <2>4 DEF NextPair
      <3>. QED
        BY <3>1, <3>2 DEF End
    <2>. QED
      BY <1>2, <2>1, <2>2, <2>3, <2>4 DEF Sampled
  <1>. QED
    BY <1>3, <1>4, <1>5, <1>6, <1>7, <1>8, <1>9, <1>10, <1>11 DEF Next

LEMMA NextKeeps == IInv /\ [Next]_vars => IInv'
  <1>. SUFFICES ASSUME IInv, [Next]_vars PROVE IInv'
    OBVIOUS
  <1>1. CASE Next
    <2>1. Core'
      BY <1>1, NewProcessKeeps, MainMalKeeps, GpsThreadKeeps, TimeKeeps, BeginnersKeep, JoinKeeps,
         LeaveKeeps, WwanKeeps, KeyKeeps, WiresKeep DEF Next, IInv
    <2>2. Flagged' /\ Sampling'
      BY <1>1, NextFlagged, NextSampling DEF IInv
    <2>. QED
      BY <2>1, <2>2 DEF IInv
  <1>2. CASE UNCHANGED vars
    <2>1. UNCHANGED gpsVars /\ UNCHANGED mainVars /\ UNCHANGED xioVars
      BY <1>2 DEF vars
    <2>2. SearchTypes' /\ Timed'
      BY <2>1 DEF gpsVars, malVars, IInv, Core, SearchTypes, Timed
    <2>3. Where' /\ Places' /\ Released'
      BY <2>1 DEF gpsVars, malVars, mainVars, IInv, Core, Where, Places, Released
    <2>4. Levels'
      BY <2>1, LevelsStay DEF mainVars, IInv, Core
    <2>5. Flagged' /\ Sampling'
      BY <2>1 DEF gpsVars, malVars, mainVars, IInv, Flagged, Sampling, Sampled
    <2>. QED
      BY <2>2, <2>3, <2>4, <2>5 DEF IInv, Core
  <1>. QED
    BY <1>1, <1>2

-----------------------------------------------------------------------------
(* The invariant holds in every state of the programs that search.          *)
THEOREM Invariance == Spec => []IInv
  BY InitHolds, NextKeeps, PTL DEF Spec

(* Main and the search never ask the MAL manager at once, which the comment *)
(* at facttest.cpp:270 wants of the factory test, in every program of        *)
(* FactoryTest; the sampler asks it only in the monitor and in Quick Start,   *)
(* and finds mal_busy down only when nobody is inside a transaction or two    *)
(* of them have overlapped.                                                     *)
THEOREM MainOrSearch == Spec => []MalExclusive
  <1>1. ASSUME IInv
        PROVE  MalExclusive
    <2>1. ~({"main", "gps"} \subseteq mal)
      BY <1>1 DEF IInv, Core, Where, Asking
    <2>2. ("wwan" \in mal => Sampled) /\ (mal_busy \/ mal = {} \/ overlapped)
      BY <1>1 DEF IInv, Flagged, Sampling
    <2>. QED
      BY <2>1, <2>2 DEF MalExclusive
  <1>. QED
    BY <1>1, Invariance, PTL

(* A program that rests or ends has the receiver off, but for the cases that*)
(* GpsReleased names.                                                         *)
THEOREM ReceiverOff == Spec => []GpsReleased
  <1>1. IInv => GpsReleased
    BY DEF IInv, Core, Where, Released, GpsReleased
  <1>. QED
    BY <1>1, Invariance, PTL

(* The verdict printed of a pair of wires is true when no access failed.    *)
THEOREM TrueVerdict == Spec => []XioVerdict
  <1>1. IInv => XioVerdict
    BY DEF IInv, Core, Levels
  <1>. QED
    BY <1>1, Invariance, PTL

(* A search of check_gps or command_gps ends early only on a fix, on a table*)
(* that no answer of it has touched, or without a stamp.                     *)
THEOREM WholeTime == Spec => SearchIsFull
  <1>1. ASSUME IInv, [Next]_vars
        PROVE  (gps = "check" /\ gps' \in {"disableGPS", "ended"}) =>
                 \/ last \in {"fix", "none"}
                 \/ (search = "check_gps") /\ (age > GPS_TO \/ ~stamped)
    <2>. SUFFICES ASSUME gps = "check", gps' \in {"disableGPS", "ended"}, ~(last \in {"fix", "none"})
                  PROVE  (search = "check_gps") /\ (age > GPS_TO \/ ~stamped)
      OBVIOUS
    <2>1. pc \in {"stamp", "search"} /\ ~om3 /\ ~done
      BY <1>1 DEF IInv, Core, Where, Timed, SearchTypes
    <2>2. Check
      <3>1. ~(NewProcess \/ MainMal \/ Time \/ Command \/ Round \/ CreateThread \/ Stamp
              \/ Leave \/ Wwan \/ gpio_ftirq_callback \/ SeeKey \/ Wires \/ UNCHANGED vars)
        BY <2>1
           DEF NewProcess, MainMal, MainAsks, start_data_service, Query, QueryCrash, Poll, SwitchOff, GpsRests,
               MainAnswered, Time, Tick, Command, Round, CreateThread, Stamp, Leave, gpsVars, Wwan,
               WwanTick, WwanAsks, WwanAnswered, WwanCrash,
               gpio_ftirq_callback, SeeKey, Wires, ReadHigh, ReadLow, gpio_rst_m2_callback,
               PrintVerdict, NextPair, Testing, vars
      <3>2. ~Join
        BY DEF Join, EndSearch
      <3>3. Searching
        BY <1>1, <3>1, <3>2 DEF Next, GpsThread
      <3>. QED
        BY <3>3 DEF Searching, Ask, setGPSmode, getGPSconfig, enableGPS, resetGPS,
                    getGPSlocation, disableGPS, Answered
    <2>3. search = "check_gps" /\ since > GPS_TO
      BY <2>1, <2>2 DEF Check
    <2>4. since <= age \/ ~stamped
      BY <1>1 DEF IInv, Core, Timed
    <2>5. since \in -1 .. GPS_TO + 1 /\ age \in 0 .. GPS_TO + 1
      BY <1>1 DEF IInv, Core, SearchTypes
    <2>6. age > GPS_TO \/ ~stamped
      BY <2>3, <2>4, <2>5, TimeoutAssumption
    <2>. QED
      BY <2>3, <2>6
  <1>. QED
    BY <1>1, Invariance, PTL DEF Spec, SearchIsFull
=============================================================================
