------------------------------- MODULE Hts221 -------------------------------
(***************************************************************************)
(* The humidity and temperature sensor, HTS221.cpp, read by main (demo.c)  *)
(* and by the timer thread's uploads (do_hts2m2x of m2x.c) through one     *)
(* object.  Every poll reads the calibration into that object again, a     *)
(* register at a time, and computes from it.                               *)
(*                                                                         *)
(* A word of the calibration has two parts, each of which may be missing   *)
(* ("none"), there ("ok") or zero because its register could not be read;  *)
(* of a computed value only what spoils it is kept.  The chip makes a      *)
(* sample of both kinds from time to time and drops its ready bit when the *)
(* sample's upper byte is read.                                            *)
(***************************************************************************)
EXTENDS Integers, SequencesExt

CONSTANTS
  MaxRounds,    \* bound: rounds of readings, for each thread
  MaxFaults,    \* bound: accesses of a register that fail
  MainUploads   \* main, too, uploads the readings: doM2X in the demo

ASSUME HtsBounds ==
  MaxRounds \in Nat /\ MaxFaults \in Nat /\ MainUploads \in BOOLEAN

VARIABLES
  iAm,          \* _iAm: what WHO_AM_I was when the object was made
  powered,      \* POWER_UP is set
  ready,        \* STATUS_REG: the kinds with a sample nobody has read
  cal,          \* the calibration
  value,        \* _temperature, _humidity: what spoils them
  pc, plan,     \* by thread: where it is, and the calls it still makes
  reg,          \* by thread: the register of the calibration that is next
  spoils,       \* by thread: what spoils the sample it reads
  clean,        \* history, by thread: it has read alone and without failure so far
  rounds, faults

threadVars == <<pc, plan, reg, spoils, clean>>
htsVars == <<iAm, powered, ready, cal, value, threadVars, rounds, faults>>

Threads == {"main", "timer"}
Other(t) == IF t = "main" THEN "timer" ELSE "main"
Kinds == {"temperature", "humidity"}

(* getCalibration: each register with the words it goes to and how.  "or"   *)
(* adds the upper byte to what is there; "bits" are those of the two words  *)
(* of ten bits, written with the lower byte in one store.                    *)
Registers ==
  <<[of |-> {"h0_rH"}, as |-> "byte"], [of |-> {"h1_rH"}, as |-> "byte"],
    [of |-> {"T0_degC"}, as |-> "low"], [of |-> {"T1_degC"}, as |-> "low"],
    [of |-> {"T0_degC", "T1_degC"}, as |-> "bits"],
    [of |-> {"H0_T0"}, as |-> "low"], [of |-> {"H0_T0"}, as |-> "or"],
    [of |-> {"H1_T0"}, as |-> "low"], [of |-> {"H1_T0"}, as |-> "or"],
    [of |-> {"T0_OUT"}, as |-> "low"], [of |-> {"T0_OUT"}, as |-> "or"],
    [of |-> {"T1_OUT"}, as |-> "low"], [of |-> {"T1_OUT"}, as |-> "or"]>>

Words(kind) ==
  IF kind = "temperature" THEN {"T0_degC", "T1_degC", "T0_OUT", "T1_OUT"}
  ELSE {"h0_rH", "h1_rH", "H0_T0", "H1_T0"}
AllWords == Words("temperature") \cup Words("humidity")

(* What the callers do: get is the loop that polls until there is a sample, *)
(* read takes the value.                                                     *)
get(kind) == [op |-> "get", kind |-> kind]
read(kind) == [op |-> "read", kind |-> kind]
do_hts2m2x == <<get("temperature"), read("temperature"), get("humidity"), read("humidity")>>
DemoReading == <<get("humidity"), get("temperature"), read("temperature"), read("humidity")>>

inited == iAm = "HTS221"

Kind(t) == Head(plan[t]).kind
At(t, where) == pc[t] = where

HtsInit ==
  /\ iAm \in {"nothing", "HTS221", "another"}
  /\ powered = FALSE
  /\ ready = {}
  /\ cal = [w \in AllWords |-> [lower |-> "none", upper |-> "none"]]
  /\ value = [k \in Kinds |-> {}]
  /\ pc = [t \in Threads |-> "idle"]
  /\ plan = [t \in Threads |-> <<>>]
  /\ reg = [t \in Threads |-> 1]
  /\ spoils = [t \in Threads |-> {}]
  /\ clean = [t \in Threads |-> TRUE]
  /\ rounds = [t \in Threads |-> 0]
  /\ faults = 0

-----------------------------------------------------------------------------
(* An access of a register succeeds, or fails: a read gives zero then.      *)
Access(ok) ==
  /\ ok \/ faults < MaxFaults
  /\ faults' = IF ok THEN faults ELSE faults + 1

(* An upload; or main's demo, which asks getDeviceID first.       *)
Begin(t) ==
  /\ At(t, "idle")
  /\ rounds[t] < MaxRounds
  /\ \/ (t = "timer" \/ MainUploads) /\ plan' = [plan EXCEPT ![t] = do_hts2m2x]
     \/ t = "main" /\ iAm # "nothing" /\ plan' = [plan EXCEPT ![t] = DemoReading]
  /\ pc' = [pc EXCEPT ![t] = "call"]
  /\ rounds' = [rounds EXCEPT ![t] = @ + 1]
  /\ UNCHANGED <<iAm, powered, ready, cal, value, reg, spoils, clean, faults>>

(* A reading that begins spoils the one the other thread is at.             *)
Busy(t) == pc[t] \notin {"idle", "call", "again"}
Share(t) ==
  clean' = [u \in Threads |-> IF u = t THEN ~At(Other(t), "calibrate") ELSE clean[u] /\ ~Busy(u)]

(* Mutant: the sensor is not powered up.                                     *)
GetInactive(t) ==
  /\ At(t, "call")
  /\ Head(plan[t]).op = "get"
  /\ pc' = [pc EXCEPT ![t] = "calibrate"]
  /\ Share(t)
  /\ UNCHANGED <<powered, faults, iAm, ready, cal, value, plan, reg, spoils, rounds>>

(* Mutant: the calibration is read the first time only.                      *)
GetCalibrated(t) ==
  /\ At(t, "call")
  /\ Head(plan[t]).op = "get"
  /\ \E ok \in BOOLEAN : Access(ok) /\ powered' = (powered \/ ok)
  /\ pc' = [pc EXCEPT ![t] = IF cal["T1_OUT"].upper = "none" THEN "calibrate" ELSE "status"]
  /\ Share(t)
  /\ UNCHANGED <<iAm, ready, cal, value, plan, reg, spoils, rounds>>

(* getTemperature or getHumidity is called, and activate sets POWER_UP.      *)
(* Without an initialized object it returns at once.                         *)
Get(t) ==
  /\ At(t, "call")
  /\ Head(plan[t]).op = "get"
  /\ IF inited
     THEN /\ pc' = [pc EXCEPT ![t] = "calibrate"]
          /\ \E ok \in BOOLEAN : Access(ok) /\ powered' = (powered \/ ok)
          /\ Share(t)
     ELSE /\ pc' = [pc EXCEPT ![t] = "again"]
          /\ UNCHANGED <<powered, faults, clean>>
  /\ UNCHANGED <<iAm, ready, cal, value, plan, reg, spoils, rounds>>

(* The loop of the caller.                                                   *)
Repeat(t) ==
  /\ At(t, "again")
  /\ pc' = [pc EXCEPT ![t] = "call"]
  /\ UNCHANGED <<iAm, powered, ready, cal, value, plan, reg, spoils, clean, rounds, faults>>

Put(word, as, part) ==
  CASE as = "byte" -> [lower |-> part, upper |-> part]
    [] as = "low" -> [lower |-> part, upper |-> "none"]
    [] as = "bits" -> [word EXCEPT !.upper = part]
    [] as = "or" -> [word EXCEPT !.upper = IF @ = "ok" THEN @ ELSE part]

(* A register of the calibration is read, whatever the other thread reads.  *)
getCalibration(t) ==
  /\ At(t, "calibrate")
  /\ \E ok \in BOOLEAN :
       /\ Access(ok)
       /\ cal' = [w \in AllWords |->
                    IF w \in Registers[reg[t]].of
                    THEN Put(cal[w], Registers[reg[t]].as, IF ok THEN "ok" ELSE "zero")
                    ELSE cal[w]]
       /\ clean' = [clean EXCEPT ![t] = @ /\ ok]
  /\ IF reg[t] < Len(Registers)
     THEN reg' = [reg EXCEPT ![t] = @ + 1] /\ UNCHANGED pc
     ELSE reg' = [reg EXCEPT ![t] = 1] /\ pc' = [pc EXCEPT ![t] = "status"]
  /\ UNCHANGED <<iAm, powered, ready, value, plan, spoils, rounds>>

(* Without a sample of its kind the call returns false.                     *)
ReadStatus(t) ==
  /\ At(t, "status")
  /\ \E ok \in BOOLEAN :
       /\ Access(ok)
       /\ LET NewData == ok /\ Kind(t) \in ready IN
            /\ pc' = [pc EXCEPT ![t] = IF NewData THEN "high" ELSE "again"]
            /\ clean' = [clean EXCEPT ![t] = @ \/ ~NewData]
  /\ UNCHANGED <<iAm, powered, ready, cal, value, plan, reg, spoils, rounds>>

(* The sample's upper byte, then the lower one; block data update is off, so*)
(* that they may be of two samples.                                          *)
ReadHigh(t) ==
  /\ At(t, "high")
  /\ \E ok \in BOOLEAN :
       /\ Access(ok)
       /\ ready' = IF ok THEN ready \ {Kind(t)} ELSE ready
       /\ spoils' = [spoils EXCEPT ![t] = IF ok THEN @ ELSE {"zero"}]
       /\ clean' = [clean EXCEPT ![t] = @ /\ ok]
  /\ pc' = [pc EXCEPT ![t] = "low"]
  /\ UNCHANGED <<iAm, powered, cal, value, plan, reg, rounds>>

ReadLow(t) ==
  /\ At(t, "low")
  /\ \E ok \in BOOLEAN :
       /\ Access(ok)
       /\ spoils' = [spoils EXCEPT ![t] = IF ok THEN @ ELSE @ \cup {"zero"}]
       /\ clean' = [clean EXCEPT ![t] = @ /\ ok]
  /\ pc' = [pc EXCEPT ![t] = "compute"]
  /\ UNCHANGED <<iAm, powered, ready, cal, value, plan, reg, rounds>>

Parts(kind) == UNION {{cal[w].lower, cal[w].upper} : w \in Words(kind)}

(* The value is computed from the object's calibration, as it is now.       *)
Compute(t) ==
  /\ At(t, "compute")
  /\ value' = [value EXCEPT ![Kind(t)] = spoils[t] \cup (Parts(Kind(t)) \ {"ok"})]
  /\ plan' = [plan EXCEPT ![t] = Tail(@)]
  /\ spoils' = [spoils EXCEPT ![t] = {}]
  /\ clean' = [clean EXCEPT ![t] = TRUE]
  /\ pc' = [pc EXCEPT ![t] = "call"]
  /\ UNCHANGED <<iAm, powered, ready, cal, reg, rounds, faults>>

(* readTemperature or readHumidity.                                          *)
Read(t) ==
  /\ At(t, "call")
  /\ Head(plan[t]).op = "read"
  /\ plan' = [plan EXCEPT ![t] = Tail(@)]
  /\ pc' = [pc EXCEPT ![t] = IF Len(plan[t]) = 1 THEN "idle" ELSE "call"]
  /\ UNCHANGED <<iAm, powered, ready, cal, value, reg, spoils, clean, rounds, faults>>

(* The chip: a sample of both kinds.                                        *)
Sample ==
  /\ powered
  /\ ready' = Kinds
  /\ spoils' = [t \in Threads |-> IF At(t, "low") THEN spoils[t] \cup {"torn"} ELSE spoils[t]]
  /\ UNCHANGED <<iAm, powered, cal, value, pc, plan, reg, clean, rounds, faults>>

Step(t) ==
  \/ Get(t)
  \/ Repeat(t)
  \/ getCalibration(t)
  \/ ReadStatus(t)
  \/ ReadHigh(t)
  \/ ReadLow(t)
  \/ Compute(t)
  \/ Read(t)

HtsNext ==
  \/ \E t \in Threads : Begin(t) \/ Step(t)
  \/ Sample

(* Both threads are scheduled, and a powered chip goes on making samples.   *)
Fairness ==
  /\ \A t \in Threads : WF_htsVars(Step(t))
  /\ WF_htsVars(Sample)

HtsSpec == HtsInit /\ [][HtsNext]_htsVars /\ Fairness

-----------------------------------------------------------------------------
(* A value that a thread computes alone and without a failed access is       *)
(* exact, whatever failures and other threads have left in the object       *)
(* before; but the chip may have made a new sample between its two bytes.    *)
AloneIsExact ==
  [][\A t \in Threads : Compute(t) /\ clean[t] => value'[Kind(t)] \subseteq {"torn"}]_htsVars

(* The loops that wait for a reading end, if the chip was found when the     *)
(* object was made: the threads take samples from each other, not for ever.  *)
ReadingsEnd ==
  inited => \A t \in Threads : (pc[t] # "idle") ~> (pc[t] = "idle")
=============================================================================
