--------------------------- MODULE CloudPrograms ---------------------------
(***************************************************************************)
(* The programs that talk to M2X and FLOW, over the requests of HttpClient:*)
(* the setup and the rounds of Quick Start (qsapp.cpp), the FLOW requests  *)
(* and uploads of the demo (demo.c) and the uploads of m2x.c.  Each is a   *)
(* list of calls in a fixed order whose results are ignored, except that   *)
(* Quick Start's setup goes by what it finds in the replies.               *)
(*                                                                         *)
(* The server of an account answers by three facts: whether the API key is *)
(* a master key, whether the account has some kit, and whether the device  *)
(* asked for is one.  "K" stands for "Master Key" and "D" for the name of  *)
(* a kit in a reply.                                                       *)
(***************************************************************************)
EXTENDS HttpClient

CONSTANT
  MaxLost     \* bound on the updates that fail: no more are begun after it

ASSUME LostAssumption == MaxLost \in Nat

VARIABLES
  prog,       \* the program running: monitor, keys, list, info, loop or demo
  todo,       \* the calls main still makes before it decides
  account,    \* [master, kit, present]
  haveId,     \* device_id is not empty
  using_masterkey,
  stale       \* some reply of this setup came in pieces or was empty

progVars == <<prog, todo, account, haveId, using_masterkey, stale>>
vars == <<httpVars, progVars>>

Replicate(fn, n) == [i \in 1..n |-> fn]
create == m2x_create_stream
update == m2x_update_stream_value

(* m2x.c: what each upload sends, in order.                                 *)
do_hts2m2x == <<create, update, create, update>>
do_adc2m2x == <<create, update>>
do_lis2dw2m2x == <<create, update>>
Uploads == {do_hts2m2x, do_adc2m2x, do_lis2dw2m2x}
set_m2xColor == <<create, m2x_update_color_value>>

NewDevice == <<m2x_create_device>> \o Replicate(create, 5)
QuickStartRound == Replicate(update, 5) \o <<m2x_update_location_value>>
DemoRound ==
  IF doM2X THEN <<flow_get>> \o do_hts2m2x \o <<flow_get>> \o do_adc2m2x
  ELSE <<flow_get, flow_get>>

Setup == {"keys", "list", "info"}

Init ==
  /\ HttpInit
  /\ prog = "monitor"
  /\ todo = <<>>
  /\ account \in [master : BOOLEAN, kit : BOOLEAN, present : BOOLEAN]
  /\ account.present => account.kit
  /\ haveId \in BOOLEAN
  /\ using_masterkey = FALSE
  /\ stale = FALSE

-----------------------------------------------------------------------------
(* An upload is called from the monitor, or the demo or Quick Start starts; *)
(* resp is an uninitialized local of theirs.                                 *)
Begin(p, calls) ==
  /\ prog = "monitor"
  /\ todo = <<>>
  /\ call = Idle
  /\ prog' = p
  /\ todo' = calls
  /\ using_masterkey' = FALSE
  /\ stale' = FALSE
  /\ UNCHANGED <<httpVars, account, haveId>>

StartProgram ==
  \/ \E u \in Uploads : Begin("monitor", u)
  \/ lost < MaxLost /\ Begin("monitor", set_m2xColor)
  \/ Begin("demo", DemoRound)
  \/ Begin("keys", <<m2x_getkeys(TRUE)>>)

CallNext ==
  /\ todo # <<>>
  /\ \/ Enter(Head(todo))
     \/ EnterDisabled(Head(todo))
  /\ UNCHANGED progVars

(* What the server may answer: the marks of a text are those of the account.*)
Holds(r, c) == c \in Range(r)
Replies(fn) ==
  LET mark == IF fn.name = "keys" THEN "K"
              ELSE IF fn.name \in {"list", "info"} THEN "D" ELSE "x"
      on == /\ fn.name = "keys" => account.master
            /\ fn.name = "list" => account.kit
            /\ fn.name = "info" => account.present
  IN  {r \in BoundedSeq({"x", mark}, MaxReply) : r # <<>> => (Holds(r, mark) <=> on)}

ServerAnswers ==
  /\ \E r \in Replies(call.fn) : http_get(r) \/ http_upload(r)
  /\ UNCHANGED progVars

HttpStep == Transfer /\ UNCHANGED progVars

ConnectionBreaks == TransferFails /\ UNCHANGED progVars

(* Quick Start's tests of what it has read: strstr on resp.  A master key   *)
(* lists the devices; without one and without a device id it stops.          *)
Decide ==
  LET found == CString(response)
      master == Holds(found, "K")
      present == Holds(found, "D")
  IN  \/ /\ prog = "keys"
         /\ using_masterkey' = master
         /\ prog' = IF master THEN "list" ELSE IF haveId THEN "info" ELSE "monitor"
         /\ todo' = IF master THEN <<m2x_getkeys(FALSE)>>
                    ELSE IF haveId THEN <<m2x_device_info>> ELSE <<>>
         /\ UNCHANGED haveId
      \/ /\ prog = "list"
         /\ haveId' = TRUE      \* the device's, or the ICCID
         /\ prog' = "info"
         /\ todo' = <<m2x_device_info>>
         /\ UNCHANGED using_masterkey
      \/ /\ prog = "info"
         /\ prog' = IF present \/ using_masterkey THEN "loop" ELSE "monitor"
         /\ todo' = IF ~present /\ using_masterkey THEN NewDevice ELSE <<>>
         /\ using_masterkey' = FALSE      \* not read again
         /\ UNCHANGED haveId
      \/ /\ prog \notin Setup
         /\ todo' = <<>>
         /\ UNCHANGED <<prog, haveId, using_masterkey>>

(* A call returns; after the last one main goes on.  resp is read when a    *)
(* GET has returned, and what stays in it matters to the setup only.         *)
Return ==
  /\ Returned
  /\ IF Len(todo) > 1
     THEN /\ todo' = Tail(todo)
          /\ UNCHANGED <<prog, haveId, using_masterkey>>
     ELSE Decide
  /\ stale' = (prog' \in Setup /\ (stale \/ pieces # 1))
  /\ response' = IF prog' \in Setup THEN response ELSE [i \in 1..BufLen |-> Junk]
  /\ UNCHANGED <<doM2X, rsize, handles, lost, account>>

(* The loop of Quick Start or of the demo: another round, or the user held  *)
(* the key and it ends.                                                      *)
Round ==
  /\ todo = <<>>
  /\ call = Idle
  /\ \/ prog = "loop" /\ lost < MaxLost /\ todo' = QuickStartRound
     \/ prog = "demo" /\ todo' = DemoRound
  /\ UNCHANGED <<httpVars, prog, account, haveId, using_masterkey, stale>>

EndProgram ==
  /\ prog \in {"loop", "demo"}
  /\ todo = <<>>
  /\ call = Idle
  /\ prog' = "monitor"
  /\ response' = [i \in 1..BufLen |-> Junk]
  /\ UNCHANGED <<doM2X, call, rsize, reply, got, pieces, rx, handles, dirty, lost, todo, account, haveId, using_masterkey, stale>>

Next ==
  \/ StartProgram
  \/ CallNext
  \/ ServerAnswers
  \/ HttpStep
  \/ ConnectionBreaks
  \/ Return
  \/ Round
  \/ EndProgram

(* The program and the server keep going while a call is made.              *)
Fairness ==
  /\ WF_vars(CallNext)
  /\ WF_vars(ServerAnswers)
  /\ WF_vars(HttpStep)
  /\ WF_vars(Return)

Spec == Init /\ [][Next]_vars /\ Fairness

-----------------------------------------------------------------------------
(* Quick Start asks for a new device exactly when it holds a master key and *)
(* the device is not there, as long as every reply came in one piece: what   *)
(* an earlier reply left in the buffer never decides.                        *)
DecidesOnReply ==
  [][(prog \in Setup /\ prog' = "loop" /\ ~stale /\ pieces = 1) =>
       (todo' = NewDevice <=> account.master /\ ~account.present)]_vars

(* Once the connection no longer breaks, main works off every list of calls:*)
(* the setup of Quick Start decides, a round of the demo ends, and a GET is  *)
(* not repeated for ever; unless a reply leaves its buffer.                  *)
CallsEnd ==
  (<>[][~TransferFails]_vars) =>
    ((todo # <<>>) ~> (todo = <<>> \/ call.at = "outside"))
=============================================================================
