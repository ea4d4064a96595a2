----------------------------- MODULE HttpClient -----------------------------
(***************************************************************************)
(* http.c: the requests to M2X and FLOW through libcurl.  A GET writes the *)
(* reply into its caller's buffer, piece by piece as curl delivers it, with*)
(* the offset in the static rsize, and repeats a failed transfer for ever  *)
(* on the same handle and buffer.  A POST or PUT collects the reply in a   *)
(* heap block of the request and reports a failed transfer.                *)
(*                                                                         *)
(* A text is a sequence of characters, of which only the marks a caller    *)
(* searches for are told apart.  URLs, headers and the bodies sent are left*)
(* out: no state of the program depends on them.                           *)
(***************************************************************************)
EXTENDS Integers, SequencesExt

CONSTANTS
  MaxReply,     \* bound on the length of a reply
  BufLen        \* resp[1024] of the callers of a GET

ASSUME ReplyAssumption == MaxReply \in Nat /\ BufLen \in Nat /\ BufLen > 2

VARIABLES
  doM2X,        \* uploads are sent (option of main)
  call,         \* the function main is in, where in it, and the result
  response,     \* the caller's buffer
  rsize,
  reply,        \* what the server answers to this transfer
  got,          \* how much of it curl has delivered
  pieces,       \* in how many pieces
  rx,           \* rx_msg of a POST or PUT, as far as it was ever written
  handles,      \* curl handles (with their lists and rx_msg) not given back
  dirty,        \* the buffer held text when this transfer began
  lost          \* location and colour updates that failed

httpVars == <<doM2X, call, response, rsize, reply, got, pieces, rx, handles, dirty, lost>>

Nul == "0"
Junk == "?"           \* a byte nobody wrote

(* The functions, by what tells them apart: the method; whether one returns *)
(* at once without doM2X ("guard"), clears its caller's buffer ("clear"),    *)
(* copies what it received to it ("copy") and, when it fails, returns before *)
(* http_deinit ("leak").                                                     *)
flow_get == [method |-> "GET", name |-> "flow", traits |-> {"clear"}]
m2x_device_info == [method |-> "GET", name |-> "info", traits |-> {}]
m2x_getkeys(select_api) ==
  [method |-> "GET", name |-> IF select_api THEN "keys" ELSE "list", traits |-> {}]
m2x_create_stream == [method |-> "PUT", name |-> "stream", traits |-> {"guard"}]
m2x_update_stream_value == [method |-> "POST", name |-> "value", traits |-> {"guard"}]
m2x_create_device == [method |-> "POST", name |-> "device", traits |-> {"guard", "copy"}]
m2x_update_location_value == [method |-> "PUT", name |-> "location", traits |-> {"leak"}]
m2x_update_color_value == [method |-> "PUT", name |-> "color", traits |-> {"leak"}]

IsGet == call.fn.method = "GET"
Leaks(fn) == "leak" \in fn.traits
NoCall == [method |-> "none", name |-> "none", traits |-> {}]
Idle == [fn |-> NoCall, at |-> "idle", ret |-> 0]

(* The C string in a buffer: up to the first zero byte.                     *)
CString(b) == SubSeq(b, 1, Min({i \in DOMAIN b : b[i] = Nul} \cup {Len(b) + 1}) - 1)

HttpInit ==
  /\ doM2X \in BOOLEAN
  /\ call = Idle
  /\ response = [i \in 1..BufLen |-> Junk]
  /\ rsize = 0
  /\ reply = <<>>
  /\ got = 0
  /\ pieces = 0
  /\ rx = <<>>
  /\ handles = 0
  /\ dirty = TRUE
  /\ lost = 0

-----------------------------------------------------------------------------
(* A function is entered: http_init makes a handle and an empty rx_msg for a*)
(* request that was zeroed, so that the http_deinit in it frees nothing.     *)
(* Only flow_get clears the caller's buffer.                                 *)
Enter(fn) ==
  /\ call.at = "idle"
  /\ "guard" \in fn.traits => doM2X
  /\ call' = [fn |-> fn, at |-> "perform", ret |-> 0]
  /\ handles' = handles + 1
  /\ rx' = <<>>
  /\ dirty' = ("clear" \notin fn.traits)
  /\ response' = IF "clear" \in fn.traits THEN [i \in 1..BufLen |-> Nul] ELSE response
  /\ UNCHANGED <<doM2X, rsize, reply, got, pieces, lost>>

(* Without doM2X three of the functions return at once.                     *)
EnterDisabled(fn) ==
  /\ call.at = "idle"
  /\ "guard" \in fn.traits /\ ~doM2X
  /\ call' = [fn |-> fn, at |-> "return", ret |-> 0]
  /\ reply' = <<>>
  /\ UNCHANGED <<doM2X, response, rsize, got, pieces, rx, handles, dirty, lost>>

(* The request reaches curl_easy_perform; the server will answer r.         *)
Perform(r) ==
  /\ call.at = "perform"
  /\ call' = [call EXCEPT !.at = "transfer"]
  /\ reply' = r
  /\ got' = 0
  /\ pieces' = 0
  /\ UNCHANGED <<doM2X, response, rx, handles, dirty, lost>>

(* Mutant: rsize stays as it was.                                            *)
http_get_unreset(r) == IsGet /\ Perform(r) /\ UNCHANGED rsize

http_get(r) == IsGet /\ Perform(r) /\ rsize' = 0

(* http_post or http_put; the read callback of curl is given the whole body *)
(* each time it asks.                                                        *)
http_upload(r) == ~IsGet /\ Perform(r) /\ UNCHANGED rsize

(* curl hands over the next n bytes.                                        *)
Piece(n) ==
  /\ call.at = "transfer"
  /\ got + n <= Len(reply)
  /\ got' = got + n
  /\ pieces' = pieces + 1

(* A write has left the caller's buffer: what follows is undefined, and     *)
(* nothing goes on.                                                          *)
Past(at, n) == call' = IF n > BufLen THEN [call EXCEPT !.at = "outside"]
                       ELSE [call EXCEPT !.at = at]

(* Mutant: no zero byte is written.                                          *)
write_unterminated(n) ==
  /\ IsGet
  /\ Piece(n)
  /\ rsize' = rsize + n
  /\ Past("transfer", rsize')
  /\ response' = [i \in 1..BufLen |->
                    IF i \in rsize + 1 .. rsize + n THEN reply[got + i - rsize] ELSE response[i]]
  /\ UNCHANGED <<doM2X, reply, rx, handles, dirty, lost>>

(* Of a GET: response_ptr starts at the old rsize, and the zero byte is     *)
(* written at the new rsize, counted from there; nothing limits either.      *)
write_callback_func(n) ==
  /\ IsGet
  /\ Piece(n)
  /\ rsize' = rsize + n
  /\ Past("transfer", rsize + rsize' + 1)
  /\ response' = [i \in 1..BufLen |->
                    IF i \in rsize + 1 .. rsize + n THEN reply[got + i - rsize]
                    ELSE IF i = rsize + rsize' + 1 THEN Nul
                    ELSE response[i]]
  /\ UNCHANGED <<doM2X, reply, rx, handles, dirty, lost>>

(* Mutant: the callback reports n for every piece, as curl expects.          *)
http_write_callback_n(n, next) ==
  /\ ~IsGet
  /\ Piece(n)
  /\ rx' = [i \in 1 .. got + n + 2 |->
              IF i = n + 2 THEN Nul
              ELSE IF i = got + n + 1 THEN next
              ELSE IF i > got + n THEN Junk
              ELSE IF i > got THEN reply[i]
              ELSE rx[i]]
  /\ UNCHANGED <<doM2X, call, response, rsize, reply, handles, dirty, lost>>

(* Of a POST or PUT: n + 1 bytes are copied, the last of them from behind   *)
(* the piece; the zero byte goes to index n + 1 of the block, one past its   *)
(* end for the first piece and into the text for a later one.  The callback  *)
(* returns the length so far, and curl breaks off when that is not n.        *)
http_write_callback(n, next) ==
  /\ ~IsGet
  /\ Piece(n)
  /\ rx' = [i \in 1 .. got + n + 2 |->
              IF i = n + 2 THEN Nul
              ELSE IF i = got + n + 1 THEN next
              ELSE IF i > got + n THEN Junk
              ELSE IF i > got THEN reply[i]
              ELSE rx[i]]
  /\ call' = IF got > 0 THEN [call EXCEPT !.at = "end", !.ret = -1] ELSE call
  /\ UNCHANGED <<doM2X, response, rsize, reply, handles, dirty, lost>>

(* The transfer is over: all of the reply is there, or the connection broke.*)
TransferEnds ==
  /\ call.at = "transfer"
  /\ got = Len(reply)
  /\ call' = [call EXCEPT !.at = "end"]
  /\ UNCHANGED <<doM2X, response, rsize, reply, got, pieces, rx, handles, dirty, lost>>

TransferFails ==
  /\ call.at = "transfer"
  /\ call' = [call EXCEPT !.at = "end", !.ret = -1]
  /\ dirty' = (dirty \/ got > 0)
  /\ UNCHANGED <<doM2X, response, rsize, reply, got, pieces, rx, handles, lost>>

(* Mutant: a GET is repeated whatever its result.                            *)
RepeatAlways ==
  /\ call.at = "end"
  /\ IsGet
  /\ call' = [call EXCEPT !.at = "perform", !.ret = 0]
  /\ UNCHANGED <<doM2X, response, rsize, reply, got, pieces, rx, handles, dirty, lost>>

(* do ... while: after 30 seconds a GET performs again.                     *)
GetRepeats ==
  /\ call.at = "end"
  /\ IsGet
  /\ call.ret # 0
  /\ call' = [call EXCEPT !.at = "perform", !.ret = 0]
  /\ UNCHANGED <<doM2X, response, rsize, reply, got, pieces, rx, handles, dirty, lost>>

(* m2x_create_device copies what it received to the caller, after a failed  *)
(* transfer too, whatever its length.                                        *)
Copies == "copy" \in call.fn.traits /\ got > 0

Received(b) ==
  LET s == CString(rx) IN
    [i \in 1..BufLen |-> IF i <= Len(s) THEN s[i] ELSE IF i = Len(s) + 1 THEN Nul ELSE b[i]]

(* Mutant: a failed upload of any kind returns before http_deinit.           *)
LeaveEarly ==
  /\ call.at = "end"
  /\ IsGet => call.ret = 0
  /\ Past("return", IF Copies THEN Len(CString(rx)) + 1 ELSE 0)
  /\ response' = IF Copies THEN Received(response) ELSE response
  /\ handles' = IF call.ret # 0 THEN handles ELSE handles - 1
  /\ lost' = IF Leaks(call.fn) /\ call.ret # 0 THEN lost + 1 ELSE lost
  /\ UNCHANGED <<doM2X, rsize, reply, got, pieces, rx, dirty>>

(* http_deinit, except in the updates that failed: they return before.      *)
Leave ==
  /\ call.at = "end"
  /\ IsGet => call.ret = 0
  /\ Past("return", IF Copies THEN Len(CString(rx)) + 1 ELSE 0)
  /\ response' = IF Copies THEN Received(response) ELSE response
  /\ LET failed == Leaks(call.fn) /\ call.ret # 0 IN
       /\ handles' = IF failed THEN handles ELSE handles - 1
       /\ lost' = IF failed THEN lost + 1 ELSE lost
  /\ UNCHANGED <<doM2X, rsize, reply, got, pieces, rx, dirty>>

(* The caller goes on: what the call kept for itself is gone.               *)
Returned ==
  /\ call.at = "return"
  /\ call' = Idle
  /\ reply' = <<>>
  /\ got' = 0
  /\ pieces' = 0
  /\ rx' = <<>>
  /\ dirty' = TRUE

(* The steps of a call once the server's answer is chosen.                  *)
Transfer ==
  \/ \E n \in 1..MaxReply : write_callback_func(n)
  \/ \E n \in 1..MaxReply, next \in {Nul, Junk} : http_write_callback(n, next)
  \/ TransferEnds
  \/ GetRepeats
  \/ Leave

-----------------------------------------------------------------------------
(* A GET that returns gives its caller the whole reply of its last transfer:*)
(* the misplaced zero bytes never cut it.  Nothing else follows it when it   *)
(* came in one piece or the buffer was clear: flow_get's is until a transfer *)
(* breaks off half way, the one Quick Start reuses never is.  The reply of a *)
(* GET that leaves the buffer is as long as the buffer, or half as long if   *)
(* it comes in pieces; shorter ones stay in.                                 *)
ReplyIsRead ==
  /\ (call.at = "return" /\ IsGet /\ reply # <<>>) =>
       /\ IsPrefix(reply, CString(response))
       /\ (pieces = 1 \/ ~dirty) => CString(response) = reply
  /\ call.at = "outside" =>
       /\ 2 * Len(reply) > BufLen
       /\ IsGet /\ pieces = 1 => Len(reply) >= BufLen

(* An upload that reports success has kept the whole reply, with at most one*)
(* stray byte behind it: a second piece, which would corrupt it, fails.      *)
UploadReplyWhole ==
  (call.at = "return" /\ ~IsGet /\ call.ret = 0 /\ reply # <<>>) =>
    CString(rx) \in {reply, Append(reply, Junk)}

(* Between calls no handle is held, except one for each update of a location*)
(* or a colour that failed.                                                  *)
OnlyFailedUpdatesLeak == call.at = "idle" => handles = lost
=============================================================================
