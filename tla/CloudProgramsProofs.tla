------------------------ MODULE CloudProgramsProofs ------------------------
(***************************************************************************)
(* Proofs about HttpClient and CloudPrograms, for buffers and replies of   *)
(* any length in any number of pieces: what a GET gives its caller unless  *)
(* it writes past the buffer, what an upload keeps, which handles stay     *)
(* behind, and what Quick Start decides.                                   *)
(***************************************************************************)
EXTENDS CloudPrograms, SequenceTheorems, WellFoundedInduction, TLAPS

Letters == {"x", "K", "D"}
Chars == Letters \cup {Nul, Junk}

(* A set of numbers has a least one. *)
LEMMA LeastNumber ==
  ASSUME NEW T, T \subseteq Nat, T # {}
  PROVE  /\ Min(T) \in T
         /\ \A i \in T : Min(T) <= i
  <1>1. PICK m \in T : \A i \in T : ~(<<i, m>> \in OpToRel(<, Nat))
    BY NatLessThanWellFounded, WFMin
  <1>2. \A i \in T : ~(i < m)
    BY Zenon, <1>1 DEF OpToRel
  <1>3. \A i \in T : m <= i
    BY <1>2
  <1>. QED
    BY <1>3 DEF Min

LEMMA NulIsNoLetter == Nul \notin Letters /\ Junk # Nul
  BY DEF Nul, Junk, Letters

(* The first zero byte ends a text: nothing before it is lost.              *)
LEMMA TextEnds ==
  ASSUME NEW b \in Seq(Chars), NEW n \in 0 .. Len(b), \A i \in 1 .. n : b[i] # Nul
  PROVE  /\ \E k \in n .. Len(b) : CString(b) = SubSeq(b, 1, k)
         /\ n < Len(b) /\ b[n + 1] = Nul => CString(b) = SubSeq(b, 1, n)
  <1>. DEFINE T == {i \in DOMAIN b : b[i] = Nul} \cup {Len(b) + 1}
  <1>1. Len(b) \in Nat /\ DOMAIN b = 1 .. Len(b)
    BY LenProperties
  <1>2. T \subseteq Nat /\ T # {} /\ \A i \in T : n < i /\ i <= Len(b) + 1
    BY <1>1
  <1>. DEFINE m == Min(T)
  <1>3. m \in T /\ \A i \in T : m <= i
    BY <1>2, LeastNumber
  <1>4. CString(b) = SubSeq(b, 1, m - 1)
    BY DEF CString
  <1>5. m - 1 \in n .. Len(b)
    BY <1>1, <1>2, <1>3
  <1>6. ASSUME n < Len(b), b[n + 1] = Nul PROVE m - 1 = n
    <2>1. n + 1 \in T
      BY <1>1, <1>6
    <2>2. m \in Nat /\ n < m
      BY <1>2, <1>3
    <2>3. m <= n + 1
      BY <1>3, <2>1
    <2>. HIDE DEF m
    <2>. QED
      BY <1>1, <2>2, <2>3
  <1>. QED
    BY <1>4, <1>5, <1>6

(* A text ends before any zero byte.                                        *)
LEMMA TextIsShorter ==
  ASSUME NEW b \in Seq(Chars), NEW i \in 1 .. Len(b), b[i] = Nul
  PROVE  Len(CString(b)) \in Nat /\ Len(CString(b)) < i
  <1>. DEFINE T == {j \in DOMAIN b : b[j] = Nul} \cup {Len(b) + 1}
  <1>1. Len(b) \in Nat /\ DOMAIN b = 1 .. Len(b) /\ i \in Nat /\ i <= Len(b)
    BY LenProperties
  <1>2. T \subseteq Nat /\ T # {} /\ i \in T /\ \A j \in T : 0 < j
    BY <1>1
  <1>. DEFINE m == Min(T)
  <1>3. m \in Nat /\ 0 < m /\ m <= i
    BY <1>2, LeastNumber
  <1>4. CString(b) = SubSeq(b, 1, m - 1)
    BY DEF CString
  <1>. HIDE DEF m
  <1>5. m - 1 \in Nat /\ \A j \in 1 .. m - 1 : b[j] \in Chars
    BY <1>1, <1>3, ElementOfSeq
  <1>6. Len(SubSeq(b, 1, m - 1)) = m - 1
    BY <1>5, SubSeqProperties
  <1>. QED
    BY <1>3, <1>4, <1>5, <1>6

(* A buffer that begins with a text r of letters.                           *)
Begins(b, r) == Len(r) <= Len(b) /\ \A i \in 1 .. Len(r) : b[i] = r[i]

LEMMA BeginsWith ==
  ASSUME NEW b \in Seq(Chars), NEW r \in Seq(Letters), Begins(b, r)
  PROVE  /\ IsPrefix(r, CString(b))
         /\ Len(r) < Len(b) /\ b[Len(r) + 1] = Nul => CString(b) = r
  <1>1. /\ Len(r) \in Nat /\ Len(b) \in Nat /\ Len(r) <= Len(b)
        /\ \A i \in 1 .. Len(r) : r[i] \in Letters
    BY LenProperties, ElementOfSeq DEF Begins
  <1>2. \A i \in 1 .. Len(r) : b[i] # Nul
    BY <1>1, NulIsNoLetter DEF Begins
  <1>3. PICK k \in Len(r) .. Len(b) : CString(b) = SubSeq(b, 1, k)
    BY <1>1, <1>2, TextEnds
  <1>4. \A j \in Len(r) .. Len(b) :
           /\ Len(SubSeq(b, 1, j)) = j
           /\ \A i \in 1 .. j : SubSeq(b, 1, j)[i] = b[i]
           /\ SubSeq(b, 1, j) \in Seq(Chars)
    <2>. TAKE j \in Len(r) .. Len(b)
    <2>1. j \in Nat /\ \A i \in 1 .. j : b[i] \in Chars
      BY <1>1, ElementOfSeq
    <2>. QED
      BY <2>1, SubSeqProperties
  <1>5. SubSeq(b, 1, Len(r)) = r
    <2>1. r \in Seq(Chars)
      BY SeqMonotonic DEF Chars
    <2>. QED
      BY <1>1, <1>4, <2>1, SeqEqual DEF Begins
  <1>6. IsPrefix(r, CString(b))
    <2>1. Len(CString(b)) = k /\ k \in Nat /\ Len(r) <= k
      BY <1>1, <1>3, <1>4
    <2>2. \A i \in 1 .. Len(r) : CString(b)[i] = r[i]
      BY <1>1, <1>3, <1>4 DEF Begins
    <2>3. SubSeq(r, 1, Len(r)) = r
      BY <1>1, SubSeqFull
    <2>4. SubSeq(CString(b), 1, Len(r)) = r
      <3>1. /\ SubSeq(CString(b), 1, Len(r)) \in Seq(Letters)
            /\ Len(SubSeq(CString(b), 1, Len(r))) = Len(r)
            /\ \A i \in 1 .. Len(r) : SubSeq(CString(b), 1, Len(r))[i] = r[i]
        BY <1>1, <2>2, SubSeqProperties
      <3>. QED
        BY <3>1, SeqEqual
    <2>. QED
      BY <2>1, <2>3, <2>4 DEF IsPrefix
  <1>7. ASSUME Len(r) < Len(b), b[Len(r) + 1] = Nul PROVE CString(b) = r
    BY <1>1, <1>2, <1>5, <1>7, TextEnds
  <1>. QED
    BY <1>6, <1>7

-----------------------------------------------------------------------------
Fns == {flow_get, m2x_device_info, m2x_getkeys(TRUE), m2x_getkeys(FALSE), m2x_create_stream,
        m2x_update_stream_value, m2x_create_device, m2x_update_location_value,
        m2x_update_color_value}

CallTypes ==
  /\ call.fn \in Fns \cup {NoCall}
  /\ call = [fn |-> call.fn, at |-> call.at, ret |-> call.ret]
  /\ call.at \in {"idle", "perform", "transfer", "end", "return", "outside"}
  /\ call.ret \in {0, -1}
  /\ call.at = "idle" => call = Idle
  /\ call.at \in {"perform", "transfer"} => call.ret = 0
  /\ dirty \in BOOLEAN
  /\ response \in [1 .. BufLen -> Chars]
  /\ rsize \in Nat

(* What curl has delivered is a part of the reply.                          *)
Delivered ==
  /\ reply \in Seq(Letters) /\ Len(reply) <= MaxReply
  /\ got \in 0 .. Len(reply) /\ pieces \in Nat
  /\ pieces = 0 <=> got = 0
  /\ call.at = "idle" => reply = <<>> /\ got = 0
  /\ call.at \in {"end", "return"} /\ call.ret = 0 => got = Len(reply)

(* Where a transfer stands that has not failed.                             *)
Good == \/ call.at = "transfer"
        \/ call.at = "end" /\ call.ret = 0
        \/ call.at = "return" /\ reply # <<>> /\ call.ret = 0

(* A GET has its part of the reply at the start of the buffer, with a zero  *)
(* byte behind the first piece, and a clear buffer is zero from there on.    *)
GetShape ==
  (IsGet /\ Good) =>
    /\ rsize = got
    /\ got > 0 => got < BufLen
    /\ \A i \in 1 .. got : response[i] = reply[i]
    /\ pieces = 1 => response[got + 1] = Nul
    /\ ~dirty => \A i \in got + 1 .. BufLen : response[i] = Nul

GetWaits ==
  (IsGet /\ ~dirty /\ (call.at = "perform" \/ (call.at = "end" /\ call.ret # 0))) =>
    \A i \in 1 .. BufLen : response[i] = Nul

GetReturns == IsGet /\ call.at = "return" => call.ret = 0 \/ reply = <<>>

(* What an upload received is text of one byte more, and a zero byte at the *)
(* end or before it.                                                         *)
UploadText ==
  (~IsGet /\ call.at \in {"transfer", "end"} /\ got > 0) =>
    rx \in Seq(Chars) /\ Len(rx) = got + 2 /\ \E i \in 1 .. got + 2 : rx[i] = Nul

(* An upload has its first piece, one more byte, and the zero byte.         *)
UploadShape ==
  (~IsGet /\ Good /\ got > 0) =>
    /\ rx \in Seq(Chars) /\ Len(rx) = got + 2
    /\ \A i \in 1 .. got : rx[i] = reply[i]
    /\ rx[got + 1] \in {Nul, Junk} /\ rx[got + 2] = Nul

(* A handle is held inside a call, and for each update that failed.         *)
HandleHeld ==
  /\ lost \in Nat
  /\ call.at # "outside" =>
       handles = lost + IF call.at \in {"perform", "transfer", "end"} THEN 1 ELSE 0

(* Only a long reply leaves the buffer.                                     *)
Outside ==
  call.at = "outside" =>
    /\ 2 * Len(reply) > BufLen
    /\ IsGet /\ pieces = 1 => Len(reply) >= BufLen

HInv == CallTypes /\ Delivered /\ GetShape /\ GetWaits /\ GetReturns /\ UploadText
        /\ UploadShape /\ HandleHeld /\ Outside

-----------------------------------------------------------------------------
(* What an invariant of the requests has to know of a state: the variables  *)
(* that only CloudPrograms has are not among them.                           *)
LEMMA HInitHolds == HttpInit => HInv
  <1>. SUFFICES ASSUME HttpInit PROVE HInv
    OBVIOUS
  <1>1. call = Idle /\ call.at = "idle" /\ call.ret = 0 /\ call.fn = NoCall
    BY DEF HttpInit, Idle
  <1>2. CallTypes
    BY <1>1 DEF HttpInit, CallTypes, Idle, Chars
  <1>3. Delivered
    BY <1>1, ReplyAssumption, EmptySeq DEF HttpInit, Delivered
  <1>4. GetShape /\ GetWaits /\ GetReturns /\ UploadText /\ UploadShape
        /\ HandleHeld /\ Outside
    BY <1>1 DEF HttpInit, UploadText, GetShape, GetWaits, GetReturns, UploadShape, HandleHeld,
       Outside, Good
  <1>. QED
    BY <1>2, <1>3, <1>4 DEF HInv

LEMMA EnterKeeps ==
  ASSUME HInv, NEW fn \in Fns, Enter(fn)
  PROVE  HInv'
  <1>1. /\ call.at = "idle" /\ call' = [fn |-> fn, at |-> "perform", ret |-> 0]
        /\ handles' = handles + 1 /\ rx' = <<>>
        /\ dirty' = ("clear" \notin fn.traits)
        /\ response' = IF "clear" \in fn.traits THEN [i \in 1..BufLen |-> Nul] ELSE response
        /\ UNCHANGED <<doM2X, rsize, reply, got, pieces, lost>>
    BY DEF Enter
  <1>2. call'.at = "perform" /\ call'.ret = 0 /\ call'.fn = fn
    BY <1>1
  <1>3. dirty' \in BOOLEAN /\ (~dirty' => \A i \in 1 .. BufLen : response'[i] = Nul)
    <2>1. ASSUME ~dirty' PROVE "clear" \in fn.traits
      BY Zenon, <1>1, <2>1
    <2>. QED
      BY <1>1, <2>1
  <1>4. CallTypes'
    <2>1. response' \in [1 .. BufLen -> Chars]
      BY <1>1 DEF HInv, CallTypes, Chars
    <2>. QED
      BY <1>1, <1>2, <1>3, <2>1 DEF HInv, CallTypes
  <1>5. Delivered'
    BY <1>1, <1>2 DEF HInv, Delivered
  <1>6. GetShape' /\ GetReturns' /\ UploadText' /\ UploadShape' /\ Outside'
    BY <1>2 DEF UploadText, GetShape, GetReturns, UploadShape, Outside, Good
  <1>7. GetWaits'
    BY <1>3 DEF GetWaits
  <1>8. HandleHeld'
    BY <1>1, <1>2 DEF HInv, HandleHeld
  <1>. QED
    BY <1>4, <1>5, <1>6, <1>7, <1>8 DEF HInv

LEMMA EnterDisabledKeeps ==
  ASSUME HInv, NEW fn \in Fns, EnterDisabled(fn)
  PROVE  HInv'
  <1>1. /\ call.at = "idle" /\ call' = [fn |-> fn, at |-> "return", ret |-> 0]
        /\ reply' = <<>>
        /\ UNCHANGED <<doM2X, response, rsize, got, pieces, rx, handles, dirty, lost>>
    BY DEF EnterDisabled
  <1>2. call'.at = "return" /\ call'.ret = 0 /\ call'.fn = fn
    BY <1>1
  <1>3. CallTypes' /\ HandleHeld'
    BY <1>1, <1>2 DEF HInv, CallTypes, HandleHeld
  <1>4. Delivered'
    BY <1>1, <1>2, EmptySeq DEF HInv, Delivered
  <1>5. GetShape' /\ GetReturns' /\ UploadText' /\ UploadShape' /\ GetWaits' /\ Outside'
    BY <1>1, <1>2 DEF UploadText, GetShape, GetReturns, UploadShape, GetWaits, Outside, Good
  <1>. QED
    BY <1>3, <1>4, <1>5 DEF HInv

(* The server answers r. *)
LEMMA PerformKeeps ==
  ASSUME HInv, NEW r \in Seq(Letters), Len(r) <= MaxReply, http_get(r) \/ http_upload(r)
  PROVE  HInv'
  <1>1. /\ call.at = "perform" /\ call' = [call EXCEPT !.at = "transfer"]
        /\ reply' = r /\ got' = 0 /\ pieces' = 0
        /\ UNCHANGED <<doM2X, response, rx, handles, dirty, lost>>
    BY DEF http_get, http_upload, Perform
  <1>2. /\ call'.at = "transfer" /\ call'.ret = call.ret /\ call'.fn = call.fn
        /\ call' = [fn |-> call.fn, at |-> "transfer", ret |-> call.ret]
    BY <1>1 DEF HInv, CallTypes
  <1>3. rsize' \in Nat /\ (IsGet => rsize' = 0) /\ (IsGet' <=> IsGet)
    BY <1>2 DEF HInv, CallTypes, http_get, http_upload, IsGet
  <1>4. CallTypes' /\ HandleHeld'
    BY <1>1, <1>2, <1>3 DEF HInv, CallTypes, HandleHeld
  <1>5. Delivered'
    BY <1>1, <1>2, LenProperties DEF Delivered
  <1>6. GetShape' /\ GetWaits'
    BY <1>1, <1>2, <1>3 DEF HInv, GetShape, GetWaits
  <1>7. GetReturns' /\ UploadText' /\ UploadShape' /\ Outside'
    BY <1>1, <1>2 DEF UploadText, GetReturns, UploadShape, Outside
  <1>. QED
    BY <1>4, <1>5, <1>6, <1>7 DEF HInv

-----------------------------------------------------------------------------
(* A piece of a GET's reply goes behind what is there; the zero byte goes   *)
(* behind it or further on, and never beyond the buffer.                     *)
LEMMA GetPieceKeeps ==
  ASSUME HInv, NEW n \in 1 .. MaxReply, write_callback_func(n)
  PROVE  HInv'
  <1>1. /\ IsGet /\ call.at = "transfer" /\ got + n <= Len(reply)
        /\ got' = got + n /\ pieces' = pieces + 1 /\ rsize' = rsize + n
        /\ response' = [i \in 1..BufLen |->
                          IF i \in rsize + 1 .. rsize + n THEN reply[got + i - rsize]
                          ELSE IF i = rsize + rsize' + 1 THEN Nul
                          ELSE response[i]]
        /\ call' = IF rsize + rsize' + 1 > BufLen THEN [call EXCEPT !.at = "outside"]
                   ELSE [call EXCEPT !.at = "transfer"]
        /\ UNCHANGED <<doM2X, reply, rx, handles, dirty, lost>>
    BY DEF write_callback_func, Piece, Past
  <1>2. /\ CallTypes /\ Delivered /\ GetShape /\ HandleHeld
        /\ rsize = got /\ MaxReply \in Nat /\ BufLen \in Nat /\ BufLen > 2
    BY <1>1, ReplyAssumption DEF HInv, GetShape, Good
  <1>3. /\ Len(reply) \in Nat /\ got \in Nat /\ got + n <= MaxReply /\ n \in Nat /\ n > 0
        /\ \A i \in 1 .. Len(reply) : reply[i] \in Letters
    BY <1>1, <1>2, LenProperties, ElementOfSeq DEF Delivered
  <1>10. /\ call'.fn = call.fn /\ call'.ret = call.ret
         /\ call' = [fn |-> call'.fn, at |-> call'.at, ret |-> call'.ret]
         /\ call'.at = IF rsize + rsize' + 1 > BufLen THEN "outside" ELSE "transfer"
    BY <1>1, <1>2 DEF CallTypes
  <1>11. IsGet' <=> IsGet
    BY <1>10 DEF IsGet
  <1>12. /\ rsize + rsize' + 1 = 2 * got + n + 1
         /\ call'.at = "transfer" => got + n < BufLen
         /\ call'.at = "outside" => 2 * got + n + 1 > BufLen
    BY <1>1, <1>2, <1>3, <1>10
  <1>4. /\ \A i \in 1 .. got : got < BufLen => response'[i] = response[i]
        /\ got + n < BufLen =>
             /\ \A i \in got + 1 .. got + n : response'[i] = reply[i]
             /\ got = 0 => response'[n + 1] = Nul
        /\ \A i \in got + n + 1 .. BufLen : response'[i] \in {Nul, response[i]}
    BY <1>1, <1>2, <1>3
  <1>5. response' \in [1 .. BufLen -> Chars]
    <2>1. response \in [1 .. BufLen -> Chars] /\ Nul \in Chars
      BY <1>2 DEF CallTypes, Chars
    <2>2. \A i \in rsize + 1 .. rsize + n : reply[got + i - rsize] \in Chars
      BY <1>1, <1>2, <1>3 DEF Chars
    <2>. QED
      BY <1>1, <2>1, <2>2
  <1>6. CallTypes' /\ HandleHeld'
    BY <1>1, <1>2, <1>3, <1>5, <1>10 DEF CallTypes, HandleHeld
  <1>7. Delivered'
    BY <1>1, <1>2, <1>3, <1>10 DEF Delivered
  <1>8. GetShape'
    <2>. SUFFICES ASSUME call'.at = "transfer" PROVE GetShape'
      BY <1>10 DEF GetShape, Good
    <2>4. got + n < BufLen /\ got < BufLen
      BY <1>2, <1>3, <1>12
    <2>1. \A i \in 1 .. got' : response'[i] = reply[i]
      <3>1. \A i \in 1 .. got : response[i] = reply[i]
        BY <1>1, <1>2 DEF GetShape, Good
      <3>2. \A i \in 1 .. got + n : i \in 1 .. got \/ i \in got + 1 .. got + n
        BY <1>3
      <3>. QED
        BY <1>1, <1>4, <2>4, <3>1, <3>2
    <2>2. pieces' = 1 => response'[got' + 1] = Nul
      <3>1. pieces' = 1 => got = 0
        BY <1>1, <1>2 DEF Delivered
      <3>. QED
        BY <1>1, <1>3, <1>4, <2>4, <3>1
    <2>3. ~dirty' => \A i \in got' + 1 .. BufLen : response'[i] = Nul
      <3>. SUFFICES ASSUME ~dirty PROVE \A i \in got' + 1 .. BufLen : response'[i] = Nul
        BY <1>1
      <3>1. \A i \in got + 1 .. BufLen : response[i] = Nul
        BY <1>1, <1>2 DEF GetShape, Good
      <3>2. \A i \in got + n + 1 .. BufLen : i \in got + 1 .. BufLen
        BY <1>2, <1>3
      <3>. QED
        BY <1>1, <1>4, <3>1, <3>2
    <2>. QED
      BY <1>1, <1>2, <2>1, <2>2, <2>3, <2>4 DEF GetShape
  <1>9. GetWaits' /\ GetReturns' /\ UploadText' /\ UploadShape'
    BY <1>1, <1>10, <1>11 DEF UploadText, GetWaits, GetReturns, UploadShape
  <1>13. Outside'
    <2>. SUFFICES ASSUME call'.at = "outside"
                  PROVE  2 * Len(reply) > BufLen /\ (pieces' = 1 => Len(reply) >= BufLen)
      BY <1>1 DEF Outside
    <2>1. pieces' = 1 => got = 0
      BY <1>1, <1>2 DEF Delivered
    <2>. QED
      BY <1>1, <1>2, <1>3, <1>12, <2>1
  <1>. QED
    BY <1>6, <1>7, <1>8, <1>9, <1>13 DEF HInv

(* The first piece of an upload's reply is kept with its two bytes more; at *)
(* the second curl breaks off.                                               *)
LEMMA UploadPieceKeeps ==
  ASSUME HInv, NEW n \in 1 .. MaxReply, NEW next \in {Nul, Junk}, http_write_callback(n, next)
  PROVE  HInv'
  <1>1. /\ ~IsGet /\ call.at = "transfer" /\ got + n <= Len(reply)
        /\ got' = got + n /\ pieces' = pieces + 1
        /\ rx' = [i \in 1 .. got + n + 2 |->
                    IF i = n + 2 THEN Nul
                    ELSE IF i = got + n + 1 THEN next
                    ELSE IF i > got + n THEN Junk
                    ELSE IF i > got THEN reply[i]
                    ELSE rx[i]]
        /\ call' = IF got > 0 THEN [call EXCEPT !.at = "end", !.ret = -1] ELSE call
        /\ UNCHANGED <<doM2X, response, rsize, reply, handles, dirty, lost>>
    BY DEF http_write_callback, Piece
  <1>2. CallTypes /\ Delivered /\ HandleHeld /\ MaxReply \in Nat
    BY ReplyAssumption DEF HInv
  <1>3. /\ Len(reply) \in Nat /\ got \in Nat /\ n \in Nat /\ n > 0
        /\ \A i \in 1 .. Len(reply) : reply[i] \in Letters
    BY <1>1, <1>2, LenProperties, ElementOfSeq DEF Delivered
  <1>4. /\ call'.fn = call.fn /\ call' = [fn |-> call'.fn, at |-> call'.at, ret |-> call'.ret]
        /\ got > 0 => call'.at = "end" /\ call'.ret = -1
        /\ got = 0 => call' = call
    <2>1. CASE got = 0
      BY <1>1, <1>2, <2>1 DEF CallTypes
    <2>2. CASE got > 0
      <3>1. call' = [call EXCEPT !.at = "end", !.ret = -1]
        BY <1>1, <2>2
      <3>2. call = [fn |-> call.fn, at |-> call.at, ret |-> call.ret]
        BY <1>2 DEF CallTypes
      <3>3. call' = [fn |-> call.fn, at |-> "end", ret |-> -1]
        BY <3>1, <3>2
      <3>. QED
        BY <1>3, <2>2, <3>3
    <2>. QED
      BY <1>3, <2>1, <2>2
  <1>5. CallTypes' /\ HandleHeld'
    BY <1>1, <1>2, <1>3, <1>4 DEF CallTypes, HandleHeld
  <1>6. Delivered'
    BY <1>1, <1>2, <1>3, <1>4 DEF Delivered
  <1>7. ~IsGet'
    BY <1>1, <1>4 DEF IsGet
  <1>8. GetShape' /\ GetWaits' /\ GetReturns'
    BY <1>7 DEF GetShape, GetWaits, GetReturns
  <1>9. UploadShape'
    <2>1. CASE got > 0
      BY <1>4, <2>1 DEF UploadShape, Good
    <2>2. CASE got = 0
      <3>1. /\ rx' = [i \in 1 .. n + 2 |-> IF i = n + 2 THEN Nul
                                           ELSE IF i = n + 1 THEN next ELSE reply[i]]
            /\ got' = n /\ n <= Len(reply)
        BY <1>1, <1>3, <2>2
      <3>2. \A i \in 1 .. n + 2 : rx'[i] \in Chars
        BY <1>3, <3>1 DEF Chars
      <3>3. rx' \in [1 .. n + 2 -> Chars] /\ n + 2 \in Nat
        BY <1>3, <3>1, <3>2
      <3>4. rx' \in Seq(Chars) /\ Len(rx') = n + 2
        BY <3>3
      <3>5. /\ \A i \in 1 .. n : rx'[i] = reply[i]
            /\ rx'[n + 1] = next /\ rx'[n + 2] = Nul
        BY <1>3, <3>1
      <3>. QED
        BY <1>1, <3>1, <3>4, <3>5 DEF UploadShape
    <2>. QED
      BY <1>3, <2>1, <2>2
  <1>10. UploadText'
    <2>1. ASSUME got > 0 PROVE rx \in Seq(Chars) /\ Len(rx) = got + 2
      BY <1>1, <2>1 DEF HInv, UploadText
    <2>2. \A i \in 1 .. got + n + 2 : rx'[i] \in Chars
      <3>1. \A i \in 1 .. got : rx[i] \in Chars
        BY <1>3, <2>1, ElementOfSeq
      <3>2. \A i \in 1 .. got + n : reply[i] \in Chars
        BY <1>1, <1>3 DEF Chars
      <3>. QED
        BY <1>1, <1>3, <3>1, <3>2 DEF Chars
    <2>3. rx' \in [1 .. got + n + 2 -> Chars] /\ got + n + 2 \in Nat
      BY <1>1, <1>3, <2>2
    <2>4. rx' \in Seq(Chars) /\ Len(rx') = got + n + 2
      BY <2>3
    <2>5. n + 2 \in 1 .. got + n + 2 /\ rx'[n + 2] = Nul
      BY <1>1, <1>3
    <2>. QED
      BY <1>1, <1>3, <2>4, <2>5 DEF UploadText
  <1>11. Outside'
    BY <1>1, <1>3, <1>4 DEF Outside
  <1>. QED
    BY <1>5, <1>6, <1>8, <1>9, <1>10, <1>11 DEF HInv

(* The transfer ends well, ends badly, or a GET is tried again.             *)
LEMMA EndsKeep ==
  ASSUME HInv, TransferEnds \/ TransferFails \/ GetRepeats
  PROVE  HInv'
  <1>1. CallTypes /\ Delivered /\ HandleHeld /\ GetShape /\ GetWaits /\ UploadText
        /\ UploadShape
    BY DEF HInv
  <1>2. UNCHANGED <<doM2X, response, rsize, reply, got, pieces, rx, handles, lost>>
    BY DEF TransferEnds, TransferFails, GetRepeats
  <1>3. CASE TransferEnds
    <2>1. /\ call.at = "transfer" /\ got = Len(reply) /\ dirty' = dirty /\ call'.ret = 0
          /\ call'.at = "end" /\ call'.fn = call.fn
          /\ call' = [fn |-> call'.fn, at |-> call'.at, ret |-> call'.ret]
      BY <1>1, <1>3 DEF TransferEnds, CallTypes
    <2>2. CallTypes' /\ HandleHeld' /\ Delivered'
      BY <1>1, <1>2, <2>1 DEF CallTypes, HandleHeld, Delivered
    <2>3. GetShape' /\ UploadText' /\ UploadShape'
      BY <1>1, <1>2, <2>1 DEF UploadText, GetShape, UploadShape, Good, IsGet
    <2>4. GetWaits' /\ GetReturns' /\ Outside'
      BY <2>1 DEF GetWaits, GetReturns, Outside
    <2>. QED
      BY <2>2, <2>3, <2>4 DEF HInv
  <1>4. CASE TransferFails
    <2>1. /\ call.at = "transfer" /\ call'.ret = -1 /\ call'.at = "end" /\ call'.fn = call.fn
          /\ call' = [fn |-> call'.fn, at |-> call'.at, ret |-> call'.ret]
      BY <1>1, <1>4 DEF TransferFails, CallTypes
    <2>2. dirty' \in BOOLEAN /\ (~dirty' => ~dirty /\ ~(got > 0))
      BY Zenon, <1>4 DEF TransferFails
    <2>3. CallTypes' /\ HandleHeld' /\ Delivered'
      BY <1>1, <1>2, <2>1, <2>2 DEF CallTypes, HandleHeld, Delivered
    <2>4. GetShape' /\ UploadText' /\ UploadShape' /\ GetReturns' /\ Outside'
      BY <1>1, <1>2, <2>1 DEF UploadText, IsGet, GetShape, UploadShape, GetReturns, Outside, Good
    <2>5. GetWaits'
      <3>. SUFFICES ASSUME IsGet, ~dirty, ~(got > 0)
                    PROVE  \A i \in 1 .. BufLen : response[i] = Nul
        BY <1>2, <2>1, <2>2 DEF GetWaits, IsGet
      <3>1. \A i \in got + 1 .. BufLen : response[i] = Nul
        BY <1>1, <2>1 DEF GetShape, Good
      <3>2. got = 0
        BY <1>1, LenProperties DEF Delivered
      <3>. QED
        BY <3>1, <3>2
    <2>. QED
      BY <2>3, <2>4, <2>5 DEF HInv
  <1>5. CASE GetRepeats
    <2>1. /\ call.at = "end" /\ call.ret # 0 /\ IsGet /\ dirty' = dirty
          /\ call'.at = "perform" /\ call'.ret = 0 /\ call'.fn = call.fn
          /\ call' = [fn |-> call'.fn, at |-> call'.at, ret |-> call'.ret]
      BY <1>1, <1>5 DEF GetRepeats, CallTypes
    <2>2. CallTypes' /\ HandleHeld' /\ Delivered'
      BY <1>1, <1>2, <2>1 DEF CallTypes, HandleHeld, Delivered
    <2>3. GetShape' /\ UploadText' /\ UploadShape' /\ GetReturns' /\ Outside'
      BY <2>1 DEF UploadText, GetShape, UploadShape, GetReturns, Outside, Good
    <2>4. GetWaits'
      BY <1>1, <1>2, <2>1 DEF GetWaits, IsGet
    <2>. QED
      BY <2>2, <2>3, <2>4 DEF HInv
  <1>. QED
    BY <1>3, <1>4, <1>5

(* A text of the request's own block is copied to the caller with its end.  *)
LEMMA ReceivedIsBuffer ==
  ASSUME NEW b \in [1 .. BufLen -> Chars], rx \in Seq(Chars)
  PROVE  Received(b) \in [1 .. BufLen -> Chars]
  <1>1. PICK k \in 0 .. Len(rx) : CString(rx) = SubSeq(rx, 1, k)
    <2>1. 0 \in 0 .. Len(rx)
      BY LenProperties
    <2>. QED
      BY <2>1, TextEnds
  <1>2. Len(rx) \in Nat /\ \A i \in 1 .. k : rx[i] \in Chars
    BY LenProperties, ElementOfSeq
  <1>3. CString(rx) \in Seq(Chars)
    BY <1>1, <1>2, SubSeqProperties
  <1>4. \A i \in 1 .. Len(CString(rx)) : CString(rx)[i] \in Chars
    BY <1>3, ElementOfSeq
  <1>5. Len(CString(rx)) \in Nat /\ BufLen \in Nat /\ Nul \in Chars
    BY <1>3, LenProperties, ReplyAssumption DEF Chars
  <1>6. \A i \in 1 .. BufLen : Received(b)[i] \in Chars
    BY <1>4, <1>5 DEF Received
  <1>. QED
    BY <1>6 DEF Received

LEMMA LeaveKeeps ==
  ASSUME HInv, Leave
  PROVE  HInv'
  <1>1. /\ call.at = "end" /\ (IsGet => call.ret = 0)
        /\ Past("return", IF Copies THEN Len(CString(rx)) + 1 ELSE 0)
        /\ UNCHANGED <<doM2X, rsize, reply, got, pieces, rx, dirty>>
    BY DEF Leave
  <1>2. CallTypes /\ Delivered /\ HandleHeld /\ GetShape /\ UploadShape
    BY DEF HInv
  <1>3. /\ call'.at \in {"return", "outside"} /\ call'.fn = call.fn /\ call'.ret = call.ret
        /\ call' = [fn |-> call'.fn, at |-> call'.at, ret |-> call'.ret]
    BY <1>1, <1>2 DEF Past, CallTypes
  <1>4. IsGet => response' = response
    <2>1. IsGet => "copy" \notin call.fn.traits
      BY <1>2 DEF CallTypes, IsGet, Fns, NoCall, flow_get, m2x_device_info, m2x_getkeys,
         m2x_create_stream, m2x_update_stream_value, m2x_create_device, m2x_update_location_value,
         m2x_update_color_value
    <2>. QED
      BY <2>1 DEF Leave, Copies
  <1>5. response' \in [1 .. BufLen -> Chars]
    <2>1. response' = response \/ (~IsGet /\ got > 0 /\ response' = Received(response))
      BY <1>4 DEF Leave, Copies
    <2>2. ASSUME ~IsGet, got > 0 PROVE rx \in Seq(Chars)
      BY <1>1, <2>2 DEF HInv, UploadText
    <2>3. response \in [1 .. BufLen -> Chars]
      BY <1>2 DEF CallTypes
    <2>. QED
      BY <2>1, <2>2, <2>3, ReceivedIsBuffer
  <1>6. CallTypes'
    BY <1>1, <1>2, <1>3, <1>5 DEF CallTypes
  <1>7. Delivered'
    BY <1>1, <1>2, <1>3 DEF Delivered
  <1>8. HandleHeld'
    <2>1. \/ handles' = handles /\ lost' = lost + 1
          \/ handles' = handles - 1 /\ lost' = lost
      BY DEF Leave
    <2>. QED
      BY <1>1, <1>2, <1>3, <2>1 DEF HandleHeld
  <1>9. GetShape'
    BY <1>1, <1>2, <1>3, <1>4 DEF GetShape, Good, IsGet
  <1>10. GetWaits' /\ UploadText' /\ GetReturns'
    BY <1>1, <1>3 DEF GetWaits, UploadText, GetReturns, IsGet
  <1>11. UploadShape'
    BY <1>1, <1>2, <1>3 DEF UploadShape, Good, IsGet
  <1>12. Outside'
    <2>. SUFFICES ASSUME call'.at = "outside"
                  PROVE  ~IsGet' /\ 2 * Len(reply') > BufLen
      BY DEF Outside
    <2>1. BufLen \in Nat /\ BufLen > 2
      BY ReplyAssumption
    <2>2. Copies /\ Len(CString(rx)) + 1 > BufLen
      BY <1>1, <1>2, <2>1 DEF Past, CallTypes
    <2>3. ~IsGet /\ got > 0
      <3>1. "copy" \in call.fn.traits /\ got > 0
        BY <2>2 DEF Copies
      <3>. QED
        BY <1>2, <3>1 DEF CallTypes, IsGet, Fns, NoCall, flow_get, m2x_device_info, m2x_getkeys,
           m2x_create_stream, m2x_update_stream_value, m2x_create_device,
           m2x_update_location_value, m2x_update_color_value
    <2>4. PICK i \in 1 .. got + 2 : rx \in Seq(Chars) /\ Len(rx) = got + 2 /\ rx[i] = Nul
      BY <1>1, <2>3 DEF HInv, UploadText
    <2>5. got \in Nat /\ Len(reply) \in Nat /\ got <= Len(reply)
      BY <1>2, LenProperties DEF Delivered
    <2>6. Len(CString(rx)) \in Nat /\ Len(CString(rx)) < i
      BY <2>4, <2>5, TextIsShorter
    <2>. QED
      BY <1>1, <1>3, <2>1, <2>2, <2>3, <2>5, <2>6 DEF IsGet
  <1>. QED
    BY <1>6, <1>7, <1>8, <1>9, <1>10, <1>11, <1>12 DEF HInv

(* The call is over and the buffer is some buffer.                          *)
LEMMA ReturnKeeps ==
  ASSUME HInv, Returned, response' \in [1 .. BufLen -> Chars], UNCHANGED <<rsize, handles, lost>>
  PROVE  HInv'
  <1>1. /\ call.at = "return" /\ call' = Idle /\ reply' = <<>> /\ got' = 0 /\ pieces' = 0
        /\ dirty' = TRUE
    BY DEF Returned
  <1>2. call'.at = "idle" /\ call'.ret = 0 /\ call'.fn = NoCall
    BY <1>1 DEF Idle
  <1>3. CallTypes' /\ HandleHeld'
    BY <1>1, <1>2 DEF HInv, CallTypes, HandleHeld, Idle
  <1>4. Delivered'
    BY <1>1, <1>2, EmptySeq, ReplyAssumption DEF Delivered
  <1>5. GetShape' /\ GetWaits' /\ GetReturns' /\ UploadText' /\ UploadShape' /\ Outside'
    BY <1>2 DEF GetShape, GetWaits, GetReturns, UploadText, UploadShape, Outside, Good
  <1>. QED
    BY <1>3, <1>4, <1>5 DEF HInv

-----------------------------------------------------------------------------
LEMMA RequestsReturn ==
  ASSUME HInv
  PROVE  ReplyIsRead /\ UploadReplyWhole /\ OnlyFailedUpdatesLeak
  <1>1. MaxReply \in Nat /\ BufLen \in Nat
    BY ReplyAssumption
  <1>2. /\ reply \in Seq(Letters) /\ Len(reply) \in Nat /\ Len(reply) <= MaxReply
        /\ response \in Seq(Chars) /\ Len(response) = BufLen
    BY <1>1, LenProperties DEF HInv, CallTypes, Delivered
  <1>3. ReplyIsRead
    <2>. SUFFICES ASSUME call.at = "return", IsGet, reply # <<>>
                  PROVE  /\ IsPrefix(reply, CString(response))
                         /\ (pieces = 1 \/ ~dirty) => CString(response) = reply
      BY DEF ReplyIsRead, HInv, Outside
    <2>1. call.ret = 0 /\ got = Len(reply)
      BY DEF HInv, GetReturns, Delivered
    <2>4. Len(reply) < Len(response)
      BY <1>1, <1>2, <2>1, EmptySeq DEF HInv, GetShape, Good
    <2>2. Begins(response, reply)
      BY <1>1, <1>2, <2>1, <2>4 DEF HInv, GetShape, Good, Begins
    <2>3. pieces = 1 \/ ~dirty => response[Len(reply) + 1] = Nul
      BY <1>1, <1>2, <2>1, <2>4 DEF HInv, GetShape, Good
    <2>. QED
      BY <1>2, <2>2, <2>3, <2>4, BeginsWith
  <1>4. UploadReplyWhole
    <2>. SUFFICES ASSUME call.at = "return", ~IsGet, call.ret = 0, reply # <<>>
                  PROVE  CString(rx) \in {reply, Append(reply, Junk)}
      BY DEF UploadReplyWhole
    <2>1. got = Len(reply) /\ got > 0
      BY <1>2, EmptySeq DEF HInv, Delivered
    <2>2. /\ rx \in Seq(Chars) /\ Len(rx) = Len(reply) + 2
          /\ \A i \in 1 .. Len(reply) : rx[i] = reply[i]
          /\ rx[Len(reply) + 1] \in {Nul, Junk} /\ rx[Len(reply) + 2] = Nul
      BY <2>1 DEF HInv, UploadShape, Good
    <2>3. CASE rx[Len(reply) + 1] = Nul
      BY <1>2, <2>2, <2>3, BeginsWith DEF Begins
    <2>4. CASE rx[Len(reply) + 1] = Junk
      <3>. DEFINE r == Append(reply, Junk)
      <3>1. /\ r \in Seq(Chars) /\ Len(r) = Len(reply) + 1
            /\ \A i \in 1 .. Len(reply) : r[i] = reply[i]
            /\ r[Len(reply) + 1] = Junk
        <4>1. reply \in Seq(Chars) /\ Junk \in Chars
          BY <1>2, SeqMonotonic DEF Chars
        <4>. QED
          BY <1>2, <4>1, AppendProperties
      <3>2. \A i \in 1 .. Len(reply) + 1 : rx[i] = r[i] /\ rx[i] # Nul /\ rx[i] \in Chars
        <4>1. \A i \in 1 .. Len(reply) : reply[i] \in Letters
          BY <1>2, ElementOfSeq
        <4>2. \A i \in 1 .. Len(reply) + 1 : i \in 1 .. Len(reply) \/ i = Len(reply) + 1
          BY <1>2
        <4>. QED
          BY <1>2, <2>2, <2>4, <3>1, <4>1, <4>2, NulIsNoLetter DEF Chars
      <3>3. CString(rx) = SubSeq(rx, 1, Len(reply) + 1)
        <4>. DEFINE n == Len(reply) + 1
        <4>1. n \in 0 .. Len(rx) /\ n < Len(rx) /\ rx[n + 1] = Nul
          BY <1>2, <2>2
        <4>2. \A i \in 1 .. n : rx[i] # Nul
          BY <3>2
        <4>. HIDE DEF n
        <4>3. CString(rx) = SubSeq(rx, 1, n)
          BY <2>2, <4>1, <4>2, TextEnds
        <4>. QED
          BY <4>3 DEF n
      <3>4. /\ SubSeq(rx, 1, Len(reply) + 1) \in Seq(Chars)
            /\ Len(SubSeq(rx, 1, Len(reply) + 1)) = Len(reply) + 1
            /\ \A i \in 1 .. Len(reply) + 1 : SubSeq(rx, 1, Len(reply) + 1)[i] = rx[i]
        <4>1. Len(reply) + 1 \in Nat
          BY <1>2
        <4>. QED
          BY <3>2, <4>1, SubSeqProperties
      <3>5. SubSeq(rx, 1, Len(reply) + 1) = r
        <4>. HIDE DEF r
        <4>. QED
          BY <1>2, <3>1, <3>2, <3>4, SeqEqual
      <3>. QED
        BY <3>3, <3>5
    <2>. QED
      BY <2>2, <2>3, <2>4
  <1>5. OnlyFailedUpdatesLeak
    BY DEF HInv, HandleHeld, OnlyFailedUpdatesLeak
  <1>. QED
    BY <1>3, <1>4, <1>5

-----------------------------------------------------------------------------
KeysCall == m2x_getkeys(TRUE)
ListCall == m2x_getkeys(FALSE)

(* Main's list holds functions of http.c, and of a setup just the one that  *)
(* is called.                                                                *)
Lists ==
  /\ todo \in Seq(Fns)
  /\ prog = "keys" => todo = <<KeysCall>>
  /\ prog = "list" => todo = <<ListCall>>
  /\ prog = "info" => todo = <<m2x_device_info>>
  /\ prog \in Setup /\ call.at # "idle" => call.fn = todo[1]

(* A reply that is not empty tells the truth about the account.             *)
Says(fn, r) ==
  r # <<>> => /\ fn.name = "keys" => (Holds(r, "K") <=> account.master)
              /\ fn.name = "info" => (Holds(r, "D") <=> account.present)

Truthful == call.at \in {"transfer", "end", "return"} => Says(call.fn, reply)

Knows == (prog \in {"list", "info"} /\ ~stale) => (using_masterkey <=> account.master)

Inv == HInv /\ Lists /\ Truthful /\ Knows

LEMMA ListsOfCalls ==
  /\ \A u \in Uploads : u \in Seq(Fns)
  /\ set_m2xColor \in Seq(Fns)
  /\ NewDevice \in Seq(Fns) /\ QuickStartRound \in Seq(Fns) /\ DemoRound \in Seq(Fns)
  /\ <<KeysCall>> \in Seq(Fns) /\ <<ListCall>> \in Seq(Fns)
  /\ <<m2x_device_info>> \in Seq(Fns)
  <1>1. \A fn \in Fns : \A n \in Nat : Replicate(fn, n) \in Seq(Fns)
    BY DEF Replicate
  <1>2. /\ create \in Fns /\ update \in Fns /\ flow_get \in Fns /\ m2x_create_device \in Fns
        /\ m2x_update_location_value \in Fns /\ m2x_device_info \in Fns
        /\ m2x_update_color_value \in Fns
        /\ KeysCall \in Fns /\ ListCall \in Fns
    BY DEF Fns, KeysCall, ListCall, create, update
  <1>3. /\ \A fn \in Fns : <<fn>> \in Seq(Fns)
        /\ \A fn \in Fns : \A gn \in Fns : <<fn, gn>> \in Seq(Fns)
    OBVIOUS
  <1>4. /\ do_hts2m2x \in Seq(Fns) /\ do_adc2m2x \in Seq(Fns) /\ do_lis2dw2m2x \in Seq(Fns)
        /\ set_m2xColor \in Seq(Fns)
    BY <1>2 DEF do_hts2m2x, do_adc2m2x, do_lis2dw2m2x, set_m2xColor
  <1>5. NewDevice \in Seq(Fns)
    BY <1>1, <1>2, <1>3, ConcatProperties DEF NewDevice
  <1>6. QuickStartRound \in Seq(Fns)
    BY <1>1, <1>2, <1>3, ConcatProperties DEF QuickStartRound
  <1>7. DemoRound \in Seq(Fns)
    <2>1. <<flow_get>> \o do_hts2m2x \in Seq(Fns)
      BY <1>2, <1>3, <1>4, ConcatProperties
    <2>2. <<flow_get>> \o do_hts2m2x \o <<flow_get>> \in Seq(Fns)
      BY <1>2, <1>3, <2>1, ConcatProperties
    <2>3. <<flow_get>> \o do_hts2m2x \o <<flow_get>> \o do_adc2m2x \in Seq(Fns)
      BY <1>4, <2>2, ConcatProperties
    <2>. QED
      BY <1>2, <1>3, <2>3 DEF DemoRound
  <1>. QED
    BY <1>2, <1>3, <1>4, <1>5, <1>6, <1>7 DEF Uploads

(* What the server may answer is a text of letters, and true.               *)
LEMMA RepliesSay ==
  ASSUME NEW fn, NEW r \in Replies(fn)
  PROVE  r \in Seq(Letters) /\ Len(r) <= MaxReply /\ Says(fn, r)
  <1>. DEFINE mark == IF fn.name = "keys" THEN "K"
                      ELSE IF fn.name \in {"list", "info"} THEN "D" ELSE "x"
              on == /\ fn.name = "keys" => account.master
                    /\ fn.name = "list" => account.kit
                    /\ fn.name = "info" => account.present
  <1>1. r \in BoundedSeq({"x", mark}, MaxReply)
    BY DEF Replies
  <1>2. r # <<>> => (Holds(r, mark) <=> on)
    BY DEF Replies
  <1>3. PICK m \in 0 .. MaxReply : r \in [1 .. m -> {"x", mark}]
    BY <1>1 DEF BoundedSeq, SeqOf
  <1>4. {"x", mark} \subseteq Letters
    BY DEF Letters
  <1>5. r \in Seq(Letters) /\ Len(r) <= MaxReply
    BY <1>3, <1>4, ReplyAssumption
  <1>6. Says(fn, r)
    <2>1. CASE fn.name = "keys"
      BY <1>2, <2>1 DEF Says
    <2>2. CASE fn.name = "info"
      BY <1>2, <2>2 DEF Says
    <2>. QED
      BY <2>1, <2>2 DEF Says
  <1>. QED
    BY <1>5, <1>6

LEMMA InitInv == Init => Inv
  <1>. SUFFICES ASSUME Init PROVE Inv
    OBVIOUS
  <1>1. HInv
    BY HInitHolds DEF Init
  <1>2. prog = "monitor" /\ todo = <<>> /\ call.at = "idle"
    BY DEF Init, HttpInit, Idle
  <1>3. Lists /\ Truthful /\ Knows
    BY <1>2, EmptySeq DEF Lists, Truthful, Knows, Setup
  <1>. QED
    BY <1>1, <1>3 DEF Inv

(* A call made on: what main has to do and knows stays, and so does the     *)
(* truth, unless a new reply is there.                                       *)
LEMMA CallKeeps ==
  ASSUME Inv, HInv', UNCHANGED progVars,
         call.at # "idle", call'.at # "idle", call'.fn = call.fn,
         Truthful'
  PROVE  Inv'
  <1>1. Lists'
    BY DEF Inv, Lists, progVars
  <1>2. Knows'
    BY DEF Inv, Knows, progVars
  <1>. QED
    BY <1>1, <1>2 DEF Inv

LEMMA StepsKeep ==
  ASSUME Inv, HttpStep \/ ConnectionBreaks
  PROVE  Inv'
  <1>1. UNCHANGED progVars
    BY DEF HttpStep, ConnectionBreaks
  <1>2. CASE TransferEnds \/ TransferFails \/ GetRepeats
    <2>1. HInv'
      BY <1>2, EndsKeep DEF Inv
    <2>2. /\ call.at \in {"transfer", "end"} /\ call'.at \in {"end", "perform"}
          /\ call'.fn = call.fn /\ reply' = reply
      BY <1>2 DEF Inv, HInv, CallTypes, TransferEnds, TransferFails, GetRepeats
    <2>3. Truthful'
      BY <1>1, <2>2 DEF Inv, Truthful, Says, progVars
    <2>. QED
      BY <1>1, <2>1, <2>2, <2>3, CallKeeps
  <1>3. CASE \E n \in 1..MaxReply : write_callback_func(n)
    <2>1. HInv'
      BY <1>3, GetPieceKeeps DEF Inv
    <2>2. /\ call.at = "transfer" /\ call'.at \in {"transfer", "outside"}
          /\ call'.fn = call.fn /\ reply' = reply
      BY <1>3 DEF Inv, HInv, CallTypes, write_callback_func, Piece, Past
    <2>3. Truthful'
      BY <1>1, <2>2 DEF Inv, Truthful, Says, progVars
    <2>. QED
      BY <1>1, <2>1, <2>2, <2>3, CallKeeps
  <1>4. CASE \E n \in 1..MaxReply, next \in {Nul, Junk} : http_write_callback(n, next)
    <2>1. HInv'
      BY <1>4, UploadPieceKeeps DEF Inv
    <2>2. /\ call.at = "transfer" /\ reply' = reply
          /\ call' = call \/ call' = [call EXCEPT !.at = "end", !.ret = -1]
      BY <1>4 DEF http_write_callback, Piece
    <2>3. call'.at \in {"transfer", "end"} /\ call'.fn = call.fn
      BY <2>2 DEF Inv, HInv, CallTypes
    <2>4. Truthful'
      BY <1>1, <2>2, <2>3 DEF Inv, Truthful, Says, progVars
    <2>. QED
      BY <1>1, <2>1, <2>2, <2>3, <2>4, CallKeeps
  <1>5. CASE Leave
    <2>1. HInv'
      BY <1>5, LeaveKeeps DEF Inv
    <2>2. /\ call.at = "end" /\ call'.at \in {"return", "outside"}
          /\ call'.fn = call.fn /\ reply' = reply
      BY <1>5 DEF Inv, HInv, CallTypes, Leave, Past
    <2>3. Truthful'
      BY <1>1, <2>2 DEF Inv, Truthful, Says, progVars
    <2>. QED
      BY <1>1, <2>1, <2>2, <2>3, CallKeeps
  <1>. QED
    BY <1>2, <1>3, <1>4, <1>5 DEF HttpStep, ConnectionBreaks, Transfer

LEMMA AnswersKeep ==
  ASSUME Inv, ServerAnswers
  PROVE  Inv'
  <1>1. PICK r \in Replies(call.fn) : http_get(r) \/ http_upload(r)
    BY DEF ServerAnswers
  <1>2. r \in Seq(Letters) /\ Len(r) <= MaxReply /\ Says(call.fn, r)
    BY RepliesSay
  <1>3. HInv'
    BY <1>1, <1>2, PerformKeeps DEF Inv
  <1>4. UNCHANGED progVars
    BY DEF ServerAnswers
  <1>5. call.at = "perform" /\ call'.at = "transfer" /\ call'.fn = call.fn /\ reply' = r
    BY <1>1 DEF Inv, HInv, CallTypes, http_get, http_upload, Perform
  <1>6. Truthful'
    BY <1>2, <1>4, <1>5 DEF Truthful, Says, progVars
  <1>. QED
    BY <1>3, <1>4, <1>5, <1>6, CallKeeps

LEMMA CallNextKeeps ==
  ASSUME Inv, CallNext
  PROVE  Inv'
  <1>1. todo \in Seq(Fns) /\ todo # <<>> /\ Head(todo) = todo[1] /\ todo[1] \in Fns
    BY HeadTailProperties DEF Inv, Lists, CallNext
  <1>2. UNCHANGED progVars
    BY DEF CallNext
  <1>3. CASE Enter(Head(todo))
    <2>1. HInv'
      BY <1>1, <1>3, EnterKeeps DEF Inv
    <2>2. call'.at = "perform" /\ call'.fn = todo[1]
      BY <1>1, <1>3 DEF Enter
    <2>3. Lists' /\ Truthful' /\ Knows'
      BY <1>2, <2>2 DEF Inv, Lists, Truthful, Knows, progVars
    <2>. QED
      BY <2>1, <2>3 DEF Inv
  <1>4. CASE EnterDisabled(Head(todo))
    <2>1. HInv'
      BY <1>1, <1>4, EnterDisabledKeeps DEF Inv
    <2>2. call'.at = "return" /\ call'.fn = todo[1] /\ reply' = <<>>
      BY <1>1, <1>4 DEF EnterDisabled
    <2>3. Lists' /\ Truthful' /\ Knows'
      BY <1>2, <2>2 DEF Inv, Lists, Truthful, Says, Knows, progVars
    <2>. QED
      BY <2>1, <2>3 DEF Inv
  <1>. QED
    BY <1>3, <1>4 DEF CallNext

(* A program begins, goes another round, or ends, between two calls.        *)
LEMMA ProgramsKeep ==
  ASSUME Inv, StartProgram \/ Round \/ EndProgram
  PROVE  Inv'
  <1>1. /\ call.at = "idle" /\ call' = call
        /\ UNCHANGED <<doM2X, rsize, reply, got, pieces, rx, handles, dirty, lost, account>>
    <2>1. call = Idle /\ call' = call
      BY DEF StartProgram, Begin, Round, EndProgram, httpVars
    <2>2. UNCHANGED <<doM2X, rsize, reply, got, pieces, rx, handles, dirty, lost, account>>
      BY DEF StartProgram, Begin, Round, EndProgram, httpVars
    <2>. QED
      BY <2>1, <2>2 DEF Idle
  <1>2. response' = response \/ response' = [i \in 1..BufLen |-> Junk]
    BY DEF StartProgram, Begin, Round, EndProgram, httpVars
  <1>3. HInv'
    <2>1. CallTypes' /\ Delivered' /\ HandleHeld'
      BY <1>1, <1>2 DEF Inv, HInv, CallTypes, Delivered, HandleHeld, Chars
    <2>2. GetShape' /\ GetWaits' /\ GetReturns' /\ UploadText' /\ UploadShape' /\ Outside'
      BY <1>1 DEF GetShape, GetWaits, GetReturns, UploadText, UploadShape, Outside, Good
    <2>. QED
      BY <2>1, <2>2 DEF HInv
  <1>4. Truthful'
    BY <1>1 DEF Truthful
  <1>5. CASE StartProgram
    <2>1. \/ prog' = "monitor" /\ todo' \in Uploads \cup {set_m2xColor}
          \/ prog' = "demo" /\ todo' = DemoRound
          \/ prog' = "keys" /\ todo' = <<KeysCall>>
      BY <1>5 DEF StartProgram, Begin, KeysCall
    <2>2. Lists' /\ Knows'
      BY <1>1, <2>1, ListsOfCalls DEF Lists, Knows, Setup
    <2>. QED
      BY <1>3, <1>4, <2>2 DEF Inv
  <1>6. CASE Round
    <2>1. prog \in {"loop", "demo"} /\ prog' = prog /\ todo' \in {QuickStartRound, DemoRound}
      BY <1>6 DEF Round
    <2>2. Lists' /\ Knows'
      BY <1>1, <2>1, ListsOfCalls DEF Lists, Knows, Setup
    <2>. QED
      BY <1>3, <1>4, <2>2 DEF Inv
  <1>7. CASE EndProgram
    <2>1. prog' = "monitor" /\ todo' = todo
      BY <1>7 DEF EndProgram
    <2>2. Lists' /\ Knows'
      BY <2>1 DEF Inv, Lists, Knows, Setup
    <2>. QED
      BY <1>3, <1>4, <2>2 DEF Inv
  <1>. QED
    BY <1>5, <1>6, <1>7

(* When the request of a setup returns after one piece, what is found in    *)
(* the buffer is what the server said.                                       *)
LEMMA FoundIsTrue ==
  ASSUME Inv, prog \in Setup, call.at = "return", pieces = 1
  PROVE  /\ prog = "keys" => (Holds(CString(response), "K") <=> account.master)
         /\ prog = "info" => (Holds(CString(response), "D") <=> account.present)
  <1>1. call.fn = todo[1] /\ Says(call.fn, reply)
    BY DEF Inv, Lists, Truthful
  <1>2. /\ prog = "keys" => call.fn = KeysCall
        /\ prog = "list" => call.fn = ListCall
        /\ prog = "info" => call.fn = m2x_device_info
    BY <1>1 DEF Inv, Lists
  <1>3. IsGet
    BY <1>2 DEF IsGet, Setup, KeysCall, ListCall, m2x_getkeys, m2x_device_info
  <1>4. reply # <<>>
    <2>1. got # 0 /\ got \in 0 .. Len(reply)
      BY DEF Inv, HInv, Delivered
    <2>. QED
      BY <2>1, EmptySeq
  <1>5. CString(response) = reply
    BY <1>3, <1>4, RequestsReturn DEF Inv, ReplyIsRead
  <1>. QED
    BY <1>1, <1>2, <1>4, <1>5 DEF Says, KeysCall, m2x_getkeys, m2x_device_info

(* What Decide sets, a case at a time.                                      *)
LEMMA Decisions ==
  ASSUME Inv, Decide
  PROVE  \/ /\ prog = "keys"
            /\ (using_masterkey' <=> Holds(CString(response), "K"))
            /\ \/ prog' = "list" /\ todo' = <<ListCall>>
               \/ prog' = "info" /\ todo' = <<m2x_device_info>>
               \/ prog' = "monitor" /\ todo' = <<>>
         \/ /\ prog = "list"
            /\ prog' = "info" /\ todo' = <<m2x_device_info>>
            /\ (using_masterkey' <=> using_masterkey)
         \/ /\ prog = "info"
            /\ prog' \in {"loop", "monitor"}
            /\ todo' = IF ~Holds(CString(response), "D") /\ using_masterkey THEN NewDevice
                       ELSE <<>>
         \/ /\ prog \notin Setup
            /\ prog' = prog
            /\ todo' = <<>>
  <1>1. CASE prog = "keys"
    <2>1. using_masterkey' <=> Holds(CString(response), "K")
      BY Zenon, <1>1 DEF Decide, Setup
    <2>2. \/ prog' = "list" /\ todo' = <<ListCall>>
          \/ prog' = "info" /\ todo' = <<m2x_device_info>>
          \/ prog' = "monitor" /\ todo' = <<>>
      BY <1>1 DEF Decide, Setup, ListCall
    <2>. QED
      BY <1>1, <2>1, <2>2
  <1>2. CASE prog = "list"
    <2>1. using_masterkey' <=> using_masterkey
      <3>1. UNCHANGED using_masterkey
        BY <1>2 DEF Decide, Setup
      <3>. QED
        BY Zenon, <3>1
    <2>2. prog' = "info" /\ todo' = <<m2x_device_info>>
      BY <1>2 DEF Decide, Setup
    <2>. QED
      BY <1>2, <2>1, <2>2
  <1>3. CASE prog = "info"
    BY <1>3 DEF Decide, Setup
  <1>4. CASE prog \notin Setup
    BY <1>4 DEF Decide, Setup
  <1>. QED
    BY <1>1, <1>2, <1>3, <1>4 DEF Setup

LEMMA ReturnsKeep ==
  ASSUME Inv, Return
  PROVE  Inv'
  <1>1. /\ Returned /\ call.at = "return" /\ call'.at = "idle" /\ account' = account
        /\ UNCHANGED <<rsize, handles, lost>>
    BY DEF Return, Returned, Idle
  <1>2. HInv'
    <2>1. response' \in [1 .. BufLen -> Chars]
      BY DEF Return, Inv, HInv, CallTypes, Chars
    <2>. QED
      BY <1>1, <2>1, ReturnKeeps DEF Inv
  <1>3. Truthful'
    BY <1>1 DEF Truthful
  <1>4. prog' \in Setup /\ ~stale' => ~stale /\ pieces = 1
    BY Zenon DEF Return
  <1>5. CASE Len(todo) > 1
    <2>1. todo' = Tail(todo) /\ UNCHANGED <<prog, haveId, using_masterkey>>
      BY <1>5 DEF Return
    <2>2. prog \notin Setup /\ todo' \in Seq(Fns)
      BY <1>5, <2>1, HeadTailProperties, EmptySeq DEF Inv, Lists, Setup
    <2>3. Lists' /\ Knows'
      BY <2>1, <2>2 DEF Lists, Knows, Setup
    <2>. QED
      BY <1>2, <1>3, <2>3 DEF Inv
  <1>6. CASE ~(Len(todo) > 1)
    <2>1. Decide
      BY <1>6 DEF Return
    <2>2. Lists'
      <3>1. todo' \in Seq(Fns)
        BY <2>1, Decisions, ListsOfCalls, EmptySeq
      <3>2. /\ prog' = "keys" => FALSE
            /\ prog' = "list" => todo' = <<ListCall>>
            /\ prog' = "info" => todo' = <<m2x_device_info>>
        BY <2>1, Decisions DEF Setup
      <3>. QED
        BY <1>1, <3>1, <3>2 DEF Lists
    <2>3. Knows'
      <3>. SUFFICES ASSUME prog' \in {"list", "info"}, ~stale'
                    PROVE  using_masterkey' <=> account.master
        BY <1>1 DEF Knows
      <3>1. ~stale /\ pieces = 1
        BY <1>4 DEF Setup
      <3>2. CASE prog = "keys"
        <4>1. using_masterkey' <=> Holds(CString(response), "K")
          BY <2>1, <3>2, Decisions DEF Setup
        <4>. QED
          BY <1>1, <3>1, <3>2, <4>1, FoundIsTrue DEF Setup
      <3>3. CASE prog = "list"
        <4>1. using_masterkey' <=> using_masterkey
          BY <2>1, <3>3, Decisions DEF Setup
        <4>. QED
          BY <3>1, <3>3, <4>1 DEF Inv, Knows
      <3>4. prog \in {"keys", "list"}
        BY <2>1, Decisions DEF Setup
      <3>. QED
        BY <3>2, <3>3, <3>4
    <2>. QED
      BY <1>2, <1>3, <2>2, <2>3 DEF Inv
  <1>. QED
    BY <1>5, <1>6

LEMMA StutterKeeps ==
  ASSUME Inv, UNCHANGED vars
  PROVE  Inv'
  <1>1. HInv'
    BY DEF Inv, HInv, CallTypes, Delivered, GetShape, GetWaits, GetReturns, UploadText,
       UploadShape, HandleHeld, Outside, Good, IsGet, vars, httpVars
  <1>2. Lists' /\ Truthful' /\ Knows'
    BY DEF Inv, Lists, Truthful, Says, Knows, vars, httpVars, progVars
  <1>. QED
    BY <1>1, <1>2 DEF Inv

-----------------------------------------------------------------------------
(* Every reachable state is one of the invariant's.                         *)
THEOREM Invariance == Spec => []Inv
  <1>1. Init => Inv
    BY InitInv
  <1>2. Inv /\ [Next]_vars => Inv'
    BY ProgramsKeep, CallNextKeeps, AnswersKeep, StepsKeep, ReturnsKeep, StutterKeeps DEF Next
  <1>. QED
    BY <1>1, <1>2, PTL DEF Spec

(* For a buffer and replies of any length, in any pieces, after any         *)
(* failures: what a GET gives its caller begins with the whole reply of its  *)
(* last transfer, and is that reply if it came in one piece or into a clear  *)
(* buffer; and only a reply that is as long as the buffer, or half as long   *)
(* and in pieces, is written outside it (write_callback_func, which has no   *)
(* bound).                                                                   *)
THEOREM ReplyRead == Spec => []ReplyIsRead
  <1>1. Inv => ReplyIsRead
    BY RequestsReturn DEF Inv
  <1>. QED
    BY <1>1, Invariance, PTL

(* An upload that reports success has kept the whole reply, with one stray  *)
(* byte at most (http_write_callback).                                       *)
THEOREM UploadRead == Spec => []UploadReplyWhole
  <1>1. Inv => UploadReplyWhole
    BY RequestsReturn DEF Inv
  <1>. QED
    BY <1>1, Invariance, PTL

(* The only handles that stay behind are those of the location and colour   *)
(* updates that failed.                                                      *)
THEOREM OneLeakOnly == Spec => []OnlyFailedUpdatesLeak
  <1>1. Inv => OnlyFailedUpdatesLeak
    BY RequestsReturn DEF Inv
  <1>. QED
    BY <1>1, Invariance, PTL

(* Quick Start makes a device when and only when the account asks for one,  *)
(* if its replies came in one piece each: the shared buffer never misleads   *)
(* it.                                                                       *)
THEOREM DecisionIsRight == Spec => DecidesOnReply
  <1>1. ASSUME Inv, [Next]_vars
        PROVE  (prog \in Setup /\ prog' = "loop" /\ ~stale /\ pieces = 1) =>
                 (todo' = NewDevice <=> account.master /\ ~account.present)
    <2>. SUFFICES ASSUME prog \in Setup, prog' = "loop", ~stale, pieces = 1
                  PROVE  todo' = NewDevice <=> account.master /\ ~account.present
      OBVIOUS
    <2>1. Return
      BY <1>1 DEF Setup, Next, StartProgram, Begin, CallNext, ServerAnswers, HttpStep,
         ConnectionBreaks, Round, EndProgram, vars, progVars
    <2>2. call.at = "return"
      BY <2>1 DEF Return, Returned
    <2>3. Decide
      <3>1. Len(todo) = 1
        BY <1>1 DEF Inv, Lists, Setup
      <3>. QED
        BY <2>1, <3>1 DEF Return
    <2>4. /\ prog = "info"
          /\ todo' = IF ~Holds(CString(response), "D") /\ using_masterkey THEN NewDevice
                     ELSE <<>>
      BY <1>1, <2>3, Decisions DEF Setup
    <2>5. /\ using_masterkey <=> account.master
          /\ Holds(CString(response), "D") <=> account.present
      BY <1>1, <2>2, <2>4, FoundIsTrue DEF Inv, Knows
    <2>6. NewDevice # <<>>
      <3>1. <<m2x_create_device>> \in Seq(Fns) /\ Replicate(create, 5) \in Seq(Fns)
        BY DEF Fns, Replicate, create
      <3>2. Len(NewDevice) = Len(<<m2x_create_device>>) + Len(Replicate(create, 5))
        BY <3>1, ConcatProperties DEF NewDevice
      <3>3. Len(<<m2x_create_device>>) = 1 /\ Len(Replicate(create, 5)) \in Nat
        BY <3>1, LenProperties
      <3>. QED
        BY <3>2, <3>3, EmptySeq
    <2>. QED
      BY <2>4, <2>5, <2>6
  <1>. QED
    BY <1>1, Invariance, PTL DEF Spec, DecidesOnReply
=============================================================================
