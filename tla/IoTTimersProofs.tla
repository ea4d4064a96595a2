-------------------------- MODULE IoTTimersProofs --------------------------
(***************************************************************************)
(* Proofs about the timer engine for any set of nodes, descriptors and     *)
(* intervals and in every mode of use, and the proof that it implements    *)
(* TimerService.                                                           *)
(***************************************************************************)
EXTENDS IoTTimers, TimerList, FiniteSetTheorems, WellFoundedInduction, TLAPS

Elems(s) == {s[i] : i \in DOMAIN s}
Injective(s) == \A i, j \in DOMAIN s : s[i] = s[j] => i = j

(* The elements of a sequence over S are members of S.                      *)
LEMMA ElemsType ==
  ASSUME NEW S, NEW s \in Seq(S)
  PROVE  Elems(s) \subseteq S
BY DEF Elems

(* Putting a new node at the head of the list adds exactly that node.       *)
LEMMA PushFront ==
  ASSUME NEW S, NEW s \in Seq(S), NEW e \in S, e \notin Elems(s), Injective(s)
  PROVE  /\ <<e>> \o s \in Seq(S)
         /\ Elems(<<e>> \o s) = Elems(s) \cup {e}
         /\ Injective(<<e>> \o s)
<1> DEFINE t == <<e>> \o s
<1>1. t \in Seq(S) /\ Len(t) = Len(s) + 1
  OBVIOUS
<1>2. t[1] = e /\ \A i \in DOMAIN s : t[i + 1] = s[i]
  OBVIOUS
<1>3. DOMAIN t = 1 .. Len(s) + 1 /\ DOMAIN s = 1 .. Len(s) /\ Len(s) \in Nat
  BY <1>1
<1>4. \A i \in DOMAIN t : i = 1 \/ (i - 1 \in DOMAIN s /\ t[i] = s[i - 1])
  BY <1>2, <1>3
<1>5. Elems(t) = Elems(s) \cup {e}
  <2>1. Elems(t) \subseteq Elems(s) \cup {e}
    BY <1>2, <1>4 DEF Elems
  <2>2. e \in Elems(t)
    BY <1>2, <1>3 DEF Elems
  <2>3. ASSUME NEW i \in DOMAIN s PROVE s[i] \in Elems(t)
    BY <1>2, <1>3, SMTT(30) DEF Elems
  <2> QED BY <2>1, <2>2, <2>3 DEF Elems
<1>6. Injective(t)
  <2> SUFFICES ASSUME NEW i \in DOMAIN t, NEW j \in DOMAIN t, t[i] = t[j]
               PROVE  i = j
    BY DEF Injective
  <2>1. \A l \in DOMAIN s : s[l] # e
    BY DEF Elems
  <2> QED BY <2>1, <1>2, <1>3, <1>4 DEF Injective
<1> QED BY <1>1, <1>5, <1>6

(* Past the end of a, the concatenation of a and b shows b.                 *)
LEMMA ConcatRight ==
  ASSUME NEW S, NEW a \in Seq(S), NEW b \in Seq(S), NEW i \in 1 .. Len(b)
  PROVE  (a \o b)[Len(a) + i] = b[i]
OBVIOUS

(* Unlinking slot k removes exactly the node that was there.                *)
LEMMA Unlink ==
  ASSUME NEW S, NEW s \in Seq(S), NEW k \in DOMAIN s, Injective(s)
  PROVE  /\ RemoveAt(s, k) \in Seq(S)
         /\ Elems(RemoveAt(s, k)) = Elems(s) \ {s[k]}
         /\ Injective(RemoveAt(s, k))
<1> DEFINE t == RemoveAt(s, k)
           p(i) == IF i < k THEN i ELSE i + 1
<1>1. Len(s) \in Nat /\ DOMAIN s = 1 .. Len(s) /\ k \in 1 .. Len(s)
  OBVIOUS
<1>2. t \in Seq(S) /\ Len(t) = Len(s) - 1
  BY <1>1 DEF RemoveAt
<1>3. DOMAIN t = 1 .. Len(s) - 1
  BY <1>2
<1>4. \A i \in DOMAIN t : p(i) \in DOMAIN s /\ p(i) # k /\ t[i] = s[p(i)]
  <2> DEFINE a == SubSeq(s, 1, k - 1)
             b == SubSeq(s, k + 1, Len(s))
  <2>1. a \in Seq(S) /\ Len(a) = k - 1 /\ \A i \in 1 .. k - 1 : a[i] = s[i]
    BY <1>1
  <2>2. b \in Seq(S) /\ Len(b) = Len(s) - k
                    /\ \A i \in 1 .. Len(s) - k : b[i] = s[k + i]
    BY <1>1
  <2>3. t = a \o b
    BY DEF RemoveAt
  <2>4. ASSUME NEW i \in DOMAIN t, i < k PROVE t[i] = s[i]
    BY <2>1, <2>2, <2>3, <2>4, <1>1, <1>3
  <2>5. ASSUME NEW i \in DOMAIN t, ~(i < k) PROVE t[i] = s[i + 1]
    <3> HIDE DEF a, b
    <3> DEFINE j == i - Len(a)
    <3>1. j \in 1 .. Len(b) /\ Len(a) + j = i /\ k + j = i + 1
      BY <2>1, <2>2, <2>5, <1>1, <1>3
    <3> HIDE DEF j
    <3>2. (a \o b)[Len(a) + j] = b[j]
      BY <2>1, <2>2, <3>1, ConcatRight
    <3> QED BY <3>1, <3>2, <2>2, <2>3
  <2> QED BY <2>4, <2>5, <1>1, <1>3
<1>5. Elems(t) = Elems(s) \ {s[k]}
  <2>1. ASSUME NEW i \in DOMAIN t PROVE t[i] \in Elems(s) \ {s[k]}
    BY <1>4 DEF Elems, Injective
  <2>2. ASSUME NEW i \in DOMAIN s, i # k PROVE s[i] \in Elems(t)
    <3>1. CASE i < k
      BY <3>1, <1>1, <1>3, <1>4 DEF Elems
    <3>2. CASE i > k
      <4>1. i - 1 \in DOMAIN t /\ p(i - 1) = i
        BY <3>2, <1>1, <1>3
      <4> QED BY <4>1, <1>4 DEF Elems
    <3> QED BY <3>1, <3>2, <1>1, <2>2
  <2> QED BY <2>1, <2>2 DEF Elems
<1>6. Injective(t)
  <2> SUFFICES ASSUME NEW i \in DOMAIN t, NEW j \in DOMAIN t, t[i] = t[j]
               PROVE  i = j
    BY DEF Injective
  <2>1. p(i) = p(j)
    BY <1>4 DEF Injective
  <2> QED BY <2>1, <1>1, <1>3
<1> QED BY <1>2, <1>5, <1>6

-----------------------------------------------------------------------------
(* The inductive invariant.  OneFdPerNode is what keeps the poll set made of*)
(* descriptors; Slots says that no reported slot outlives the scan it       *)
(* belongs to; StopShape relates the progress of stop_IoTtimers to the      *)
(* thread, the list and the reference count.                                *)
Slots == tpc \in {"none", "top", "poll", "exited"} => pollin = {}

StopShape ==
  /\ mainPc \in {"flush", "join"} => running = 0 /\ ~Monitor
  /\ mainPc = "join" => list = <<>>
  /\ tpc = "exited" => mainPc = "join"
  /\ (tpc = "none" /\ ~ThreadMayFail) => running = 0
  /\ (mainPc = "idle" /\ running = 0) => tpc = "none" /\ list = <<>>
  /\ mainPc = "dead" => tpc = "dead"

(* When only callbacks delete timers, the node looked up is allocated.      *)
CallbackNodeLive ==
  (Monitor /\ ~MainDeletes /\ tpc = "invoke") => cur \in Live

IInv == TypeOK /\ OneFdPerNode /\ Slots /\ StopShape /\ CallbackNodeLive

LEMMA InitIInv == Init => IInv
<1> SUFFICES ASSUME Init PROVE IInv
  OBVIOUS
<1>1. list = <<>> /\ DOMAIN list = {} /\ Live = {} /\ Open = {}
  BY DEF Init, Live, Open
<1>2. TypeOK
  BY DEF Init, TypeOK
<1>3. OneFdPerNode
  BY <1>1 DEF OneFdPerNode
<1>4. Slots /\ StopShape /\ CallbackNodeLive
  BY <1>1 DEF Init, Slots, StopShape, CallbackNodeLive
<1> QED BY <1>2, <1>3, <1>4 DEF IInv

(* A step that moves neither list nor fdOf and closes or opens nothing      *)
(* keeps the correspondence of list and kernel.                             *)
LEMMA SameOwners ==
  ASSUME OneFdPerNode, UNCHANGED <<list, fdOf>>, Open' = Open
  PROVE  OneFdPerNode' /\ Live' = Live
BY DEF OneFdPerNode, Live

(* delete_IoTtimer of slot k: the node leaves the list and its descriptor   *)
(* is closed, nothing else.                                                 *)
LEMMA DeleteKeepsOwners ==
  ASSUME TypeOK, OneFdPerNode, NEW k \in DOMAIN list, DeleteNode(k)
  PROVE  /\ OneFdPerNode'
         /\ Live' = Live \ {list[k]}
         /\ list' \in Seq(Nodes)
         /\ fdOf' \in [Nodes -> Fds \cup {None}]
         /\ tfd' \in [Fds -> {"closed", "disarmed", "armed", "expired"}]
         /\ orphan' \in {"no", "armed", "disarmed"}
<1> DEFINE n == list[k]
           f == fdOf[n]
<1>0. n \in Nodes /\ n \in Live
  BY DEF TypeOK, Live
<1>1. f \in Fds /\ tfd[f] # "closed"
  BY <1>0 DEF OneFdPerNode, Open
<1>2. Injective(list)
  BY DEF OneFdPerNode, Injective
<1>3. /\ list' \in Seq(Nodes)
      /\ Elems(list') = Elems(list) \ {n}
      /\ Injective(list')
  BY <1>2, Unlink DEF DeleteNode, TypeOK
<1>4. Live' = Live \ {n}
  BY <1>3 DEF Elems, Live
<1>5. /\ fdOf' \in [Nodes -> Fds \cup {None}]
      /\ \A m \in Live' : m \in Nodes /\ fdOf'[m] = fdOf[m]
  <2>1. Live \subseteq Nodes
    BY ElemsType DEF TypeOK, Elems, Live
  <2> QED BY <1>0, <1>4, <2>1 DEF DeleteNode, TypeOK
<1>6. /\ tfd' \in [Fds -> {"closed", "disarmed", "armed", "expired"}]
      /\ Open' = Open \ {f}
  BY <1>1 DEF DeleteNode, TypeOK, Open
<1>7. OneFdPerNode'
  <2>1. (\A i, j \in DOMAIN list : list[i] = list[j] => i = j)'
    BY <1>3 DEF Injective
  <2>2. \A m \in Live' : fdOf'[m] \in Open'
    BY <1>0, <1>4, <1>5, <1>6 DEF OneFdPerNode
  <2>3. \A m, o \in Live' : fdOf'[m] = fdOf'[o] => m = o
    BY <1>4, <1>5 DEF OneFdPerNode
  <2>4. \A g \in Open' : \E m \in Live' : fdOf'[m] = g
    BY <1>4, <1>5, <1>6 DEF OneFdPerNode
  <2> QED BY <2>1, <2>2, <2>3, <2>4 DEF OneFdPerNode
<1>8. orphan' \in {"no", "armed", "disarmed"}
  BY DEF DeleteNode, TypeOK
<1> QED BY <1>3, <1>4, <1>5, <1>6, <1>7, <1>8

(* create_IoTtimer: the new node owns the new descriptor.                   *)
LEMMA CreateKeepsOwners ==
  ASSUME TypeOK, OneFdPerNode, NEW a, CreateIoTtimer(a)
  PROVE  /\ OneFdPerNode'
         /\ Live \subseteq Live'
         /\ list' \in Seq(Nodes)
         /\ fdOf' \in [Nodes -> Fds \cup {None}]
         /\ tfd' \in [Fds -> {"closed", "disarmed", "armed", "expired"}]
<1>0. PICK n \in Nodes \ Live, f \in Fds \ Open, i \in Intervals :
        /\ list' = <<n>> \o list
        /\ fdOf' = [fdOf EXCEPT ![n] = f]
        /\ tfd' = [tfd EXCEPT ![f] = IF i = 0 THEN "disarmed" ELSE "armed"]
  BY DEF CreateIoTtimer
<1>1. Injective(list) /\ n \notin Elems(list)
  BY DEF OneFdPerNode, Injective, Elems, Live
<1>2. /\ list' \in Seq(Nodes)
      /\ Elems(list') = Elems(list) \cup {n}
      /\ Injective(list')
  BY <1>0, <1>1, PushFront DEF TypeOK
<1>3. Live' = Live \cup {n} /\ Live \subseteq Nodes
  BY <1>2, ElemsType DEF Elems, Live, TypeOK
<1>4. /\ fdOf' \in [Nodes -> Fds \cup {None}]
      /\ fdOf'[n] = f
      /\ \A m \in Live : fdOf'[m] = fdOf[m]
  BY <1>0, <1>3 DEF TypeOK
<1>5. /\ tfd' \in [Fds -> {"closed", "disarmed", "armed", "expired"}]
      /\ Open' = Open \cup {f}
  BY <1>0 DEF TypeOK, Open
<1>6. OneFdPerNode'
  <2>1. (\A l, j \in DOMAIN list : list[l] = list[j] => l = j)'
    BY <1>2 DEF Injective
  <2>2. \A m \in Live' : fdOf'[m] \in Open'
    BY <1>3, <1>4, <1>5 DEF OneFdPerNode
  <2>3. \A m, o \in Live' : fdOf'[m] = fdOf'[o] => m = o
    BY <1>3, <1>4 DEF OneFdPerNode
  <2>4. \A g \in Open' : \E m \in Live' : fdOf'[m] = g
    BY <1>3, <1>4, <1>5 DEF OneFdPerNode
  <2> QED BY <2>1, <2>2, <2>3, <2>4 DEF OneFdPerNode
<1> QED BY <1>2, <1>3, <1>4, <1>5, <1>6

-----------------------------------------------------------------------------
(* The calls into the engine. *)
LEMMA CallIInv ==
  ASSUME IInv, NEW a \in Actors, Call(a)
  PROVE  IInv'
<1> USE DEF IInv, threadVars
<1>1. CASE StartIoTtimers(a)
  <2>1. Live' = Live /\ Open' = Open
    BY <1>1 DEF StartIoTtimers, Live, Open
  <2>2. TypeOK'
    BY <1>1 DEF StartIoTtimers, TypeOK
  <2>3. OneFdPerNode'
    BY <1>1, <2>1, SameOwners DEF StartIoTtimers
  <2>4. Slots' /\ CallbackNodeLive'
    <3>1. running = 0 => tpc = "none"
      BY <1>1 DEF StartIoTtimers, CanCall, Actors, StopShape, TypeOK
    <3> QED
      BY <1>1, <2>1, <3>1 DEF StartIoTtimers, Slots, CallbackNodeLive, TypeOK
  <2>5. StopShape'
    BY <1>1 DEF StartIoTtimers, StopShape, TypeOK, CanCall, Actors
  <2> QED BY <2>2, <2>3, <2>4, <2>5
<1>2. CASE CreateIoTtimer(a)
  <2>1. /\ OneFdPerNode' /\ Live \subseteq Live'
        /\ list' \in Seq(Nodes)
        /\ fdOf' \in [Nodes -> Fds \cup {None}]
        /\ tfd' \in [Fds -> {"closed", "disarmed", "armed", "expired"}]
    BY <1>2, CreateKeepsOwners
  <2>2. TypeOK'
    BY <1>2, <2>1 DEF CreateIoTtimer, TypeOK
  <2>3. Slots' /\ CallbackNodeLive'
    BY <1>2, <2>1 DEF CreateIoTtimer, Slots, CallbackNodeLive
  <2>4. mainPc # "join"
    BY <1>2 DEF CreateIoTtimer, CanCall, StopShape, Actors
  <2>5. StopShape'
    BY <1>2, <2>4 DEF CreateIoTtimer, StopShape
  <2> QED BY <2>1, <2>2, <2>3, <2>5
<1>3. CASE DeleteIoTtimer(a)
  <2>0. PICK k \in DOMAIN list : DeleteNode(k)
    BY <1>3 DEF DeleteIoTtimer
  <2>1. /\ OneFdPerNode' /\ Live' = Live \ {list[k]}
        /\ list' \in Seq(Nodes)
        /\ fdOf' \in [Nodes -> Fds \cup {None}]
        /\ tfd' \in [Fds -> {"closed", "disarmed", "armed", "expired"}]
        /\ orphan' \in {"no", "armed", "disarmed"}
    BY <2>0, DeleteKeepsOwners
  <2>2. TypeOK'
    BY <1>3, <2>1 DEF DeleteIoTtimer, TypeOK
  <2>3. Slots'
    BY <1>3 DEF DeleteIoTtimer, Slots
  <2>4. list # <<>>
    BY <2>0
  <2>5. StopShape'
    BY <1>3, <2>4 DEF DeleteIoTtimer, StopShape
  <2>6. CallbackNodeLive'
    BY <1>3 DEF DeleteIoTtimer, CallbackNodeLive, CanCall, Actors
  <2> QED BY <2>1, <2>2, <2>3, <2>5, <2>6
<1>4. CASE StopIoTtimers(a)
  <2>1. Live' = Live /\ Open' = Open
    BY <1>4 DEF StopIoTtimers, Live, Open
  <2>2. running' \in Nat /\ (Monitor => running' # 0)
    BY <1>4 DEF StopIoTtimers, TypeOK, Held
  <2>3. TypeOK'
    BY <1>4, <2>2 DEF StopIoTtimers, TypeOK
  <2>4. OneFdPerNode'
    BY <1>4, <2>1, SameOwners DEF StopIoTtimers
  <2>5. Slots' /\ CallbackNodeLive'
    BY <1>4, <2>1 DEF StopIoTtimers, Slots, CallbackNodeLive
  <2>6. StopShape'
    <3>1. running > 0
      BY <1>4 DEF StopIoTtimers, Held, TypeOK
    <3>2. mainPc \notin {"flush", "join"}
      BY <3>1 DEF StopShape
    <3> QED
      BY <1>4, <2>2, <3>1, <3>2, ModeAssumption
         DEF StopIoTtimers, StopShape, CanCall, Actors, TypeOK
  <2> QED BY <2>3, <2>4, <2>5, <2>6
<1> QED BY <1>1, <1>2, <1>3, <1>4 DEF Call

(* The rest of stop_IoTtimers. *)
LEMMA StopIInv ==
  ASSUME IInv, StopSteps
  PROVE  IInv'
<1> USE DEF IInv, threadVars
<1>1. CASE FlushList
  <2>0. 1 \in DOMAIN list /\ DeleteNode(1)
    BY <1>1 DEF FlushList, TypeOK
  <2>1. /\ OneFdPerNode' /\ Live' = Live \ {list[1]}
        /\ list' \in Seq(Nodes)
        /\ fdOf' \in [Nodes -> Fds \cup {None}]
        /\ tfd' \in [Fds -> {"closed", "disarmed", "armed", "expired"}]
        /\ orphan' \in {"no", "armed", "disarmed"}
    BY <2>0, DeleteKeepsOwners
  <2>2. TypeOK'
    BY <1>1, <2>1 DEF FlushList, TypeOK
  <2>3. Slots' /\ StopShape' /\ CallbackNodeLive'
    BY <1>1 DEF FlushList, Slots, StopShape, CallbackNodeLive
  <2> QED BY <2>1, <2>2, <2>3
<1>2. CASE CancelThread \/ JoinThread \/ JoinNoThread
  <2>1. Live' = Live /\ Open' = Open
    BY <1>2 DEF CancelThread, JoinThread, JoinNoThread, Live, Open
  <2>2. TypeOK'
    BY <1>2 DEF CancelThread, JoinThread, JoinNoThread, TypeOK
  <2>3. OneFdPerNode'
    BY <1>2, <2>1, SameOwners DEF CancelThread, JoinThread, JoinNoThread
  <2>4. Slots' /\ CallbackNodeLive'
    BY <1>2, <2>1
       DEF CancelThread, JoinThread, JoinNoThread, Slots, CallbackNodeLive
  <2>5. StopShape'
    BY <1>2 DEF CancelThread, JoinThread, JoinNoThread, StopShape
  <2> QED BY <2>2, <2>3, <2>4, <2>5
<1> QED BY <1>1, <1>2 DEF StopSteps

(* The timer thread and the kernel. *)
LEMMA ThreadIInv ==
  ASSUME IInv, ThreadSteps \/ \E f \in Fds : Expire(f)
  PROVE  IInv'
<1> USE DEF IInv, threadVars
<1>0. ASSUME UNCHANGED <<list, fdOf>>, Open' = Open
      PROVE  OneFdPerNode' /\ Live' = Live
  BY <1>0, SameOwners
<1>1. CASE TestCancel
  <2>1. OneFdPerNode' /\ Live' = Live
    BY <1>0, <1>1 DEF TestCancel, Open
  <2>2. TypeOK' /\ Slots' /\ StopShape' /\ CallbackNodeLive'
    BY <1>1 DEF TestCancel, TypeOK, Slots, StopShape, CallbackNodeLive
  <2> QED BY <2>1, <2>2
<1>2. CASE WalkList
  <2>1. OneFdPerNode' /\ Live' = Live
    BY <1>0, <1>2 DEF WalkList, Open
  <2>2. ufds' \in Seq(Fds)
    <3>1. \A k \in DOMAIN list : fdOf[list[k]] \in Fds
      BY DEF OneFdPerNode, Live, Open
    <3>2. Len(list) \in Nat /\ DOMAIN list = 1 .. Len(list)
      BY DEF TypeOK
    <3> QED BY <1>2, <3>1, <3>2 DEF WalkList
  <2>3. TypeOK'
    BY <1>2, <2>2 DEF WalkList, TypeOK, Slots
  <2>4. Slots' /\ StopShape' /\ CallbackNodeLive'
    BY <1>2 DEF WalkList, Slots, StopShape, CallbackNodeLive
  <2> QED BY <2>1, <2>3, <2>4
<1>3. CASE Poll
  <2>1. OneFdPerNode' /\ Live' = Live
    BY <1>0, <1>3 DEF Poll, Open
  <2>2. TypeOK' /\ Slots' /\ StopShape' /\ CallbackNodeLive'
    BY <1>3 DEF Poll, TypeOK, Slots, StopShape, CallbackNodeLive
  <2> QED BY <2>1, <2>2
<1>4. CASE ReadTimerfd
  <2>0. \A k \in pollin : ufds[k] \in Fds
    BY DEF TypeOK
  <2>1. Open' = Open
    BY <1>4, <2>0 DEF ReadTimerfd, Open, TypeOK
  <2>2. OneFdPerNode' /\ Live' = Live
    BY <1>0, <1>4, <2>1 DEF ReadTimerfd
  <2>3. TypeOK'
    BY <1>4, <2>0 DEF ReadTimerfd, TypeOK
  <2>4. Slots' /\ StopShape' /\ CallbackNodeLive'
    BY <1>4 DEF ReadTimerfd, Slots, StopShape, CallbackNodeLive
  <2> QED BY <2>2, <2>3, <2>4
<1>5. CASE ReadCompletes
  <2>1. Open' = Open
    BY <1>5 DEF ReadCompletes, Open, TypeOK
  <2>2. OneFdPerNode' /\ Live' = Live
    BY <1>0, <1>5, <2>1 DEF ReadCompletes
  <2>3. TypeOK' /\ Slots' /\ StopShape' /\ CallbackNodeLive'
    BY <1>5 DEF ReadCompletes, TypeOK, Slots, StopShape, CallbackNodeLive
  <2> QED BY <2>2, <2>3
<1>6. CASE EndOfScan
  <2>1. OneFdPerNode' /\ Live' = Live
    BY <1>0, <1>6 DEF EndOfScan, Open
  <2>2. TypeOK' /\ Slots' /\ StopShape' /\ CallbackNodeLive'
    BY <1>6 DEF EndOfScan, TypeOK, Slots, StopShape, CallbackNodeLive
  <2> QED BY <2>1, <2>2
<1>7. CASE GetTimerFromFd
  <2>1. OneFdPerNode' /\ Live' = Live
    BY <1>0, <1>7 DEF GetTimerFromFd, Open
  <2>2. Live \subseteq Nodes
    BY ElemsType DEF TypeOK, Elems, Live
  <2>3. TypeOK' /\ Slots' /\ StopShape'
    BY <1>7, <2>2 DEF GetTimerFromFd, TypeOK, Slots, StopShape
  <2>4. CallbackNodeLive'
    BY <1>7, <2>1 DEF GetTimerFromFd, CallbackNodeLive
  <2> QED BY <2>1, <2>3, <2>4
<1>8. CASE InvokeCallback \/ CallbackReturns
  <2>1. OneFdPerNode' /\ Live' = Live
    BY <1>0, <1>8 DEF InvokeCallback, CallbackReturns, Open
  <2>2. TypeOK' /\ Slots' /\ StopShape' /\ CallbackNodeLive'
    BY <1>8
       DEF InvokeCallback, CallbackReturns, TypeOK, Slots, StopShape,
           CallbackNodeLive
  <2> QED BY <2>1, <2>2
<1>9. ASSUME NEW f \in Fds, Expire(f) PROVE IInv'
  <2>1. Open' = Open
    BY <1>9 DEF Expire, Open, TypeOK
  <2>2. OneFdPerNode' /\ Live' = Live
    BY <1>0, <1>9, <2>1 DEF Expire
  <2>3. TypeOK' /\ Slots' /\ StopShape' /\ CallbackNodeLive'
    BY <1>9, <2>2 DEF Expire, TypeOK, Slots, StopShape, CallbackNodeLive
  <2> QED BY <2>2, <2>3
<1> QED
  BY <1>1, <1>2, <1>3, <1>4, <1>5, <1>6, <1>7, <1>8, <1>9 DEF ThreadSteps

LEMMA NextIInv == IInv /\ [Next]_vars => IInv'
<1> SUFFICES ASSUME IInv, [Next]_vars PROVE IInv'
  OBVIOUS
<1>1. CASE \E a \in Actors : Call(a)
  BY <1>1, CallIInv
<1>2. CASE StopSteps
  BY <1>2, StopIInv
<1>3. CASE ThreadSteps \/ \E f \in Fds : Expire(f)
  BY <1>3, ThreadIInv
<1>4. CASE UNCHANGED vars
  <2>1. Live' = Live /\ Open' = Open
    BY <1>4 DEF vars, Live, Open
  <2>2. TypeOK' /\ Slots' /\ StopShape'
    BY <1>4 DEF vars, threadVars, IInv, TypeOK, Slots, StopShape
  <2>3. OneFdPerNode' /\ CallbackNodeLive'
    BY <1>4, <2>1 DEF vars, threadVars, IInv, OneFdPerNode, CallbackNodeLive
  <2> QED BY <2>2, <2>3 DEF IInv
<1> QED BY <1>1, <1>2, <1>3, <1>4 DEF Next

(* The inductive invariant holds of every behaviour, whatever the callers   *)
(* do within their contract and whatever the mode.                          *)
THEOREM Inductive == Spec => []IInv
BY InitIInv, NextIInv, PTL DEF Spec

(* Type correctness. *)
THEOREM TypeCorrect == Spec => []TypeOK
<1>1. IInv => TypeOK
  BY DEF IInv
<1> QED BY <1>1, Inductive, PTL

(* No create, delete or stop by either thread, in any order, leaks a        *)
(* timerfd or gives it two owners.                                          *)
THEOREM NoFdLeak == Spec => []OneFdPerNode
<1>1. IInv => OneFdPerNode
  BY DEF IInv
<1> QED BY <1>1, Inductive, PTL

(* When the last stop_IoTtimers has returned the engine is empty.           *)
THEOREM QuietAfterStop == Spec => []StoppedIsQuiet
<1>1. IInv => StoppedIsQuiet
  <2> SUFFICES ASSUME IInv, mainPc = "idle", running = 0
               PROVE  tpc = "none" /\ list = <<>> /\ Open = {}
    BY DEF StoppedIsQuiet
  <2>1. tpc = "none" /\ list = <<>>
    BY DEF IInv, StopShape
  <2>2. Live = {}
    BY <2>1 DEF Live
  <2> QED BY <2>1, <2>2 DEF IInv, OneFdPerNode
<1> QED BY <1>1, Inductive, PTL

(* A referenced engine has its thread. *)
THEOREM ThreadWhileReferenced == Spec => []RunningHasThread
<1>1. IInv => RunningHasThread
  BY DEF IInv, StopShape, RunningHasThread, TypeOK
<1> QED BY <1>1, Inductive, PTL

-----------------------------------------------------------------------------
(***************************************************************************)
(* The timer engine is a TimerService when only callbacks delete timers and*)
(* the WWAN monitor holds its reference.                                    *)
(***************************************************************************)
Due(n) == IF tfd[fdOf[n]] = "expired" THEN 1 ELSE 0
Flying(n) == IF InFlight(n) THEN 1 ELSE 0

(* While nothing is deleted behind the thread's back, no read waits on a    *)
(* closed descriptor, the descriptor that was read is still the timer's, and *)
(* a callback is somebody's.                                                 *)
RInv ==
  /\ orphan = "no"
  /\ tpc = "blocked" => rd \in Fds
  /\ tpc = "lookup" => rd \in Open
  /\ tpc = "callback" => cur \in Nodes

(* The engine as the WWAN monitor uses it.                                  *)
OnlyCallbacksDelete == Monitor /\ ~MainDeletes

-----------------------------------------------------------------------------
(* With the monitor's reference the last stop never comes.                  *)
LEMMA NeverStops ==
  ASSUME IInv, OnlyCallbacksDelete
  PROVE  /\ mainPc \notin {"flush", "join"}
         /\ running = 0 => tpc \in {"none", "dead"}
  BY DEF IInv, StopShape, TypeOK, OnlyCallbacksDelete

LEMMA DeletesInCallback ==
  ASSUME OnlyCallbacksDelete, NEW a \in Actors, DeleteIoTtimer(a)
  PROVE  tpc = "callback"
  BY DEF DeleteIoTtimer, CanCall, Actors, OnlyCallbacksDelete

LEMMA RInvInit == Init => RInv
  BY DEF Init, RInv

LEMMA RInvNext ==
  ASSUME IInv, RInv, OnlyCallbacksDelete, [Next]_vars
  PROVE  RInv'
  <1>. USE DEF RInv, threadVars
  <1>1. ASSUME NEW a \in Actors, StartIoTtimers(a) PROVE RInv'
    <2>1. tpc' = tpc \/ (tpc' = "top" /\ running = 0)
      BY <1>1 DEF StartIoTtimers
    <2>2. UNCHANGED <<tfd, rd, cur, orphan>> /\ Open' = Open
      BY <1>1 DEF StartIoTtimers, Open
    <2>. QED
      BY <2>1, <2>2
  <1>2. ASSUME NEW a \in Actors, CreateIoTtimer(a) PROVE RInv'
    <2>1. UNCHANGED <<tpc, rd, cur, orphan>>
      BY <1>2 DEF CreateIoTtimer
    <2>2. Open \subseteq Open'
      BY <1>2 DEF CreateIoTtimer, Open, IInv, TypeOK
    <2>. QED
      BY <2>1, <2>2
  <1>3. ASSUME NEW a \in Actors, DeleteIoTtimer(a) PROVE RInv'
    <2>1. tpc = "callback"
      BY <1>3, DeletesInCallback
    <2>2. UNCHANGED <<tpc, rd, cur>>
      BY <1>3 DEF DeleteIoTtimer
    <2>3. orphan' = orphan
      BY <1>3, <2>1 DEF DeleteIoTtimer, DeleteNode
    <2>. QED
      BY <2>1, <2>2, <2>3
  <1>4. ASSUME NEW a \in Actors, StopIoTtimers(a) PROVE RInv'
    BY <1>4 DEF StopIoTtimers, Open
  <1>5. ASSUME StopSteps PROVE RInv'
    BY <1>5, NeverStops DEF StopSteps, FlushList, CancelThread, JoinThread, JoinNoThread
  <1>6. ASSUME TestCancel \/ WalkList \/ Poll \/ EndOfScan \/ CallbackReturns PROVE RInv'
    BY <1>6 DEF TestCancel, WalkList, Poll, EndOfScan, CallbackReturns, Open
  <1>7. ASSUME ReadTimerfd PROVE RInv'
    <2>1. PICK k \in pollin :
            LET f == ufds[k] IN
              \/ /\ tfd[f] = "expired"
                 /\ tfd' = [tfd EXCEPT ![f] = "armed"]
                 /\ rd' = f
                 /\ tpc' = "lookup"
              \/ /\ tfd[f] = "closed"
                 /\ UNCHANGED <<tfd, rd, tpc>>
              \/ /\ tfd[f] \in {"armed", "disarmed"}
                 /\ rd' = f
                 /\ tpc' = "blocked"
                 /\ UNCHANGED tfd
      BY <1>7 DEF ReadTimerfd
    <2>2. ufds[k] \in Fds /\ tfd \in [Fds -> {"closed", "disarmed", "armed", "expired"}]
      BY DEF IInv, TypeOK
    <2>3. orphan' = orphan /\ cur' = cur /\ tpc = "scan"
      BY <1>7 DEF ReadTimerfd
    <2>. QED
      BY <2>1, <2>2, <2>3 DEF Open
  <1>8. ASSUME ReadCompletes PROVE RInv'
    <2>1. /\ tpc = "blocked" /\ tfd[rd] = "expired" /\ tfd' = [tfd EXCEPT ![rd] = "armed"]
          /\ orphan' = "no" /\ tpc' = "lookup" /\ rd' = rd
      BY <1>8 DEF ReadCompletes
    <2>2. tfd \in [Fds -> {"closed", "disarmed", "armed", "expired"}]
      BY DEF IInv, TypeOK
    <2>. QED
      BY <2>1, <2>2 DEF Open
  <1>9. ASSUME GetTimerFromFd PROVE RInv'
    BY <1>9 DEF GetTimerFromFd
  <1>10. ASSUME InvokeCallback PROVE RInv'
    <2>1. cur \in Nodes
      BY <1>10 DEF InvokeCallback, IInv, CallbackNodeLive, OnlyCallbacksDelete, TypeOK, Live
    <2>. QED
      BY <1>10, <2>1 DEF InvokeCallback
  <1>11. ASSUME NEW f \in Fds, Expire(f) PROVE RInv'
    <2>1. Open' = Open /\ UNCHANGED <<tpc, rd, cur, orphan>>
      BY <1>11 DEF Expire, Open, IInv, TypeOK
    <2>. QED
      BY <2>1
  <1>12. ASSUME UNCHANGED vars PROVE RInv'
    BY <1>12 DEF vars, Open
  <1>. QED
    BY <1>1, <1>2, <1>3, <1>4, <1>5, <1>6, <1>7, <1>8, <1>9, <1>10, <1>11, <1>12
       DEF Next, Call, ThreadSteps

-----------------------------------------------------------------------------
LEMMA CreditIs ==
  ASSUME NEW n \in Nodes
  PROVE  /\ Credit[n] = IF n \in Live THEN Due(n) + Flying(n) ELSE 0
         /\ Credit[n]' = IF n \in Live' THEN Due(n)' + Flying(n)' ELSE 0
         /\ Due(n) \in {0, 1} /\ Flying(n) \in {0, 1}
         /\ Due(n)' \in {0, 1} /\ Flying(n)' \in {0, 1}
  BY DEF Credit, Due, Flying

(* Nobody's credit changes when no timer comes or goes and what is due and  *)
(* what is on its way add up to the same.                                    *)
LEMMA CreditKept ==
  ASSUME Live' = Live, \A n \in Live : Due(n)' + Flying(n)' = Due(n) + Flying(n)
  PROVE  Credit' = Credit
  <1>1. \A n \in Nodes : Credit[n]' = Credit[n]
    BY CreditIs
  <1>. QED
    BY <1>1 DEF Credit

LEMMA InitRefines == Init => Service!Init
  BY DEF Init, Service!Init, Live, Credit, Firing

(* A step that touches neither list, descriptors nor expirations, and takes *)
(* nobody's expiration on its way or off it.                                 *)
LEMMA Stutters ==
  ASSUME UNCHANGED <<list, fdOf, tfd>>, tpc \notin {"lookup", "invoke"},
         tpc' \notin {"lookup", "invoke"}, Firing' = Firing
  PROVE  UNCHANGED Service!vars
  <1>1. Live' = Live
    BY DEF Live
  <1>2. \A n \in Live : Due(n)' = Due(n) /\ Flying(n)' = 0 /\ Flying(n) = 0
    BY DEF Due, Flying, InFlight
  <1>3. Credit' = Credit
    BY <1>1, <1>2, CreditKept DEF Due
  <1>. QED
    BY <1>1, <1>3 DEF Service!vars

(* The timer whose descriptor f is: there is one.                           *)
LEMMA Owner ==
  ASSUME IInv, NEW f \in Open
  PROVE  \E n \in Live : fdOf[n] = f /\ n \in Nodes /\ \A m \in Live \ {n} : fdOf[m] # f
  BY DEF IInv, OneFdPerNode, TypeOK, Live

LEMMA StartRefines ==
  ASSUME IInv, RInv, OnlyCallbacksDelete, NEW a \in Actors, StartIoTtimers(a)
  PROVE  UNCHANGED Service!vars
  <1>1. UNCHANGED <<list, fdOf, tfd, rd, cur>>
    BY DEF StartIoTtimers, threadVars
  <1>2. tpc' = tpc \/ (tpc' = "top" /\ tpc \in {"none", "dead"})
    BY NeverStops DEF StartIoTtimers
  <1>3. Live' = Live /\ Firing' = Firing
    BY <1>1, <1>2 DEF Live, Firing
  <1>4. \A n \in Live : Due(n)' = Due(n) /\ Flying(n)' = Flying(n)
    BY <1>1, <1>2 DEF Due, Flying, InFlight
  <1>5. Credit' = Credit
    BY <1>3, <1>4, CreditKept
  <1>. QED
    BY <1>3, <1>5 DEF Service!vars

LEMMA CreateRefines ==
  ASSUME IInv, RInv, OnlyCallbacksDelete, NEW a \in Actors, CreateIoTtimer(a)
  PROVE  \E n \in Nodes : Service!Create(n)
  <1>1. PICK n \in Nodes \ Live, f \in Fds \ Open, i \in Intervals :
          /\ list' = <<n>> \o list
          /\ fdOf' = [fdOf EXCEPT ![n] = f]
          /\ tfd' = [tfd EXCEPT ![f] = IF i = 0 THEN "disarmed" ELSE "armed"]
    BY DEF CreateIoTtimer
  <1>2. UNCHANGED <<tpc, rd, cur>> /\ Firing' = Firing
    BY DEF CreateIoTtimer, threadVars, Firing
  <1>3. list \in Seq(Nodes) /\ Elems(list) = Live /\ Injective(list)
    BY DEF IInv, TypeOK, OneFdPerNode, Elems, Injective, Live
  <1>4. Live' = Live \cup {n}
    <2>1. Elems(list') = Elems(list) \cup {n}
      BY <1>1, <1>3, PushFront
    <2>. QED
      BY <1>3, <2>1 DEF Elems, Live
  <1>5. /\ fdOf'[n] = f /\ tfd'[f] \in {"disarmed", "armed"}
        /\ \A m \in Live : fdOf'[m] = fdOf[m] /\ tfd'[fdOf[m]] = tfd[fdOf[m]]
    BY <1>1 DEF IInv, TypeOK, OneFdPerNode, Open, Live
  <1>6. Due(n)' = 0 /\ Flying(n)' = 0
    <2>1. ~(tpc = "lookup" /\ rd = f) /\ ~(tpc = "invoke" /\ cur = n)
      BY <1>1 DEF RInv, IInv, CallbackNodeLive, OnlyCallbacksDelete
    <2>. QED
      BY <1>2, <1>5, <2>1 DEF Due, Flying, InFlight
  <1>7. \A m \in Live : Due(m)' = Due(m) /\ Flying(m)' = Flying(m)
    BY <1>2, <1>5 DEF Due, Flying, InFlight
  <1>8. Credit' = Credit
    <2>1. \A m \in Nodes : Credit[m]' = Credit[m]
      <3>. TAKE m \in Nodes
      <3>1. CASE m = n
        BY <1>1, <1>4, <1>6, <3>1, CreditIs
      <3>2. CASE m # n
        BY <1>4, <1>7, <3>2, CreditIs
      <3>. QED
        BY <3>1, <3>2
    <2>. QED
      BY <2>1 DEF Credit
  <1>. QED
    BY <1>1, <1>2, <1>4, <1>8 DEF Service!Create

LEMMA DeleteRefines ==
  ASSUME IInv, RInv, OnlyCallbacksDelete, NEW a \in Actors, DeleteIoTtimer(a)
  PROVE  \E n \in Nodes : Service!Delete(n)
  <1>1. PICK k \in DOMAIN list : DeleteNode(k)
    BY DEF DeleteIoTtimer
  <1>2. tpc = "callback" /\ UNCHANGED <<tpc, rd, cur>> /\ Firing' = Firing
    BY DeletesInCallback DEF DeleteIoTtimer, threadVars, Firing
  <1>3. PICK n \in Live : n = list[k] /\ n \in Nodes /\ Live' = Live \ {n}
    <2>1. list \in Seq(Nodes) /\ list[k] \in Live /\ list[k] \in Nodes
      BY DEF IInv, TypeOK, Live
    <2>2. Live' = Live \ {list[k]}
      BY <1>1, DeleteKeepsOwners DEF IInv
    <2>. QED
      BY <2>1, <2>2
  <1>4. \A m \in Live \ {n} : fdOf'[m] = fdOf[m] /\ tfd'[fdOf[m]] = tfd[fdOf[m]]
    BY <1>1, <1>3 DEF DeleteNode, IInv, TypeOK, OneFdPerNode, Live
  <1>5. \A m \in Live : Flying(m)' = 0 /\ Flying(m) = 0
    BY <1>2 DEF Flying, InFlight
  <1>6. \A m \in Live \ {n} : Due(m)' = Due(m)
    BY <1>4 DEF Due
  <1>7. Credit' = [Credit EXCEPT ![n] = 0]
    <2>1. Credit[n]' = 0
      BY <1>3, CreditIs
    <2>2. \A m \in Nodes : m # n => Credit[m]' = Credit[m]
      BY <1>3, <1>5, <1>6, CreditIs
    <2>3. Credit = [m \in Nodes |-> Credit[m]] /\ Credit' = [m \in Nodes |-> Credit[m]']
      BY DEF Credit
    <2>. QED
      BY <1>3, <2>1, <2>2, <2>3
  <1>. QED
    BY <1>2, <1>3, <1>7 DEF Service!Delete

(* A read takes the expiration out of the kernel, and the thread has it.    *)
LEMMA ReadRefines ==
  ASSUME IInv, RInv, OnlyCallbacksDelete, NEW f \in Fds,
         tfd[f] = "expired", tfd' = [tfd EXCEPT ![f] = "armed"], rd' = f,
         tpc \in {"scan", "blocked"}, tpc' = "lookup", UNCHANGED <<list, fdOf, cur>>
  PROVE  UNCHANGED Service!vars
  <1>1. f \in Open /\ tfd \in [Fds -> {"closed", "disarmed", "armed", "expired"}]
    BY DEF Open, IInv, TypeOK
  <1>2. PICK n \in Live : fdOf[n] = f /\ n \in Nodes /\ \A m \in Live \ {n} : fdOf[m] # f
    BY <1>1, Owner
  <1>3. Live' = Live /\ Firing' = Firing
    BY DEF Live, Firing
  <1>4. \A m \in Live : fdOf[m] \in Fds
    BY DEF IInv, OneFdPerNode, Open
  <1>5. /\ Due(n) = 1 /\ Flying(n) = 0 /\ Due(n)' = 0 /\ Flying(n)' = 1
        /\ \A m \in Live \ {n} : Due(m)' = Due(m) /\ Flying(m)' = 0 /\ Flying(m) = 0
    BY <1>1, <1>2, <1>4 DEF Due, Flying, InFlight
  <1>6. \A m \in Live : Due(m)' + Flying(m)' = Due(m) + Flying(m)
    BY <1>5
  <1>7. Credit' = Credit
    BY <1>3, <1>6, CreditKept
  <1>. QED
    BY <1>3, <1>7 DEF Service!vars

LEMMA LookupRefines ==
  ASSUME IInv, RInv, OnlyCallbacksDelete, GetTimerFromFd
  PROVE  UNCHANGED Service!vars
  <1>1. /\ tpc = "lookup" /\ tpc' \in {"invoke", "scan"} /\ UNCHANGED <<list, fdOf, tfd>>
        /\ \/ \E n \in Live : fdOf[n] = rd /\ cur' = n /\ tpc' = "invoke"
           \/ (\A n \in Live : fdOf[n] # rd) /\ tpc' = "scan"
    BY DEF GetTimerFromFd
  <1>2. Live' = Live /\ Firing' = Firing
    BY <1>1 DEF Live, Firing
  <1>3. \A n \in Live : Due(n)' = Due(n) /\ Flying(n)' = Flying(n)
    BY <1>1 DEF Due, Flying, InFlight, IInv, OneFdPerNode
  <1>4. Credit' = Credit
    BY <1>2, <1>3, CreditKept
  <1>. QED
    BY <1>2, <1>4 DEF Service!vars

LEMMA InvokeRefines ==
  ASSUME IInv, RInv, OnlyCallbacksDelete, InvokeCallback
  PROVE  \E n \in Nodes : Service!Fire(n)
  <1>1. /\ tpc = "invoke" /\ tpc' = "callback" /\ cur \in Live /\ cur \in Nodes
        /\ UNCHANGED <<list, fdOf, tfd, cur>>
    BY DEF InvokeCallback, threadVars, IInv, CallbackNodeLive, OnlyCallbacksDelete, TypeOK, Live
  <1>2. Live' = Live /\ Firing = None /\ Firing' = cur
    BY <1>1 DEF Live, Firing
  <1>3. /\ Flying(cur) = 1 /\ Flying(cur)' = 0
        /\ \A n \in Live \ {cur} : Flying(n)' = 0 /\ Flying(n) = 0
        /\ \A n \in Live : Due(n)' = Due(n)
    BY <1>1 DEF Due, Flying, InFlight
  <1>4. Credit[cur] > 0 /\ Credit[cur]' = Credit[cur] - 1
    BY <1>1, <1>2, <1>3, CreditIs
  <1>5. \A m \in Nodes : m # cur => Credit[m]' = Credit[m]
    BY <1>2, <1>3, CreditIs
  <1>6. Credit' = [Credit EXCEPT ![cur] = @ - 1]
    <2>1. Credit = [m \in Nodes |-> Credit[m]] /\ Credit' = [m \in Nodes |-> Credit[m]']
      BY DEF Credit
    <2>. QED
      BY <1>1, <1>4, <1>5, <2>1
  <1>. QED
    BY <1>1, <1>2, <1>4, <1>6 DEF Service!Fire

LEMMA ExpireRefines ==
  ASSUME IInv, RInv, NEW f \in Fds, Expire(f)
  PROVE  \E n \in Nodes : Service!Expire(n)
  <1>1. /\ tfd[f] = "armed" /\ tfd' = [tfd EXCEPT ![f] = "expired"] /\ f \in Open
        /\ UNCHANGED <<list, fdOf, tpc, rd, cur>>
    BY DEF Expire, threadVars, Open
  <1>2. PICK n \in Live : fdOf[n] = f /\ n \in Nodes /\ \A m \in Live \ {n} : fdOf[m] # f
    BY <1>1, Owner
  <1>3. Live' = Live /\ Firing' = Firing
    BY <1>1 DEF Live, Firing
  <1>4. /\ \A m \in Live : fdOf[m] \in Fds
        /\ tfd \in [Fds -> {"closed", "disarmed", "armed", "expired"}]
    BY DEF IInv, TypeOK, OneFdPerNode, Open
  <1>5. /\ Due(n) = 0 /\ Due(n)' = 1 /\ Flying(n)' = Flying(n)
        /\ \A m \in Live \ {n} : Due(m)' = Due(m) /\ Flying(m)' = Flying(m)
    BY <1>1, <1>2, <1>4 DEF Due, Flying, InFlight
  <1>6. Credit[n] < 2 /\ Credit[n]' = Credit[n] + 1
    BY <1>2, <1>3, <1>5, CreditIs
  <1>7. \A m \in Nodes : m # n => Credit[m]' = Credit[m]
    BY <1>3, <1>5, CreditIs
  <1>8. Credit' = [Credit EXCEPT ![n] = @ + 1]
    <2>1. Credit = [m \in Nodes |-> Credit[m]] /\ Credit' = [m \in Nodes |-> Credit[m]']
      BY DEF Credit
    <2>. QED
      BY <1>2, <1>6, <1>7, <2>1
  <1>. QED
    BY <1>2, <1>3, <1>6, <1>8 DEF Service!Expire

LEMMA NextRefines ==
  ASSUME IInv, RInv, OnlyCallbacksDelete, [Next]_vars
  PROVE  [Service!Next]_(Service!vars)
  <1>1. ASSUME NEW a \in Actors, Call(a) PROVE [Service!Next]_(Service!vars)
    <2>1. CASE StartIoTtimers(a)
      BY <2>1, StartRefines
    <2>2. CASE CreateIoTtimer(a)
      BY <2>2, CreateRefines DEF Service!Next
    <2>3. CASE DeleteIoTtimer(a)
      BY <2>3, DeleteRefines DEF Service!Next
    <2>4. CASE StopIoTtimers(a)
      <3>1. UNCHANGED <<list, fdOf, tfd, tpc, rd, cur>>
        BY <2>4 DEF StopIoTtimers, threadVars
      <3>2. Live' = Live /\ Credit' = Credit /\ Firing' = Firing
        BY <3>1 DEF Live, Credit, InFlight, Firing
      <3>. QED
        BY <3>2 DEF Service!vars
    <2>. QED
      BY <1>1, <2>1, <2>2, <2>3, <2>4 DEF Call
  <1>2. ASSUME StopSteps PROVE FALSE
    BY <1>2, NeverStops DEF StopSteps, FlushList, CancelThread, JoinThread, JoinNoThread
  <1>3. ASSUME ThreadSteps PROVE [Service!Next]_(Service!vars)
    <2>1. CASE TestCancel \/ WalkList \/ Poll \/ EndOfScan
      <3>1. /\ UNCHANGED <<list, fdOf, tfd>>
            /\ tpc \notin {"lookup", "invoke", "callback"}
            /\ tpc' \notin {"lookup", "invoke", "callback"}
        BY <2>1 DEF TestCancel, WalkList, Poll, EndOfScan
      <3>2. Firing' = Firing
        BY <3>1 DEF Firing
      <3>. QED
        BY <3>1, <3>2, Stutters
    <2>2. CASE ReadTimerfd
      <3>1. PICK k \in pollin :
              LET f == ufds[k] IN
                \/ /\ tfd[f] = "expired"
                   /\ tfd' = [tfd EXCEPT ![f] = "armed"]
                   /\ rd' = f
                   /\ tpc' = "lookup"
                \/ /\ tfd[f] = "closed"
                   /\ UNCHANGED <<tfd, rd, tpc>>
                \/ /\ tfd[f] \in {"armed", "disarmed"}
                   /\ rd' = f
                   /\ tpc' = "blocked"
                   /\ UNCHANGED tfd
        BY <2>2 DEF ReadTimerfd
      <3>2. tpc = "scan" /\ UNCHANGED <<list, fdOf, cur>>
        BY <2>2 DEF ReadTimerfd
      <3>3. ufds[k] \in Fds
        BY DEF IInv, TypeOK
      <3>4. CASE /\ tfd[ufds[k]] = "expired" /\ tfd' = [tfd EXCEPT ![ufds[k]] = "armed"]
                 /\ rd' = ufds[k] /\ tpc' = "lookup"
        BY <3>2, <3>3, <3>4, ReadRefines
      <3>5. CASE UNCHANGED tfd /\ tpc' \in {"scan", "blocked"}
        <4>1. Firing' = Firing
          BY <3>2, <3>5 DEF Firing
        <4>. QED
          BY <3>2, <3>5, <4>1, Stutters
      <3>. QED
        BY <3>1, <3>2, <3>4, <3>5
    <2>3. CASE ReadCompletes
      <3>1. /\ tpc = "blocked" /\ tfd[rd] = "expired" /\ tfd' = [tfd EXCEPT ![rd] = "armed"]
            /\ tpc' = "lookup" /\ rd' = rd /\ rd \in Fds /\ UNCHANGED <<list, fdOf, cur>>
        BY <2>3 DEF ReadCompletes, RInv, threadVars
      <3>2. \A f \in Fds : f = rd => UNCHANGED Service!vars
        <4>. SUFFICES ASSUME NEW f \in Fds, f = rd PROVE UNCHANGED Service!vars
          OBVIOUS
        <4>1. tfd[f] = "expired" /\ tfd' = [tfd EXCEPT ![f] = "armed"] /\ rd' = f
          BY <3>1
        <4>. QED
          BY <3>1, <4>1, ReadRefines
      <3>. QED
        BY <3>1, <3>2
    <2>4. CASE GetTimerFromFd
      BY <2>4, LookupRefines
    <2>5. CASE InvokeCallback
      BY <2>5, InvokeRefines DEF Service!Next
    <2>6. CASE CallbackReturns
      <3>1. /\ tpc = "callback" /\ tpc' = "scan" /\ cur # None
            /\ UNCHANGED <<list, fdOf, tfd>>
        BY <2>6, NoneAssumption DEF CallbackReturns, RInv
      <3>2. Live' = Live /\ Firing = cur /\ Firing' = None
        BY <3>1 DEF Live, Firing
      <3>3. \A n \in Live : Due(n)' = Due(n) /\ Flying(n)' = 0 /\ Flying(n) = 0
        BY <3>1 DEF Due, Flying, InFlight
      <3>4. Credit' = Credit
        BY <3>2, <3>3, CreditKept DEF Due
      <3>. QED
        BY <3>1, <3>2, <3>4 DEF Service!Next, Service!Return
    <2>. QED
      BY <1>3, <2>1, <2>2, <2>3, <2>4, <2>5, <2>6 DEF ThreadSteps
  <1>4. ASSUME NEW f \in Fds, Expire(f) PROVE [Service!Next]_(Service!vars)
    BY <1>4, ExpireRefines DEF Service!Next
  <1>5. ASSUME UNCHANGED vars PROVE [Service!Next]_(Service!vars)
    <2>1. UNCHANGED <<list, fdOf, tfd, tpc, rd, cur>>
      BY <1>5 DEF vars, threadVars
    <2>2. Live' = Live /\ Credit' = Credit /\ Firing' = Firing
      BY <2>1 DEF Live, Credit, InFlight, Firing
    <2>. QED
      BY <2>2 DEF Service!vars
  <1>. QED
    BY <1>1, <1>2, <1>3, <1>4, <1>5 DEF Next

(* When only callbacks delete timers and the monitor holds a reference, the *)
(* engine is a TimerService: _timer_thread runs no callback but for an       *)
(* expiration of that very timer, one at a time, whatever numbers the kernel *)
(* gives to descriptors and malloc to nodes.                                 *)
THEOREM EngineIsService ==
  ASSUME OnlyCallbacksDelete
  PROVE  Spec => ImplementsService
  <1>1. Init => RInv
    BY RInvInit
  <1>2. IInv /\ RInv /\ [Next]_vars => RInv'
    BY RInvNext
  <1>3. Init => Service!Init
    BY InitRefines
  <1>4. IInv /\ RInv /\ [Next]_vars => [Service!Next]_(Service!vars)
    BY NextRefines
  <1>. QED
    BY <1>1, <1>2, <1>3, <1>4, Inductive, PTL DEF Spec, ImplementsService, Service!Spec

-----------------------------------------------------------------------------
(***************************************************************************)
(* The pointers of create_IoTtimer and delete_IoTtimer, for any finite set *)
(* of addresses and any callers: until a delete overlaps another call they *)
(* implement the abstract list, and no freed node is linked.               *)
(***************************************************************************)
(* Every non-empty set of numbers has a least one.                          *)
LEMMA LeastNumber ==
  ASSUME NEW T \in SUBSET Nat, T # {}
  PROVE  \E m \in T : \A k \in T : m <= k
  <1>1. PICK m \in T : \A k \in T : ~ (<<k, m>> \in OpToRel(<, Nat))
    BY NatLessThanWellFounded, WFMin
  <1>2. \A k \in T : ~ (k < m)
    BY <1>1 DEF OpToRel
  <1>. QED
    BY <1>2

(* The nodes that are linked from a head on are one sequence only.          *)
LEMMA OneChain ==
  ASSUME NEW h, NEW nx, NEW s \in Seq(Addresses), NEW t \in Seq(Addresses),
         IsChain(h, nx, s), IsChain(h, nx, t), Len(s) <= Len(t)
  PROVE  s = t
  <1>. DEFINE D == {k \in 1 .. Len(s) : s[k] # t[k]}
  <1>1. D = {}
    <2>1. SUFFICES ASSUME D # {} PROVE FALSE
      OBVIOUS
    <2>2. PICK m \in D : \A k \in D : m <= k
      <3>1. D \in SUBSET Nat
        OBVIOUS
      <3>. HIDE DEF D
      <3>. QED
        BY <2>1, <3>1, LeastNumber
    <2>3. m # 1
      BY DEF IsChain
    <2>4. m - 1 \in 1 .. Len(s) /\ m - 1 \notin D
      BY <2>2, <2>3
    <2>5. s[m - 1] = t[m - 1]
      BY <2>4
    <2>6. nx[s[m - 1]] = s[m] /\ nx[t[m - 1]] = t[m]
      BY <2>4 DEF IsChain
    <2>. QED
      BY <2>5, <2>6
  <1>2. Len(s) = Len(t)
    <2>1. SUFFICES ASSUME Len(s) < Len(t) PROVE FALSE
      OBVIOUS
    <2>2. CASE Len(s) = 0
      BY <2>1, <2>2, NodesAssumption DEF IsChain
    <2>3. CASE Len(s) > 0
      <3>1. nx[s[Len(s)]] = Nil /\ nx[t[Len(s)]] = t[Len(s) + 1]
        BY <2>1, <2>3 DEF IsChain
      <3>2. t[Len(s) + 1] \in Addresses /\ s[Len(s)] = t[Len(s)]
        BY <2>1, <2>3, <1>1
      <3>. QED
        BY <3>1, <3>2, NodesAssumption
    <2>. QED
      BY <2>2, <2>3
  <1>. QED
    BY <1>1, <1>2

LEMMA ListsAreSequences == Lists \subseteq Seq(Addresses)
  BY DEF Lists

(* A sequence of different nodes is no longer than there are nodes.         *)
LEMMA DifferentNodes ==
  ASSUME NEW s \in Seq(Addresses), Injective(s)
  PROVE  s \in Lists
  <1>1. s \in Injection(1 .. Len(s), Addresses)
    BY DEF Injective, Injection, IsInjective
  <1>2. Cardinality(1 .. Len(s)) <= Cardinality(Addresses)
    BY <1>1, FS_Injection, NodesAssumption
  <1>3. Cardinality(1 .. Len(s)) = Len(s)
    <2>1. Len(s) \in Nat
      OBVIOUS
    <2>. QED
      BY <2>1, FS_Interval, SMTT(30)
  <1>4. Cardinality(Addresses) \in Nat
    BY FS_CardinalityType, NodesAssumption
  <1>. QED
    BY <1>2, <1>3, <1>4 DEF Lists

(* A chain of different nodes is what Chain denotes.                        *)
LEMMA ChainIs ==
  ASSUME NEW h, NEW nx, NEW s \in Seq(Addresses), Injective(s), IsChain(h, nx, s)
  PROVE  ChainOf(h, nx) = s
  <1>1. s \in Lists
    BY DifferentNodes
  <1>2. ASSUME NEW t \in Lists, IsChain(h, nx, t)
        PROVE  t = s
    BY <1>1, <1>2, OneChain, ListsAreSequences
  <1>. QED
    BY <1>1, <1>2 DEF ChainOf

-----------------------------------------------------------------------------
(* How the three assignments that link and unlink a node change the list.   *)
Without(s, k) == [j \in 1 .. Len(s) - 1 |-> IF j < k THEN s[j] ELSE s[j + 1]]

IsList(s) == s \in Seq(Addresses) /\ Injective(s)

LEMMA WithoutType ==
  ASSUME NEW s, IsList(s), NEW k \in 1 .. Len(s)
  PROVE  /\ IsList(Without(s, k))
         /\ Len(Without(s, k)) = Len(s) - 1
         /\ Elems(Without(s, k)) = Elems(s) \ {s[k]}
  <1>. DEFINE t == Without(s, k)
  <1>1. s \in Seq(Addresses) /\ Len(s) \in Nat \ {0}
    BY DEF IsList
  <1>2. t \in Seq(Addresses) /\ Len(t) = Len(s) - 1
    BY <1>1 DEF Without
  <1>3. \A j \in 1 .. Len(t) : t[j] = IF j < k THEN s[j] ELSE s[j + 1]
    BY <1>1 DEF Without
  <1>. HIDE DEF t
  <1>4. Injective(t)
    BY <1>1, <1>2, <1>3 DEF IsList, Injective
  <1>5. Elems(t) \subseteq Elems(s) \ {s[k]}
    BY <1>1, <1>2, <1>3 DEF Elems, IsList, Injective
  <1>6. ASSUME NEW j \in 1 .. Len(s), j # k
        PROVE  s[j] \in Elems(t)
    <2>1. CASE j < k
      BY <1>1, <1>2, <1>3, <2>1 DEF Elems
    <2>2. CASE j > k
      <3>1. j - 1 \in 1 .. Len(t) /\ t[j - 1] = s[j]
        BY <1>1, <1>2, <1>3, <2>2
      <3>. QED
        BY <3>1 DEF Elems
    <2>. QED
      BY <1>6, <2>1, <2>2
  <1>7. Elems(s) \ {s[k]} \subseteq Elems(t)
    BY <1>6 DEF Elems
  <1>. QED
    BY <1>2, <1>4, <1>5, <1>7 DEF t, IsList

(* new_node->next = g_head and g_head = new_node.                           *)
LEMMA Prepended ==
  ASSUME NEW nx, NEW h, NEW s, IsList(s), IsChain(h, nx, s),
         NEW n \in Addresses, n \notin Elems(s), nx[n] = h
  PROVE  /\ IsList(<<n>> \o s) /\ IsChain(n, nx, <<n>> \o s)
         /\ Elems(<<n>> \o s) = Elems(s) \cup {n}
  <1>. DEFINE t == <<n>> \o s
  <1>1. s \in Seq(Addresses)
    BY DEF IsList
  <1>2. t \in Seq(Addresses) /\ Len(t) = Len(s) + 1 /\ t[1] = n /\ t # <<>>
    BY <1>1
  <1>3. \A j \in 2 .. Len(t) : t[j] = s[j - 1]
    BY <1>1
  <1>4. \A j \in 1 .. Len(s) : t[j + 1] = s[j]
    BY <1>1
  <1>. HIDE DEF t
  <1>5. Injective(t)
    <2>1. \A j \in 2 .. Len(t) : t[j] # t[1]
      BY <1>1, <1>2, <1>3 DEF Elems
    <2>2. \A j, k \in 2 .. Len(t) : t[j] = t[k] => j = k
      BY <1>1, <1>2, <1>3 DEF Injective, IsList
    <2>. QED
      BY <1>2, <2>1, <2>2 DEF Injective
  <1>6. Elems(t) = Elems(s) \cup {n}
    <2>1. Elems(t) \subseteq Elems(s) \cup {n}
      BY <1>1, <1>2, <1>3 DEF Elems
    <2>2. n \in Elems(t)
      BY <1>1, <1>2 DEF Elems
    <2>3. Elems(s) \subseteq Elems(t)
      BY <1>1, <1>2, <1>4 DEF Elems
    <2>. QED
      BY <2>1, <2>2, <2>3
  <1>7. IsChain(n, nx, t)
    <2>1. \A k \in 1 .. Len(t) : nx[t[k]] = IF k = Len(t) THEN Nil ELSE t[k + 1]
      <3>. TAKE k \in 1 .. Len(t)
      <3>1. CASE k = 1
        BY <1>1, <1>2, <1>4, <3>1 DEF IsChain
      <3>2. CASE k > 1
        <4>1. t[k] = s[k - 1] /\ k - 1 \in 1 .. Len(s)
          BY <1>1, <1>2, <1>3, <3>2
        <4>2. k # Len(t) => t[k + 1] = s[k]
          BY <1>1, <1>2, <1>3, <3>2
        <4>. QED
          BY <1>1, <1>2, <4>1, <4>2 DEF IsChain
      <3>. QED
        BY <3>1, <3>2
    <2>. QED
      BY <1>2, <2>1 DEF IsChain
  <1>. QED
    BY <1>2, <1>5, <1>6, <1>7 DEF t, IsList

(* g_head = g_head->next.                                                   *)
LEMMA Beheaded ==
  ASSUME NEW nx, NEW h, NEW s, IsList(s), IsChain(h, nx, s), s # <<>>
  PROVE  IsChain(nx[h], nx, Without(s, 1))
  <1>1. s \in Seq(Addresses) /\ Len(s) \in Nat \ {0} /\ 1 \in 1 .. Len(s)
    BY DEF IsList
  <1>. DEFINE t == Without(s, 1)
  <1>2. t \in Seq(Addresses) /\ Len(t) = Len(s) - 1
    BY <1>1, WithoutType DEF IsList
  <1>3. \A k \in 1 .. Len(t) : t[k] = s[k + 1]
    BY <1>1 DEF Without
  <1>. HIDE DEF t
  <1>4. h = s[1] /\ nx[h] = IF Len(s) = 1 THEN Nil ELSE s[2]
    <2>1. h = s[1]
      BY <1>1 DEF IsChain
    <2>2. nx[s[1]] = IF 1 = Len(s) THEN Nil ELSE s[1 + 1]
      BY <1>1 DEF IsChain
    <2>. QED
      BY <2>1, <2>2
  <1>5. nx[h] = IF t = <<>> THEN Nil ELSE t[1]
    BY <1>1, <1>2, <1>3, <1>4
  <1>6. \A k \in 1 .. Len(t) : nx[t[k]] = IF k = Len(t) THEN Nil ELSE t[k + 1]
    BY <1>1, <1>2, <1>3 DEF IsChain
  <1>. QED
    BY <1>5, <1>6 DEF t, IsChain

(* tmp->next = tmp->next->next.                                             *)
LEMMA Bypassed ==
  ASSUME NEW nx \in [Addresses -> Addresses \cup {Nil}], NEW h, NEW s, IsList(s), IsChain(h, nx, s),
         NEW k \in 1 .. Len(s), k # Len(s)
  PROVE  IsChain(h, [nx EXCEPT ![s[k]] = nx[s[k + 1]]], Without(s, k + 1))
  <1>1. s \in Seq(Addresses) /\ Len(s) \in Nat \ {0} /\ k + 1 \in 1 .. Len(s)
    BY DEF IsList
  <1>. DEFINE t == Without(s, k + 1)
              ny == [nx EXCEPT ![s[k]] = nx[s[k + 1]]]
  <1>2. t \in Seq(Addresses) /\ Len(t) = Len(s) - 1
    BY <1>1, WithoutType DEF IsList
  <1>3. \A j \in 1 .. Len(t) : t[j] = IF j < k + 1 THEN s[j] ELSE s[j + 1]
    BY <1>1 DEF Without
  <1>4. ny[s[k]] = nx[s[k + 1]] /\ \A j \in 1 .. Len(s) : j # k => ny[s[j]] = nx[s[j]]
    BY <1>1 DEF IsList, Injective
  <1>. HIDE DEF t, ny
  <1>5. h = IF t = <<>> THEN Nil ELSE t[1]
    BY <1>1, <1>2, <1>3 DEF IsChain
  <1>6. \A j \in 1 .. Len(t) : ny[t[j]] = IF j = Len(t) THEN Nil ELSE t[j + 1]
    <2>. TAKE j \in 1 .. Len(t)
    <2>1. CASE j < k
      <3>1. t[j] = s[j] /\ t[j + 1] = s[j + 1] /\ j # Len(t)
        BY <1>1, <1>2, <1>3, <2>1, SMTT(30)
      <3>. QED
        BY <1>1, <1>2, <1>4, <2>1, <3>1 DEF IsChain
    <2>2. CASE j = k
      <3>1. t[j] = s[k] /\ (j # Len(t) => t[j + 1] = s[k + 2])
        BY <1>1, <1>2, <1>3, <2>2
      <3>. QED
        BY <1>1, <1>2, <1>4, <2>2, <3>1 DEF IsChain
    <2>3. CASE j > k
      <3>1. t[j] = s[j + 1] /\ (j # Len(t) => t[j + 1] = s[j + 2])
        <4>1. t[j] = s[j + 1]
          BY <1>3, <2>3
        <4>2. ASSUME j # Len(t) PROVE t[j + 1] = s[j + 2]
          <5>1. j + 1 \in 1 .. Len(t) /\ ~ (j + 1 < k + 1)
            BY <1>1, <1>2, <2>3, <4>2
          <5>2. t[j + 1] = s[(j + 1) + 1]
            BY <1>3, <5>1
          <5>. QED
            BY <1>1, <5>2
        <4>. QED
          BY <4>1, <4>2
      <3>. QED
        BY <1>1, <1>2, <1>4, <2>3, <3>1 DEF IsChain
    <2>. QED
      BY <2>1, <2>2, <2>3
  <1>. QED
    BY <1>5, <1>6 DEF t, ny, IsChain

-----------------------------------------------------------------------------
(* The types, in every behaviour.                                           *)
Deleting == {"moveHead", "start", "search", "link", "free"}
Stages == {"idle", "publish", "dead"} \cup Deleting
Pointers == Addresses \cup {Nil}

ListTypes ==
  /\ broken \in BOOLEAN
  /\ head \in Pointers
  /\ next \in [Addresses -> Pointers]
  /\ heap \subseteq Addresses
  /\ handles \subseteq Addresses
  /\ pc \in [Callers -> Stages]
  /\ node \in [Callers -> Pointers]
  /\ tmp \in [Callers -> Pointers]
  /\ \A a \in Callers : pc[a] \notin {"idle", "dead"} => node[a] \in Addresses

LEMMA TypesInit == ListInit => ListTypes
  BY DEF ListInit, ListTypes, Stages, Pointers

LEMMA TypesStep ==
  ASSUME ListTypes, [ListNext]_listVars
  PROVE  ListTypes'
  <1>. USE DEF ListTypes, Stages, Deleting, Pointers
  <1>1. ASSUME NEW a \in Callers, LinkNew(a) PROVE ListTypes'
    BY <1>1 DEF LinkNew, Goto
  <1>2. ASSUME NEW a \in Callers, Publish(a) PROVE ListTypes'
    BY <1>2 DEF Publish, Goto
  <1>3. ASSUME NEW a \in Callers, TestHead(a) PROVE ListTypes'
    BY <1>3 DEF TestHead, Goto, pointers
  <1>4. ASSUME NEW a \in Callers, MoveHead(a) PROVE ListTypes'
    BY <1>4 DEF MoveHead, Goto, Crash
  <1>5. ASSUME NEW a \in Callers, StartSearch(a) \/ Advance(a) \/ EndSearch(a) PROVE ListTypes'
    BY <1>5 DEF StartSearch, Advance, EndSearch, Goto, pointers
  <1>6. ASSUME NEW a \in Callers, LinkPast(a) PROVE ListTypes'
    BY <1>6, NodesAssumption DEF LinkPast, Goto
  <1>7. ASSUME NEW a \in Callers, Free(a) PROVE ListTypes'
    BY <1>7 DEF Free, Goto, Crash
  <1>8. CASE UNCHANGED listVars
    BY <1>8 DEF listVars, pointers, locals
  <1>. QED
    BY <1>1, <1>2, <1>3, <1>4, <1>5, <1>6, <1>7, <1>8 DEF ListNext

-----------------------------------------------------------------------------
(* Until a delete overlaps another call, a delete is alone; the pointers    *)
(* form a list of nodes whose ids are held; a search has not passed the node*)
(* it looks for, and ends at its predecessor or, when the node is not there  *)
(* (any more), at the end.                                                   *)
Calm ==
  \A a \in Callers :
    /\ pc[a] # "dead"
    /\ pc[a] \in Deleting => \A b \in Callers \ {a} : pc[b] = "idle"

At(a, s) ==
  /\ pc[a] \in Deleting => node[a] \in handles
  /\ pc[a] = "moveHead" => head = node[a]
  /\ pc[a] \in {"start", "search", "link"} => node[a] \notin Elems(s) \/ head # node[a]
  /\ pc[a] = "search" =>
       \/ tmp[a] = Nil /\ node[a] \notin Elems(s)
       \/ \E k \in 1 .. Len(s) : tmp[a] = s[k] /\ \A j \in 1 .. k : s[j] # node[a]
  /\ pc[a] = "link" =>
       \/ tmp[a] = Nil /\ node[a] \notin Elems(s)
       \/ \E k \in 1 .. Len(s) : k # Len(s) /\ tmp[a] = s[k] /\ s[k + 1] = node[a]
  /\ pc[a] = "free" => node[a] \notin Elems(s)

(* s is a list of held nodes that starts at h.                              *)
HangsOn(h, s) == IsList(s) /\ IsChain(h, next, s) /\ Elems(s) \subseteq handles

(* A node about to be published is nobody else's, and a list hangs on it.   *)
Inserts(a) ==
  /\ node[a] \in heap \ handles
  /\ \A b \in Callers \ {a} : pc[b] = "publish" => node[b] # node[a]
  /\ HangsOn(next[node[a]], ChainOf(next[node[a]], next))

Sound ==
  /\ handles \subseteq heap
  /\ Calm
  /\ HangsOn(head, Chain)
  /\ \A a \in Callers : At(a, Chain)
  /\ \A a \in Callers : pc[a] = "publish" => Inserts(a)

ListInv == ListTypes /\ (~broken => Sound)

(* What a step of a delete does to the list.                                *)
Moves(s, t) == t = s \/ \E k \in 1 .. Len(s) : t = Without(s, k)

(* A step of one caller, from or into a delete, while the other ones rest.  *)
Solo(a) ==
  /\ pc[a] # "publish"
  /\ pc'[a] \in Deleting \cup {"idle"}
  /\ \A b \in Callers \ {a} : pc[b] = "idle" /\ pc'[b] = "idle"

(* Only the caller that moves is to be looked at.                           *)
LEMMA SoloSound ==
  ASSUME NEW a \in Callers, NEW t, Solo(a), handles' \subseteq heap', HangsOn(head, t)',
         At(a, t)', Moves(Chain, t)
  PROVE  Sound' /\ Moves(Chain, Chain') /\ Seen' = Seen
  <1>1. Chain' = t
    BY ChainIs DEF HangsOn, IsList, Chain
  <1>2. Calm'
    BY DEF Solo, Calm, Deleting
  <1>3. \A b \in Callers : At(b, t)'
    BY DEF Solo, At, Deleting
  <1>4. \A b \in Callers : pc[b] # "publish" /\ pc'[b] # "publish"
    BY DEF Solo, Deleting
  <1>5. Seen' = Seen
    BY <1>4 DEF Seen, Creating
  <1>. QED
    BY <1>1, <1>2, <1>3, <1>4, <1>5 DEF Sound

(* What a delete under way can count on.                                    *)
LEMMA InDelete ==
  ASSUME ListInv, ~broken, NEW a \in Callers, pc[a] \in Deleting,
         NEW stage \in Deleting \cup {"idle"}, pc' = [pc EXCEPT ![a] = stage]
  PROVE  /\ Solo(a)
         /\ HangsOn(head, Chain) /\ At(a, Chain)
         /\ node[a] \in handles /\ handles \subseteq heap
         /\ heap \subseteq Addresses /\ next \in [Addresses -> Pointers]
         /\ pc'[a] = stage
  BY DEF ListInv, ListTypes, Sound, Calm, At, Solo, Deleting

(* A chain is none the worse for a change of a node that is not in it.      *)
LEMMA ChainApart ==
  ASSUME NEW nx \in [Addresses -> Pointers], NEW h, NEW s, IsList(s), IsChain(h, nx, s),
         NEW n \in Addresses, n \notin Elems(s), NEW p
  PROVE  IsChain(h, [nx EXCEPT ![n] = p], s)
  BY DEF IsChain, IsList, Elems, Pointers

-----------------------------------------------------------------------------
(* The steps of a create.                                                   *)
LEMMA LinkNewStep ==
  ASSUME ListInv, ~broken, NEW a \in Callers, LinkNew(a), ~broken'
  PROVE  Sound' /\ Abstract!Begin(a)
  <1>1. PICK n \in Addresses \ heap :
          /\ heap' = heap \cup {n} /\ node' = [node EXCEPT ![a] = n]
          /\ next' = [next EXCEPT ![n] = head]
    BY DEF LinkNew
  <1>2. /\ pc[a] = "idle" /\ pc' = [pc EXCEPT ![a] = "publish"] /\ UNCHANGED <<head, handles, tmp>>
        /\ \A b \in Callers \ {a} : pc[b] \in {"idle", "publish"}
    BY DEF LinkNew, Goto
  <1>3. /\ node \in [Callers -> Pointers] /\ pc \in [Callers -> Stages]
        /\ next \in [Addresses -> Pointers]
    BY DEF ListInv, ListTypes
  <1>4. handles \subseteq heap /\ HangsOn(head, Chain) /\ Sound
    BY DEF ListInv, Sound
  <1>5. ASSUME NEW h, NEW s, HangsOn(h, s)
        PROVE  HangsOn(h, s)' /\ ChainOf(h, next') = s /\ ChainOf(h, next) = s
    <2>1. n \notin Elems(s)
      BY <1>1, <1>4, <1>5 DEF HangsOn
    <2>2. IsChain(h, next', s)
      BY <1>1, <1>3, <1>5, <2>1, ChainApart DEF HangsOn
    <2>. QED
      BY <1>2, <1>5, <2>2, ChainIs DEF HangsOn, IsList
  <1>6. Chain' = Chain /\ HangsOn(head, Chain)' /\ ChainOf(head, next') = Chain
    BY <1>2, <1>4, <1>5 DEF Chain
  <1>7. node'[a] = n /\ next'[n] = head /\ pc'[a] = "publish" /\ n \in heap' /\ n \notin handles'
    BY <1>1, <1>2, <1>3, <1>4
  <1>8. ASSUME NEW b \in Callers \ {a}
        PROVE  /\ pc'[b] = pc[b] /\ node'[b] = node[b]
               /\ pc[b] = "publish" =>
                    /\ node[b] \in heap \ handles /\ next'[node[b]] = next[node[b]] /\ node[b] # n
                    /\ HangsOn(next[node[b]], ChainOf(next[node[b]], next))'
                    /\ ChainOf(next'[node[b]], next') = ChainOf(next[node[b]], next)
    <2>1. pc'[b] = pc[b] /\ node'[b] = node[b]
      BY <1>1, <1>2, <1>3
    <2>2. ASSUME pc[b] = "publish"
          PROVE  /\ node[b] \in heap \ handles /\ next'[node[b]] = next[node[b]] /\ node[b] # n
                 /\ HangsOn(next[node[b]], ChainOf(next[node[b]], next))
      <3>1. Inserts(b) /\ heap \subseteq Addresses
        BY <1>4, <2>2 DEF Sound, ListInv, ListTypes
      <3>. QED
        BY <1>1, <1>3, <3>1 DEF Inserts
    <2>3. PICK h, s : h = next[node[b]] /\ s = ChainOf(next[node[b]], next)
      OBVIOUS
    <2>4. pc[b] = "publish" => HangsOn(h, s)' /\ ChainOf(h, next') = s /\ next'[node[b]] = h
      BY <1>5, <2>2, <2>3
    <2>. QED
      BY <2>1, <2>2, <2>3, <2>4 DEF HangsOn
  <1>9. \A b \in Callers : pc'[b] = "publish" => Inserts(b)'
    <2>1. Inserts(a)'
      <3>1. next'[node'[a]] = head' /\ ChainOf(next[node[a]], next)' = Chain'
        BY <1>2, <1>6, <1>7
      <3>2. HangsOn(next[node[a]], ChainOf(next[node[a]], next))'
        BY <1>6, <3>1 DEF HangsOn
      <3>3. \A b \in Callers \ {a} : pc'[b] = "publish" => node'[b] # node'[a]
        BY <1>7, <1>8
      <3>. QED
        BY <1>7, <3>2, <3>3 DEF Inserts
    <2>2. ASSUME NEW b \in Callers \ {a}, pc[b] = "publish" PROVE Inserts(b)'
      <3>1. node'[b] \in heap' \ handles'
        BY <1>1, <1>2, <1>8, <2>2
      <3>2. \A c \in Callers \ {b} : pc'[c] = "publish" => node'[c] # node'[b]
        BY <1>4, <1>7, <1>8, <2>2 DEF Sound, Inserts
      <3>3. HangsOn(next[node[b]], ChainOf(next[node[b]], next))'
        BY <1>8, <2>2 DEF HangsOn
      <3>. QED
        BY <3>1, <3>2, <3>3 DEF Inserts
    <2>. QED
      BY <1>8, <2>1, <2>2
  <1>10. Calm' /\ \A b \in Callers : At(b, Chain)'
    BY <1>2, <1>7, <1>8 DEF Calm, At, Deleting
  <1>11. Abstract!Begin(a)
    <2>1. Creating' = Creating \cup {a} /\ a \notin Creating
      BY <1>2, <1>7, <1>8 DEF Creating
    <2>2. ChainOf(next[node[a]], next)' = Chain
      BY <1>6, <1>7
    <2>3. \A b \in Creating : ChainOf(next[node[b]], next)' = ChainOf(next[node[b]], next)
      BY <1>8, <2>1 DEF Creating
    <2>4. Seen' = [b \in Creating \cup {a} |-> IF b = a THEN Chain ELSE Seen[b]]
      BY <2>1, <2>2, <2>3 DEF Seen
    <2>. QED
      BY <1>6, <2>1, <2>4 DEF Abstract!Begin, Seen
  <1>. QED
    BY <1>1, <1>2, <1>4, <1>6, <1>9, <1>10, <1>11 DEF Sound

LEMMA PublishStep ==
  ASSUME ListInv, ~broken, NEW a \in Callers, Publish(a)
  PROVE  Sound' /\ Abstract!Insert(a)
  <1>1. pc[a] = "publish" /\ pc' = [pc EXCEPT ![a] = "idle"] /\ head' = node[a]
        /\ handles' = handles \cup {node[a]} /\ UNCHANGED <<next, heap, node, tmp, broken>>
    BY DEF Publish, Goto
  <1>2. pc \in [Callers -> Stages] /\ node[a] \in Addresses
    BY <1>1 DEF ListInv, ListTypes
  <1>3. Sound /\ Inserts(a)
    BY <1>1 DEF ListInv, Sound
  <1>4. PICK s : s = ChainOf(next[node[a]], next)
    OBVIOUS
  <1>5. HangsOn(next[node[a]], s) /\ node[a] \in heap \ handles
    BY <1>3, <1>4 DEF Inserts
  <1>6. PICK t : t = <<node[a]>> \o s
    OBVIOUS
  <1>7. HangsOn(head, t)'
    <2>1. IsList(<<node[a]>> \o s) /\ IsChain(node[a], next, <<node[a]>> \o s)
          /\ Elems(<<node[a]>> \o s) = Elems(s) \cup {node[a]}
      BY <1>2, <1>5, Prepended DEF HangsOn
    <2>. QED
      BY <1>1, <1>5, <1>6, <2>1 DEF HangsOn
  <1>8. Chain' = t
    BY <1>7, ChainIs DEF HangsOn, IsList, Chain
  <1>9. \A b \in Callers \ {a} : pc'[b] = pc[b] /\ pc[b] \notin Deleting
    BY <1>1, <1>2, <1>3 DEF Sound, Calm
  <1>10. Calm' /\ \A b \in Callers : At(b, t)'
    BY <1>1, <1>2, <1>3, <1>9 DEF Calm, At, Deleting, Sound
  <1>11. ASSUME NEW b \in Callers, pc'[b] = "publish" PROVE Inserts(b)'
    <2>1. b # a /\ pc[b] = "publish" /\ Inserts(b)
      BY <1>1, <1>2, <1>3, <1>9, <1>11 DEF Sound
    <2>2. HangsOn(next[node[b]], ChainOf(next[node[b]], next))'
      BY <1>1, <2>1 DEF Inserts, HangsOn
    <2>. QED
      BY <1>1, <1>2, <1>9, <2>1, <2>2 DEF Inserts
  <1>12. handles' \subseteq heap'
    BY <1>1, <1>3, <1>5 DEF Sound
  <1>13. Sound'
    BY <1>7, <1>8, <1>10, <1>11, <1>12 DEF Sound
  <1>14. Creating' = Creating \ {a} /\ a \in Creating
    BY <1>1, <1>2, <1>9 DEF Creating
  <1>15. Seen' = [b \in Creating \ {a} |-> Seen[b]] /\ Seen[a] = s /\ DOMAIN Seen = Creating
    BY <1>1, <1>4, <1>14 DEF Seen
  <1>. QED
    BY <1>2, <1>6, <1>8, <1>13, <1>14, <1>15 DEF Abstract!Insert

-----------------------------------------------------------------------------
(* The steps of a delete.                                                   *)
LEMMA TestHeadStep ==
  ASSUME ListInv, ~broken, NEW a \in Callers, TestHead(a), ~broken'
  PROVE  Sound' /\ Moves(Chain, Chain') /\ Seen' = Seen
  <1>1. PICK n \in handles :
          /\ node' = [node EXCEPT ![a] = n]
          /\ Goto(a, "idle", IF n = head THEN "moveHead" ELSE "start")
    BY DEF TestHead
  <1>2. UNCHANGED <<head, next, heap, handles, tmp>> /\ \A b \in Callers \ {a} : pc[b] = "idle"
    BY DEF TestHead, pointers
  <1>3. node \in [Callers -> Pointers] /\ pc \in [Callers -> Stages]
    BY DEF ListInv, ListTypes
  <1>4. handles \subseteq heap /\ HangsOn(head, Chain)
    BY DEF ListInv, Sound
  <1>5. PICK s : s = Chain
    OBVIOUS
  <1>6. node'[a] = n /\ pc'[a] = (IF n = head THEN "moveHead" ELSE "start") /\ Solo(a)
    BY <1>1, <1>2, <1>3 DEF Goto, Solo, Deleting
  <1>7. At(a, s)'
    BY <1>1, <1>2, <1>6 DEF At
  <1>8. HangsOn(head, s)'
    BY <1>2, <1>4, <1>5 DEF HangsOn
  <1>. QED
    BY <1>2, <1>4, <1>5, <1>6, <1>7, <1>8, SoloSound DEF Moves

LEMMA MoveHeadStep ==
  ASSUME ListInv, ~broken, NEW a \in Callers, MoveHead(a)
  PROVE  Sound' /\ Moves(Chain, Chain') /\ Seen' = Seen
  <1>1. pc[a] = "moveHead" /\ UNCHANGED <<next, heap, handles, node, tmp, broken>>
    BY DEF MoveHead, Goto
  <1>2. At(a, Chain) /\ handles \subseteq Addresses
    BY DEF ListInv, Sound, ListTypes
  <1>3. head = node[a] /\ head # Nil
    BY <1>1, <1>2, NodesAssumption DEF At, Deleting
  <1>4. pc' = [pc EXCEPT ![a] = "start"] /\ head' = next[head]
    BY <1>3 DEF MoveHead, Goto
  <1>5. PICK s : s = Chain
    OBVIOUS
  <1>6. /\ Solo(a) /\ HangsOn(head, s) /\ At(a, s) /\ pc'[a] = "start"
        /\ node[a] \in handles /\ handles \subseteq heap
    BY <1>1, <1>4, <1>5, InDelete DEF Deleting
  <1>7. s # <<>> /\ head = s[1] /\ 1 \in 1 .. Len(s)
    BY <1>3, <1>6 DEF HangsOn, IsChain, IsList
  <1>8. PICK t : t = Without(s, 1)
    OBVIOUS
  <1>9. IsList(t) /\ IsChain(head', next', t) /\ Elems(t) = Elems(s) \ {node[a]}
    BY <1>1, <1>3, <1>4, <1>6, <1>7, <1>8, Beheaded, WithoutType DEF HangsOn
  <1>10. HangsOn(head, t)' /\ At(a, t)'
    BY <1>1, <1>6, <1>9 DEF At, HangsOn
  <1>. QED
    BY <1>1, <1>5, <1>6, <1>7, <1>8, <1>10, SoloSound DEF Moves

(* tmp = g_head: the node looked for is not the first.                      *)
LEMMA StartSearchStep ==
  ASSUME ListInv, ~broken, NEW a \in Callers, StartSearch(a)
  PROVE  Sound' /\ Moves(Chain, Chain') /\ Seen' = Seen
  <1>1. /\ pc[a] = "start" /\ pc' = [pc EXCEPT ![a] = "search"] /\ tmp' = [tmp EXCEPT ![a] = head]
        /\ UNCHANGED <<head, next, heap, handles, node, broken>>
    BY DEF StartSearch, Goto, pointers
  <1>2. PICK s : s = Chain
    OBVIOUS
  <1>3. /\ Solo(a) /\ HangsOn(head, s) /\ At(a, s) /\ pc'[a] = "search"
        /\ node[a] \in handles /\ handles \subseteq heap
    BY <1>1, <1>2, InDelete DEF Deleting
  <1>4. tmp'[a] = head
    BY <1>1 DEF ListInv, ListTypes
  <1>5. \/ tmp'[a] = Nil /\ node[a] \notin Elems(s)
        \/ \E k \in 1 .. Len(s) : tmp'[a] = s[k] /\ \A j \in 1 .. k : s[j] # node[a]
    <2>1. CASE s = <<>>
      BY <1>3, <1>4, <2>1 DEF HangsOn, IsChain, Elems
    <2>2. CASE s # <<>>
      <3>1. 1 \in 1 .. Len(s) /\ head = s[1] /\ s[1] \in Elems(s)
        BY <1>3, <2>2 DEF HangsOn, IsChain, IsList, Elems
      <3>2. head # node[a]
        BY <1>1, <1>3, <3>1 DEF At
      <3>. QED
        BY <1>4, <3>1, <3>2
    <2>. QED
      BY <2>1, <2>2
  <1>6. At(a, s)' /\ HangsOn(head, s)'
    BY <1>1, <1>3, <1>5 DEF At, HangsOn
  <1>. QED
    BY <1>1, <1>2, <1>3, <1>6, SoloSound DEF Moves

(* tmp = tmp->next: the node passed is not the one looked for.              *)
LEMMA AdvanceStep ==
  ASSUME ListInv, ~broken, NEW a \in Callers, Advance(a)
  PROVE  Sound' /\ Moves(Chain, Chain') /\ Seen' = Seen
  <1>1. /\ pc[a] = "search" /\ tmp[a] # Nil /\ next[tmp[a]] # node[a]
        /\ tmp' = [tmp EXCEPT ![a] = next[tmp[a]]]
        /\ UNCHANGED <<head, next, heap, handles, pc, node, broken>>
    BY DEF Advance, pointers
  <1>2. PICK s : s = Chain
    OBVIOUS
  <1>3. pc \in [Callers -> Stages] /\ tmp \in [Callers -> Pointers]
    BY DEF ListInv, ListTypes
  <1>4. pc' = [pc EXCEPT ![a] = "search"]
    BY <1>1, <1>3
  <1>5. /\ Solo(a) /\ HangsOn(head, s) /\ At(a, s) /\ pc'[a] = "search"
        /\ node[a] \in handles /\ handles \subseteq heap
    BY <1>1, <1>2, <1>4, InDelete DEF Deleting
  <1>6. PICK k \in 1 .. Len(s) : tmp[a] = s[k] /\ \A j \in 1 .. k : s[j] # node[a]
    BY <1>1, <1>5 DEF At
  <1>7. tmp'[a] = (IF k = Len(s) THEN Nil ELSE s[k + 1]) /\ s \in Seq(Addresses)
    BY <1>1, <1>3, <1>5, <1>6 DEF HangsOn, IsChain, IsList
  <1>8. \/ tmp'[a] = Nil /\ node[a] \notin Elems(s)
        \/ \E m \in 1 .. Len(s) : tmp'[a] = s[m] /\ \A j \in 1 .. m : s[j] # node[a]
    <2>1. CASE k = Len(s)
      BY <1>6, <1>7, <2>1 DEF Elems
    <2>2. CASE k # Len(s)
      <3>1. k + 1 \in 1 .. Len(s) /\ tmp'[a] = s[k + 1] /\ s[k + 1] # node[a]
        BY <1>1, <1>3, <1>6, <1>7, <2>2
      <3>2. \A j \in 1 .. k + 1 : s[j] # node[a]
        BY <1>6, <1>7, <3>1
      <3>. QED
        BY <3>1, <3>2
    <2>. QED
      BY <2>1, <2>2
  <1>9. At(a, s)' /\ HangsOn(head, s)'
    BY <1>1, <1>5, <1>8 DEF At, HangsOn
  <1>. QED
    BY <1>1, <1>2, <1>5, <1>9, SoloSound DEF Moves

LEMMA EndSearchStep ==
  ASSUME ListInv, ~broken, NEW a \in Callers, EndSearch(a)
  PROVE  Sound' /\ Moves(Chain, Chain') /\ Seen' = Seen
  <1>1. /\ pc[a] = "search" /\ pc' = [pc EXCEPT ![a] = "link"]
        /\ tmp[a] # Nil => next[tmp[a]] = node[a]
        /\ UNCHANGED <<head, next, heap, handles, node, tmp, broken>>
    BY DEF EndSearch, Goto, pointers
  <1>2. PICK s : s = Chain
    OBVIOUS
  <1>3. /\ Solo(a) /\ HangsOn(head, s) /\ At(a, s) /\ pc'[a] = "link"
        /\ node[a] \in handles /\ handles \subseteq heap /\ heap \subseteq Addresses
    BY <1>1, <1>2, InDelete DEF Deleting
  <1>4. \/ tmp[a] = Nil /\ node[a] \notin Elems(s)
        \/ \E k \in 1 .. Len(s) : k # Len(s) /\ tmp[a] = s[k] /\ s[k + 1] = node[a]
    <2>1. SUFFICES ASSUME NEW k \in 1 .. Len(s), tmp[a] = s[k]
                   PROVE  k # Len(s) /\ s[k + 1] = node[a]
      BY <1>1, <1>3 DEF At
    <2>2. s[k] # Nil /\ next[s[k]] = IF k = Len(s) THEN Nil ELSE s[k + 1]
      BY <1>3, <2>1, NodesAssumption DEF HangsOn, IsChain, IsList
    <2>3. node[a] # Nil
      BY <1>3, NodesAssumption
    <2>. QED
      BY <1>1, <2>1, <2>2, <2>3
  <1>5. At(a, s)' /\ HangsOn(head, s)'
    BY <1>1, <1>3, <1>4 DEF At, HangsOn
  <1>. QED
    BY <1>1, <1>2, <1>3, <1>5, SoloSound DEF Moves

(* tmp->next = tmp->next->next takes out the node looked for, and nothing   *)
(* when the search came to the end.                                          *)
LEMMA LinkPastStep ==
  ASSUME ListInv, ~broken, NEW a \in Callers, LinkPast(a)
  PROVE  Sound' /\ Moves(Chain, Chain') /\ Seen' = Seen
  <1>1. /\ pc[a] = "link" /\ pc' = [pc EXCEPT ![a] = "free"]
        /\ UNCHANGED <<head, heap, handles, node, tmp, broken>>
    BY DEF LinkPast, Goto
  <1>2. PICK s : s = Chain
    OBVIOUS
  <1>3. /\ Solo(a) /\ HangsOn(head, s) /\ At(a, s) /\ pc'[a] = "free"
        /\ node[a] \in handles /\ handles \subseteq heap
        /\ next \in [Addresses -> Pointers] /\ s \in Seq(Addresses)
    BY <1>1, <1>2, InDelete DEF Deleting, HangsOn, IsList
  <1>4. CASE tmp[a] = Nil /\ node[a] \notin Elems(s)
    <2>1. next' = next
      BY <1>4 DEF LinkPast
    <2>2. At(a, s)' /\ HangsOn(head, s)'
      BY <1>1, <1>3, <1>4, <2>1 DEF At, HangsOn
    <2>. QED
      BY <1>1, <1>2, <1>3, <2>2, SoloSound DEF Moves
  <1>5. ASSUME NEW k \in 1 .. Len(s), k # Len(s), tmp[a] = s[k], s[k + 1] = node[a]
        PROVE  Sound' /\ Moves(Chain, Chain') /\ Seen' = Seen
    <2>1. next[s[k]] = s[k + 1] /\ s[k] # Nil /\ s[k + 1] # Nil /\ k + 1 \in 1 .. Len(s)
      BY <1>3, <1>5, NodesAssumption DEF HangsOn, IsChain
    <2>2. next' = [next EXCEPT ![s[k]] = next[s[k + 1]]]
      BY <1>5, <2>1 DEF LinkPast
    <2>3. PICK t : t = Without(s, k + 1)
      OBVIOUS
    <2>4. IsChain(head', next', t)
      BY <1>1, <1>3, <1>5, <2>2, <2>3, Bypassed DEF HangsOn, Pointers
    <2>5. IsList(t) /\ Elems(t) = Elems(s) \ {node[a]}
      <3>1. IsList(s)
        BY <1>3 DEF HangsOn
      <3>2. IsList(Without(s, k + 1)) /\ Elems(Without(s, k + 1)) = Elems(s) \ {s[k + 1]}
        BY Zenon, <2>1, <3>1, WithoutType
      <3>. QED
        BY <1>5, <2>3, <3>2
    <2>6. At(a, t)' /\ HangsOn(head, t)'
      BY <1>1, <1>3, <2>4, <2>5 DEF At, HangsOn
    <2>. QED
      BY <1>1, <1>2, <1>3, <2>1, <2>3, <2>6, SoloSound DEF Moves
  <1>. QED
    BY <1>1, <1>3, <1>4, <1>5 DEF At

LEMMA FreeStep ==
  ASSUME ListInv, ~broken, NEW a \in Callers, Free(a)
  PROVE  Sound' /\ Moves(Chain, Chain') /\ Seen' = Seen
  <1>1. pc[a] = "free" /\ heap' = heap \ {node[a]} /\ handles' = handles \ {node[a]}
        /\ UNCHANGED <<head, next, node, tmp, broken>>
    BY DEF Free, Goto
  <1>2. At(a, Chain) /\ handles \subseteq heap
    BY DEF ListInv, Sound
  <1>3. pc' = [pc EXCEPT ![a] = "idle"]
    BY <1>1, <1>2 DEF Free, Goto, At, Deleting
  <1>4. PICK s : s = Chain
    OBVIOUS
  <1>5. Solo(a) /\ HangsOn(head, s) /\ At(a, s) /\ pc'[a] = "idle"
    BY <1>1, <1>3, <1>4, InDelete DEF Deleting
  <1>6. At(a, s)' /\ HangsOn(head, s)'
    BY <1>1, <1>5 DEF At, HangsOn, Deleting
  <1>. QED
    BY <1>1, <1>2, <1>4, <1>5, <1>6, SoloSound DEF Moves

-----------------------------------------------------------------------------
(* What every step does while no delete has overlapped another call.        *)
LEMMA ListStep ==
  ASSUME ListInv, [ListNext]_listVars, ~broken'
  PROVE  /\ Sound'
         /\ \/ \E a \in Callers : Abstract!Begin(a) \/ Abstract!Insert(a)
            \/ Moves(Chain, Chain') /\ Seen' = Seen /\ (Chain' # Chain => Creating = {})
  <1>1. ~broken
    BY DEF ListInv, ListTypes, ListNext, listVars, LinkNew, Publish, TestHead, MoveHead, StartSearch,
           Advance, EndSearch, LinkPast, Free
  <1>2. ASSUME NEW a \in Callers, LinkNew(a) \/ Publish(a)
        PROVE  Sound' /\ (Abstract!Begin(a) \/ Abstract!Insert(a))
    BY <1>1, <1>2, LinkNewStep, PublishStep
  <1>3. ASSUME NEW a \in Callers,
               \/ TestHead(a) \/ MoveHead(a) \/ StartSearch(a)
               \/ Advance(a) \/ EndSearch(a) \/ LinkPast(a) \/ Free(a)
        PROVE  Sound' /\ Moves(Chain, Chain') /\ Seen' = Seen
    BY <1>1, <1>3, TestHeadStep, MoveHeadStep, StartSearchStep, AdvanceStep, EndSearchStep,
       LinkPastStep, FreeStep
  <1>4. ASSUME NEW a \in Callers,
               \/ TestHead(a) \/ MoveHead(a) \/ StartSearch(a)
               \/ Advance(a) \/ EndSearch(a) \/ LinkPast(a) \/ Free(a)
        PROVE  Creating = {}
    <2>1. pc[a] # "publish" /\ \A b \in Callers \ {a} : pc[b] = "idle"
      <3>1. CASE TestHead(a)
        BY <1>1, <3>1 DEF TestHead, Goto
      <3>2. CASE ~TestHead(a)
        <4>1. pc[a] \in Deleting
          BY <1>4, <3>2 DEF MoveHead, StartSearch, Advance, EndSearch, LinkPast, Free, Goto, Deleting
        <4>. QED
          BY <1>1, <4>1 DEF ListInv, Sound, Calm, Deleting
      <3>. QED
        BY <3>1, <3>2
    <2>. QED
      BY <2>1 DEF Creating
  <1>5. CASE UNCHANGED listVars
    BY <1>1, <1>5 DEF listVars, pointers, locals, ListInv, Sound, Calm, HangsOn, Inserts, At, Chain, Seen,
                      Creating, Moves
  <1>. QED
    BY <1>2, <1>3, <1>4, <1>5 DEF ListNext

LEMMA IStep == ListInv /\ [ListNext]_listVars => ListInv'
  BY ListStep, TypesStep DEF ListInv

(* At first the list is empty.                                              *)
LEMMA EmptyChain ==
  ASSUME ListInit
  PROVE  Chain = <<>> /\ Creating = {} /\ ListInv
  <1>1. IsList(<<>>) /\ IsChain(Nil, next, <<>>) /\ Elems(<<>>) = {}
    BY DEF IsList, Injective, IsChain, Elems
  <1>2. Chain = <<>>
    BY <1>1, ChainIs DEF Chain, ListInit, IsList
  <1>3. Creating = {}
    BY DEF Creating, ListInit
  <1>4. Sound
    BY <1>1, <1>2 DEF ListInit, Sound, Calm, HangsOn, At, Deleting
  <1>. QED
    BY <1>2, <1>3, <1>4, TypesInit DEF ListInv

(* Until a delete overlaps another call no freed node is linked, from       *)
(* g_head or from a node about to be published.                              *)
THEOREM LinkedNodesLive == ListSpec => []NoDanglingNode
  <1>1. ListInv => NoDanglingNode
    BY DEF ListInv, Sound, HangsOn, Inserts, Elems, Creating, Seen, NoDanglingNode
  <1>. QED
    BY <1>1, EmptyChain, IStep, PTL DEF ListSpec

-----------------------------------------------------------------------------
LEMMA WithoutIsRemoveAt ==
  ASSUME NEW s \in Seq(Addresses), NEW k \in 1 .. Len(s)
  PROVE  Without(s, k) = Abstract!RemoveAt(s, k)
  <1>1. Abstract!RemoveAt(s, k) = SubSeq(s, 1, k - 1) \o SubSeq(s, k + 1, Len(s))
    BY DEF Abstract!RemoveAt
  <1>. DEFINE u == SubSeq(s, 1, k - 1)
              v == SubSeq(s, k + 1, Len(s))
  <1>2. u \in Seq(Addresses) /\ Len(u) = k - 1 /\ \A j \in 1 .. k - 1 : u[j] = s[j]
    OBVIOUS
  <1>3. v \in Seq(Addresses) /\ Len(v) = Len(s) - k /\ \A j \in 1 .. Len(s) - k : v[j] = s[j + k]
    OBVIOUS
  <1>. HIDE DEF u, v
  <1>4. u \o v = [j \in 1 .. Len(s) - 1 |-> IF j < k THEN s[j] ELSE s[j + 1]]
    <2>1. u \o v \in Seq(Addresses) /\ Len(u \o v) = Len(s) - 1
      BY <1>2, <1>3
    <2>2. \A j \in 1 .. Len(s) - 1 : (u \o v)[j] = IF j < k THEN u[j] ELSE v[j - (k - 1)]
      BY <1>2, <1>3
    <2>3. \A j \in 1 .. Len(s) - 1 : (u \o v)[j] = IF j < k THEN s[j] ELSE s[j + 1]
      BY <1>2, <1>3, <2>2
    <2>4. PICK w : w = u \o v
      OBVIOUS
    <2>5. w \in [1 .. Len(s) - 1 -> Addresses]
      <3>1. w \in Seq(Addresses) /\ Len(w) = Len(s) - 1
        BY <2>1, <2>4
      <3>2. w \in [1 .. Len(w) -> Addresses]
        BY <3>1
      <3>. QED
        BY <3>1, <3>2
    <2>. QED
      BY <2>3, <2>4, <2>5
  <1>. QED
    BY <1>1, <1>4 DEF u, v, Without

(* The steps are those of the abstract list.                                *)
LEMMA MovesAreAbstract ==
  ASSUME ListInv, [ListNext]_listVars
  PROVE  [broken' \/ Abstract!Next]_<<Chain, Seen>>
  <1>. SUFFICES ASSUME ~broken' PROVE [Abstract!Next]_<<Chain, Seen>>
    OBVIOUS
  <1>1. CASE \E a \in Callers : Abstract!Begin(a) \/ Abstract!Insert(a)
    BY <1>1 DEF Abstract!Next
  <1>2. CASE Moves(Chain, Chain') /\ Seen' = Seen /\ (Chain' # Chain => Creating = {})
    <2>1. CASE Chain' = Chain
      BY <1>2, <2>1
    <2>2. ASSUME NEW k \in 1 .. Len(Chain), Chain' = Without(Chain, k), Chain' # Chain
          PROVE  Abstract!Unlink
      <3>1. IsList(Chain)
        <4>1. ~broken
          BY DEF ListInv, ListTypes, ListNext, listVars, LinkNew, Publish, TestHead, MoveHead,
                 StartSearch, Advance, EndSearch, LinkPast, Free
        <4>. QED
          BY <4>1 DEF ListInv, Sound, HangsOn
      <3>2. k \in DOMAIN Chain
        BY <2>2, <3>1 DEF IsList
      <3>3. Without(Chain, k) = Abstract!RemoveAt(Chain, k)
        BY <2>2, <3>1, WithoutIsRemoveAt DEF IsList
      <3>4. DOMAIN Seen = {}
        BY <1>2, <2>2 DEF Seen
      <3>. QED
        BY <1>2, <2>2, <3>2, <3>3, <3>4 DEF Abstract!Unlink
    <2>. QED
      BY <1>2, <2>1, <2>2 DEF Moves, Abstract!Next
  <1>. QED
    BY <1>1, <1>2, ListStep

(* Until a delete overlaps another call, a delete takes out one timer and a *)
(* create puts its own in front of the list it saw when it began; creates    *)
(* that overlap lose no more than that.                                      *)
THEOREM PointersAreList == ListSpec => ImplementsList
  <1>1. ListInit => Abstract!Init
    <2>1. ListInit => Seen = <<>>
      BY EmptyChain DEF Seen
    <2>. QED
      BY <2>1, EmptyChain DEF Abstract!Init
  <1>2. ListInit => ListInv
    BY EmptyChain
  <1>. QED
    BY <1>1, <1>2, IStep, MovesAreAbstract, PTL DEF ListSpec, ImplementsList
=============================================================================
