----------------------------- MODULE TimerList -----------------------------
(***************************************************************************)
(* The pointer operations of create_IoTtimer and delete_IoTtimer, one      *)
(* access to shared memory a step.  Nothing locks the list, and main and   *)
(* the callbacks (the timer thread) create and delete timers at any time,  *)
(* the same timer not excepted.                                            *)
(***************************************************************************)
EXTENDS Naturals, Sequences, FiniteSets

CONSTANTS
  Addresses,   \* addresses malloc may return
  Nil,     \* the null pointer
  Callers   \* the threads that call the engine

ASSUME NodesAssumption == Nil \notin Addresses /\ IsFiniteSet(Addresses)

VARIABLES
  head,     \* g_head
  next,     \* node->next, kept as garbage after free
  heap,     \* the allocated nodes
  handles,  \* the timer ids in the callers' variables, which both may use
  pc,       \* where each caller is
  node,     \* the node it inserts or deletes
  tmp,      \* its cursor
  broken    \* history: a delete and another call were under way at once

pointers == <<head, next, heap, handles>>
locals == <<pc, node, tmp>>
listVars == <<pointers, locals, broken>>

ListInit ==
  /\ head = Nil
  /\ next = [n \in Addresses |-> Nil]
  /\ heap = {}
  /\ handles = {}
  /\ pc = [a \in Callers |-> "idle"]
  /\ node = [a \in Callers |-> Nil]
  /\ tmp = [a \in Callers |-> Nil]
  /\ broken = FALSE

Goto(a, from, to) == pc[a] = from /\ pc' = [pc EXCEPT ![a] = to]

Crash == pc' = [a \in Callers |-> "dead"]

-----------------------------------------------------------------------------
(* create: malloc, then new_node->next = g_head.  A delete under way in the *)
(* other thread may go wrong from here on.                                   *)
LinkNew(a) ==
  /\ Goto(a, "idle", "publish")
  /\ \E n \in Addresses \ heap :
       /\ heap' = heap \cup {n}
       /\ node' = [node EXCEPT ![a] = n]
       /\ next' = [next EXCEPT ![n] = head]
  /\ broken' = (broken \/ \E b \in Callers \ {a} : pc[b] \notin {"idle", "publish"})
  /\ UNCHANGED <<head, handles, tmp>>

(* g_head = new_node, and the id is returned. *)
Publish(a) ==
  /\ Goto(a, "publish", "idle")
  /\ head' = node[a]
  /\ handles' = handles \cup {node[a]}
  /\ UNCHANGED <<next, heap, node, tmp, broken>>

(* delete: node == g_head decides.  The caller's variable keeps the id until *)
(* the call has returned.                                                    *)
TestHead(a) ==
  /\ \E n \in handles :
       /\ node' = [node EXCEPT ![a] = n]
       /\ Goto(a, "idle", IF n = head THEN "moveHead" ELSE "start")
  /\ broken' = (broken \/ \E b \in Callers \ {a} : pc[b] # "idle")
  /\ UNCHANGED <<pointers, tmp>>

(* g_head = g_head->next.  When another thread emptied the list since the   *)
(* test the process dereferences a null pointer.                            *)
MoveHead(a) ==
  /\ \/ /\ head # Nil
        /\ Goto(a, "moveHead", "start")
        /\ head' = next[head]
     \/ head = Nil /\ pc[a] = "moveHead" /\ Crash /\ UNCHANGED head
  /\ UNCHANGED <<next, heap, handles, node, tmp, broken>>

(* Mutant: the search starts over the successor of the list head. *)
StartSearchLate(a) ==
  /\ Goto(a, "start", "search")
  /\ tmp' = [tmp EXCEPT ![a] = IF head = Nil THEN Nil ELSE next[head]]
  /\ UNCHANGED <<pointers, node, broken>>

StartSearch(a) ==
  /\ Goto(a, "start", "search")
  /\ tmp' = [tmp EXCEPT ![a] = head]
  /\ UNCHANGED <<pointers, node, broken>>

(* while(tmp && tmp->next != node) tmp = tmp->next *)
Advance(a) ==
  /\ pc[a] = "search"
  /\ tmp[a] # Nil
  /\ next[tmp[a]] # node[a]
  /\ tmp' = [tmp EXCEPT ![a] = next[tmp[a]]]
  /\ UNCHANGED <<pointers, pc, node, broken>>

EndSearch(a) ==
  /\ tmp[a] # Nil => next[tmp[a]] = node[a]
  /\ Goto(a, "search", "link")
  /\ UNCHANGED <<pointers, node, tmp, broken>>

(* Mutant: the predecessor is made the last node. *)
LinkPastCutting(a) ==
  /\ Goto(a, "link", "free")
  /\ next' = IF tmp[a] # Nil /\ next[tmp[a]] # Nil THEN [next EXCEPT ![tmp[a]] = Nil] ELSE next
  /\ UNCHANGED <<head, heap, handles, node, tmp, broken>>

(* tmp->next = tmp->next->next, when a predecessor was found *)
LinkPast(a) ==
  /\ Goto(a, "link", "free")
  /\ next' = IF tmp[a] # Nil /\ next[tmp[a]] # Nil
               THEN [next EXCEPT ![tmp[a]] = next[next[tmp[a]]]]
               ELSE next
  /\ UNCHANGED <<head, heap, handles, node, tmp, broken>>

(* free, and the caller overwrites its variable.  A node freed a second time*)
(* is ignored or stops the process.                                          *)
Free(a) ==
  /\ \/ Goto(a, "free", "idle")
     \/ node[a] \notin heap /\ pc[a] = "free" /\ Crash
  /\ heap' = heap \ {node[a]}
  /\ handles' = handles \ {node[a]}
  /\ UNCHANGED <<head, next, node, tmp, broken>>

ListNext ==
  \E a \in Callers :
    \/ LinkNew(a)
    \/ Publish(a)
    \/ TestHead(a)
    \/ MoveHead(a)
    \/ StartSearch(a)
    \/ Advance(a)
    \/ EndSearch(a)
    \/ LinkPast(a)
    \/ Free(a)

ListSpec == ListInit /\ [][ListNext]_listVars

-----------------------------------------------------------------------------
(* The nodes from g_head on, if the pointers form a list at all: one that    *)
(* ends, over as many nodes as there are at most.                            *)
Lists == UNION {[1 .. n -> Addresses] : n \in 0 .. Cardinality(Addresses)}

IsChain(h, nx, s) ==
  /\ h = IF s = <<>> THEN Nil ELSE s[1]
  /\ \A k \in 1 .. Len(s) : nx[s[k]] = IF k = Len(s) THEN Nil ELSE s[k + 1]

ChainOf(h, nx) ==
  IF \E s \in Lists : IsChain(h, nx, s)
  THEN CHOOSE s \in Lists : IsChain(h, nx, s)
  ELSE <<Nil>>

Chain == ChainOf(head, next)

(* What each create under way has hung its node in front of. *)
Creating == {a \in Callers : pc[a] = "publish"}
Seen == [a \in Creating |-> ChainOf(next[node[a]], next)]

(* Until a delete and another call are under way at once, the pointers      *)
(* implement the list: a delete unlinks one node, and a create puts its node*)
(* in front of the list as it was when the create began.  So two creates    *)
(* that overlap lose timers inserted meanwhile (or bring back lost ones),   *)
(* and that is all the harm they do; a create alone inserts at the head.     *)
Abstract == INSTANCE NodeList WITH Nodes <- Addresses, list <- Chain, seen <- Seen
ImplementsList ==
  Abstract!Init /\ [][broken' \/ Abstract!Next]_<<Chain, Seen>>

(* Until then no freed node is linked, whatever the creates lost or brought *)
(* back: neither from g_head nor from a node about to be published.          *)
NoDanglingNode ==
  ~broken =>
    /\ \A k \in DOMAIN Chain : Chain[k] \in heap
    /\ \A a \in Creating : \A k \in DOMAIN Seen[a] : Seen[a][k] \in heap
=============================================================================
