----------------------------- MODULE IoTTimers -----------------------------
(***************************************************************************)
(* The timer engine, mytimer.c: a list of timerfd timers, a reference      *)
(* count of its users, and one thread that polls the descriptors and runs  *)
(* the callbacks.  The engine has no lock, so main and the callbacks (which*)
(* run on the timer thread) call it at any time.                           *)
(*                                                                         *)
(* The kernel's descriptor table is part of the state: close() frees a     *)
(* descriptor number and the next timerfd_create() may return it again     *)
(* while the thread still holds that number in its poll set.  The timerfds *)
(* are blocking, so read() of a timer that has not expired waits.          *)
(*                                                                         *)
(* One call of create_IoTtimer or delete_IoTtimer is one step here; the    *)
(* interleavings inside them belong to TimerList.  Callers pass only   *)
(* TIMER_PERIODIC, and change_IoTtimer writes a field that nothing reads.  *)
(***************************************************************************)
EXTENDS Naturals, Sequences, FiniteSets, SequencesExt

CONSTANTS
  Nodes,          \* addresses malloc may return for a timer_node
  Fds,            \* descriptor numbers timerfd_create may return
  None,           \* no node, no descriptor
  Intervals,      \* intervals the callers ask for; 0 leaves the timer disarmed
  MaxRunning,     \* bound on IoTtimers_running
  Monitor,        \* TRUE: wwan.c keeps a reference and callbacks call the engine
  MainDeletes,    \* TRUE: main deletes timers while the thread runs
  ThreadMayFail   \* TRUE: pthread_create may fail

ASSUME NoneAssumption == None \notin Nodes \cup Fds
ASSUME BoundAssumption == MaxRunning \in Nat /\ Intervals \subseteq Nat
ASSUME ModeAssumption ==
  /\ Monitor \in BOOLEAN
  /\ MainDeletes \in BOOLEAN
  /\ ThreadMayFail \in BOOLEAN

VARIABLES
  running,  \* IoTtimers_running
  list,     \* the nodes reachable from g_head, newest first
  fdOf,     \* node->fd of the allocated nodes
  tfd,      \* the kernel: what each descriptor number denotes now
  mainPc,   \* where main is inside stop_IoTtimers
  tpc,      \* where the timer thread is
  ufds,     \* its poll set, in list order
  pollin,   \* the slots of ufds reported POLLIN and not read yet
  rd,       \* the descriptor being read or looked up
  orphan,   \* the timer a blocked read waits on after its descriptor was closed
  cur       \* the node whose callback is called

threadVars == <<ufds, pollin, rd, cur>>
vars == <<running, list, fdOf, tfd, mainPc, tpc, threadVars, orphan>>

Actors == {"main", "timer"}
Live == {list[k] : k \in DOMAIN list}
Open == {f \in Fds : tfd[f] # "closed"}

(* The references that are never released: monitor_wwan takes one, and      *)
(* kill_monitor_wwan has no caller.                                         *)
Held == IF Monitor THEN 1 ELSE 0

(* Main calls the engine when it is not inside stop_IoTtimers; the timer    *)
(* thread calls it only from a callback.                                    *)
CanCall(a) ==
  IF a = "main" THEN mainPc = "idle" ELSE tpc = "callback" /\ Monitor

Init ==
  /\ running = 0
  /\ list = <<>>
  /\ fdOf = [n \in Nodes |-> None]
  /\ tfd = [f \in Fds |-> "closed"]
  /\ mainPc = "idle"
  /\ tpc = "none"
  /\ ufds = <<>>
  /\ pollin = {}
  /\ rd = None
  /\ orphan = "no"
  /\ cur = None

-----------------------------------------------------------------------------
(* start_IoTtimers: the first user starts the thread.  When pthread_create  *)
(* fails the count has been taken all the same.                             *)
StartIoTtimers(a) ==
  /\ CanCall(a)
  /\ running < MaxRunning
  /\ running' = running + 1
  /\ \/ running > 0 /\ UNCHANGED tpc
     \/ running = 0 /\ tpc' = "top"
     \/ running = 0 /\ ThreadMayFail /\ UNCHANGED tpc
  /\ UNCHANGED <<list, fdOf, tfd, mainPc, threadVars, orphan>>

(* create_IoTtimer and create_ms_IoTtimer: a fresh timerfd, armed unless    *)
(* the interval is 0, its node put at the head of the list.                 *)
CreateIoTtimer(a) ==
  /\ CanCall(a)
  /\ running > 0
  /\ \E n \in Nodes \ Live, f \in Fds \ Open, i \in Intervals :
       /\ list' = <<n>> \o list
       /\ fdOf' = [fdOf EXCEPT ![n] = f]
       /\ tfd' = [tfd EXCEPT ![f] = IF i = 0 THEN "disarmed" ELSE "armed"]
  /\ UNCHANGED <<running, mainPc, tpc, threadVars, orphan>>

(* Mutant: delete_IoTtimer forgets to close the descriptor. *)
DeleteNodeLeakingFd(k) ==
  /\ list' = RemoveAt(list, k)
  /\ fdOf' = [fdOf EXCEPT ![list[k]] = None]
  /\ UNCHANGED <<tfd, orphan>>

(* delete_IoTtimer: close, unlink, free.  A read blocked on the descriptor  *)
(* keeps waiting for the timer it was issued for.                           *)
DeleteNode(k) ==
  LET n == list[k]
      f == fdOf[n]
  IN /\ list' = RemoveAt(list, k)
     /\ fdOf' = [fdOf EXCEPT ![n] = None]
     /\ tfd' = [tfd EXCEPT ![f] = "closed"]
     /\ orphan' = IF tpc = "blocked" /\ rd = f /\ orphan = "no"
                    THEN IF tfd[f] = "disarmed" THEN "disarmed" ELSE "armed"
                    ELSE orphan

DeleteIoTtimer(a) ==
  /\ CanCall(a)
  /\ a = "main" => MainDeletes
  /\ \E k \in DOMAIN list : DeleteNode(k)
  /\ UNCHANGED <<running, mainPc, tpc, threadVars>>

(* Mutants: the last stop leaves the timers in place; the thread is stopped  *)
(* with a user left.                                                         *)
StopWithoutFlush(a) ==
  /\ CanCall(a)
  /\ running > Held
  /\ running' = running - 1
  /\ mainPc' = IF running' = 0 THEN "join" ELSE mainPc
  /\ UNCHANGED <<list, fdOf, tfd, tpc, threadVars, orphan>>

StopOneEarly(a) ==
  /\ CanCall(a)
  /\ running > Held
  /\ running' = running - 1
  /\ mainPc' = IF running' <= 1 THEN "flush" ELSE mainPc
  /\ UNCHANGED <<list, fdOf, tfd, tpc, threadVars, orphan>>

(* stop_IoTtimers: the last user deletes every timer, cancels the thread    *)
(* and joins it.                                                            *)
StopIoTtimers(a) ==
  /\ CanCall(a)
  /\ running > Held
  /\ running' = running - 1
  /\ mainPc' = IF running' = 0 THEN "flush" ELSE mainPc
  /\ UNCHANGED <<list, fdOf, tfd, tpc, threadVars, orphan>>

FlushList ==
  /\ mainPc = "flush"
  /\ list # <<>>
  /\ DeleteNode(1)
  /\ UNCHANGED <<running, mainPc, tpc, threadVars>>

CancelThread ==
  /\ mainPc = "flush"
  /\ list = <<>>
  /\ mainPc' = "join"
  /\ UNCHANGED <<running, list, fdOf, tfd, tpc, threadVars, orphan>>

JoinThread ==
  /\ mainPc = "join"
  /\ tpc = "exited"
  /\ mainPc' = "idle"
  /\ tpc' = "none"
  /\ UNCHANGED <<running, list, fdOf, tfd, threadVars, orphan>>

(* Undefined behaviour: cancelling a thread that never started either       *)
(* returns an error or crashes.                                             *)
JoinNoThread ==
  /\ mainPc = "join"
  /\ tpc = "none"
  /\ \/ mainPc' = "idle" /\ UNCHANGED tpc
     \/ mainPc' = "dead" /\ tpc' = "dead"
  /\ UNCHANGED <<running, list, fdOf, tfd, threadVars, orphan>>

-----------------------------------------------------------------------------
(* _timer_thread.  The cancellation point is at the top of the loop, the    *)
(* list is walked into the poll set when there is no cancellation.          *)
TestCancel ==
  /\ tpc = "top"
  /\ mainPc = "join"
  /\ tpc' = "exited"
  /\ UNCHANGED <<running, list, fdOf, tfd, mainPc, threadVars, orphan>>

(* Mutant: the walk stops before the last node. *)
WalkListShort ==
  /\ tpc = "top"
  /\ mainPc # "join"
  /\ ufds' = [k \in 1 .. Len(list) - 1 |-> fdOf[list[k]]]
  /\ tpc' = "poll"
  /\ UNCHANGED <<running, list, fdOf, tfd, mainPc, pollin, rd, cur, orphan>>

WalkList ==
  /\ tpc = "top"
  /\ mainPc # "join"
  /\ ufds' = [k \in DOMAIN list |-> fdOf[list[k]]]
  /\ tpc' = "poll"
  /\ UNCHANGED <<running, list, fdOf, tfd, mainPc, pollin, rd, cur, orphan>>

(* Mutant: poll without a timeout. *)
PollForever ==
  /\ tpc = "poll"
  /\ pollin' = {k \in DOMAIN ufds : tfd[ufds[k]] = "expired"}
  /\ pollin' # {}
  /\ tpc' = "scan"
  /\ UNCHANGED <<running, list, fdOf, tfd, mainPc, ufds, rd, cur, orphan>>

(* poll returns the expired timers, or nothing after 100 ms.                *)
Poll ==
  /\ tpc = "poll"
  /\ pollin' = {k \in DOMAIN ufds : tfd[ufds[k]] = "expired"}
  /\ tpc' = IF pollin' = {} THEN "top" ELSE "scan"
  /\ UNCHANGED <<running, list, fdOf, tfd, mainPc, ufds, rd, cur, orphan>>

(* Mutant: the expiration count is not read before the callback. *)
ReadSkipped ==
  /\ tpc = "scan"
  /\ \E k \in pollin :
       /\ \A j \in pollin : k <= j
       /\ pollin' = pollin \ {k}
       /\ rd' = ufds[k]
  /\ tpc' = "lookup"
  /\ UNCHANGED <<running, list, fdOf, tfd, mainPc, ufds, cur, orphan>>

(* read() of the next reported slot.  The number may denote another timer   *)
(* by now, or none.                                                         *)
ReadTimerfd ==
  /\ tpc = "scan"
  /\ \E k \in pollin :
       /\ \A j \in pollin : k <= j
       /\ pollin' = pollin \ {k}
       /\ LET f == ufds[k] IN
            \/ /\ tfd[f] = "expired"
               /\ tfd' = [tfd EXCEPT ![f] = "armed"]
               /\ rd' = f
               /\ tpc' = "lookup"
            \/ /\ tfd[f] = "closed"
               /\ UNCHANGED <<tfd, rd, tpc>>
            \/ /\ tfd[f] \in {"armed", "disarmed"}
               /\ rd' = f
               /\ tpc' = "blocked"
               /\ UNCHANGED tfd
  /\ UNCHANGED <<running, list, fdOf, mainPc, ufds, cur, orphan>>

(* A blocked read returns when the timer it waits on expires.               *)
ReadCompletes ==
  /\ tpc = "blocked"
  /\ \/ orphan = "no" /\ tfd[rd] = "expired" /\ tfd' = [tfd EXCEPT ![rd] = "armed"]
     \/ orphan = "armed" /\ UNCHANGED tfd
  /\ orphan' = "no"
  /\ tpc' = "lookup"
  /\ UNCHANGED <<running, list, fdOf, mainPc, threadVars>>

EndOfScan ==
  /\ tpc = "scan"
  /\ pollin = {}
  /\ tpc' = "top"
  /\ UNCHANGED <<running, list, fdOf, tfd, mainPc, threadVars, orphan>>

(* _get_timer_from_fd *)
GetTimerFromFd ==
  /\ tpc = "lookup"
  /\ \/ \E n \in Live : fdOf[n] = rd /\ cur' = n /\ tpc' = "invoke"
     \/ (\A n \in Live : fdOf[n] # rd) /\ tpc' = "scan" /\ UNCHANGED cur
  /\ rd' = None
  /\ UNCHANGED <<running, list, fdOf, tfd, mainPc, ufds, pollin, orphan>>

(* The call of tmp->callback reads the node.  When main has freed it        *)
(* meanwhile the stale contents are used or the process crashes.            *)
InvokeCallback ==
  /\ tpc = "invoke"
  /\ \/ tpc' = "callback" /\ UNCHANGED mainPc
     \/ cur \notin Live /\ tpc' = "dead" /\ mainPc' = "dead"
  /\ UNCHANGED <<running, list, fdOf, tfd, threadVars, orphan>>

CallbackReturns ==
  /\ tpc = "callback"
  /\ tpc' = "scan"
  /\ cur' = None
  /\ UNCHANGED <<running, list, fdOf, tfd, mainPc, ufds, pollin, rd, orphan>>

(* The kernel: an armed periodic timer expires; further expirations before  *)
(* the read are counted in the same 8 bytes.                                *)
Expire(f) ==
  /\ mainPc # "dead"
  /\ tfd[f] = "armed"
  /\ tfd' = [tfd EXCEPT ![f] = "expired"]
  /\ UNCHANGED <<running, list, fdOf, mainPc, tpc, threadVars, orphan>>

-----------------------------------------------------------------------------
Call(a) ==
  \/ StartIoTtimers(a)
  \/ CreateIoTtimer(a)
  \/ DeleteIoTtimer(a)
  \/ StopIoTtimers(a)

StopSteps == FlushList \/ CancelThread \/ JoinThread \/ JoinNoThread

ThreadSteps ==
  \/ TestCancel
  \/ WalkList
  \/ Poll
  \/ ReadTimerfd
  \/ ReadCompletes
  \/ EndOfScan
  \/ GetTimerFromFd
  \/ InvokeCallback
  \/ CallbackReturns

Next ==
  \/ \E a \in Actors : Call(a)
  \/ StopSteps
  \/ ThreadSteps
  \/ \E f \in Fds : Expire(f)

Spec == Init /\ [][Next]_vars

(* The operating system schedules both threads, time passes, and a callback *)
(* returns (its calls into the engine are not obliged to happen).           *)
FairSpec ==
  /\ Spec
  /\ WF_vars(StopSteps)
  /\ WF_vars(ThreadSteps)
  /\ \A f \in Fds : WF_vars(Expire(f))

-----------------------------------------------------------------------------
(* Every variable keeps to its type. *)
TypeOK ==
  /\ running \in Nat
  /\ list \in Seq(Nodes)
  /\ fdOf \in [Nodes -> Fds \cup {None}]
  /\ tfd \in [Fds -> {"closed", "disarmed", "armed", "expired"}]
  /\ mainPc \in {"idle", "flush", "join", "dead"}
  /\ tpc \in {"none", "top", "poll", "scan", "blocked", "lookup", "invoke",
              "callback", "exited", "dead"}
  /\ ufds \in Seq(Fds)
  /\ pollin \subseteq DOMAIN ufds
  /\ rd \in Fds \cup {None}
  /\ orphan \in {"no", "armed", "disarmed"}
  /\ cur \in Nodes \cup {None}

(* The list and the kernel agree: no node is linked twice, no two nodes     *)
(* share a descriptor, and every open timerfd belongs to a linked node, so  *)
(* no sequence of creates and deletes leaks or doubly owns a descriptor.    *)
OneFdPerNode ==
  /\ \A j, k \in DOMAIN list : list[j] = list[k] => j = k
  /\ \A n \in Live : fdOf[n] \in Open
  /\ \A m, n \in Live : fdOf[m] = fdOf[n] => m = n
  /\ \A f \in Open : \E n \in Live : fdOf[n] = f

(* After the last stop_IoTtimers returned nothing of the engine is left: no *)
(* thread, no node, no open descriptor.                                     *)
StoppedIsQuiet ==
  (mainPc = "idle" /\ running = 0) =>
    tpc = "none" /\ list = <<>> /\ Open = {}

(* The timer thread exists as long as someone holds a reference, and it is  *)
(* not left behind exited: stop_IoTtimers never joins too early or too late.*)
RunningHasThread ==
  running > 0 => /\ tpc # "exited"
                 /\ tpc = "none" => ThreadMayFail

(* The thread waits in read() for a timer that is not armed: one callback   *)
(* deleted a timer of the same poll round and another, created with interval*)
(* 0, got its descriptor number.  This wait never ends.                      *)
WaitsForDisarmed ==
  /\ tpc = "blocked"
  /\ orphan = "disarmed" \/ (orphan = "no" /\ tfd[rd] = "disarmed")

(* A timer that has expired gets its callback, unless it is deleted first or*)
(* the thread waits for a disarmed one: descriptor numbers used again during*)
(* a poll round delay it, and nothing else can starve it.                    *)
DueIsServed ==
  \A n \in Nodes :
    (n \in Live /\ fdOf[n] \in Open /\ tfd[fdOf[n]] = "expired")
      ~> \/ n \notin Live
         \/ tpc = "callback" /\ cur = n
         \/ WaitsForDisarmed

(* The last stop_IoTtimers returns: the thread always comes back to its     *)
(* cancellation point, unless it waits for a disarmed timer (or the process *)
(* has crashed).                                                             *)
StopReturns ==
  (mainPc = "flush") ~> (mainPc \in {"idle", "dead"} \/ WaitsForDisarmed)

-----------------------------------------------------------------------------
(* What a user of the engine may rely on: TimerService, with the credit of  *)
(* a timer the expiration in the kernel plus the one read but not served.   *)
InFlight(n) == \/ tpc = "lookup" /\ rd = fdOf[n]
               \/ tpc = "invoke" /\ cur = n

Credit == [n \in Nodes |->
            IF n \notin Live THEN 0
            ELSE (IF tfd[fdOf[n]] = "expired" THEN 1 ELSE 0)
                 + (IF InFlight(n) THEN 1 ELSE 0)]

Firing == IF tpc = "callback" THEN cur ELSE None

Service == INSTANCE TimerService
             WITH timers <- Live, credit <- Credit, firing <- Firing

(* While main deletes no timer (deletions are confined to the callbacks) the*)
(* engine is a TimerService: it never runs a callback without an expiration *)
(* of that very timer.                                                       *)
ImplementsService == Service!Spec
=============================================================================
