---------------------------- MODULE NfnExecution ----------------------------
(***************************************************************************)
(* The execution half of the in-network compute application                *)
(* (NfnProducerApp): what becomes of a request once the resolution engine  *)
(* has decided EXECUTE.  The node has a fixed amount of RAM and cores; a   *)
(* request either books what its function needs and runs for the           *)
(* function's execution time, or waits in a bounded FIFO queue, or, when   *)
(* the queue is full too, is forwarded to another node.  The end of an     *)
(* execution releases the resources, sends the result and may start the    *)
(* request at the head of the queue.                                       *)
(*                                                                         *)
(* Every handler runs to completion in the single-threaded simulator, so   *)
(* one handler is one action.                                              *)
(***************************************************************************)
EXTENDS Naturals, Sequences, FiniteSets

CONSTANTS
  Jobs,       \* requests that reach the EXECUTE decision, again and again
  Funcs,      \* functions installed on the node
  FuncOf,     \* FuncOf[j]: the function request j asks for
  Resources,  \* resource dimensions: RAM and processor cores
  Need,       \* Need[f][r]: what an execution of f books of r
  Capacity,   \* Capacity[r]: what the idle node has of r
  QueueSize,  \* m_queue_size
  Garbage,    \* what a member the constructor leaves uninitialised may hold
  MaxBusy     \* bound: a busy counter this high brings no request back

ASSUME FuncOfAssumption    == FuncOf \in [Jobs -> Funcs]
ASSUME NeedAssumption      == Need \in [Funcs -> [Resources -> Nat]]
ASSUME CapacityAssumption  == Capacity \in [Resources -> Nat]
ASSUME QueueSizeAssumption == QueueSize \in Nat
ASSUME GarbageAssumption   == Garbage \subseteq Nat
ASSUME MaxBusyAssumption   == MaxBusy \in Nat

\* Each function fits on the idle node.  The generated node descriptions
\* give every node at least 20 cores and 6144 MB, and a function 1 core and
\* 100 MB (utils/dataset_generation/hier-topology-data-generation.cpp).
ASSUME FitsAssumption == \A f \in Funcs, r \in Resources : Need[f][r] <= Capacity[r]

VARIABLES
  free,         \* m_ram and m_processor_core: what is not booked
  running,      \* requests with a scheduled ScheduledExecutionEnd
  waitingList,  \* m_waiting_list of the application
  queueFill,    \* m_queue_fill of the compute node
  nodeBusy,     \* m_nodeBusyCounter of the compute node
  fullTimer,    \* m_full_timer_started
  emptyTimer,   \* m_empty_timer_started
  answered,     \* requests whose result has been sent, not asked again yet
  forwarded     \* requests forwarded because the node is saturated, likewise

queueVars == <<waitingList, queueFill, fullTimer, emptyTimer>>
vars == <<free, running, queueVars, nodeBusy, answered, forwarded>>

-----------------------------------------------------------------------------
(* The compute node's queue accounting and resource checks.                *)

NeedOf(j) == Need[FuncOf[j]]
Queued    == {waitingList[i] : i \in 1 .. Len(waitingList)}
Resolved  == running \union Queued \union answered \union forwarded

\* Wrong variant: one sufficient resource is enough.
CheckOneResource(avail, j) == \E r \in Resources : avail[r] >= NeedOf(j)[r]

CheckResource(avail, j) == \A r \in Resources : avail[r] >= NeedOf(j)[r]
Booked(avail, j)   == [r \in Resources |-> avail[r] - NeedOf(j)[r]]
\* Wrong variant: nothing comes back.
ReleasedNothing(avail, j) == avail
Released(avail, j) == [r \in Resources |-> avail[r] + NeedOf(j)[r]]

IsQueueFull  == queueFill = QueueSize
\* Wrong variant: off by one.
IsQueueNearlyEmpty == queueFill <= 1
IsQueueEmpty == queueFill = 0

IncrementQueueFill ==
  LET room == queueFill < QueueSize
  IN  /\ queueFill' = IF room THEN queueFill + 1 ELSE queueFill
      /\ emptyTimer' = IF room THEN FALSE ELSE emptyTimer
      /\ fullTimer' = IF room THEN fullTimer ELSE TRUE

\* Wrong variant: the fill level is not lowered.
DecrementTimerOnly ==
  /\ fullTimer' = FALSE
  /\ UNCHANGED <<queueFill, emptyTimer>>

DecrementQueueFill ==
  LET some == queueFill > 0
  IN  /\ queueFill' = IF some THEN queueFill - 1 ELSE queueFill
      /\ fullTimer' = IF some THEN FALSE ELSE fullTimer
      /\ emptyTimer' = IF some THEN emptyTimer ELSE TRUE

-----------------------------------------------------------------------------
(* The EXECUTE decision.  Resources are looked at first, also when other   *)
(* requests wait: a request that fits starts before the queued ones.       *)

RunNow(j) ==
  /\ CheckResource(free, j)
  /\ free' = Booked(free, j)
  /\ running' = running \union {j}
  /\ UNCHANGED <<queueVars, nodeBusy, answered, forwarded>>

\* Wrong variant: the queued request is forwarded as well.
EnqueueAndForward(j) ==
  /\ ~ CheckResource(free, j)
  /\ ~ IsQueueFull
  /\ IncrementQueueFill
  /\ waitingList' = Append(waitingList, j)
  /\ forwarded' = forwarded \union {j}
  /\ UNCHANGED <<free, running, nodeBusy, answered>>

Enqueue(j) ==
  /\ ~ CheckResource(free, j)
  /\ ~ IsQueueFull
  /\ IncrementQueueFill
  /\ waitingList' = Append(waitingList, j)
  /\ UNCHANGED <<free, running, nodeBusy, answered, forwarded>>

\* Wrong variant: the program's other queue policy, "push", which drops the
\* head of the queue to make room.
PushOut(j) ==
  /\ ~ CheckResource(free, j)
  /\ IsQueueFull
  /\ nodeBusy' = nodeBusy + 1
  /\ waitingList' = Append(Tail(waitingList), j)
  /\ UNCHANGED <<free, running, queueFill, fullTimer, emptyTimer, answered,
                 forwarded>>

ForwardBusy(j) ==
  /\ ~ CheckResource(free, j)
  /\ IsQueueFull
  /\ nodeBusy' = nodeBusy + 1
  /\ forwarded' = forwarded \union {j}
  /\ UNCHANGED <<free, running, queueVars, answered>>

Execute(j) ==
  /\ j \notin Resolved
  /\ RunNow(j) \/ Enqueue(j) \/ ForwardBusy(j)

(* The end of an execution starts at most one waiting request, the head,   *)
(* and none at all when the head does not fit.                             *)
\* Wrong variant: looks at the resources before they are released.
StartsHeadTooEarly(avail) ==
  /\ ~ IsQueueEmpty
  /\ CheckResource(free, Head(waitingList))

StartsHead(avail) ==
  /\ ~ IsQueueEmpty
  /\ CheckResource(avail, Head(waitingList))

ScheduledExecutionEnd(j) ==
  /\ j \in running
  /\ answered' = answered \union {j}
  /\ LET avail == Released(free, j)
     IN  \/ /\ StartsHead(avail)
            /\ DecrementQueueFill
            /\ waitingList' = Tail(waitingList)
            /\ free' = Booked(avail, Head(waitingList))
            /\ running' = (running \ {j}) \union {Head(waitingList)}
         \/ /\ ~ StartsHead(avail)
            /\ free' = avail
            /\ running' = running \ {j}
            /\ UNCHANGED queueVars
  /\ UNCHANGED <<nodeBusy, forwarded>>

(* A status request of the orchestrator reads and clears the busy counter. *)
ResetNodeBusyCounter ==
  /\ nodeBusy' = 0
  /\ UNCHANGED <<free, running, queueVars, answered, forwarded>>

(* Requests never stop coming: some consumer asks again for what has been  *)
(* answered or forwarded, so a finite set of requests stands for endless   *)
(* arrivals.                                                               *)
AskAgain(j) ==
  /\ j \in answered \union forwarded
  /\ nodeBusy < MaxBusy
  /\ answered' = answered \ {j}
  /\ forwarded' = forwarded \ {j}
  /\ UNCHANGED <<free, running, queueVars, nodeBusy>>

-----------------------------------------------------------------------------
\* The topology reader builds its nodes with the constructor that sets neither
\* the timer flags nor the busy counter.
Init ==
  /\ free = Capacity
  /\ running = {}
  /\ waitingList = <<>>
  /\ queueFill = 0
  /\ nodeBusy \in Garbage
  /\ fullTimer \in {g # 0 : g \in Garbage}
  /\ emptyTimer \in {g # 0 : g \in Garbage}
  /\ answered = {}
  /\ forwarded = {}

Next ==
  \/ \E j \in Jobs : Execute(j) \/ AskAgain(j) \/ ScheduledExecutionEnd(j)
  \/ ResetNodeBusyCounter

\* The simulator fires every scheduled event at its time.
Fairness == \A j \in Jobs : WF_vars(ScheduledExecutionEnd(j))

SafetySpec == Init /\ [][Next]_vars
Spec == SafetySpec /\ Fairness

-----------------------------------------------------------------------------
(* Properties.                                                             *)

\* Each variable has its type.  In particular no booking ever takes RAM or
\* cores below zero, where the node's uint32_t counters would wrap.
TypeOK ==
  /\ free \in [Resources -> Nat]
  /\ running \in SUBSET Jobs
  /\ waitingList \in Seq(Jobs)
  /\ queueFill \in 0 .. QueueSize
  /\ nodeBusy \in Nat
  /\ fullTimer \in BOOLEAN
  /\ emptyTimer \in BOOLEAN
  /\ answered \in SUBSET Jobs
  /\ forwarded \in SUBSET Jobs

\* The fill level the compute node keeps and the waiting list the application
\* keeps are two objects' idea of one queue.  ScheduledExecutionEnd tests the
\* first and takes front() of the second, so they must never disagree.
QueueFillMatches == queueFill = Len(waitingList)

\* What the executions S have booked of r, all together.
BookedBy(S, r) ==
  LET total[T \in SUBSET S] ==
        IF T = {} THEN 0
        ELSE LET j == CHOOSE j \in T : TRUE IN total[T \ {j}] + NeedOf(j)[r]
  IN  total[S]

\* What the node has free plus what the running executions have booked is
\* always the whole node: nothing leaks over any number of executions, and
\* nothing is released twice.
ResourcesConserved ==
  \A r \in Resources : free[r] + BookedBy(running, r) = Capacity[r]

\* A request that waits is started by the end of a running execution and by
\* nothing else, so a queue must never be left behind on an idle node.
NoStrandedQueue == waitingList # <<>> => running # {}

\* Every request the node has decided to execute is in exactly one place:
\* executing, waiting (once), answered, or forwarded.
OneFate ==
  /\ \A i, k \in 1 .. Len(waitingList) : waitingList[i] = waitingList[k] => i = k
  /\ running \intersect Queued = {}
  /\ (running \union Queued) \intersect (answered \union forwarded) = {}
  /\ answered \intersect forwarded = {}

\* The node as a service: accepted requests are answered exactly once, the
\* others are handed on when they arrive; only then is either asked again.
Service == INSTANCE RequestService WITH
             open <- running \union Queued, handedOn <- forwarded
ImplementsService == Service!Spec

\* Later requests find free resources and start before those that wait.
Overtakes == waitingList # <<>> /\ \E k \in Jobs : RunNow(k)

\* A request that runs or waits is answered, unless requests that arrive later
\* go on overtaking the queue for ever.  Nothing less will starve it: neither
\* requests that join the queue behind it or are forwarded, nor the end of an
\* execution starting one request at most, nor a head that does not fit when an
\* execution ends.  The exception is needed: NFN-producer-app.cpp:504 asks for
\* resources first, so light requests without end keep a heavy head waiting.
AnsweredUnlessOvertaken ==
  \A j \in Jobs :
    \/ (j \in running \union Queued) ~> (j \in answered)
    \/ []<><<Overtakes>>_vars
=============================================================================
