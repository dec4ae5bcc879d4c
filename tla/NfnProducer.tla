---------------------------- MODULE NfnProducer ----------------------------
(***************************************************************************)
(* The in-network compute application of one edge node (NfnProducerApp)    *)
(* with its resolution engine.  A request names a function and the data it *)
(* is to be applied to.  The engine looks the data up in the node's        *)
(* content store and decides to EXECUTE, to FETCH what is missing (data,   *)
(* or the function itself, "code drag"), to FORWARD the request, or to     *)
(* NACK it.  Requests that wait for something fetched are kept in the      *)
(* pending content table; execution is NfnExecution's.                     *)
(*                                                                         *)
(* OnData loops over the table, and each entry it completes is resolved    *)
(* again at once.  The loop is modelled one entry per step: OnData opens   *)
(* it, Visit is its body, and no other handler is enabled until the index  *)
(* has run out (scan = Idle), so for the rest of the system it is one      *)
(* event.                                                                  *)
(***************************************************************************)
EXTENDS Naturals, FiniteSets, SequencesExt

CONSTANTS
  Jobs, Funcs, FuncOf, Resources, Need, Capacity, QueueSize, Garbage,
  NameOf,       \* NameOf[j]: the Interest name of request instance j
  Data,         \* names under /Data
  ParamsOf,     \* ParamsOf[j]: the data arguments in j's name
  ParamNumber,  \* ParamNumber[f]: the number of parameters of f
  InitEnabled,  \* functions enabled when the scenario starts
  Budget        \* bound: how often each disturbance may happen

\* What NfnExecution assumes of the constants it is instantiated with.
ASSUME NodeAssumption ==
  /\ FuncOf \in [Jobs -> Funcs]
  /\ Need \in [Funcs -> [Resources -> Nat]]
  /\ Capacity \in [Resources -> Nat]
  /\ QueueSize \in Nat
  /\ Garbage \subseteq Nat

ASSUME ParamsAssumption  == ParamsOf \in [Jobs -> SUBSET Data]
ASSUME ArityAssumption   == ParamNumber \in [Funcs -> Nat]
ASSUME EnabledAssumption == InitEnabled \subseteq Funcs

\* A cached copy goes stale or is evicted, a fetch is lost or rejected, the
\* orchestrator switches a function.
Disturbances == {"stale", "lost", "switch"}
ASSUME BudgetAssumption  == Budget \in [Disturbances -> Nat]

\* Instances with one name ask for the same thing.
ASSUME NameAssumption ==
  \A j, k \in Jobs : NameOf[j] = NameOf[k]
                       => FuncOf[j] = FuncOf[k] /\ ParamsOf[j] = ParamsOf[k]

VARIABLES
  free, running, waitingList, queueFill, nodeBusy, fullTimer, emptyTimer,
  answered, forwarded,
  pending,    \* m_pending_content_table, front first
  sending,    \* m_sending_interest_list
  enabled,    \* functions with m_enableComputation set
  excluded,   \* per function: its occurrences in m_FuncExcludeList
  cs,         \* data with a fresh copy in the node's content store
  inflight,   \* fetches the network has not answered
  delivering, \* fetched names on their way from the forwarder to OnData
  scan,       \* the loop of OnData: <<name, index it has reached>>
  arrived,    \* requests that have reached OnInterest
  owed,       \* requests downstream nodes still wait for
  spent       \* disturbances so far, see Budget

execVars == <<free, running, waitingList, queueFill, nodeBusy, fullTimer,
              emptyTimer, answered, forwarded>>
vars == <<execVars, pending, sending, enabled, excluded, cs, inflight,
          delivering, scan, arrived, owed, spent>>

\* Jobs are instances here, a repeated request is another one: none comes back.
Exec == INSTANCE NfnExecution WITH MaxBusy <- 0

Fetchable == Data \union Funcs   \* /Data/d and /Function/f
Idle      == <<>>             \* no OnData loop in progress

-----------------------------------------------------------------------------
(* The resolution engine.                                                  *)

Excluded(f) == excluded[f] > 0
Misses(j)   == ParamsOf[j] \ cs

\* Wrong variant: the function itself is not fetched.
FetchDataOnly(j, on) == Misses(j)

FetchList(j, on) == Misses(j) \union ({FuncOf[j]} \ on)

\* on: the functions that are enabled.  The caller overrides every decision
\* about an excluded function.
GetFetchDecisions(j, on) ==
  LET f == FuncOf[j]
  IN  CASE Excluded(f) -> "FORWARD"
        [] ~ Excluded(f) /\ Cardinality(ParamsOf[j]) # ParamNumber[f] -> "NACK"
        [] OTHER ->
             IF f \notin on /\ Misses(j) = ParamsOf[j] THEN "FORWARD"
             ELSE IF f \in on /\ Misses(j) = {} THEN "EXECUTE"
             ELSE "FETCH"

-----------------------------------------------------------------------------
(* Acting on a decision.  tbl is the pending table as the caller left it,  *)
(* args the names the request has waited for, each with "has arrived", on  *)
(* the enabled functions, and debt the requests owed an answer.            *)

SameName(j) == {k \in Jobs : NameOf[k] = NameOf[j]}

\* Entries are compared by Interest name: the first one goes.
DeletePendingContentTableEntry(tbl, j) ==
  RemoveFirstMatch(tbl, LAMBDA e : e.id \in SameName(j))

\* Forwarded upstream or NACKed: nobody waits for this node any more.
HandedOn(j, tbl, debt) ==
  /\ pending' = tbl
  /\ owed' = debt \ SameName(j)

\* Wrong variant: the entry is stored only when something is sent for it.
FetchIfNew(j, args, tbl, on, debt) ==
  LET list == FetchList(j, on)
  IN  /\ pending' = IF list \subseteq sending THEN tbl
                    ELSE Cons([id   |-> j,
                               args |-> [n \in DOMAIN args \union list |->
                                           n \notin list /\ args[n]]], tbl)
      /\ sending' = sending \union list
      /\ inflight' = inflight \union (list \ sending)
      /\ owed' = debt
      /\ UNCHANGED execVars

Fetch(j, args, tbl, on, debt) ==
  LET list == FetchList(j, on)
  IN  /\ pending' = Cons([id   |-> j,
                          args |-> [n \in DOMAIN args \union list |->
                                      n \notin list /\ args[n]]], tbl)
      /\ sending' = sending \union list
      /\ inflight' = inflight \union (list \ sending)
      /\ owed' = debt
      /\ UNCHANGED execVars

ExecuteDecided(j, tbl, debt) ==
  /\ \/ /\ Exec!RunNow(j)
        /\ pending' = DeletePendingContentTableEntry(tbl, j)
        /\ owed' = debt
     \/ /\ Exec!Enqueue(j)
        /\ pending' = tbl
        /\ owed' = debt
     \/ /\ Exec!ForwardBusy(j)
        /\ HandedOn(j, tbl, debt)
  /\ UNCHANGED <<sending, inflight>>

ResolveAndHandleDecisions(j, args, tbl, on, debt) ==
  LET decision == GetFetchDecisions(j, on)
  IN  \/ /\ decision \in {"FORWARD", "NACK"}
         /\ HandedOn(j, tbl, debt)
         /\ UNCHANGED <<execVars, sending, inflight>>
      \/ /\ decision = "FETCH"
         /\ Fetch(j, args, tbl, on, debt)
      \/ /\ decision = "EXECUTE"
         /\ ExecuteDecided(j, tbl, debt)

-----------------------------------------------------------------------------
(* Handlers of the application.                                            *)

OnInterest(j) ==
  /\ scan = Idle
  /\ j \notin arrived
  /\ arrived' = arrived \union {j}
  /\ ResolveAndHandleDecisions(j, <<>>, pending, enabled, owed \union {j})
  /\ UNCHANGED <<enabled, excluded, cs, delivering, scan, spent>>

\* Wrong variant: the loop starts, and goes on, one entry too low.
LoopBelow(n, tbl, last) ==
  LET i == SelectLastInSubSeq(tbl, 1, last - 1, LAMBDA e : n \in DOMAIN e.args)
  IN  IF i = 0 THEN Idle ELSE <<n, i>>

\* The largest index up to `last' whose entry mentions the name; entries that
\* do not mention it are passed over without effect.
LoopAt(n, tbl, last) ==
  LET i == SelectLastInSubSeq(tbl, 1, last, LAMBDA e : n \in DOMAIN e.args)
  IN  IF i = 0 THEN Idle ELSE <<n, i>>

\* Wrong variant: the name stays in the sending list.
OnDataKeeping(n) ==
  /\ scan = Idle
  /\ n \in delivering
  /\ delivering' = delivering \ {n}
  /\ scan' = LoopAt(n, pending, Len(pending))
  /\ UNCHANGED <<execVars, pending, sending, enabled, excluded, cs, inflight,
                 arrived, owed, spent>>

OnData(n) ==
  /\ scan = Idle
  /\ n \in delivering
  /\ delivering' = delivering \ {n}
  /\ sending' = sending \ {n}
  /\ scan' = LoopAt(n, pending, Len(pending))
  /\ UNCHANGED <<execVars, pending, enabled, excluded, cs, inflight, arrived,
                 owed, spent>>

\* An entry is resolved again when its last flag is set.
CompleteWithOne(args) == \E m \in DOMAIN args : args[m]   \* wrong variant
Complete(args) == \A m \in DOMAIN args : args[m]

\* A flag that was set before is not news.
NewsAlways(e, n) == TRUE                                   \* wrong variant
News(e, n) == ~ e.args[n]

\* The loop body.  A fetched function is enabled, whatever the exclude list
\* says (the failure branch of EnableFunction is for unknown functions, which
\* are never fetched).  The index goes down by one, in the table as it is then.
Visit ==
  /\ scan # Idle
  /\ LET n    == scan[1]
         i    == scan[2]
         e    == pending[i]
         on   == enabled \union ({n} \intersect Funcs)
         args == [e.args EXCEPT ![n] = TRUE]
         tbl  == [pending EXCEPT ![i].args = args]
     IN  /\ enabled' = on
         /\ \/ /\ News(e, n) /\ Complete(args)
               /\ ResolveAndHandleDecisions(e.id, args, tbl, on, owed)
            \/ /\ ~ (News(e, n) /\ Complete(args))
               /\ pending' = tbl
               /\ UNCHANGED <<execVars, sending, inflight, owed>>
         /\ scan' = LoopAt(n, pending', i - 1)
  /\ UNCHANGED <<excluded, cs, delivering, arrived, spent>>

ScheduledExecutionEnd(j) ==
  /\ scan = Idle
  /\ Exec!ScheduledExecutionEnd(j)
  /\ owed' = owed \ SameName(j)
  /\ pending' = IF Exec!StartsHead(Exec!Released(free, j))
                THEN DeletePendingContentTableEntry(pending, Head(waitingList))
                ELSE pending
  /\ UNCHANGED <<sending, enabled, excluded, cs, inflight, delivering, scan,
                 arrived, spent>>

-----------------------------------------------------------------------------
Disturb(kind) ==
  /\ spent[kind] < Budget[kind]
  /\ spent' = [spent EXCEPT ![kind] = @ + 1]

-----------------------------------------------------------------------------
(* Commands of the orchestrator, as the node's orchestration app carries   *)
(* them out: the exclude list is a vector, Disable appends, Enable removes *)
(* one occurrence.                                                         *)

Command ==
  /\ scan = Idle
  /\ Disturb("switch")
  /\ UNCHANGED <<execVars, pending, sending, cs, inflight, delivering, scan,
                 arrived, owed>>

\* Wrong variant: erases from the exclude list what is not in it.
EnableUnchecked(f) ==
  /\ Command
  /\ enabled' = enabled \union {f}
  /\ excluded' = [excluded EXCEPT ![f] = @ - 1]

EnableFunction(f) ==
  /\ Command
  /\ enabled' = enabled \union {f}
  /\ excluded' = [excluded EXCEPT ![f] = IF @ > 0 THEN @ - 1 ELSE 0]

DisableFunction(f) ==
  /\ Command
  /\ enabled' = enabled \ {f}
  /\ excluded' = [excluded EXCEPT ![f] = @ + 1]

-----------------------------------------------------------------------------
(* The NDN forwarder and the network (not part of the repository): a fetch *)
(* is answered or lost; the content store keeps what arrives until it goes *)
(* stale.  The application has no handler for a lost or rejected fetch.    *)

DataReturns(n) ==
  /\ scan = Idle
  /\ n \in inflight
  /\ inflight' = inflight \ {n}
  /\ delivering' = delivering \union {n}
  /\ cs' = cs \union ({n} \intersect Data)
  /\ UNCHANGED <<execVars, pending, sending, enabled, excluded, scan, arrived,
                 owed, spent>>

FetchLost(n) ==
  /\ scan = Idle
  /\ Disturb("lost")
  /\ n \in inflight
  /\ inflight' = inflight \ {n}
  /\ UNCHANGED <<execVars, pending, sending, enabled, excluded, cs, delivering,
                 scan, arrived, owed>>

CopyGoesStale(d) ==
  /\ scan = Idle
  /\ Disturb("stale")
  /\ d \in cs
  /\ cs' = cs \ {d}
  /\ UNCHANGED <<execVars, pending, sending, enabled, excluded, inflight,
                 delivering, scan, arrived, owed>>

-----------------------------------------------------------------------------
Init ==
  /\ Exec!Init
  /\ pending = <<>>
  /\ sending = {}
  /\ enabled = InitEnabled
  /\ excluded = [f \in Funcs |-> 0]
  /\ cs \in SUBSET Data      \* left there by other nodes' traffic
  /\ inflight = {}
  /\ delivering = {}
  /\ scan = Idle
  /\ arrived = {}
  /\ owed = {}
  /\ spent = [d \in Disturbances |-> 0]

Next ==
  \/ \E j \in Jobs : OnInterest(j) \/ ScheduledExecutionEnd(j)
  \/ \E n \in Fetchable : OnData(n) \/ DataReturns(n) \/ FetchLost(n)
  \/ Visit
  \/ \E f \in Funcs : EnableFunction(f) \/ DisableFunction(f)
  \/ \E d \in Data : CopyGoesStale(d)

SafetySpec == Init /\ [][Next]_vars

\* Scheduled events happen, and the network answers what it does not lose.
Fairness ==
  /\ WF_vars(Visit)
  /\ WF_vars(\E j \in Jobs : ScheduledExecutionEnd(j))
  /\ WF_vars(\E n \in Fetchable : OnData(n))
  /\ WF_vars(\E n \in Fetchable : DataReturns(n))

Spec == SafetySpec /\ Fairness

-----------------------------------------------------------------------------
(* Properties.                                                             *)

Entry == [id : Jobs, args : UNION {[S -> BOOLEAN] : S \in SUBSET Fetchable}]

\* Each variable has its type.
TypeOK ==
  /\ Exec!TypeOK
  /\ pending \in Seq(Entry)
  /\ sending \subseteq Fetchable
  /\ enabled \subseteq Funcs
  /\ excluded \in [Funcs -> Nat]
  /\ cs \subseteq Data
  /\ inflight \subseteq Fetchable
  /\ delivering \subseteq Fetchable
  /\ scan \in {Idle} \union (Fetchable \X (1 .. Len(pending)))
  /\ arrived \subseteq Jobs
  /\ owed \subseteq arrived
  /\ spent \in [Disturbances -> Nat]

Waiting(e) == \E n \in DOMAIN e.args : ~ e.args[n]

\* What execution sees of this application is a legal history of
\* NfnExecution: no request is resolved to EXECUTE twice, whatever the order
\* of fetched data, stale copies, completed executions and commands.
ImplementsExecution == Exec!SafetySpec

\* The table may hold several entries of one request (a request that has to
\* fetch again is entered again), but at most one that still waits, and none
\* that waits for a request already executing, queued, answered or forwarded.
NoDoubleHandling ==
  /\ \A i, k \in 1 .. Len(pending) :
       pending[i].id = pending[k].id /\ Waiting(pending[i]) /\ Waiting(pending[k])
         => i = k
  /\ \A i \in 1 .. Len(pending) :
       Waiting(pending[i]) => pending[i].id \notin Exec!Resolved

\* The sending list is exactly the set of names whose data is on its way, as
\* long as the network loses nothing: one fetch per name however many
\* requests want it, and a new one once the data has been handed over.
SendingIsInFlight == spent["lost"] = 0 => sending = inflight \union delivering

\* A name some entry waits for has a fetch under way: its data will set the
\* flag.  The loop of OnData is what may not skip an entry.
\* (NFN-producer-app.cpp:346: "iterate backward to avoid position mis-matching")
WaitedForIsSent ==
  scan = Idle =>
    \A i \in 1 .. Len(pending), n \in Fetchable :
      n \in DOMAIN pending[i].args /\ ~ pending[i].args[n] => n \in sending

\* The loop skips none as long as no cached copy has gone stale, whatever fetches
\* are lost and whatever functions are switched.
WaitedForIsSentWhileFresh == spent["stale"] = 0 => WaitedForIsSent

\* Whoever waits for an answer from this node has a request under its Interest
\* name that executes, is queued, or waits in the table.
NoRequestForgotten ==
  \A j \in owed : \E k \in SameName(j) :
    \/ k \in running \union Exec!Queued
    \/ \E i \in 1 .. Len(pending) : pending[i].id = k /\ Waiting(pending[i])

\* Every request is answered, forwarded or rejected in the end, as long as no
\* fetch is lost and no copy goes stale: the application asks nothing again.
\* The requests are no more than Jobs here; of requests without an end
\* AnsweredUnlessOvertaken of NfnExecution speaks.
EveryRequestResolved ==
  \A j \in Jobs :
    (j \in owed) ~> (j \notin owed \/ spent["lost"] > 0 \/ spent["stale"] > 0)
=============================================================================
