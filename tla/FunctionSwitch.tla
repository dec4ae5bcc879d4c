---------------------------- MODULE FunctionSwitch ----------------------------
(***************************************************************************)
(* Orchestration by function switches: the management application          *)
(* (OrchestrationManagementApp) periodically reads the table that status   *)
(* reports have filled, decides which functions to disable and enable on   *)
(* which nodes and sends them commands, which the nodes' orchestration     *)
(* applications carry out.                                                 *)
(*                                                                         *)
(* Status polls and decisions have the same period and start two seconds   *)
(* apart, so they alternate.  Reports travel as in StatusReports, whose    *)
(* actions are conjuncts of those here; of the requests for computations   *)
(* only the counters matter.  The transport is NDN ("In-Band").            *)
(***************************************************************************)
EXTENDS StatusReports, SwitchCommands

CONSTANTS
  MaxTraffic,   \* bound on the requests that reach the nodes
  MaxLate,      \* bound on timers that fire while messages are under way
  MaxDrag       \* bound on functions fetched by a node itself

ASSUME SwitchBoundsAssumption == {MaxTraffic, MaxLate, MaxDrag} \subseteq Nat

VARIABLES
  excluded,   \* per node and function: occurrences in m_FuncExcludeList
  commands,   \* switch commands on their way to a node
  turn,       \* which timer fires next: "poll" or "orchestrate"
  dragging,   \* <<n, f>>: n has fetched f and the answer is on its way
  decision,   \* history: the last command carried out on a node for a function
  spent       \* requests, late timers and fetched functions so far

switchVars == <<vars, excluded, commands, turn, dragging, decision, spent>>

-----------------------------------------------------------------------------
\* Where the third pass decides what the second has decided, the two Interests
\* have one name and are one.
FunctionSwitchCommands == {Decision(table, d[1], d[2]) : d \in Decisions(table)}

-----------------------------------------------------------------------------
(* The timers.  Messages take milliseconds and the timers seconds, so a    *)
(* timer finds nothing under way unless the network is slow (or the        *)
(* interval is two seconds, which makes both timers fire at once).         *)

Quiet == requests = {} /\ replies = {} /\ commands = {}

Timer(t, next) ==
  /\ turn = t
  /\ turn' = next
  /\ \/ Quiet /\ UNCHANGED spent
     \/ ~ Quiet /\ spent.late < MaxLate /\ spent' = [spent EXCEPT !.late = @ + 1]

SendInterestPeriodic ==
  /\ Timer("poll", "orchestrate")
  /\ Ask("NodeStatusFetch")
  /\ UNCHANGED <<excluded, commands, dragging, decision>>

Orchestrate ==
  /\ Timer("orchestrate", "poll")
  /\ commands' = commands \union FunctionSwitchCommands
  /\ UNCHANGED <<node, table, requests, replies, lost, excluded, dragging, decision>>

-----------------------------------------------------------------------------
(* The node's orchestration application.                                   *)

FunctionSwitchHandler(c) ==
  LET n == c.to
      S == ToSet(c.funcs)
  IN  /\ c \in commands
      /\ commands' = commands \ {c}
      /\ node' = [node EXCEPT ![n].funcs = IF c.op = "Enable" THEN Enabled(@, S)
                                                               ELSE Disabled(@, S)]
      /\ excluded' = [excluded EXCEPT ![n] = ExcludeList(@, c.op, c.funcs)]
      /\ decision' = [decision EXCEPT ![n] = [f \in Funcs |->
                                                IF f \in S THEN c.op ELSE @[f]]]
      /\ UNCHANGED <<table, requests, replies, lost, turn, dragging, spent>>

-----------------------------------------------------------------------------
(* The node's producer application, as far as it meets orchestration.      *)

Spend(kind, bound) ==
  /\ spent[kind] < bound
  /\ spent' = [spent EXCEPT ![kind] = @ + 1]

\* A request for an enabled function that is not excluded is executed, others
\* are forwarded; a disabled function counts them as misses.
ExecuteAllowed(n, f) ==
  /\ Spend("traffic", MaxTraffic)
  /\ node[n].funcs[f].status /\ excluded[n][f] = 0
  /\ node[n].funcs[f].exe < MaxCount
  /\ node' = [node EXCEPT ![n].funcs[f].exe = @ + 1]
  /\ UNCHANGED <<table, requests, replies, lost, excluded, commands, turn,
                 dragging, decision>>

Forward(n, f) ==
  /\ Spend("traffic", MaxTraffic)
  /\ AddMissExecCounter(n, f)
  /\ UNCHANGED <<excluded, commands, turn, dragging, decision>>

\* Code drag: a disabled function is fetched, and enabled when it arrives.
FetchFunction(n, f) ==
  /\ Spend("drag", MaxDrag)
  /\ ~ node[n].funcs[f].status /\ excluded[n][f] = 0
  /\ dragging' = dragging \union {<<n, f>>}
  /\ UNCHANGED <<node, table, requests, replies, lost, excluded, commands, turn,
                 decision>>

FunctionArrives(n, f) ==
  /\ <<n, f>> \in dragging
  /\ dragging' = dragging \ {<<n, f>>}
  /\ node' = [node EXCEPT ![n].funcs = Enabled(@, {f})]
  /\ UNCHANGED <<table, requests, replies, lost, excluded, commands, turn,
                 decision, spent>>

-----------------------------------------------------------------------------
LoseCommand(c) ==
  /\ c \in commands
  /\ lost < MaxLost
  /\ lost' = lost + 1
  /\ commands' = commands \ {c}
  /\ UNCHANGED <<node, table, requests, replies, excluded, turn, dragging,
                 decision, spent>>

Others == UNCHANGED <<excluded, commands, turn, dragging, decision, spent>>

AnswerReport(n, kind) == StatusFetchHandler(n, kind) /\ Others
StoreReport(m)        == OnData(m) /\ Others
LoseReport            == Lose /\ Others

SwitchInit ==
  /\ Init
  /\ excluded = [n \in Nodes |-> [f \in Funcs |-> 0]]
  /\ commands = {}
  /\ turn = "poll"
  /\ dragging = {}
  /\ decision = [n \in Nodes |-> [f \in Funcs |-> "none"]]
  /\ spent = [traffic |-> 0, late |-> 0, drag |-> 0]

SwitchNext ==
  \/ SendInterestPeriodic
  \/ Orchestrate
  \/ \E n \in Nodes, k \in Kinds : AnswerReport(n, k)
  \/ \E m \in replies : StoreReport(m)
  \/ \E c \in commands : FunctionSwitchHandler(c) \/ LoseCommand(c)
  \/ LoseReport
  \/ \E n \in Nodes, f \in Funcs :
       \/ ExecuteAllowed(n, f) \/ Forward(n, f)
       \/ FetchFunction(n, f) \/ FunctionArrives(n, f)

\* Timers fire, and what the network does not lose arrives and is handled.
Fairness ==
  /\ WF_switchVars(SendInterestPeriodic)
  /\ WF_switchVars(Orchestrate)
  /\ WF_switchVars(\E n \in Nodes, k \in Kinds : AnswerReport(n, k))
  /\ WF_switchVars(\E m \in replies : StoreReport(m))
  /\ WF_switchVars(\E c \in commands : FunctionSwitchHandler(c))

SafetySpec == SwitchInit /\ [][SwitchNext]_switchVars
SwitchSpec == SafetySpec /\ Fairness

-----------------------------------------------------------------------------
(* Properties.                                                             *)

\* Each variable has its type, those of StatusReports theirs.
SwitchTypeOK ==
  /\ TypeOK
  /\ excluded \in [Nodes -> [Funcs -> Nat]]
  /\ commands \subseteq Command
  /\ turn \in {"poll", "orchestrate"}
  /\ dragging \subseteq Nodes \X Funcs
  /\ decision \in [Nodes -> [Funcs -> Ops \union {"none"}]]
  /\ spent \in [{"traffic", "late", "drag"} -> Nat]

\* As long as reports and commands arrive in time and no node has fetched a
\* function, the exclude list says of each function exactly what the
\* orchestrator's last command said of it.
Undisturbed == lost = 0 /\ spent.late = 0 /\ spent.drag = 0

ExcludedAsDecided ==
  Undisturbed =>
    \A n \in Nodes, f \in Funcs :
      excluded[n][f] = (IF decision[n][f] = "Disable" THEN 1 ELSE 0)

\* What is excluded is excluded by the orchestrator's decision, the last one
\* carried out.  (NFN-producer-app.cpp:437, where an excluded function is met:
\* "forward the request upstream as per orchestrator decision")
ExcludedByDecision ==
  \A n \in Nodes, f \in Funcs : excluded[n][f] > 0 => decision[n][f] = "Disable"

\* A function that is disabled on a node the orchestrator knows and misses
\* more than MissLow requests is enabled in the end, also when reports and
\* commands are lost.
MissedIsEnabled ==
  \A n \in Nodes, f \in Funcs :
    (n \in DOMAIN table /\ node[n].funcs[f].misses > MissLow)
      ~> node[n].funcs[f].status

\* When the requests have stopped, so do the commands, as long as no function
\* is a busy one: the passes do not undo one another's work for ever.
Settles == <>[](commands = {})
=============================================================================
