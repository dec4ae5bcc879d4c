----------------------- MODULE UdpOrchestration_proofs -----------------------
(***************************************************************************)
(* Theorems about UdpOrchestration: one scheduled call per running         *)
(* application, questions within their budget, and a table that never runs *)
(* ahead.                                                                  *)
(***************************************************************************)
EXTENDS UdpOrchestration, SwitchCommands_proofs

(* The inductive invariant.  It says of types only what it needs itself:   *)
(* what a command names matters for TypeOK alone, which is proved from it. *)

AppTypes ==
  /\ socket \in [Apps -> {"null", "open"}]
  /\ armed \in [Apps -> Nat] /\ sent \in [Apps -> Nat] /\ polls \in [Apps -> Nat]
  /\ stopped \subseteq Apps

\* A scheduled call has a socket and budget left; who never ran asked nothing;
\* a poll without a scheduled call has used the budget up.
Budget ==
  \A a \in Apps :
    /\ armed[a] <= 1
    /\ armed[a] = 1 => socket[a] = "open" /\ polls[a] < MaxPackets
    /\ socket[a] = "null" /\ a \notin stopped => polls[a] = 0
    /\ polls[a] <= MaxPackets
    /\ polls[a] <= sent[a]
    /\ a # App0 => sent[a] = polls[a]
    /\ Periodic[a] /\ socket[a] = "open" /\ armed[a] = 0 => sent[a] >= MaxPackets

NodeStates == [busy : Nat, funcs : [Funcs -> FuncState]]

NodeTypes ==
  /\ node \in [Nodes -> NodeStates]
  /\ excluded = [n \in Nodes |-> excluded[n]]
  /\ DOMAIN table \subseteq Nodes /\ table \in [DOMAIN table -> Entry]

\* A packet is for a node; a status question comes from an application.
Travel ==
  /\ \A p \in packets : p.to \in Nodes /\ (StatusQuestion(p) => p.from \in Apps)
  /\ \A r \in answers : r.to \in Apps /\ r.msg \in Message

\* No message under way, and no entry, has more executions than the node.
NeverAhead ==
  /\ \A r \in answers, f \in Funcs :
       r.msg.funcs[f].exe <= node[r.msg.from].funcs[f].exe
  /\ TableNeverAhead

IInv == AppTypes /\ Budget /\ NodeTypes /\ Travel

-----------------------------------------------------------------------------
LEMMA InitIInv == Init => IInv
<1> SUFFICES ASSUME Init PROVE IInv
  OBVIOUS
<1>1. AppTypes
  BY DEF Init, AppTypes
<1>2. Budget
  BY UdpBoundsAssumption DEF Init, Budget
<1>3. NodeTypes
  BY DEF Init, NodeTypes, NodeStates, FuncState
<1>4. Travel
  BY DEF Init, Travel
<1> QED
  BY <1>1, <1>2, <1>3, <1>4 DEF IInv

\* The number of commands of one decision is a number.
LEMMA DecisionsFinite ==
  ASSUME DOMAIN table \subseteq Nodes
  PROVE  Cardinality(Decisions(table)) \in Nat
<1>1. IsFiniteSet(Passes)
  <2>1. IsFiniteSet({"disable"})
    BY FS_Singleton
  <2>2. IsFiniteSet({"disable"} \union {"help"})
    BY <2>1, FS_AddElement
  <2>3. IsFiniteSet(({"disable"} \union {"help"}) \union {"miss"})
    BY <2>2, FS_AddElement
  <2>4. Passes = ({"disable"} \union {"help"}) \union {"miss"}
    BY DEF Passes
  <2> QED
    BY <2>3, <2>4
<1>2. IsFiniteSet(DOMAIN table)
  BY NodeAssumption, FS_Subset
<1>3. IsFiniteSet(Passes \X DOMAIN table)
  BY <1>1, <1>2, FS_Product
<1>4. Decisions(table) \subseteq Passes \X DOMAIN table
  BY DEF Decisions
<1> QED
  BY <1>3, <1>4, FS_Subset, FS_CardinalityType

-----------------------------------------------------------------------------
(* The applications' part of a step.                                       *)

LEMMA AppsStep == IInv /\ [Next]_vars => AppTypes' /\ Budget'
<1> SUFFICES ASSUME IInv, [Next]_vars PROVE AppTypes' /\ Budget'
  OBVIOUS
<1> USE DEF IInv, AppTypes, Budget
<1>1. CASE UNCHANGED apps
  BY <1>1 DEF apps
<1>2. ASSUME NEW a \in Apps, StartApplication(a) PROVE AppTypes' /\ Budget'
  BY <1>2, UdpBoundsAssumption DEF StartApplication, Armed
<1>3. ASSUME NEW a \in Apps, StopApplication(a) PROVE AppTypes' /\ Budget'
  BY <1>3 DEF StopApplication
<1>4. ASSUME NEW a \in Apps, Send(a) \/ SendOnce(a) PROVE AppTypes' /\ Budget'
  <2>1. armed[a] = 1 /\ socket[a] = "open" /\ polls[a] < MaxPackets
    BY <1>4 DEF Send, SendOnce, Transmit
  <2>2. /\ armed'[a] \in {0, 1} /\ (armed'[a] = 1 => sent[a] + 1 < MaxPackets)
        /\ Periodic[a] /\ armed'[a] = 0 => sent[a] + 1 >= MaxPackets
    BY <1>4, <2>1, UdpBoundsAssumption DEF Send, SendOnce, Transmit, Repeats
  <2>3. polls'[a] = polls[a] + 1 /\ sent'[a] = sent[a] + 1
    BY <1>4 DEF Send, SendOnce, Transmit
  <2>4. \A b \in Apps \ {a} : /\ armed'[b] = armed[b] /\ polls'[b] = polls[b]
                              /\ sent'[b] = sent[b]
    BY <1>4 DEF Send, SendOnce, Transmit
  <2>5. AppTypes'
    BY <1>4, <2>1, <2>2 DEF Send, SendOnce, Transmit
  <2>6. UNCHANGED <<socket, stopped>>
    BY <1>4 DEF Send, SendOnce, Transmit
  <2>7. Budget'
    BY <2>1, <2>2, <2>3, <2>4, <2>6, UdpBoundsAssumption
  <2> QED
    BY <2>5, <2>7
<1>5. CASE Orchestrate
  <2>1. Cardinality(Decisions(table)) \in Nat
    BY DecisionsFinite DEF NodeTypes
  <2>2. UNCHANGED apps \/ (/\ sent' = [sent EXCEPT ![App0] = @ + Cardinality(Decisions(table))]
                           /\ UNCHANGED <<socket, armed, polls, stopped>>)
    BY <1>5 DEF Orchestrate, AfterCommands
  <2>3. CASE UNCHANGED apps
    BY <2>3 DEF apps
  <2>4. CASE /\ sent' = [sent EXCEPT ![App0] = @ + Cardinality(Decisions(table))]
             /\ UNCHANGED <<socket, armed, polls, stopped>>
    <3>1. sent' \in [Apps -> Nat]
      BY <2>1, <2>4, AppAssumption
    <3>2. \A a \in Apps : sent'[a] >= sent[a] /\ (a # App0 => sent'[a] = sent[a])
      BY <2>1, <2>4, AppAssumption
    <3>3. MaxPackets \in Nat
      BY UdpBoundsAssumption
    <3>4. \A a \in Apps : sent[a] \in Nat /\ sent'[a] \in Nat /\ polls[a] \in Nat
      BY <3>1
    <3>5. AppTypes'
      BY <2>4, <3>1
    <3>6. Budget'
      <4> SUFFICES ASSUME NEW a \in Apps
                   PROVE  /\ polls[a] <= sent'[a] /\ (a # App0 => sent'[a] = polls[a])
                          /\ Periodic[a] /\ socket[a] = "open" /\ armed[a] = 0
                               => sent'[a] >= MaxPackets
        BY <2>4
      <4> QED
        BY <3>2, <3>3, <3>4
    <3> QED
      BY <3>5, <3>6
  <2> QED
    BY <2>2, <2>3, <2>4
<1> QED
  BY <1>1, <1>2, <1>3, <1>4, <1>5
  DEF Next, vars, HandleReadAnswer, StatusFetchHandler, FunctionSwitchHandler,
      Ignore, StopNode, BusyForward, OnNode, Execute, Miss, Lose

-----------------------------------------------------------------------------
(* The nodes' and the network's part of a step.                            *)

\* The table handles one answer; the rest of the state is as before.
LEMMA TableStep ==
  ASSUME IInv, NEW r \in answers, HandleReadAnswer(r)
  PROVE  /\ DOMAIN table' \subseteq Nodes /\ table' \in [DOMAIN table' -> Entry]
         /\ \A n \in DOMAIN table' :
              \/ n \in DOMAIN table /\ table'[n].current.funcs = table[n].current.funcs
              \/ n = r.msg.from /\ table'[n].current.funcs = r.msg.funcs
<1>1. r.msg \in Message /\ DOMAIN table \subseteq Nodes /\ table \in [DOMAIN table -> Entry]
  BY DEF IInv, Travel, NodeTypes
<1>2. table' = HandleMessage(table, r.msg) \/ table' = table
  BY DEF HandleReadAnswer
<1>3. CASE table' = HandleMessage(table, r.msg)
  BY <1>1, <1>3, HandledTable, HandledCurrent
<1> QED
  BY <1>1, <1>2, <1>3

\* The report a node makes.
Report(p) ==
  [from |-> p.to, kind |-> p.act, cpu |-> Cores[p.to], ram |-> 0,
   busy |-> node[p.to].busy, funcs |-> node[p.to].funcs]

LEMMA ReportIsMessage ==
  ASSUME IInv, NEW p \in packets, StatusQuestion(p)
  PROVE  Report(p) \in Message
<1>1. p.to \in Nodes /\ p.act \in Kinds
  BY DEF IInv, Travel, StatusQuestion
<1>2. node[p.to] \in NodeStates
  BY <1>1 DEF IInv, NodeTypes
<1>3. Cores[p.to] \in Nat
  BY <1>1, NodeAssumption
<1> QED
  BY <1>1, <1>2, <1>3 DEF Report, Message, NodeStates

\* A request that is executed or missed counts, and changes nothing else.
LEMMA CountedStep ==
  ASSUME IInv, NEW n \in Nodes, NEW f \in Funcs, Execute(n, f) \/ Miss(n, f)
  PROVE  \E e \in FuncState :
           /\ node' = [node EXCEPT ![n].funcs[f] = e]
           /\ e.status = node[n].funcs[f].status
           /\ e.exe \in {node[n].funcs[f].exe, node[n].funcs[f].exe + 1}
<1>1. node[n].funcs[f] \in FuncState
  BY DEF IInv, NodeTypes, NodeStates
<1> DEFINE s == node[n].funcs[f]
<1>2. CASE Execute(n, f)
  <2>1. node' = [node EXCEPT ![n].funcs[f] = [s EXCEPT !.exe = @ + 1]]
    BY <1>2 DEF Execute
  <2>2. [s EXCEPT !.exe = @ + 1] \in FuncState
    BY <1>1 DEF FuncState
  <2>3. /\ [s EXCEPT !.exe = @ + 1].status = s.status
        /\ [s EXCEPT !.exe = @ + 1].exe = s.exe + 1
    BY <1>1 DEF FuncState
  <2> QED
    BY <2>1, <2>2, <2>3
<1>3. CASE Miss(n, f)
  <2>1. node' = [node EXCEPT ![n].funcs[f] = [s EXCEPT !.misses = @ + 1]]
    BY <1>3 DEF Miss
  <2>2. [s EXCEPT !.misses = @ + 1] \in FuncState
    BY <1>1 DEF FuncState
  <2>3. /\ [s EXCEPT !.misses = @ + 1].status = s.status
        /\ [s EXCEPT !.misses = @ + 1].exe = s.exe
    BY <1>1 DEF FuncState
  <2> QED
    BY <2>1, <2>2, <2>3
<1> QED
  BY <1>2, <1>3

LEMMA NodesStep == IInv /\ [Next]_vars => NodeTypes' /\ Travel'
<1> SUFFICES ASSUME IInv, [Next]_vars PROVE NodeTypes' /\ Travel'
  OBVIOUS
<1> USE DEF NodeTypes, Travel
<1>1. CASE UNCHANGED <<nodes, table, net>>
  BY <1>1 DEF nodes, net, IInv, StatusQuestion
<1>2. ASSUME NEW a \in Apps, Send(a) \/ SendOnce(a) PROVE NodeTypes' /\ Travel'
  <2> DEFINE q == [from |-> a, no |-> sent[a], to |-> Peer[a], act |-> Payload(a)]
  <2>1. packets' = packets \union {q} /\ answers' = answers
    BY <1>2 DEF Send, SendOnce, Transmit
  <2>2. q.to \in Nodes /\ q.from \in Apps /\ q.act # "FunctionSwitch"
    BY AppAssumption DEF Payload, Kinds
  <2> HIDE DEF q
  <2>3. Travel'
    BY <2>1, <2>2 DEF IInv, StatusQuestion
  <2> QED
    BY <1>2, <2>3 DEF Send, SendOnce, Transmit, nodes, IInv
<1>3. CASE Orchestrate
  <2>1. \A p \in Commands : p.to \in Nodes /\ p.act = "FunctionSwitch"
    BY AppAssumption DEF Commands, Address
  <2>2. packets' \subseteq packets \union Commands /\ answers' = answers
    BY <1>3 DEF Orchestrate
  <2>3. Travel'
    BY <2>1, <2>2, AppAssumption DEF IInv, StatusQuestion, Kinds
  <2> QED
    BY <1>3, <2>3 DEF Orchestrate, nodes, IInv
<1>4. ASSUME NEW r \in answers, HandleReadAnswer(r) PROVE NodeTypes' /\ Travel'
  <2>1. DOMAIN table' \subseteq Nodes /\ table' \in [DOMAIN table' -> Entry]
    BY <1>4, TableStep
  <2> QED
    BY <1>4, <2>1 DEF HandleReadAnswer, nodes, IInv, StatusQuestion
<1>5. ASSUME NEW p \in packets, StatusFetchHandler(p) PROVE NodeTypes' /\ Travel'
  <2>1. p.to \in Nodes /\ p.from \in Apps /\ StatusQuestion(p)
    BY <1>5 DEF StatusFetchHandler, IInv
  <2>2. Report(p) \in Message
    BY <2>1, ReportIsMessage
  <2>3. answers' = answers \union {[to |-> p.from, no |-> p.no, msg |-> Report(p)]}
    BY <1>5 DEF StatusFetchHandler, Report
  <2>4. packets' \subseteq packets
    BY <1>5 DEF StatusFetchHandler, Arrives
  <2>5. Travel'
    BY <2>1, <2>2, <2>3, <2>4 DEF IInv, StatusQuestion
  <2>6. node' \in [Nodes -> NodeStates]
    BY <1>5, <2>1 DEF StatusFetchHandler, AfterReport, IInv, NodeStates
  <2> QED
    BY <1>5, <2>5, <2>6 DEF StatusFetchHandler, IInv
<1>6. ASSUME NEW p \in packets, FunctionSwitchHandler(p) PROVE NodeTypes' /\ Travel'
  <2>1. p.to \in Nodes /\ node[p.to].funcs \in [Funcs -> FuncState]
    BY DEF IInv, NodeStates
  <2> DEFINE S == ToSet(Switched(p.cmd.funcs))
             fs == IF p.cmd.op = "Enable" THEN Enabled(node[p.to].funcs, S)
                                          ELSE Disabled(node[p.to].funcs, S)
  <2>2. fs \in [Funcs -> FuncState]
    BY <2>1, SwitchedFunctions
  <2>3. node' = [node EXCEPT ![p.to].funcs = fs]
    BY <1>6 DEF FunctionSwitchHandler
  <2> HIDE DEF fs
  <2>4. node' \in [Nodes -> NodeStates]
    BY <2>1, <2>2, <2>3 DEF IInv, NodeStates
  <2>5. Travel'
    BY <1>6 DEF FunctionSwitchHandler, Arrives, IInv, StatusQuestion
  <2> QED
    BY <1>6, <2>4, <2>5 DEF FunctionSwitchHandler, IInv
<1>7. ASSUME NEW p \in packets, Ignore(p) PROVE NodeTypes' /\ Travel'
  BY <1>7 DEF Ignore, Arrives, nodes, IInv, StatusQuestion
<1>8. ASSUME NEW n \in Nodes, StopNode(n) PROVE NodeTypes' /\ Travel'
  BY <1>8 DEF StopNode, net, IInv, StatusQuestion
<1>9. ASSUME NEW n \in Nodes, BusyForward(n) PROVE NodeTypes' /\ Travel'
  BY <1>9 DEF BusyForward, OnNode, net, IInv, StatusQuestion, NodeStates
<1>10. ASSUME NEW n \in Nodes, NEW f \in Funcs, Execute(n, f) \/ Miss(n, f)
       PROVE  NodeTypes' /\ Travel'
  <2>1. PICK e \in FuncState : node' = [node EXCEPT ![n].funcs[f] = e]
    BY <1>10, CountedStep
  <2>2. node[n] \in NodeStates
    BY DEF IInv
  <2>3. node' \in [Nodes -> NodeStates]
    BY <2>1, <2>2 DEF IInv, NodeStates
  <2> QED
    BY <1>10, <2>3 DEF Execute, Miss, OnNode, net, IInv, StatusQuestion
<1>11. CASE Lose
  BY <1>11 DEF Lose, nodes, IInv, StatusQuestion
<1> QED
  BY <1>1, <1>2, <1>3, <1>4, <1>5, <1>6, <1>7, <1>8, <1>9, <1>10, <1>11
  DEF Next, vars, StartApplication, StopApplication

\* The inductive invariant holds.
THEOREM Invariant == SafetySpec => []IInv
<1>1. IInv /\ [Next]_vars => IInv'
  BY AppsStep, NodesStep DEF IInv
<1> QED
  BY <1>1, InitIInv, PTL DEF SafetySpec

-----------------------------------------------------------------------------
(* Type correctness.                                                       *)

\* Losing the last function of a command leaves functions.
LEMMA SwitchedType ==
  ASSUME NEW fs \in Seq(Funcs)
  PROVE  Switched(fs) \in Seq(Funcs)
  BY DEF Switched, Front

LEMMA SpendType ==
  ASSUME spent \in [{"traffic", "decisions", "faults"} -> Nat],
         NEW k \in {"traffic", "decisions", "faults"}, NEW bound, Spend(k, bound)
  PROVE  spent' \in [{"traffic", "decisions", "faults"} -> Nat]
  BY DEF Spend

\* What the invariant leaves open.
OtherTypes ==
  /\ down \subseteq Nodes
  /\ excluded \in [Nodes -> [Funcs -> Nat]]
  /\ packets \subseteq Question \union Switch
  /\ answers \subseteq [to : Apps, no : Nat, msg : Message]
  /\ spent \in [{"traffic", "decisions", "faults"} -> Nat]
  /\ crashed \in BOOLEAN

LEMMA OtherTypesNext == IInv /\ OtherTypes /\ [Next]_vars => OtherTypes'
<1> SUFFICES ASSUME IInv, OtherTypes, [Next]_vars PROVE OtherTypes'
  OBVIOUS
<1> USE DEF OtherTypes
<1>1. CASE UNCHANGED vars
  BY <1>1 DEF vars, nodes, net
<1>2. ASSUME NEW a \in Apps, StartApplication(a) PROVE OtherTypes'
  BY <1>2 DEF StartApplication, nodes, net
<1>3. ASSUME NEW a \in Apps, StopApplication(a) PROVE OtherTypes'
  BY <1>3, SpendType DEF StopApplication, nodes, net
<1>4. ASSUME NEW a \in Apps, Send(a) \/ SendOnce(a) PROVE OtherTypes'
  <2> DEFINE q == [from |-> a, no |-> sent[a], to |-> Peer[a], act |-> Payload(a)]
  <2>1. q \in Question
    BY AppAssumption DEF Question, Payload, IInv, AppTypes
  <2>2. packets' = packets \union {q} /\ UNCHANGED <<nodes, answers, spent, crashed>>
    BY <1>4 DEF Send, SendOnce, Transmit
  <2> HIDE DEF q
  <2> QED
    BY <2>1, <2>2 DEF nodes
<1>5. ASSUME NEW r \in answers, HandleReadAnswer(r) PROVE OtherTypes'
  BY <1>5 DEF HandleReadAnswer, nodes
<1>6. CASE Orchestrate
  <2>1. DOMAIN table \subseteq Nodes /\ table \in [DOMAIN table -> Entry]
    BY DEF IInv, NodeTypes
  <2>2. \A d \in Decisions(table) : Decision(table, d[1], d[2]) \in Command /\ d[1] \in Passes
    BY <2>1, DecisionNames DEF Decisions
  <2>3. sent[App0] \in Nat /\ Peer[App0] \in Nodes
    BY AppAssumption DEF IInv, AppTypes
  <2>4. Commands \subseteq Switch
    BY <2>2, <2>3 DEF Commands, Address, Switch
  <2>5. packets' \subseteq packets \union Commands /\ crashed' \in BOOLEAN
    BY <1>6 DEF Orchestrate
  <2>6. spent' \in [{"traffic", "decisions", "faults"} -> Nat]
    BY <1>6, SpendType DEF Orchestrate
  <2> QED
    BY <1>6, <2>4, <2>5, <2>6 DEF Orchestrate, nodes
<1>7. ASSUME NEW p \in packets, StatusFetchHandler(p) PROVE OtherTypes'
  <2>1. p.from \in Apps /\ StatusQuestion(p)
    BY <1>7 DEF StatusFetchHandler, IInv, Travel
  <2>2. p.no \in Nat
    BY DEF Question, Switch
  <2>3. Report(p) \in Message
    BY <2>1, ReportIsMessage
  <2>4. answers' = answers \union {[to |-> p.from, no |-> p.no, msg |-> Report(p)]}
    BY <1>7 DEF StatusFetchHandler, Report
  <2> QED
    BY <1>7, <2>1, <2>2, <2>3, <2>4 DEF StatusFetchHandler, Arrives
<1>8. ASSUME NEW p \in packets, FunctionSwitchHandler(p) PROVE OtherTypes'
  <2>1. p \in Switch
    BY <1>8 DEF FunctionSwitchHandler, Question, Kinds
  <2>2. p.to \in Nodes /\ p.cmd.funcs \in Seq(Funcs)
    BY <2>1 DEF Switch, Command
  <2>3. Switched(p.cmd.funcs) \in Seq(Funcs)
    BY <2>2, SwitchedType
  <2>4. ExcludeList(excluded[p.to], p.cmd.op, Switched(p.cmd.funcs)) \in [Funcs -> Nat]
    BY <2>2, <2>3, ExcludeListType
  <2>5. excluded' \in [Nodes -> [Funcs -> Nat]]
    BY <1>8, <2>2, <2>4 DEF FunctionSwitchHandler
  <2> QED
    BY <1>8, <2>5 DEF FunctionSwitchHandler, Arrives
<1>9. ASSUME NEW p \in packets, Ignore(p) PROVE OtherTypes'
  BY <1>9 DEF Ignore, Arrives, nodes
<1>10. ASSUME NEW n \in Nodes, StopNode(n) PROVE OtherTypes'
  BY <1>10, SpendType DEF StopNode, net
<1>11. ASSUME NEW n \in Nodes, NEW f, BusyForward(n) \/ Execute(n, f) \/ Miss(n, f)
       PROVE  OtherTypes'
  BY <1>11, SpendType DEF BusyForward, Execute, Miss, OnNode, net
<1>12. CASE Lose
  BY <1>12, SpendType DEF Lose, nodes
<1> QED
  BY <1>1, <1>2, <1>3, <1>4, <1>5, <1>6, <1>7, <1>8, <1>9, <1>10, <1>11, <1>12 DEF Next

\* Every variable keeps its type; in particular, a command that reaches a node
\* comes from a decision, also when its last function has been cut off.
THEOREM TypeCorrect == SafetySpec => []TypeOK
<1>1. ASSUME Init PROVE OtherTypes
  <2>1. excluded \in [Nodes -> [Funcs -> Nat]]
    BY <1>1 DEF Init
  <2>2. /\ down = {} /\ packets = {} /\ answers = {} /\ crashed = FALSE
        /\ spent = [k \in {"traffic", "decisions", "faults"} |-> 0]
    BY <1>1 DEF Init
  <2> QED
    BY <2>1, <2>2 DEF OtherTypes
<1>2. IInv /\ OtherTypes => TypeOK
  BY DEF IInv, AppTypes, NodeTypes, NodeStates, OtherTypes, TypeOK
<1> QED
  BY <1>1, <1>2, OtherTypesNext, Invariant, PTL DEF SafetySpec

-----------------------------------------------------------------------------
\* One scheduled call per application, and only while it runs: the assertion at
\* the head of Send never fails.
THEOREM OneSendEventHolds == SafetySpec => []OneSendEvent
<1>1. IInv => OneSendEvent
  BY DEF IInv, Budget, OneSendEvent
<1> QED
  BY <1>1, Invariant, PTL

\* No application puts more than MaxPackets questions, whatever commands share
\* its socket; only App0 sends anything else; and a running poll that has no
\* scheduled call has sent the whole budget, questions and commands together.
\* (Nothing holds commands back, and they do not unschedule a question.)
THEOREM PollsWithinBudgetHolds == SafetySpec => []PollsWithinBudget
<1>1. IInv => PollsWithinBudget
  BY DEF IInv, Budget, PollsWithinBudget
<1> QED
  BY <1>1, Invariant, PTL
-----------------------------------------------------------------------------
\* The steps that touch the nodes.
LEMMA NodeSteps ==
  ASSUME [Next]_vars
  PROVE  \/ UNCHANGED <<node, excluded>>
         \/ \E p \in packets : FunctionSwitchHandler(p) \/ StatusFetchHandler(p)
         \/ \E n \in Nodes : BusyForward(n)
         \/ \E n \in Nodes, f \in Funcs : Execute(n, f) \/ Miss(n, f)
<1>1. CASE UNCHANGED vars
  BY <1>1 DEF vars, nodes
<1>2. ASSUME NEW a \in Apps, StartApplication(a) \/ StopApplication(a) \/ Send(a) \/ SendOnce(a)
      PROVE  UNCHANGED <<node, excluded>>
  BY <1>2 DEF StartApplication, StopApplication, Send, SendOnce, Transmit, nodes
<1>3. ASSUME NEW r \in answers, HandleReadAnswer(r) PROVE UNCHANGED <<node, excluded>>
  BY <1>3 DEF HandleReadAnswer, nodes
<1>4. CASE Orchestrate
  BY <1>4 DEF Orchestrate, nodes
<1>5. ASSUME NEW p \in packets, Ignore(p) PROVE UNCHANGED <<node, excluded>>
  BY <1>5 DEF Ignore, nodes
<1>6. ASSUME NEW n \in Nodes, StopNode(n) PROVE UNCHANGED <<node, excluded>>
  BY <1>6 DEF StopNode
<1>7. CASE Lose
  BY <1>7 DEF Lose, nodes
<1> QED
  BY <1>1, <1>2, <1>3, <1>4, <1>5, <1>6, <1>7 DEF Next

\* Execution counters only grow.
LEMMA CountersGrow ==
  ASSUME IInv, [Next]_vars, NEW n \in Nodes, NEW f \in Funcs
  PROVE  node'[n].funcs[f].exe >= node[n].funcs[f].exe
<1>1. node \in [Nodes -> NodeStates] /\ node[n].funcs \in [Funcs -> FuncState]
  BY DEF IInv, NodeTypes, NodeStates
<1>2. node[n].funcs[f].exe \in Nat
  BY <1>1 DEF FuncState
<1>3. CASE UNCHANGED node
  BY <1>2, <1>3
<1>4. ASSUME NEW p \in packets, FunctionSwitchHandler(p)
      PROVE  node'[n].funcs[f].exe = node[n].funcs[f].exe
  <2> DEFINE S == ToSet(Switched(p.cmd.funcs))
             fs == IF p.cmd.op = "Enable" THEN Enabled(node[p.to].funcs, S)
                                          ELSE Disabled(node[p.to].funcs, S)
  <2>1. node[p.to].funcs \in [Funcs -> FuncState]
    BY <1>1 DEF IInv, Travel, NodeStates
  <2>2. fs[f].exe = node[p.to].funcs[f].exe
    BY <2>1, SwitchedFunctions
  <2>3. node' = [node EXCEPT ![p.to].funcs = fs]
    BY <1>4 DEF FunctionSwitchHandler
  <2> HIDE DEF fs
  <2> QED
    BY <2>2, <2>3, <1>1 DEF NodeStates
<1>5. ASSUME NEW p \in packets, StatusFetchHandler(p)
      PROVE  node'[n].funcs = node[n].funcs
  BY <1>5, <1>1 DEF StatusFetchHandler, AfterReport, NodeStates
<1>6. ASSUME NEW m \in Nodes, NEW g \in Funcs, Execute(m, g) \/ Miss(m, g)
      PROVE  \/ node'[n].funcs[f].exe = node[n].funcs[f].exe
             \/ node'[n].funcs[f].exe = node[n].funcs[f].exe + 1
  <2>1. PICK e \in FuncState :
          /\ node' = [node EXCEPT ![m].funcs[g] = e]
          /\ e.exe \in {node[m].funcs[g].exe, node[m].funcs[g].exe + 1}
    BY <1>6, CountedStep
  <2> QED
    BY <2>1, <1>1 DEF NodeStates
<1>7. ASSUME NEW m \in Nodes, BusyForward(m)
      PROVE  node'[n].funcs = node[n].funcs
  BY <1>7, <1>1 DEF BusyForward, NodeStates
<1> QED
  BY <1>2, <1>3, <1>4, <1>5, <1>6, <1>7, NodeSteps

\* A report is a copy of counters that only grow, so that neither it nor the
\* entry made from it is ever ahead of the node, in whatever order they arrive.
THEOREM TableNeverAheadHolds == SafetySpec => []TableNeverAhead
<1>1. Init => NeverAhead
  BY DEF Init, NeverAhead, TableNeverAhead
<1>2. IInv /\ IInv' /\ NeverAhead /\ [Next]_vars => NeverAhead'
  <2> SUFFICES ASSUME IInv, IInv', NeverAhead, [Next]_vars PROVE NeverAhead'
    OBVIOUS
  <2>1. \A n \in Nodes, f \in Funcs : /\ node'[n].funcs[f].exe >= node[n].funcs[f].exe
                                      /\ node'[n].funcs[f].exe \in Nat
                                      /\ node[n].funcs[f].exe \in Nat
    BY CountersGrow DEF IInv, NodeTypes, NodeStates, FuncState
  <2>2. \A r \in answers, f \in Funcs : r.msg.from \in Nodes /\ r.msg.funcs[f].exe \in Nat
    BY DEF IInv, Travel, Message, FuncState
  <2>3. \A n \in DOMAIN table, f \in Funcs : n \in Nodes /\ table[n].current.funcs[f].exe \in Nat
    BY DEF IInv, NodeTypes, Entry, Info, FuncState
  <2>4. ASSUME NEW r \in answers', NEW f \in Funcs
        PROVE  r.msg.funcs[f].exe <= node'[r.msg.from].funcs[f].exe
    <3>1. CASE r \in answers
      BY <3>1, <2>1, <2>2 DEF NeverAhead
    <3>2. CASE r \notin answers
      <4>1. PICK p \in packets : StatusFetchHandler(p)
        BY <3>2 DEF Next, vars, net, StartApplication, StopApplication, Send, SendOnce, Transmit, HandleReadAnswer,
             Orchestrate, FunctionSwitchHandler, Ignore, StopNode, BusyForward, Execute, Miss,
             OnNode, Lose
      <4>2. r.msg = Report(p)
        BY <3>2, <4>1 DEF StatusFetchHandler, Report
      <4>3. p.to \in Nodes /\ r.msg.from = p.to /\ r.msg.funcs = node[p.to].funcs
        BY <4>1, <4>2 DEF Report, IInv, Travel
      <4> QED
        BY <4>3, <2>1
    <3> QED
      BY <3>1, <3>2
  <2>5. ASSUME NEW n \in DOMAIN table', NEW f \in Funcs
        PROVE  table'[n].current.funcs[f].exe <= node'[n].funcs[f].exe
    <3>1. CASE UNCHANGED table
      BY <3>1, <2>1, <2>3 DEF NeverAhead, TableNeverAhead
    <3>2. CASE \E r \in answers : HandleReadAnswer(r)
      <4>1. PICK r \in answers : HandleReadAnswer(r)
        BY <3>2
      <4>2. CASE n \in DOMAIN table /\ table'[n].current.funcs = table[n].current.funcs
        BY <4>2, <2>1, <2>3 DEF NeverAhead, TableNeverAhead
      <4>3. CASE n = r.msg.from /\ table'[n].current.funcs = r.msg.funcs
        BY <4>3, <2>1, <2>2 DEF NeverAhead
      <4> QED
        BY <4>1, <4>2, <4>3, TableStep
    <3> QED
      BY <3>1, <3>2 DEF Next, vars, StartApplication, StopApplication, Send, SendOnce, Transmit, Orchestrate,
         StatusFetchHandler, FunctionSwitchHandler, Ignore, StopNode, BusyForward, Execute,
         Miss, OnNode, Lose
  <2> QED
    BY <2>4, <2>5 DEF NeverAhead, TableNeverAhead
<1>3. NeverAhead => TableNeverAhead
  BY DEF NeverAhead
<1> QED
  BY <1>1, <1>2, <1>3, Invariant, PTL DEF SafetySpec
=============================================================================
