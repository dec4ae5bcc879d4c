------------------------ MODULE FunctionSwitch_proofs ------------------------
(***************************************************************************)
(* Theorems about StatusReports: its types, that no setter undoes another, *)
(* and that bootstrap values are kept.  And theorems about FunctionSwitch, *)
(* which extends it: its types, and that on a network that delivers in     *)
(* time the exclude list is the orchestrator's last word.                  *)
(***************************************************************************)
EXTENDS FunctionSwitch, SwitchCommands_proofs

NodeState == [cpu : Nat, ram : Nat, running : Nat, busy : Nat,
              funcs : [Funcs -> FuncState]]

-----------------------------------------------------------------------------
(* StatusReports.                                                          *)

ReportsTyped ==
  /\ node \in [Nodes -> NodeState]
  /\ DOMAIN table \subseteq Nodes /\ table \in [DOMAIN table -> Entry]
  /\ requests \subseteq Nodes \X Kinds
  /\ replies \subseteq Message
  /\ lost \in 0 .. MaxLost

\* Booking and releasing keep the type of what a node holds.
LEMMA WithResources ==
  ASSUME NEW s \in NodeState, NEW c \in Nat, NEW r \in Nat, NEW k \in Nat
  PROVE  [s EXCEPT !.cpu = c, !.ram = r, !.running = k] \in NodeState
  BY DEF NodeState

LEMMA ReportsInit == Init => ReportsTyped
<1>1. \A n \in Nodes : NodeInit(n) \in NodeState
  BY CoresAssumption DEF NodeInit, NodeState, FuncState
<1> QED
  BY <1>1, BoundsAssumption DEF Init, ReportsTyped, NodeState, Kinds

\* The messages between orchestrator and nodes.
LEMMA ReportTypes ==
  ASSUME ReportsTyped,
         \/ Ask("NodeStatusFetch")
         \/ \E n \in Nodes, k \in Kinds : StatusFetchHandler(n, k)
         \/ \E m \in replies : OnData(m)
         \/ Lose
  PROVE  ReportsTyped'
<1> USE DEF ReportsTyped
<1>1. CASE Ask("NodeStatusFetch")
  BY <1>1 DEF Ask, Kinds
<1>2. ASSUME NEW n \in Nodes, NEW k \in Kinds, StatusFetchHandler(n, k)
      PROVE  ReportsTyped'
  <2>1. [from |-> n, kind |-> k, cpu |-> node[n].cpu, ram |-> node[n].ram,
         busy |-> IF k = "BootstrapInfo" THEN 0 ELSE node[n].busy,
         funcs |-> node[n].funcs] \in Message
    BY DEF Message, NodeState
  <2>2. replies' \subseteq Message
    BY <1>2, <2>1 DEF StatusFetchHandler
  <2>3. node' \in [Nodes -> NodeState]
    BY <1>2 DEF StatusFetchHandler, NodeState
  <2> QED
    BY <1>2, <2>2, <2>3 DEF StatusFetchHandler, NodeState
<1>3. ASSUME NEW m \in replies, OnData(m)
      PROVE  ReportsTyped'
  <2>1. m \in Message
    OBVIOUS
  <2>2. DOMAIN table' \subseteq Nodes /\ table' \in [DOMAIN table' -> Entry]
    BY <1>3, <2>1, HandledTable DEF OnData
  <2> QED
    BY <1>3, <2>2 DEF OnData
<1>4. CASE Lose
  BY <1>4, BoundsAssumption DEF Lose
<1> QED
  BY <1>1, <1>2, <1>3, <1>4

\* What requests for computations change on a node.
LEMMA LoadTypes ==
  ASSUME ReportsTyped, NEW n \in Nodes,
         \/ ExecutionEnd(n) \/ AddNodeBusyCounter(n)
         \/ \E f \in Funcs : Execute(n, f) \/ AddMissExecCounter(n, f)
  PROVE  ReportsTyped'
<1>1. node \in [Nodes -> NodeState] /\ node[n] \in NodeState
  BY DEF ReportsTyped
<1>2. node[n].funcs \in [Funcs -> FuncState]
      /\ node[n].cpu \in Nat /\ node[n].ram \in Nat
      /\ node[n].running \in Nat /\ node[n].busy \in Nat
  BY <1>1 DEF NodeState
<1>3. \E st \in NodeState : node' = [node EXCEPT ![n] = st]
  <2>1. CASE ExecutionEnd(n)
    <3> DEFINE st == [node[n] EXCEPT !.cpu = @ + 1, !.ram = @ + 1, !.running = @ - 1]
    <3>1. node' = [node EXCEPT ![n] = st]
      BY <2>1 DEF ExecutionEnd
    <3>2. node[n].cpu + 1 \in Nat /\ node[n].ram + 1 \in Nat /\ node[n].running - 1 \in Nat
      BY <1>2, <2>1 DEF ExecutionEnd
    <3>3. st \in NodeState
      BY <1>1, <3>2, WithResources
    <3> QED
      BY <3>1, <3>3
  <2>2. CASE AddNodeBusyCounter(n)
    <3> DEFINE st == [node[n] EXCEPT !.busy = @ + 1]
    <3>1. node' = [node EXCEPT ![n] = st]
      BY <2>2 DEF AddNodeBusyCounter
    <3>2. st \in NodeState
      BY <1>1 DEF NodeState
    <3> QED
      BY <3>1, <3>2
  <2>3. ASSUME NEW f \in Funcs, Execute(n, f)
        PROVE  \E st \in NodeState : node' = [node EXCEPT ![n] = st]
    <3> DEFINE s  == [node[n].funcs[f] EXCEPT !.exe = @ + 1]
               fs == [node[n].funcs EXCEPT ![f] = s]
               st == [node[n] EXCEPT !.cpu = @ - 1, !.ram = @ - 1, !.running = @ + 1,
                              !.funcs = fs]
    <3>1. s \in FuncState
      BY <1>2 DEF FuncState
    <3>2. fs \in [Funcs -> FuncState]
      BY <1>2, <3>1
    <3>3. node[n].cpu - 1 \in Nat /\ node[n].ram - 1 \in Nat /\ node[n].running + 1 \in Nat
      <4>1. node[n].cpu > 0 /\ node[n].ram > 0
        BY <2>3 DEF Execute
      <4> QED
        BY <1>2, <4>1
    <3>4. st \in NodeState
      <4> HIDE DEF fs
      <4> QED
        BY <1>1, <3>2, <3>3 DEF NodeState
    <3>5. node' = [node EXCEPT ![n] = st]
      BY <1>1, <1>2, <2>3 DEF Execute, NodeState
    <3> QED
      BY <3>4, <3>5
  <2>4. ASSUME NEW f \in Funcs, AddMissExecCounter(n, f)
        PROVE  \E st \in NodeState : node' = [node EXCEPT ![n] = st]
    <3> DEFINE s  == [node[n].funcs[f] EXCEPT !.misses = @ + 1]
               fs == [node[n].funcs EXCEPT ![f] = s]
               st == [node[n] EXCEPT !.funcs = fs]
    <3>1. s \in FuncState
      BY <1>2 DEF FuncState
    <3>2. fs \in [Funcs -> FuncState]
      BY <1>2, <3>1
    <3>3. st \in NodeState
      BY <1>1, <3>2 DEF NodeState
    <3>4. node' = [node EXCEPT ![n] = st]
      BY <1>1, <1>2, <2>4 DEF AddMissExecCounter, NodeState
    <3> QED
      BY <3>3, <3>4
  <2> QED
    BY <2>1, <2>2, <2>3, <2>4
<1>4. node' \in [Nodes -> NodeState]
  BY <1>1, <1>3
<1>5. UNCHANGED <<table, requests, replies, lost>>
  BY DEF ExecutionEnd, AddNodeBusyCounter, Execute,
         AddMissExecCounter, OnNode
<1> QED
  BY <1>4, <1>5 DEF ReportsTyped

LEMMA ReportsNext == ReportsTyped /\ [Next]_vars => ReportsTyped'
<1> SUFFICES ASSUME ReportsTyped, [Next]_vars PROVE ReportsTyped'
  OBVIOUS
<1>1. CASE \/ Ask("NodeStatusFetch")
           \/ \E n \in Nodes, k \in Kinds : StatusFetchHandler(n, k)
           \/ \E m \in replies : OnData(m)
           \/ Lose
  BY <1>1, ReportTypes
<1>2. ASSUME NEW n \in Nodes, ExecutionEnd(n) \/ AddNodeBusyCounter(n)
      PROVE  ReportsTyped'
  BY <1>2, LoadTypes
<1>3. ASSUME NEW n \in Nodes, NEW f \in Funcs,
             Execute(n, f) \/ AddMissExecCounter(n, f)
      PROVE  ReportsTyped'
  BY <1>3, LoadTypes
<1>4. CASE UNCHANGED vars
  BY <1>4 DEF vars, ReportsTyped
<1> QED
  BY <1>1, <1>2, <1>3, <1>4 DEF Next

\* What is free and what the running executions hold is the whole node.
NodesWhole ==
  \A n \in Nodes : /\ node[n].cpu + node[n].running = Cores[n]
                  /\ node[n].ram + node[n].running = Ram[n]

LEMMA WholeInit == Init => NodesWhole
<1> SUFFICES ASSUME Init, NEW n \in Nodes
             PROVE  /\ node[n].cpu + node[n].running = Cores[n]
                    /\ node[n].ram + node[n].running = Ram[n]
  BY DEF NodesWhole
<1>1. node[n].cpu = Cores[n] /\ node[n].ram = Ram[n] /\ node[n].running = 0
  BY DEF Init, NodeInit
<1>2. Cores[n] \in Nat /\ Ram[n] \in Nat
  BY CoresAssumption
<1> QED
  BY <1>1, <1>2

\* Who neither starts nor ends an execution keeps its resources.
LEMMA WholeKept ==
  ASSUME NodesWhole,
         \A m \in Nodes : /\ node'[m].cpu = node[m].cpu /\ node'[m].ram = node[m].ram
                         /\ node'[m].running = node[m].running
  PROVE  NodesWhole'
  BY DEF NodesWhole

LEMMA WholeNext == ReportsTyped /\ NodesWhole /\ [Next]_vars => NodesWhole'
<1> SUFFICES ASSUME ReportsTyped, NodesWhole, [Next]_vars PROVE NodesWhole'
  OBVIOUS
<1>1. node \in [Nodes -> NodeState]
  BY DEF ReportsTyped
<1>2. \A n \in Nodes : node[n].cpu \in Nat /\ node[n].ram \in Nat /\ node[n].running \in Nat
  BY <1>1 DEF NodeState
<1>3. CASE Ask("NodeStatusFetch") \/ (\E m \in replies : OnData(m)) \/ Lose \/ UNCHANGED vars
  BY <1>3 DEF Ask, OnData, Lose, vars, NodesWhole
<1>4. ASSUME NEW n \in Nodes, NEW k \in Kinds, StatusFetchHandler(n, k) PROVE NodesWhole'
  BY <1>1, <1>4, WholeKept DEF StatusFetchHandler, NodeState
<1>5. ASSUME NEW n \in Nodes, ExecutionEnd(n) PROVE NodesWhole'
  BY <1>1, <1>2, <1>5 DEF ExecutionEnd, NodesWhole, NodeState
<1>6. ASSUME NEW n \in Nodes, AddNodeBusyCounter(n) PROVE NodesWhole'
  BY <1>1, <1>6, WholeKept DEF AddNodeBusyCounter, NodeState
<1>7. ASSUME NEW n \in Nodes, NEW f \in Funcs, Execute(n, f) PROVE NodesWhole'
  <2>1. \A m \in Nodes : m # n => node'[m] = node[m]
    BY <1>1, <1>7 DEF Execute
  <2>2. /\ node'[n].cpu = node[n].cpu - 1 /\ node'[n].ram = node[n].ram - 1
        /\ node'[n].running = node[n].running + 1
    BY <1>1, <1>7 DEF Execute, NodeState
  <2> QED
    BY <1>2, <2>1, <2>2 DEF NodesWhole
<1>8. ASSUME NEW n \in Nodes, NEW f \in Funcs, AddMissExecCounter(n, f) PROVE NodesWhole'
  BY <1>1, <1>8, WholeKept DEF AddMissExecCounter, NodeState
<1> QED
  BY <1>3, <1>4, <1>5, <1>6, <1>7, <1>8 DEF Next

LEMMA ReportsAreTypeOK == ReportsTyped /\ NodesWhole => TypeOK
  BY DEF ReportsTyped, NodesWhole, TypeOK, NodeState

\* Every variable of StatusReports keeps its type; in particular, a node's free
\* cores and RAM and what its running executions hold are always the whole
\* node: neither goes below zero nor above what the node started with
\* (CheckResource, BookResource, ReleaseResource).
THEOREM TypeCorrect == Spec => []TypeOK
  BY ReportsInit, ReportsNext, WholeInit, WholeNext, ReportsAreTypeOK, PTL DEF Spec

\* No step but the handling of a message changes the table.
LEMMA TableStep ==
  ASSUME [Next]_vars
  PROVE  table' = table \/ \E m \in replies : OnData(m)
  BY DEF Next, vars, Ask, StatusFetchHandler, Lose,
         ExecutionEnd, AddNodeBusyCounter, Execute,
         AddMissExecCounter, OnNode

\* No report overwrites what a node said at bootstrap (the setters are called
\* with defaultvalue = false, AddNodeToTable inserts only).
THEOREM InitialKept == Spec => InitialIsKept
<1>1. ASSUME ReportsTyped, [Next]_vars
      PROVE  \A n \in DOMAIN table : table'[n].initial = table[n].initial
  <2>1. CASE table' = table
    BY <2>1
  <2>2. ASSUME NEW m \in replies, OnData(m)
        PROVE  \A n \in DOMAIN table : table'[n].initial = table[n].initial
    <3>1. m \in Message /\ DOMAIN table \subseteq Nodes /\ table \in [DOMAIN table -> Entry]
      BY <1>1 DEF ReportsTyped
    <3> QED
      BY <2>2, <3>1, HandledTable DEF OnData
  <2> QED
    BY <1>1, <2>1, <2>2, TableStep
<1> QED
  BY <1>1, ReportsInit, ReportsNext, PTL DEF Spec, InitialIsKept

\* A status report that has been handled is in the table: RAM, busy counter and
\* functions survive the setters that follow (NodeStatusFetchHandler).
THEOREM StatusStored == Spec => StatusIsStored
<1> DEFINE Stored(m) ==
      OnData(m) /\ m.kind = "NodeStatusFetch" /\ m.from \in DOMAIN table =>
        LET c == table'[m.from].current
        IN  c.ram = m.ram /\ c.busy = m.busy /\ c.funcs = m.funcs
<1>1. ASSUME ReportsTyped, NEW m \in replies, OnData(m),
             m.kind = "NodeStatusFetch", m.from \in DOMAIN table
      PROVE  /\ table'[m.from].current.ram = m.ram
             /\ table'[m.from].current.busy = m.busy
             /\ table'[m.from].current.funcs = m.funcs
  <2>1. m \in Message /\ table[m.from] \in Entry
    BY <1>1 DEF ReportsTyped
  <2>2. table' = [table EXCEPT ![m.from] = Updated(table[m.from], m)]
    BY <1>1 DEF OnData, HandleMessage, NodeStatusFetchHandler
  <2>3. table'[m.from] = Updated(table[m.from], m)
    BY <2>2, <1>1 DEF ReportsTyped
  <2> QED
    BY <2>1, <2>3, UpdatedEntry
<1>2. ReportsTyped => \A m \in replies : Stored(m)
  BY <1>1
<1> QED
  BY <1>2, ReportsInit, ReportsNext, PTL DEF Spec, StatusIsStored

-----------------------------------------------------------------------------
(* Type correctness of FunctionSwitch.                                     *)

SwitchesTyped ==
  /\ excluded \in [Nodes -> [Funcs -> Nat]]
  /\ commands \subseteq Command
  /\ turn \in {"poll", "orchestrate"}
  /\ dragging \subseteq Nodes \X Funcs
  /\ decision \in [Nodes -> [Funcs -> Ops \union {"none"}]]
  /\ spent \in [{"traffic", "late", "drag"} -> Nat]

Types == ReportsTyped /\ SwitchesTyped

LEMMA TypesAreTypeOK == Types /\ NodesWhole => SwitchTypeOK
  BY ReportsAreTypeOK DEF Types, SwitchesTyped, SwitchTypeOK

\* A node may be given another state of its functions.
LEMMA WithFunctions ==
  ASSUME node \in [Nodes -> NodeState], NEW n \in Nodes,
         NEW fs \in [Funcs -> FuncState], node' = [node EXCEPT ![n].funcs = fs]
  PROVE  /\ node' \in [Nodes -> NodeState]
         /\ node'[n].funcs = fs
         /\ \A m \in Nodes : m # n => node'[m] = node[m]
<1>1. node' = [node EXCEPT ![n] = [node[n] EXCEPT !.funcs = fs]]
  OBVIOUS
<1>2. node[n] \in NodeState
  OBVIOUS
<1>3. [node[n] EXCEPT !.funcs = fs] \in NodeState /\ [node[n] EXCEPT !.funcs = fs].funcs = fs
  BY <1>2 DEF NodeState
<1> QED
  BY <1>1, <1>3

\* A request that is executed or missed counts, and changes nothing else of the
\* node.
LEMMA CountedFunctions ==
  ASSUME node \in [Nodes -> NodeState], NEW n \in Nodes, NEW f \in Funcs,
         ExecuteAllowed(n, f) \/ Forward(n, f)
  PROVE  \E fs \in [Funcs -> FuncState] :
           /\ node' = [node EXCEPT ![n].funcs = fs]
           /\ \A g \in Funcs : fs[g].status = node[n].funcs[g].status
<1> DEFINE s == node[n].funcs[f]
<1>1. node[n] \in NodeState
  OBVIOUS
<1>2. node[n].funcs \in [Funcs -> FuncState] /\ s \in FuncState
  BY <1>1 DEF NodeState
<1>3. PICK e \in FuncState : e.status = s.status /\ node' = [node EXCEPT ![n].funcs[f] = e]
  <2>1. CASE ExecuteAllowed(n, f)
    <3>1. node' = [node EXCEPT ![n].funcs[f] = [s EXCEPT !.exe = @ + 1]]
      BY <2>1 DEF ExecuteAllowed
    <3>2. [s EXCEPT !.exe = @ + 1] \in FuncState /\ [s EXCEPT !.exe = @ + 1].status = s.status
      BY <1>2 DEF FuncState
    <3> QED
      BY <3>1, <3>2
  <2>2. CASE Forward(n, f)
    <3>1. node' = [node EXCEPT ![n].funcs[f] = [s EXCEPT !.misses = @ + 1]]
      BY <2>2 DEF Forward, AddMissExecCounter
    <3>2. [s EXCEPT !.misses = @ + 1] \in FuncState
          /\ [s EXCEPT !.misses = @ + 1].status = s.status
      BY <1>2 DEF FuncState
    <3> QED
      BY <3>1, <3>2
  <2> QED
    BY <2>1, <2>2
<1> DEFINE fs == [node[n].funcs EXCEPT ![f] = e]
<1>4. node' = [node EXCEPT ![n].funcs = fs]
  BY <1>1, <1>2, <1>3
<1>5. fs \in [Funcs -> FuncState]
  BY <1>2, <1>3
<1>6. \A g \in Funcs : fs[g].status = node[n].funcs[g].status
  BY <1>2, <1>3
<1> QED
  BY <1>4, <1>5, <1>6

\* Commands carried out keep the types of what a node holds.
LEMMA SwitchedNode ==
  ASSUME Types, NEW c \in commands, FunctionSwitchHandler(c)
  PROVE  LET S  == ToSet(c.funcs)
             fs == node[c.to].funcs
         IN  /\ c \in Command
             /\ node'[c.to].funcs = IF c.op = "Enable" THEN Enabled(fs, S) ELSE Disabled(fs, S)
             /\ \A m \in Nodes : m # c.to => node'[m] = node[m]
             /\ node' \in [Nodes -> NodeState]
             /\ excluded' \in [Nodes -> [Funcs -> Nat]]
             /\ decision' \in [Nodes -> [Funcs -> Ops \union {"none"}]]
<1> DEFINE S   == ToSet(c.funcs)
           new == IF c.op = "Enable" THEN Enabled(node[c.to].funcs, S)
                                     ELSE Disabled(node[c.to].funcs, S)
<1>1. c \in Command /\ c.to \in Nodes /\ c.op \in Ops /\ c.funcs \in Seq(Funcs)
  BY DEF Types, SwitchesTyped, Command
<1>2. node \in [Nodes -> NodeState] /\ node[c.to].funcs \in [Funcs -> FuncState]
  BY <1>1 DEF Types, ReportsTyped, NodeState
<1>3. new \in [Funcs -> FuncState]
  BY <1>2, SwitchedFunctions
<1>4. node' = [node EXCEPT ![c.to].funcs = new]
  BY DEF FunctionSwitchHandler
<1> HIDE DEF new
<1>5. /\ node' \in [Nodes -> NodeState] /\ node'[c.to].funcs = new
      /\ \A m \in Nodes : m # c.to => node'[m] = node[m]
  BY <1>1, <1>2, <1>3, <1>4, WithFunctions
<1>6. excluded' \in [Nodes -> [Funcs -> Nat]]
  <2>1. excluded[c.to] \in [Funcs -> Nat]
    BY <1>1 DEF Types, SwitchesTyped
  <2>2. ExcludeList(excluded[c.to], c.op, c.funcs) \in [Funcs -> Nat]
    BY <1>1, <2>1, ExcludeListType
  <2> QED
    BY <2>2 DEF FunctionSwitchHandler, Types, SwitchesTyped
<1>7. decision' \in [Nodes -> [Funcs -> Ops \union {"none"}]]
  BY <1>1 DEF FunctionSwitchHandler, Types, SwitchesTyped
<1> QED
  BY <1>1, <1>5, <1>6, <1>7 DEF new

\* What is decided are commands.
LEMMA DecidedCommands ==
  ASSUME Types
  PROVE  FunctionSwitchCommands \subseteq Command
<1>1. DOMAIN table \subseteq Nodes /\ table \in [DOMAIN table -> Entry]
  BY DEF Types, ReportsTyped, SwitchesTyped
<1> QED
  BY <1>1, DecisionNames DEF FunctionSwitchCommands

LEMMA TypeInit == SwitchInit => Types
<1> SUFFICES ASSUME SwitchInit PROVE Types
  OBVIOUS
<1>1. ReportsTyped
  BY ReportsInit DEF SwitchInit
<1> QED
  BY <1>1 DEF SwitchInit, Types, SwitchesTyped, Ops

LEMMA TypeNext == Types /\ [SwitchNext]_switchVars => Types'
<1> SUFFICES ASSUME Types, [SwitchNext]_switchVars PROVE Types'
  OBVIOUS
<1>0. /\ node \in [Nodes -> NodeState]
      /\ spent \in [{"traffic", "late", "drag"} -> Nat]
  BY DEF Types, ReportsTyped, SwitchesTyped
<1>1. CASE SendInterestPeriodic
  <2>1. ReportsTyped'
    BY <1>1, ReportTypes DEF SendInterestPeriodic, Types
  <2>2. spent' \in [{"traffic", "late", "drag"} -> Nat] /\ turn' = "orchestrate"
    BY <1>0, <1>1 DEF SendInterestPeriodic, Timer
  <2> QED
    BY <1>1, <2>1, <2>2 DEF SendInterestPeriodic, Types, SwitchesTyped
<1>2. CASE Orchestrate
  <2>1. spent' \in [{"traffic", "late", "drag"} -> Nat] /\ turn' = "poll"
    BY <1>0, <1>2 DEF Orchestrate, Timer
  <2>2. commands' \subseteq Command
    BY <1>2, DecidedCommands DEF Orchestrate, Types, SwitchesTyped
  <2> QED
    BY <1>2, <2>1, <2>2 DEF Orchestrate, Types, ReportsTyped, SwitchesTyped
<1>3. ASSUME NEW n \in Nodes, NEW k \in Kinds, AnswerReport(n, k) PROVE Types'
  BY <1>3, ReportTypes DEF AnswerReport, Others, Types, SwitchesTyped
<1>4. ASSUME NEW m \in replies, StoreReport(m) PROVE Types'
  BY <1>4, ReportTypes DEF StoreReport, Others, Types, SwitchesTyped
<1>5. CASE LoseReport
  BY <1>5, ReportTypes DEF LoseReport, Others, Types, SwitchesTyped
<1>6. ASSUME NEW c \in commands, FunctionSwitchHandler(c) PROVE Types'
  <2>1. /\ node' \in [Nodes -> NodeState] /\ excluded' \in [Nodes -> [Funcs -> Nat]]
        /\ decision' \in [Nodes -> [Funcs -> Ops \union {"none"}]]
    BY <1>6, SwitchedNode
  <2> QED
    BY <1>6, <2>1 DEF FunctionSwitchHandler, Types, ReportsTyped, SwitchesTyped, NodeState
<1>7. ASSUME NEW c \in commands, LoseCommand(c) PROVE Types'
  BY <1>7, BoundsAssumption DEF LoseCommand, Types, ReportsTyped, SwitchesTyped
<1>8. ASSUME NEW n \in Nodes, NEW f \in Funcs, ExecuteAllowed(n, f) \/ Forward(n, f) PROVE Types'
  <2>1. node' \in [Nodes -> NodeState]
    BY <1>0, <1>8, CountedFunctions, WithFunctions
  <2>2. spent' \in [{"traffic", "late", "drag"} -> Nat]
    BY <1>0, <1>8 DEF ExecuteAllowed, Forward, Spend
  <2>3. UNCHANGED <<table, requests, replies, lost, excluded, commands, turn, dragging, decision>>
    BY <1>8 DEF ExecuteAllowed, Forward, AddMissExecCounter, OnNode
  <2> QED
    BY <2>1, <2>2, <2>3 DEF Types, ReportsTyped, SwitchesTyped
<1>9. ASSUME NEW n \in Nodes, NEW f \in Funcs, FetchFunction(n, f) PROVE Types'
  <2>1. spent' \in [{"traffic", "late", "drag"} -> Nat]
    BY <1>0, <1>9 DEF FetchFunction, Spend
  <2> QED
    BY <1>9, <2>1 DEF FetchFunction, Types, ReportsTyped, SwitchesTyped
<1>10. ASSUME NEW n \in Nodes, NEW f \in Funcs, FunctionArrives(n, f) PROVE Types'
  <2>1. node[n].funcs \in [Funcs -> FuncState]
    BY <1>0 DEF NodeState
  <2>2. Enabled(node[n].funcs, {f}) \in [Funcs -> FuncState]
    BY <2>1, SwitchedFunctions
  <2>3. node' = [node EXCEPT ![n].funcs = Enabled(node[n].funcs, {f})]
    BY <1>10 DEF FunctionArrives
  <2>4. node' \in [Nodes -> NodeState]
    BY <1>0, <2>2, <2>3, WithFunctions
  <2> QED
    BY <1>10, <2>4 DEF FunctionArrives, Types, ReportsTyped, SwitchesTyped, NodeState
<1>11. CASE UNCHANGED switchVars
  BY <1>11 DEF switchVars, vars, Types, ReportsTyped, SwitchesTyped
<1> QED
  BY <1>1, <1>2, <1>3, <1>4, <1>5, <1>6, <1>7, <1>8, <1>9, <1>10, <1>11 DEF SwitchNext

\* Neither commands nor requests, fetched functions or reports touch resources.
LEMMA WholeSwitchNext == Types /\ NodesWhole /\ [SwitchNext]_switchVars => NodesWhole'
<1> SUFFICES ASSUME Types, NodesWhole, [SwitchNext]_switchVars PROVE NodesWhole'
  OBVIOUS
<1>1. ReportsTyped /\ node \in [Nodes -> NodeState]
  BY DEF Types, ReportsTyped
<1>2. ASSUME NEW n \in Nodes, NEW fs, node' = [node EXCEPT ![n].funcs = fs]
      PROVE  NodesWhole'
  BY <1>1, <1>2, WholeKept DEF NodeState
<1>3. CASE SendInterestPeriodic \/ Orchestrate \/ UNCHANGED switchVars
  BY <1>3 DEF SendInterestPeriodic, Ask, Orchestrate, switchVars, vars, NodesWhole
<1>4. ASSUME NEW n \in Nodes, NEW k \in Kinds, AnswerReport(n, k) PROVE NodesWhole'
  BY <1>1, <1>4, WholeNext DEF AnswerReport, Next
<1>5. CASE LoseReport \/ \E m \in replies : StoreReport(m)
  BY <1>1, <1>5, WholeNext DEF LoseReport, StoreReport, Next
<1>6. ASSUME NEW c \in commands, FunctionSwitchHandler(c) PROVE NodesWhole'
  <2>1. c.to \in Nodes
    BY DEF Types, SwitchesTyped, Command
  <2>2. \E fs : node' = [node EXCEPT ![c.to].funcs = fs]
    BY <1>6 DEF FunctionSwitchHandler
  <2> QED
    BY <2>1, <2>2, <1>2
<1>7. ASSUME NEW c \in commands, LoseCommand(c) PROVE NodesWhole'
  BY <1>7 DEF LoseCommand, NodesWhole
<1>8. ASSUME NEW n \in Nodes, NEW f \in Funcs, ExecuteAllowed(n, f) \/ Forward(n, f)
      PROVE  NodesWhole'
  BY <1>1, <1>2, <1>8, CountedFunctions
<1>9. ASSUME NEW n \in Nodes, NEW f \in Funcs, FetchFunction(n, f) PROVE NodesWhole'
  BY <1>9 DEF FetchFunction, NodesWhole
<1>10. ASSUME NEW n \in Nodes, NEW f \in Funcs, FunctionArrives(n, f) PROVE NodesWhole'
  BY <1>2, <1>10 DEF FunctionArrives
<1> QED
  BY <1>3, <1>4, <1>5, <1>6, <1>7, <1>8, <1>9, <1>10 DEF SwitchNext

LEMMA WholeSwitchInit == SwitchInit => NodesWhole
  BY WholeInit DEF SwitchInit

\* Every variable keeps its type: whatever the table holds, what the management
\* application decides are commands to nodes it knows, and an exclude list never
\* holds a function a negative number of times.
THEOREM SwitchTypeCorrect == SafetySpec => []SwitchTypeOK
  BY TypeInit, TypeNext, WholeSwitchInit, WholeSwitchNext, TypesAreTypeOK, PTL
     DEF SafetySpec

-----------------------------------------------------------------------------
(* The exclude list on a network that delivers in time.  What a command    *)
(* does to the list depends on what the list holds, so the invariant       *)
(* follows a status from the node through the report and the table to the  *)
(* command, and says at each station that it is still true of the node.    *)

Status(n, f) == node[n].funcs[f].status

\* Nothing is lost, no timer fires early, no node fetches a function.
NothingSpent ==
  /\ lost = 0 /\ spent.late = 0 /\ spent.drag = 0
  /\ dragging = {}

\* Commands travel between a decision and the next poll, and alone.
CommandsAlone ==
  commands # {} => turn = "poll" /\ requests = {} /\ replies = {}

\* Between a poll and the decision, nothing but this poll's questions and
\* answers is under way, and whoever has not answered is still asked: the table
\* the decision is taken from shows the status each function has then.
PollInProgress ==
  turn = "orchestrate" =>
    /\ requests \subseteq Nodes \X {"NodeStatusFetch"}
    /\ \A m \in replies :
         /\ m.kind = "NodeStatusFetch"
         /\ \A f \in Funcs : m.funcs[f].status = Status(m.from, f)
    /\ \A n \in DOMAIN table :
         \/ Pending(n, "NodeStatusFetch")
         \/ \A f \in Funcs : table[n].current.funcs[f].status = Status(n, f)

\* What a command asks for has not been done: a node gets one command that
\* disables, and this names each function once and only enabled ones.
DisablesEnabled ==
  \A c \in commands : c.op = "Disable" =>
    /\ \A d \in commands : d.op = "Disable" /\ d.to = c.to => d = c
    /\ IsInjective(c.funcs)
    /\ \A f \in ToSet(c.funcs) : Status(c.to, f)

\* An enabled function is not excluded.
EnabledNotExcluded ==
  \A n \in Nodes, f \in Funcs : Status(n, f) => excluded[n][f] = 0

\* The exclude lists are as the last commands say.
AllAsDecided ==
  \A n \in Nodes, f \in Funcs :
    excluded[n][f] = (IF decision[n][f] = "Disable" THEN 1 ELSE 0)

CalmInv ==
  /\ NothingSpent /\ CommandsAlone /\ PollInProgress
  /\ DisablesEnabled /\ EnabledNotExcluded /\ AllAsDecided

LEMMA CalmInit == SwitchInit => CalmInv
<1> SUFFICES ASSUME SwitchInit PROVE CalmInv
  OBVIOUS
<1>1. commands = {} /\ turn = "poll" /\ \A n \in Nodes, f \in Funcs : excluded[n][f] = 0
  BY DEF SwitchInit
<1>2. AllAsDecided
  BY DEF SwitchInit, AllAsDecided
<1> QED
  BY <1>1, <1>2 DEF SwitchInit, Init, CalmInv, NothingSpent, CommandsAlone, PollInProgress,
                    DisablesEnabled, EnabledNotExcluded

\* A timer finds nothing under way, and neither wastes nor loses anything.
LEMMA TimerIsQuiet ==
  ASSUME Undisturbed', Types, CalmInv, NEW t, NEW next, Timer(t, next)
  PROVE  /\ requests = {} /\ replies = {} /\ commands = {}
         /\ turn = t /\ turn' = next /\ UNCHANGED spent
  BY DEF Undisturbed, CalmInv, NothingSpent, Timer, Quiet, Types, SwitchesTyped

\* A poll asks every node.
LEMMA CalmPoll ==
  ASSUME Undisturbed', Types, CalmInv, SendInterestPeriodic
  PROVE  CalmInv'
<1>1. /\ requests = {} /\ replies = {} /\ commands = {}
      /\ turn' = "orchestrate" /\ UNCHANGED spent
  BY TimerIsQuiet DEF SendInterestPeriodic
<1>2. /\ UNCHANGED <<node, table, replies, lost>>
      /\ UNCHANGED <<excluded, commands, dragging, decision>>
  BY DEF SendInterestPeriodic, Ask
<1>3. requests' = Nodes \X {"NodeStatusFetch"}
  BY <1>1 DEF SendInterestPeriodic, Ask, Pending
<1>4. PollInProgress'
  <2>1. \A n \in DOMAIN table' : Pending(n, "NodeStatusFetch")'
    BY <1>2, <1>3 DEF Pending, Types, ReportsTyped
  <2> QED
    BY <1>1, <1>2, <1>3, <2>1 DEF PollInProgress
<1>5. NothingSpent' /\ CommandsAlone' /\ DisablesEnabled'
  BY <1>1, <1>2 DEF CalmInv, NothingSpent, CommandsAlone, DisablesEnabled
<1>6. EnabledNotExcluded' /\ AllAsDecided'
  BY <1>2 DEF CalmInv, EnabledNotExcluded, AllAsDecided, Status
<1> QED
  BY <1>4, <1>5, <1>6 DEF CalmInv

\* A decision is taken from a table that shows every status as it is.
LEMMA CalmDecision ==
  ASSUME Undisturbed', Types, CalmInv, Orchestrate
  PROVE  CalmInv'
<1>1. /\ requests = {} /\ replies = {} /\ commands = {}
      /\ turn = "orchestrate" /\ turn' = "poll" /\ UNCHANGED spent
  BY TimerIsQuiet DEF Orchestrate
<1>2. /\ UNCHANGED <<node, table, requests, replies, lost, excluded, dragging, decision>>
      /\ commands' = FunctionSwitchCommands
  BY <1>1 DEF Orchestrate
<1>3. \A n \in DOMAIN table, f \in Funcs : table[n].current.funcs[f].status = Status(n, f)
  BY <1>1 DEF CalmInv, PollInProgress, Pending
<1>4. DOMAIN table \subseteq Nodes /\ table \in [DOMAIN table -> Entry]
  BY DEF Types, ReportsTyped
<1> DEFINE Cmd(d) == Decision(table, d[1], d[2])
<1>5. \A d \in Decisions(table) :
        /\ Cmd(d).to = d[2] /\ d[2] \in DOMAIN table
        /\ Cmd(d).op = "Disable" => d[1] = "disable"
        /\ Cmd(d).op = "Disable" => IsInjective(Cmd(d).funcs)
        /\ \A f \in ToSet(Cmd(d).funcs) :
             f \in Funcs /\ (Cmd(d).op = "Disable" => table[d[2]].current.funcs[f].status)
  BY <1>4, DecisionNames
<1>6. \A c \in commands' : \E d \in Decisions(table) : c = Cmd(d)
  BY <1>2 DEF FunctionSwitchCommands
<1> HIDE DEF Cmd
<1>7. ASSUME NEW c \in commands', c.op = "Disable"
      PROVE  /\ \A b \in commands' : b.op = "Disable" /\ b.to = c.to => b = c
             /\ IsInjective(c.funcs)
             /\ \A f \in ToSet(c.funcs) : Status(c.to, f)
  <2>1. PICK d \in Decisions(table) : c = Cmd(d)
    BY <1>6
  <2>2. \A f \in ToSet(c.funcs) : Status(c.to, f)
    BY <1>3, <1>5, <1>7, <2>1
  <2>3. ASSUME NEW b \in commands', b.op = "Disable", b.to = c.to PROVE b = c
    <3>1. PICK e \in Decisions(table) : b = Cmd(e)
      BY <1>6
    <3>2. e[1] = d[1] /\ e[2] = d[2]
      BY <1>5, <1>7, <2>1, <2>3, <3>1
    <3> QED
      BY <2>1, <3>1, <3>2 DEF Cmd
  <2> QED
    BY <1>5, <1>7, <2>1, <2>2, <2>3
<1>8. DisablesEnabled'
  BY <1>2, <1>7 DEF DisablesEnabled, Status
<1>9. NothingSpent' /\ CommandsAlone' /\ PollInProgress'
  BY <1>1, <1>2 DEF CalmInv, NothingSpent, CommandsAlone, PollInProgress
<1>10. EnabledNotExcluded' /\ AllAsDecided'
  BY <1>2 DEF CalmInv, EnabledNotExcluded, AllAsDecided, Status
<1> QED
  BY <1>8, <1>9, <1>10 DEF CalmInv

\* A node that answers shows its functions as they are.
LEMMA CalmAnswer ==
  ASSUME Types, CalmInv, NEW n \in Nodes, NEW k \in Kinds, AnswerReport(n, k)
  PROVE  CalmInv'
<1> DEFINE q == [from |-> n, kind |-> k, cpu |-> node[n].cpu, ram |-> node[n].ram,
                 busy |-> IF k = "BootstrapInfo" THEN 0 ELSE node[n].busy,
                 funcs |-> node[n].funcs]
<1>1. /\ <<n, k>> \in requests /\ requests' = requests \ {<<n, k>>}
      /\ replies' = replies \union {q}
      /\ node' = [node EXCEPT ![n].busy = 0]
      /\ UNCHANGED <<table, lost, excluded, commands, turn, dragging, decision, spent>>
  BY DEF AnswerReport, StatusFetchHandler, Others
<1>2. q.from = n /\ q.kind = k /\ q.funcs = node[n].funcs
  OBVIOUS
<1> HIDE DEF q
<1>3. commands = {}
  BY <1>1 DEF CalmInv, CommandsAlone
<1>4. \A m \in Nodes, f \in Funcs : Status(m, f)' = Status(m, f)
  BY <1>1 DEF Types, ReportsTyped, NodeState, Status
<1>5. PollInProgress'
  <2> SUFFICES ASSUME turn = "orchestrate" PROVE PollInProgress'
    BY <1>1 DEF PollInProgress
  <2>1. k = "NodeStatusFetch" /\ requests' \subseteq Nodes \X {"NodeStatusFetch"}
    BY <1>1 DEF CalmInv, PollInProgress
  <2>2. ASSUME NEW m \in replies'
        PROVE  m.kind = "NodeStatusFetch" /\ \A f \in Funcs : m.funcs[f].status = Status(m.from, f)'
    <3>1. CASE m \in replies
      <4>1. m.from \in Nodes
        BY <3>1 DEF Types, ReportsTyped, Message
      <4> QED
        BY <3>1, <4>1, <1>4 DEF CalmInv, PollInProgress
    <3>2. CASE m = q
      BY <3>2, <1>2, <1>4, <2>1 DEF Status
    <3> QED
      BY <1>1, <3>1, <3>2
  <2>3. ASSUME NEW m \in DOMAIN table
        PROVE  \/ Pending(m, "NodeStatusFetch")'
               \/ \A f \in Funcs : table[m].current.funcs[f].status = Status(m, f)'
    <3>1. m \in Nodes
      BY DEF Types, ReportsTyped
    <3>2. CASE Pending(m, "NodeStatusFetch")
      BY <3>2, <1>1, <1>2, <2>1 DEF Pending
    <3>3. CASE \A f \in Funcs : table[m].current.funcs[f].status = Status(m, f)
      BY <3>1, <3>3, <1>4
    <3> QED
      BY <3>2, <3>3 DEF CalmInv, PollInProgress
  <2> QED
    BY <1>1, <2>1, <2>2, <2>3 DEF PollInProgress
<1>6. NothingSpent' /\ CommandsAlone' /\ DisablesEnabled'
  BY <1>1, <1>3 DEF CalmInv, NothingSpent, CommandsAlone, DisablesEnabled
<1>7. EnabledNotExcluded' /\ AllAsDecided'
  BY <1>1, <1>4 DEF CalmInv, EnabledNotExcluded, AllAsDecided
<1> QED
  BY <1>5, <1>6, <1>7 DEF CalmInv

\* An answer that arrives brings its node's entry up to date.
LEMMA CalmReport ==
  ASSUME Types, CalmInv, NEW m \in replies, StoreReport(m)
  PROVE  CalmInv'
<1>1. /\ replies' = replies \ {m}
      /\ table' = HandleMessage(table, m)
      /\ UNCHANGED <<node, requests, lost, excluded, commands, turn, dragging, decision, spent>>
  BY DEF StoreReport, OnData, Others
<1>2. commands = {}
  BY DEF CalmInv, CommandsAlone
<1>3. m \in Message /\ DOMAIN table \subseteq Nodes /\ table \in [DOMAIN table -> Entry]
  BY DEF Types, ReportsTyped
<1>4. PollInProgress'
  <2> SUFFICES ASSUME turn = "orchestrate" PROVE PollInProgress'
    BY <1>1 DEF PollInProgress
  <2>1. m.kind = "NodeStatusFetch" /\ \A f \in Funcs : m.funcs[f].status = Status(m.from, f)
    BY DEF CalmInv, PollInProgress
  <2>2. table' = NodeStatusFetchHandler(table, m)
    BY <1>1, <2>1 DEF HandleMessage
  <2>3. DOMAIN table' = DOMAIN table
    BY <2>2 DEF NodeStatusFetchHandler
  <2>4. ASSUME NEW n \in DOMAIN table
        PROVE  \/ Pending(n, "NodeStatusFetch")'
               \/ \A f \in Funcs : table'[n].current.funcs[f].status = Status(n, f)
    <3>1. CASE n = m.from
      <4>1. table[n] \in Entry
        BY <1>3
      <4>2. table'[n] = Updated(table[n], m)
        BY <2>2, <3>1, <1>3 DEF NodeStatusFetchHandler
      <4>3. table'[n].current.funcs = m.funcs
        BY <1>3, <4>1, <4>2, UpdatedEntry
      <4> QED
        BY <2>1, <3>1, <4>3
    <3>2. CASE n # m.from
      <4>1. table'[n] = table[n]
        BY <2>2, <3>2, <1>3 DEF NodeStatusFetchHandler
      <4>2. Pending(n, "NodeStatusFetch") => Pending(n, "NodeStatusFetch")'
        BY <1>1, <3>2 DEF Pending
      <4> QED
        BY <4>1, <4>2 DEF CalmInv, PollInProgress
    <3> QED
      BY <3>1, <3>2
  <2>5. \A x \in replies' : /\ x.kind = "NodeStatusFetch"
                            /\ \A f \in Funcs : x.funcs[f].status = Status(x.from, f)
    BY <1>1 DEF CalmInv, PollInProgress
  <2>6. requests \subseteq Nodes \X {"NodeStatusFetch"}
    BY DEF CalmInv, PollInProgress
  <2> QED
    BY <1>1, <2>3, <2>4, <2>5, <2>6 DEF PollInProgress, Status
<1>5. NothingSpent' /\ CommandsAlone' /\ DisablesEnabled'
  BY <1>1, <1>2 DEF CalmInv, NothingSpent, CommandsAlone, DisablesEnabled
<1>6. EnabledNotExcluded' /\ AllAsDecided'
  BY <1>1 DEF CalmInv, EnabledNotExcluded, AllAsDecided, Status
<1> QED
  BY <1>4, <1>5, <1>6 DEF CalmInv

\* A command finds the functions it disables enabled and so not excluded, and
\* the functions it enables excluded at most once.
LEMMA CalmSwitch ==
  ASSUME Types, CalmInv, NEW c \in commands, FunctionSwitchHandler(c)
  PROVE  CalmInv'
<1> DEFINE n == c.to
           S == ToSet(c.funcs)
<1>1. c \in Command /\ n \in Nodes /\ c.op \in Ops /\ c.funcs \in Seq(Funcs)
  BY DEF Types, SwitchesTyped, Command
<1>2. /\ commands' = commands \ {c}
      /\ excluded' = [excluded EXCEPT ![n] = ExcludeList(@, c.op, c.funcs)]
      /\ decision' = [decision EXCEPT ![n] = [f \in Funcs |-> IF f \in S THEN c.op ELSE @[f]]]
      /\ UNCHANGED <<table, requests, replies, lost, turn, dragging, spent>>
  BY DEF FunctionSwitchHandler
<1>3. excluded \in [Nodes -> [Funcs -> Nat]] /\ decision \in [Nodes -> [Funcs -> Ops \union {"none"}]]
  BY DEF Types, SwitchesTyped
<1>4. /\ \A m \in Nodes, f \in Funcs : m # n => Status(m, f)' = Status(m, f)
      /\ \A f \in Funcs : c.op = "Enable" => (Status(n, f)' <=> f \in S \/ Status(n, f))
      /\ \A f \in Funcs : c.op # "Enable" => (Status(n, f)' <=> f \notin S /\ Status(n, f))
  <2>1. node[n].funcs \in [Funcs -> FuncState]
    BY <1>1 DEF Types, ReportsTyped, NodeState
  <2>2. /\ node'[n].funcs = IF c.op = "Enable" THEN Enabled(node[n].funcs, S)
                                               ELSE Disabled(node[n].funcs, S)
        /\ \A m \in Nodes : m # n => node'[m] = node[m]
    BY SwitchedNode
  <2> QED
    BY <2>1, <2>2, SwitchedFunctions DEF Status
<1>5. \A m \in Nodes, f \in Funcs :
        m # n => excluded'[m][f] = excluded[m][f] /\ decision'[m][f] = decision[m][f]
  BY <1>2, <1>3
<1>6. ASSUME NEW f \in Funcs
      PROVE  /\ excluded'[n][f] = (IF decision'[n][f] = "Disable" THEN 1 ELSE 0)
             /\ Status(n, f)' => excluded'[n][f] = 0
  <2>1. /\ excluded[n][f] = (IF decision[n][f] = "Disable" THEN 1 ELSE 0)
        /\ Status(n, f) => excluded[n][f] = 0
    BY <1>1 DEF CalmInv, AllAsDecided, EnabledNotExcluded
  <2> DEFINE t == Times(f, c.funcs)
  <2>2. t \in Nat /\ (t = 0 <=> f \notin S) /\ (IsInjective(c.funcs) => t <= 1)
    BY <1>1, TimesNamed
  <2> HIDE DEF t
  <2>3. decision'[n][f] = IF f \in S THEN c.op ELSE decision[n][f]
    BY <1>1, <1>2, <1>3
  <2>4. excluded'[n][f] = ExcludeList(excluded[n], c.op, c.funcs)[f]
    BY <1>1, <1>2, <1>3
  <2>5. excluded'[n][f] = IF c.op = "Disable" THEN excluded[n][f] + t
                          ELSE IF excluded[n][f] > t THEN excluded[n][f] - t ELSE 0
    BY <2>4 DEF ExcludeList, t
  <2>6. CASE c.op = "Disable"
    <3>1. IsInjective(c.funcs) /\ \A g \in S : Status(n, g)
      BY <2>6 DEF CalmInv, DisablesEnabled
    <3>2. CASE f \in S
      BY <1>4, <2>1, <2>2, <2>3, <2>5, <2>6, <3>1, <3>2
    <3>3. CASE f \notin S
      BY <1>4, <2>1, <2>2, <2>3, <2>5, <2>6, <3>3
    <3> QED
      BY <3>2, <3>3
  <2>7. CASE c.op = "Enable"
    <3>1. CASE f \in S
      BY <2>1, <2>2, <2>3, <2>5, <2>7, <3>1
    <3>2. CASE f \notin S
      BY <1>4, <2>1, <2>2, <2>3, <2>5, <2>7, <3>2
    <3> QED
      BY <3>1, <3>2
  <2> QED
    BY <1>1, <2>6, <2>7 DEF Ops
<1>7. AllAsDecided'
  BY <1>5, <1>6 DEF CalmInv, AllAsDecided
<1>8. EnabledNotExcluded'
  BY <1>4, <1>5, <1>6 DEF CalmInv, EnabledNotExcluded
<1>9. DisablesEnabled'
  <2> SUFFICES ASSUME NEW b \in commands, b # c, b.op = "Disable"
               PROVE  /\ \A d \in commands' : d.op = "Disable" /\ d.to = b.to => d = b
                      /\ IsInjective(b.funcs)
                      /\ \A f \in ToSet(b.funcs) : Status(b.to, f)'
    BY <1>2 DEF DisablesEnabled
  <2>1. /\ \A d \in commands : d.op = "Disable" /\ d.to = b.to => d = b
        /\ IsInjective(b.funcs)
        /\ \A f \in ToSet(b.funcs) : Status(b.to, f)
    BY DEF CalmInv, DisablesEnabled
  <2>2. b.to = n => c.op = "Enable"
    BY <1>1, <2>1 DEF Ops
  <2>3. b.to \in Nodes /\ \A f \in ToSet(b.funcs) : f \in Funcs
    BY DEF Types, SwitchesTyped, Command, ToSet
  <2> QED
    BY <1>2, <1>4, <2>1, <2>2, <2>3
<1>10. NothingSpent' /\ CommandsAlone' /\ PollInProgress'
  <2>1. turn = "poll"
    BY DEF CalmInv, CommandsAlone
  <2> QED
    BY <1>2, <2>1 DEF CalmInv, NothingSpent, CommandsAlone, PollInProgress
<1> QED
  BY <1>7, <1>8, <1>9, <1>10 DEF CalmInv

\* What leaves every status and every message alone leaves the invariant alone.
LEMMA CalmOthers ==
  ASSUME Types, CalmInv, NothingSpent',
         \A n \in Nodes, f \in Funcs : Status(n, f)' = Status(n, f),
         UNCHANGED <<table, requests, replies, excluded, commands, turn, decision>>
  PROVE  CalmInv'
<1>1. (\A m \in replies : m.from \in Nodes) /\ DOMAIN table \subseteq Nodes
      /\ \A c \in commands : c.to \in Nodes /\ ToSet(c.funcs) \subseteq Funcs
  BY DEF Types, ReportsTyped, SwitchesTyped, Message, Command, ToSet
<1>2. PollInProgress'
  BY <1>1 DEF CalmInv, PollInProgress, Pending
<1>3. DisablesEnabled'
  BY <1>1 DEF CalmInv, DisablesEnabled
<1> QED
  BY <1>2, <1>3 DEF CalmInv, CommandsAlone, EnabledNotExcluded, AllAsDecided

LEMMA CalmNext ==
  ASSUME Undisturbed', Types, CalmInv, [SwitchNext]_switchVars
  PROVE  CalmInv'
<1>0. lost = 0 /\ spent.late = 0 /\ spent.drag = 0 /\ dragging = {}
  BY DEF CalmInv, NothingSpent
<1>1. ASSUME NEW n \in Nodes, NEW f \in Funcs, ExecuteAllowed(n, f) \/ Forward(n, f)
      PROVE  CalmInv'
  <2>1. node \in [Nodes -> NodeState]
    BY DEF Types, ReportsTyped
  <2>2. PICK fs \in [Funcs -> FuncState] :
          /\ node' = [node EXCEPT ![n].funcs = fs]
          /\ \A g \in Funcs : fs[g].status = node[n].funcs[g].status
    BY <1>1, <2>1, CountedFunctions
  <2>3. node'[n].funcs = fs /\ \A m \in Nodes : m # n => node'[m] = node[m]
    BY <2>1, <2>2, WithFunctions
  <2>4. \A m \in Nodes, g \in Funcs : Status(m, g)' = Status(m, g)
    BY <2>2, <2>3 DEF Status
  <2>5. UNCHANGED <<table, requests, replies, lost, excluded, commands, turn, dragging, decision>>
    BY <1>1 DEF ExecuteAllowed, Forward, AddMissExecCounter, OnNode
  <2>6. spent'.late = 0 /\ spent'.drag = 0
    BY <1>0, <1>1 DEF ExecuteAllowed, Forward, Spend, Types, SwitchesTyped
  <2> QED
    BY <1>0, <2>4, <2>5, <2>6, CalmOthers DEF NothingSpent
<1>2. CASE UNCHANGED switchVars
  BY <1>0, <1>2, CalmOthers DEF switchVars, vars, Status, NothingSpent
<1>3. ~ LoseReport /\ \A c \in commands : ~ LoseCommand(c)
  BY <1>0 DEF Undisturbed, LoseReport, Lose, LoseCommand
<1>4. \A n \in Nodes, f \in Funcs : ~ FetchFunction(n, f) /\ ~ FunctionArrives(n, f)
  BY <1>0 DEF Undisturbed, FetchFunction, Spend, FunctionArrives, Types, SwitchesTyped
<1> QED
  BY <1>1, <1>2, <1>3, <1>4, CalmPoll, CalmDecision, CalmAnswer, CalmReport, CalmSwitch DEF SwitchNext

\* What disturbs is never taken back.
LEMMA Disturbances ==
  ASSUME Types, [SwitchNext]_switchVars, Undisturbed'
  PROVE  Undisturbed
<1>0. lost \in Nat /\ spent \in [{"traffic", "late", "drag"} -> Nat]
  BY DEF Types, ReportsTyped, SwitchesTyped
<1>1. lost' = lost \/ lost' = lost + 1
  BY DEF SwitchNext, switchVars, vars, SendInterestPeriodic, Ask, Orchestrate,
         AnswerReport, StatusFetchHandler, StoreReport, OnData, FunctionSwitchHandler,
         LoseCommand, LoseReport, Lose, ExecuteAllowed, Forward, AddMissExecCounter,
         OnNode, FetchFunction, FunctionArrives
<1>2. \/ UNCHANGED spent
      \/ \E kind \in {"traffic", "late", "drag"} : spent' = [spent EXCEPT ![kind] = @ + 1]
  BY DEF SwitchNext, switchVars, SendInterestPeriodic, Orchestrate, Timer,
         AnswerReport, StoreReport, Others, FunctionSwitchHandler,
         LoseCommand, LoseReport, ExecuteAllowed, Forward, Spend, FetchFunction,
         FunctionArrives
<1> QED
  BY <1>0, <1>1, <1>2 DEF Undisturbed

LEMMA UndisturbedNext ==
  ASSUME Types, Undisturbed => CalmInv, [SwitchNext]_switchVars
  PROVE  Undisturbed' => CalmInv'
BY Disturbances, CalmNext

\* As long as reports and commands arrive in time and no node fetches a function,
\* each function is on a node's exclude list once if the last command that named
\* it disabled it, and not at all otherwise (AddToExcludeList appends without
\* looking, RemoveFromExcludeList takes one occurrence only).
THEOREM ExcludedAsDecidedHolds == SafetySpec => []ExcludedAsDecided
<1>1. (Undisturbed => CalmInv) => ExcludedAsDecided
  BY DEF CalmInv, AllAsDecided, ExcludedAsDecided
<1> QED
  BY <1>1, TypeInit, TypeNext, CalmInit, UndisturbedNext, PTL DEF SafetySpec
=============================================================================
