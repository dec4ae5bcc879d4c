---------------------------- MODULE StatusReports ----------------------------
(***************************************************************************)
(* How the orchestrator learns the state of its compute nodes: its         *)
(* communication applications ask each node once for BootstrapInfo and     *)
(* then periodically for NodeStatusFetch, the node's orchestration         *)
(* application answers, and the message handler writes the answer into the *)
(* table.  Nothing is asked again that was lost.                           *)
(***************************************************************************)
EXTENDS NodeInfoStorage

CONSTANTS
  Cores,       \* Cores[n]: processor cores of the idle node
  Ram,         \* Ram[n]: its RAM; an execution needs one core and one unit of RAM
  InitEnabled, \* InitEnabled[n]: functions enabled on n when the scenario starts
  MaxCount,    \* bound on each of a node's counters
  MaxLost      \* bound on lost messages

ASSUME CoresAssumption   == Cores \in [Nodes -> Nat] /\ Ram \in [Nodes -> Nat]
ASSUME EnabledAssumption == InitEnabled \in [Nodes -> SUBSET Funcs]
ASSUME BoundsAssumption  == MaxCount \in Nat /\ MaxLost \in Nat

VARIABLES
  node,      \* what the node's own objects hold; running: its scheduled
             \* execution ends
  table,     \* m_nodeInfoTable
  requests,  \* <<node, kind>>: Interests on their way to a node
  replies,   \* messages on their way to the orchestrator
  lost       \* messages lost so far

vars == <<node, table, requests, replies, lost>>

-----------------------------------------------------------------------------
(* The orchestrator's communication applications.  An Interest whose name  *)
(* is still pending is aggregated with the pending one.                    *)

Pending(n, kind) == \/ <<n, kind>> \in requests
                    \/ \E m \in replies : m.from = n /\ m.kind = kind

Ask(kind) ==
  /\ requests' = requests \union {<<n, kind>> : n \in {x \in Nodes : ~ Pending(x, kind)}}
  /\ UNCHANGED <<node, table, replies, lost>>

OnData(m) ==
  /\ m \in replies
  /\ replies' = replies \ {m}
  /\ table' = HandleMessage(table, m)
  /\ UNCHANGED <<node, requests, lost>>

-----------------------------------------------------------------------------
(* The node's orchestration application.  The busy counter is cleared by   *)
(* every answer; for BootstrapInfo it is cleared before it is read, too.   *)

StatusFetchHandler(n, kind) ==
  /\ <<n, kind>> \in requests
  /\ requests' = requests \ {<<n, kind>>}
  /\ replies' = replies \union
       {[from |-> n, kind |-> kind, cpu |-> node[n].cpu, ram |-> node[n].ram,
         busy |-> IF kind = "BootstrapInfo" THEN 0 ELSE node[n].busy,
         funcs |-> node[n].funcs]}
  /\ node' = [node EXCEPT ![n].busy = 0]
  /\ UNCHANGED <<table, lost>>

-----------------------------------------------------------------------------
(* The network.                                                            *)

Lose ==
  /\ lost < MaxLost
  /\ lost' = lost + 1
  /\ \/ \E q \in requests : requests' = requests \ {q} /\ UNCHANGED replies
     \/ \E m \in replies : replies' = replies \ {m} /\ UNCHANGED requests
  /\ UNCHANGED <<node, table>>

-----------------------------------------------------------------------------
(* What requests for computations change on a node.  Booking and releasing *)
(* go with the start and the end of an execution (see NfnExecution).       *)

OnNode == UNCHANGED <<table, requests, replies, lost>>

Execute(n, f) ==
  /\ OnNode
  /\ node[n].funcs[f].status
  /\ node[n].cpu > 0 /\ node[n].ram > 0
  /\ node[n].funcs[f].exe < MaxCount
  /\ node' = [node EXCEPT ![n].cpu = @ - 1, ![n].ram = @ - 1,
                          ![n].running = @ + 1, ![n].funcs[f].exe = @ + 1]

\* Wrong variant: the resources come back as often as they are released, also
\* when nothing runs.
EndAnytime(n) ==
  /\ OnNode
  /\ node' = [node EXCEPT ![n].cpu = @ + 1, ![n].ram = @ + 1,
                          ![n].running = IF @ > 0 THEN @ - 1 ELSE 0]

ExecutionEnd(n) ==
  /\ OnNode
  /\ node[n].running > 0
  /\ node' = [node EXCEPT ![n].cpu = @ + 1, ![n].ram = @ + 1,
                          ![n].running = @ - 1]

AddNodeBusyCounter(n) ==
  /\ OnNode
  /\ node[n].busy < MaxCount
  /\ node' = [node EXCEPT ![n].busy = @ + 1]

AddMissExecCounter(n, f) ==
  /\ OnNode
  /\ ~ node[n].funcs[f].status
  /\ node[n].funcs[f].misses < MaxCount
  /\ node' = [node EXCEPT ![n].funcs[f].misses = @ + 1]

-----------------------------------------------------------------------------
NodeInit(n) ==
  [cpu |-> Cores[n], ram |-> Ram[n], running |-> 0, busy |-> 0,
   funcs |-> [f \in Funcs |->
                [status |-> f \in InitEnabled[n], exe |-> 0, misses |-> 0]]]

\* The bootstrap Interests are sent before any periodic one.
Init ==
  /\ node = [n \in Nodes |-> NodeInit(n)]
  /\ table = <<>>
  /\ requests = Nodes \X {"BootstrapInfo"}
  /\ replies = {}
  /\ lost = 0

Next ==
  \/ Ask("NodeStatusFetch")
  \/ \E n \in Nodes, k \in Kinds : StatusFetchHandler(n, k)
  \/ \E m \in replies : OnData(m)
  \/ Lose
  \/ \E n \in Nodes : ExecutionEnd(n) \/ AddNodeBusyCounter(n)
  \/ \E n \in Nodes, f \in Funcs : Execute(n, f) \/ AddMissExecCounter(n, f)

Spec == Init /\ [][Next]_vars

-----------------------------------------------------------------------------
(* Properties.                                                             *)

\* Each variable has its type; a node's free cores and RAM are what the node
\* has less what its running executions hold, so they are never below zero and
\* never above what it started with.
TypeOK ==
  /\ node \in [Nodes -> [cpu : Nat, ram : Nat, running : Nat, busy : Nat,
                         funcs : [Funcs -> FuncState]]]
  /\ \A n \in Nodes : /\ node[n].cpu + node[n].running = Cores[n]
                     /\ node[n].ram + node[n].running = Ram[n]
  /\ DOMAIN table \subseteq Nodes
  /\ table \in [DOMAIN table -> Entry]
  /\ requests \subseteq Nodes \X Kinds
  /\ replies \subseteq Message
  /\ lost \in 0 .. MaxLost

\* A status message that has been handled leaves RAM, busy counter and
\* function states of the entry as the message gave them: no setter undoes
\* what another has set.
StatusIsStored ==
  [][\A m \in replies :
       OnData(m) /\ m.kind = "NodeStatusFetch" /\ m.from \in DOMAIN table =>
         LET c == table'[m.from].current
         IN  c.ram = m.ram /\ c.busy = m.busy /\ c.funcs = m.funcs]_vars

\* What a node said at bootstrap is never overwritten: the orchestrator
\* compares loads with the cores the node had then.
InitialIsKept ==
  [][\A n \in DOMAIN table : table'[n].initial = table[n].initial]_vars
=============================================================================
