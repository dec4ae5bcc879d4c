-------------------------- MODULE UdpOrchestration --------------------------
(***************************************************************************)
(* Orchestration out of band: the orchestrator's node has one              *)
(* UdpOrchestrationCommunicationApp for every question it puts to a        *)
(* compute node (once or periodically), each with a socket connected to    *)
(* its peer, and every compute node has a UdpOrchestrationComputeNodeApp   *)
(* that answers.  The management application sends the commands it decides *)
(* on (SwitchCommands) through the application that was installed first.   *)
(*                                                                         *)
(* Nothing is asked again that was lost.  All the answers a node gives to  *)
(* anything but a status question are read and ignored by the orchestrator *)
(* ("/Others"), so they are left out.                                      *)
(***************************************************************************)
EXTENDS SwitchCommands

CONSTANTS
  Apps,         \* the orchestrator's communication applications
  App0,         \* the one GetApplication(0) returns
  Peer,         \* Peer[a]: node at the remote address of a
  Periodic,     \* Periodic[a]: attribute of the same name
  Content,      \* Content[a]: the question the scenario fills in, or "none"
  Cores,        \* Cores[n]: processor cores of the idle node
  InitEnabled,  \* InitEnabled[n]: functions enabled on n when the scenario starts
  MaxPackets,   \* attribute of the same name
  MaxTraffic,   \* bound on the requests that reach the nodes
  MaxDecisions, \* bound on the runs of the management application
  MaxFaults     \* bound on lost packets and stopped applications

ASSUME AppAssumption ==
  /\ App0 \in Apps
  /\ Peer \in [Apps -> Nodes]
  /\ Periodic \in [Apps -> BOOLEAN]
  /\ Content \in [Apps -> Kinds \union {"none"}]
ASSUME NodeAssumption ==
  IsFiniteSet(Nodes) /\ Cores \in [Nodes -> Nat] /\ InitEnabled \in [Nodes -> SUBSET Funcs]
ASSUME UdpBoundsAssumption ==
  /\ MaxPackets \in Nat \ {0}
  /\ {MaxTraffic, MaxDecisions, MaxFaults} \subseteq Nat

VARIABLES
  socket,    \* m_socket of each application: "null" or "open"
  armed,     \* scheduled calls of Send or SendOnce
  sent,      \* m_sent
  polls,     \* history: packets sent by Send and SendOnce
  stopped,   \* history: applications stopped
  down,      \* nodes whose application has closed its sockets
  node,      \* busy counter and functions of each compute node
  excluded,  \* per node: the functions in m_FuncExcludeList, with repetition
  table,     \* m_nodeInfoTable
  packets,   \* on their way to a node
  answers,   \* on their way to an application of the orchestrator
  spent,     \* requests, decisions and faults so far
  crashed    \* a null socket was used, which ends the simulation

apps  == <<socket, armed, sent, polls, stopped>>
nodes == <<down, node, excluded>>
net   == <<packets, answers>>
vars  == <<apps, nodes, table, net, spent, crashed>>

Spend(kind, bound) ==
  /\ spent[kind] < bound
  /\ spent' = [spent EXCEPT ![kind] = @ + 1]

-----------------------------------------------------------------------------
(* The orchestrator's communication applications.                          *)

\* m_data, which SetFill has written; nothing, a packet of zeros, if m_dataSize is
\* zero because nobody has or SetDataSize came after it.
Payload(a) == Content[a]

\* ScheduleTransmit and ScheduleOnce.
Armed(a) == [armed EXCEPT ![a] = @ + 1]

\* The simulator starts an application once.
StartApplication(a) ==
  /\ socket[a] = "null" /\ a \notin stopped
  /\ socket' = [socket EXCEPT ![a] = "open"]
  /\ armed' = Armed(a)
  /\ UNCHANGED <<sent, polls, stopped, nodes, table, net, spent, crashed>>

StopApplication(a) ==
  /\ socket[a] = "open" /\ Spend("faults", MaxFaults)
  /\ socket' = [socket EXCEPT ![a] = "null"]
  /\ armed' = [armed EXCEPT ![a] = 0]
  /\ stopped' = stopped \union {a}
  /\ UNCHANGED <<sent, polls, nodes, table, net, crashed>>

\* Wrong variant: one packet more.
RepeatsOnceMore(a) == sent[a] < MaxPackets

Repeats(a) == sent[a] + 1 < MaxPackets

\* The packet of a scheduled call.
Transmit(a) ==
  /\ armed[a] > 0
  /\ packets' = packets \union
       {[from |-> a, no |-> sent[a], to |-> Peer[a], act |-> Payload(a)]}
  /\ sent'  = [sent EXCEPT ![a] = @ + 1]
  /\ polls' = [polls EXCEPT ![a] = @ + 1]
  /\ UNCHANGED <<socket, stopped, nodes, table, answers, spent, crashed>>

Send(a) ==
  /\ Periodic[a] /\ Transmit(a)
  /\ armed' = [armed EXCEPT ![a] = IF Repeats(a) THEN @ ELSE @ - 1]

\* The byte more that it sends changes nothing: the reader stops at the zero.
SendOnce(a) ==
  /\ ~ Periodic[a] /\ Transmit(a)
  /\ armed' = [armed EXCEPT ![a] = @ - 1]

\* Wrong variant: an application that has asked its last question is done.
StillAsking(a) == armed[a] > 0

\* Until it is stopped.
Listens(a) == socket[a] = "open"

\* The answer is read if the application still has the socket it was sent to.
HandleReadAnswer(r) ==
  /\ r \in answers
  /\ answers' = answers \ {r}
  /\ table' = IF Listens(r.to) THEN HandleMessage(table, r.msg) ELSE table
  /\ UNCHANGED <<apps, nodes, packets, spent, crashed>>

-----------------------------------------------------------------------------
(* The management application.  The commands of one run go out one after   *)
(* another; the node a command names is part of its text only.             *)

\* The socket is connected to App0's peer, whatever node is named.
Address(n) == Peer[App0]

\* Wrong variant: commands repeat themselves like the questions do.
Rearmed(k) == IF sent[App0] + k < MaxPackets THEN Armed(App0) ELSE armed

\* SendOnceWithFill leaves the timer alone.
AfterCommands(k) == armed

Commands ==
  {[from |-> App0, no |-> sent[App0], pass |-> d[1], act |-> "FunctionSwitch",
    to |-> Address(d[2]), cmd |-> Decision(table, d[1], d[2])] : d \in Decisions(table)}

Orchestrate ==
  LET k == Cardinality(Decisions(table))
  IN  /\ stopped \union {a \in Apps : socket[a] = "open"} = Apps
      /\ Spend("decisions", MaxDecisions)
      /\ IF k > 0 /\ socket[App0] = "null"
         THEN crashed' = TRUE /\ UNCHANGED <<apps, packets>>
         ELSE /\ packets' = packets \union Commands
              /\ sent' = [sent EXCEPT ![App0] = @ + k]
              /\ armed' = AfterCommands(k)
              /\ UNCHANGED <<socket, polls, stopped, crashed>>
      /\ UNCHANGED <<nodes, table, answers>>

-----------------------------------------------------------------------------
(* The compute node's application.  A packet for closed sockets is dropped.*)

Arrives(p) == p \in packets /\ packets' = packets \ {p}

\* Wrong variant: the execution counters are cleared like the busy counter.
CountersCleared(s) == [busy |-> 0, funcs |-> [f \in Funcs |-> [s.funcs[f] EXCEPT !.exe = 0]]]

\* ResetNodeBusyCounter.
AfterReport(s) == [s EXCEPT !.busy = 0]

\* Wrong variant: what is not known is taken for a status question.
AnyQuestion(p) == TRUE

StatusQuestion(p) == p.act \in Kinds

\* The answer goes back to the socket that asked.
StatusFetchHandler(p) ==
  LET n == p.to
  IN  /\ Arrives(p)
      /\ StatusQuestion(p) /\ n \notin down
      /\ answers' = answers \union
           {[to |-> p.from, no |-> p.no,
             msg |-> [from |-> n, kind |-> p.act, cpu |-> Cores[n], ram |-> 0,
                      busy |-> node[n].busy, funcs |-> node[n].funcs]]}
      /\ node' = [node EXCEPT ![n] = AfterReport(@)]
      /\ UNCHANGED <<apps, down, excluded, table, spent, crashed>>

\* The functions a command names begin at the sixth token, and the loop ends
\* before the last one.
Switched(fs) == Front(fs)

FunctionSwitchHandler(p) ==
  LET n  == p.to
      op == p.cmd.op
      fs == Switched(p.cmd.funcs)
  IN  /\ Arrives(p)
      /\ p.act = "FunctionSwitch" /\ n \notin down
      /\ node' = [node EXCEPT ![n].funcs = IF op = "Enable" THEN Enabled(@, ToSet(fs))
                                                            ELSE Disabled(@, ToSet(fs))]
      /\ excluded' = [excluded EXCEPT ![n] = ExcludeList(@, op, fs)]
      /\ UNCHANGED <<apps, down, table, answers, spent, crashed>>

\* An empty question, or sockets that are closed.
Ignore(p) ==
  /\ Arrives(p)
  /\ p.act = "none" \/ p.to \in down
  /\ UNCHANGED <<apps, nodes, table, answers, spent, crashed>>

\* Closes the sockets and keeps the pointers, so that a later start would not
\* open them again.
StopNode(n) ==
  /\ n \notin down /\ Spend("faults", MaxFaults)
  /\ down' = down \union {n}
  /\ UNCHANGED <<apps, node, excluded, table, net, crashed>>

-----------------------------------------------------------------------------
(* Requests for computations, as far as reports and decisions see them.    *)

OnNode == UNCHANGED <<apps, down, excluded, table, net, crashed>>

Execute(n, f) ==
  /\ Spend("traffic", MaxTraffic) /\ OnNode
  /\ node[n].funcs[f].status /\ excluded[n][f] = 0
  /\ node' = [node EXCEPT ![n].funcs[f].exe = @ + 1]

Miss(n, f) ==
  /\ Spend("traffic", MaxTraffic) /\ OnNode
  /\ ~ node[n].funcs[f].status
  /\ node' = [node EXCEPT ![n].funcs[f].misses = @ + 1]

BusyForward(n) ==
  /\ Spend("traffic", MaxTraffic) /\ OnNode
  /\ node' = [node EXCEPT ![n].busy = @ + 1]

Lose ==
  /\ Spend("faults", MaxFaults)
  /\ \/ \E p \in packets : packets' = packets \ {p} /\ UNCHANGED answers
     \/ \E r \in answers : answers' = answers \ {r} /\ UNCHANGED packets
  /\ UNCHANGED <<apps, nodes, table, crashed>>

-----------------------------------------------------------------------------
Init ==
  /\ socket = [a \in Apps |-> "null"]
  /\ armed = [a \in Apps |-> 0]
  /\ sent = [a \in Apps |-> 0]
  /\ polls = [a \in Apps |-> 0]
  /\ stopped = {}
  /\ down = {}
  /\ node = [n \in Nodes |->
       [busy |-> 0, funcs |-> [f \in Funcs |-> [status |-> f \in InitEnabled[n],
                                                exe |-> 0, misses |-> 0]]]]
  /\ excluded = [n \in Nodes |-> [f \in Funcs |-> 0]]
  /\ table = <<>>
  /\ packets = {}
  /\ answers = {}
  /\ spent = [k \in {"traffic", "decisions", "faults"} |-> 0]
  /\ crashed = FALSE

Next ==
  /\ ~ crashed
  /\ \/ \E a \in Apps : StartApplication(a) \/ StopApplication(a) \/ Send(a) \/ SendOnce(a)
     \/ \E r \in answers : HandleReadAnswer(r)
     \/ Orchestrate
     \/ \E p \in packets :
          StatusFetchHandler(p) \/ FunctionSwitchHandler(p) \/ Ignore(p)
     \/ \E n \in Nodes : StopNode(n) \/ BusyForward(n)
     \/ \E n \in Nodes, f \in Funcs : Execute(n, f) \/ Miss(n, f)
     \/ Lose

\* Scheduled events happen, and what the network does not lose is read.
Fairness ==
  /\ \A a \in Apps : WF_vars(~ crashed /\ (Send(a) \/ SendOnce(a)))
  /\ WF_vars(~ crashed /\ \E r \in answers : HandleReadAnswer(r))
  /\ WF_vars(~ crashed /\ \E p \in packets : StatusFetchHandler(p))

SafetySpec == Init /\ [][Next]_vars
Spec == SafetySpec /\ Fairness

-----------------------------------------------------------------------------
(* Properties.                                                             *)

Question == [from : Apps, no : Nat, to : Nodes, act : Kinds \union {"none"}]
Switch   == [from : {App0}, no : Nat, pass : Passes, act : {"FunctionSwitch"},
             to : Nodes, cmd : Command]

\* Each variable has its type.
TypeOK ==
  /\ socket \in [Apps -> {"null", "open"}]
  /\ armed \in [Apps -> Nat] /\ sent \in [Apps -> Nat] /\ polls \in [Apps -> Nat]
  /\ stopped \subseteq Apps /\ down \subseteq Nodes
  /\ node \in [Nodes -> [busy : Nat, funcs : [Funcs -> FuncState]]]
  /\ excluded \in [Nodes -> [Funcs -> Nat]]
  /\ DOMAIN table \subseteq Nodes /\ table \in [DOMAIN table -> Entry]
  /\ packets \subseteq Question \union Switch
  /\ answers \subseteq [to : Apps, no : Nat, msg : Message]
  /\ spent \in [{"traffic", "decisions", "faults"} -> Nat]
  /\ crashed \in BOOLEAN

\* An application has at most one scheduled call, and only while it runs: the
\* assertion that m_sendEvent has expired, at the head of Send, never fails,
\* and no call finds a null socket.
OneSendEvent ==
  \A a \in Apps : armed[a] <= 1 /\ (armed[a] = 1 => socket[a] = "open")

\* Questions stay within MaxPackets also where commands use the same socket,
\* and what an application sends beyond is commands.  A poll ends only when
\* questions and commands together have used the budget up; the commands are
\* not held back by it, and a question scheduled before is still put.
PollsWithinBudget ==
  \A a \in Apps :
    /\ polls[a] <= MaxPackets
    /\ a # App0 => sent[a] = polls[a]
    /\ Periodic[a] /\ socket[a] = "open" /\ armed[a] = 0 => sent[a] >= MaxPackets

\* A command switches the functions it names, all of them, on the node it names,
\* and nothing else.  (orchestration-management-app.cpp:182, of a function
\* appended to a command: "disable function at this node";
\* udp-orchestration-node-app.cpp:267: "eg name:
\* Orchestrator/Node1/FunctionSwitch/Disable/Func1/Func2/Func3")
SwitchedAsNamed ==
  [][\A p \in packets : FunctionSwitchHandler(p) =>
       \A n \in Nodes, f \in Funcs :
         node'[n].funcs[f].status =
           IF n = p.cmd.to /\ f \in ToSet(p.cmd.funcs)
           THEN p.cmd.op = "Enable"
           ELSE node[n].funcs[f].status]_vars

\* However reports and bootstrap answers overtake each other, the orchestrator
\* never believes a node to have executed a function more often than it has.
TableNeverAhead ==
  \A n \in DOMAIN table, f \in Funcs :
    table[n].current.funcs[f].exe <= node[n].funcs[f].exe

\* A node that a running application asks for its bootstrap information gets
\* into the table, unless a packet is lost or an application stops.
AskedIsKnown ==
  \A a \in Apps :
    (armed[a] > 0 /\ Payload(a) = "BootstrapInfo")
      ~> \/ Peer[a] \in DOMAIN table
         \/ spent.faults > 0 \/ crashed
=============================================================================
