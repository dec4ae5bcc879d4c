------------------------------- MODULE Tracers -------------------------------
(***************************************************************************)
(* The tracers of src/utils/tracers: seven classes that share one shape.   *)
(* Install opens a file and puts one tracer on every node it is given; a   *)
(* tracer connects callbacks to trace sources of the applications that are *)
(* on its node at that moment and counts what they report; Destroy, or the *)
(* end of the program, empties the class's list of tracers, and each       *)
(* prints one row as it goes.  The delay tracer prints a row per event.    *)
(* A cell of names is a list of lists, because the program puts each list  *)
(* in brackets of its own.                                                 *)
(*                                                                         *)
(* The reset and the printing per period are left out: SetAveragingPeriod  *)
(* is commented out in every Install, and the counters they are about are  *)
(* in no row.                                                              *)
(***************************************************************************)
EXTENDS Naturals, FiniteSets, SequencesExt

CONSTANTS
  AppsAtStart,  \* AppsAtStart[n]: types of the applications on node n, in order
  LateApps,     \* application types that may be added later
  NodeLists,    \* the node containers tracers are installed on
  Files,        \* file names, and "-" for the standard output
  CannotOpen,   \* the files that cannot be opened for writing
  Fired,        \* the trace sources that report in this instance
  Costs,        \* what an execution may report: processor, memory, time
  MaxGroups,    \* bound on the calls of Install
  MaxEvents,    \* bound on the events
  MaxLate       \* bound on the applications added later, all to one node

Nodes     == DOMAIN AppsAtStart
Resources == {"cpu", "ram", "rom", "time"}
Classes   == {"compute", "computeNode", "consumer", "orch", "orchUdp", "orchNode", "delay"}

VARIABLES
  apps,     \* apps[n]: types of the applications on node n, in order
  groups,   \* groups[c]: g_tracers of class c, a file and its tracers per Install
  opened,   \* files opened so far
  out,      \* what was written, in order: [file, class, kind, lines]
  log,      \* history: the events so far, [node, app, src, cost]
  asked,    \* history: per class, each Install that opened its file
  ended     \* Simulator::Destroy has been called

vars == <<apps, groups, opened, out, log, asked, ended>>

-----------------------------------------------------------------------------
(* Trace sources of the application types, but those no tracer connects to. *)

ConsumerSources == {"FirstInterestDataDelayInc", "SendInterestsInc", "IncomingDatasInc"}

ProducerSources ==
  {"SendComputeInterests", "RcvComputeInterests", "ExecutingFunctionTrace",
   "IncomingComputeDatas", "OutgoingComputeDatas", "NodeBusyFailure",
   "FuncDisabledFailure", "NFN_IntForwarded", "NFN_IntQueued", "NFN_FuncEnabled"}

CommunicationSources == {"SendOrchInterests", "IncomingOrchDatas", "SendOrchDecisions"}

UdpSources == {"UdpTx", "UdpRx", "UdpDeciTx"}

\* The application that obeys commands out of band (udpNode) does not have them.
NodeAppSources == {"EnableFunction", "DisableFunction"}

SourcesOf ==
  [consumer |-> ConsumerSources, producer |-> ProducerSources, ndnComm |-> CommunicationSources,
   udpComm |-> UdpSources, ndnNode |-> NodeAppSources, udpNode |-> {}]

AppTypes == DOMAIN SourcesOf

ASSUME FilesAssumption ==
  CannotOpen \subseteq Files /\ "-" \notin CannotOpen
ASSUME AppsAssumption ==
  AppsAtStart \in [Nodes -> Seq(AppTypes)] /\ LateApps \subseteq AppTypes

\* The scripts install the application that obeys commands before any other on
\* its node, and one per node (see Scenario, InstallBootstrap).
ASSUME NodeAppAssumption ==
  /\ \A n \in Nodes : \A i \in DOMAIN AppsAtStart[n] : AppsAtStart[n][i] = "ndnNode" => i = 1
  /\ "ndnNode" \notin LateApps
ASSUME InstanceAssumption ==
  /\ NodeLists \subseteq Seq(Nodes)
  /\ Costs \subseteq [Resources -> Nat] /\ Costs # {}
  /\ {MaxGroups, MaxEvents, MaxLate} \subseteq Nat

-----------------------------------------------------------------------------
(* What each class connects to, announces in its header and prints.  The   *)
(* columns after the node's are counters, names or sums of a source.       *)

C(s)    == [what |-> "count", src |-> s]
N(s)    == [what |-> "names", src |-> s]
U(s, r) == [what |-> "sum", src |-> s, of |-> r]

ComputeConnect ==
  {"SendComputeInterests", "RcvComputeInterests", "OutgoingComputeDatas",
   "IncomingComputeDatas", "NodeBusyFailure", "FuncDisabledFailure", "NFN_FuncEnabled",
   "NFN_IntForwarded", "NFN_IntQueued"}

ComputeHeader ==
  <<C("RcvComputeInterests"), C("SendComputeInterests"), C("IncomingComputeDatas"),
    C("OutgoingComputeDatas"), C("NFN_IntQueued"), C("NodeBusyFailure"), C("NFN_IntForwarded"),
    C("FuncDisabledFailure"), C("NFN_FuncEnabled"),
    N("SendComputeInterests"), N("RcvComputeInterests"), N("NodeBusyFailure"),
    N("FuncDisabledFailure"), N("NFN_FuncEnabled")>>

\* Wrong variant: two columns in the order of the callbacks, not of the header.
ComputeRowSwapped ==
  [ComputeHeader EXCEPT ![1] = C("SendComputeInterests"), ![2] = C("RcvComputeInterests")]

ComputeRow == ComputeHeader

ComputeNodeConnect == {"ExecutingFunctionTrace"}

\* The names hold the execution times too, so that the last column has no cell.
ComputeNodeHeader ==
  LET x == "ExecutingFunctionTrace"
  IN  <<C(x), U(x, "cpu"), U(x, "ram"), U(x, "rom"), U(x, "time"), N(x), N(x)>>

ComputeNodeRow == Front(ComputeNodeHeader)

ConsumerConnect == {"SendInterestsInc", "IncomingDatasInc"}

ConsumerRow == <<C("SendInterestsInc"), C("IncomingDatasInc"), N("IncomingDatasInc")>>

OrchConnect == {"SendOrchInterests", "IncomingOrchDatas", "SendOrchDecisions"}

OrchRow ==
  <<C("SendOrchInterests"), C("IncomingOrchDatas"), C("SendOrchDecisions"),
    N("SendOrchInterests"), N("SendOrchDecisions")>>

OrchUdpConnect == {"UdpTx", "UdpRx", "UdpDeciTx"}

OrchUdpRow == <<C("UdpTx"), C("UdpRx"), C("UdpDeciTx"), N("UdpTx"), N("UdpDeciTx")>>

OrchNodeConnect == {"EnableFunction", "DisableFunction"}

OrchNodeRow ==
  <<C("EnableFunction"), N("EnableFunction"), C("DisableFunction"), N("DisableFunction")>>

DelayConnect == {"FirstInterestDataDelayInc"}

Connected ==
  [compute |-> ComputeConnect, computeNode |-> ComputeNodeConnect,
   consumer |-> ConsumerConnect, orch |-> OrchConnect, orchUdp |-> OrchUdpConnect,
   orchNode |-> OrchNodeConnect, delay |-> DelayConnect]

Headings ==
  [compute |-> ComputeHeader, computeNode |-> ComputeNodeHeader, consumer |-> ConsumerRow,
   orch |-> OrchRow, orchUdp |-> OrchUdpRow, orchNode |-> OrchNodeRow, delay |-> <<>>]

Columns ==
  [compute |-> ComputeRow, computeNode |-> ComputeNodeRow, consumer |-> ConsumerRow,
   orch |-> OrchRow, orchUdp |-> OrchUdpRow, orchNode |-> OrchNodeRow, delay |-> <<>>]

-----------------------------------------------------------------------------
(* A tracer.                                                               *)

\* The applications whose trace sources a new tracer connects to.
Watched(c, n) == IF c = "orchNode" THEN {1} ELSE DOMAIN apps[n]

New(c, n) ==
  [node  |-> n,
   apps  |-> Watched(c, n),
   count |-> [s \in Connected[c] |-> 0],
   used  |-> [r \in Resources |-> 0],
   names |-> [s \in Connected[c] |-> <<>>]]

Hears(c, t, e) == e.node = t.node /\ e.app \in t.apps /\ e.src \in Connected[c]

\* Wrong variant: the name is noted and the event is not counted.
CallbackUncounted(t, e) == [t EXCEPT !.names[e.src] = Append(@, Len(log) + 1)]

\* The callback of the event's source; an event stands for the name it carries.
Callback(t, e) ==
  [t EXCEPT !.count[e.src] = @ + 1,
            !.names[e.src] = Append(@, Len(log) + 1),
            !.used = IF e.src = "ExecutingFunctionTrace"
                     THEN [r \in Resources |-> @[r] + e.cost[r]] ELSE @]

\* The stream that joins the names is never emptied, so that a cell has the lists
\* of the cells before it, too.
NamesCell(c, t, i) ==
  [j \in {j \in 1 .. i : Columns[c][j].what = "names"} |-> t.names[Columns[c][j].src]]

PrintSum(c, t) ==
  [i \in DOMAIN Columns[c] |->
     LET k == Columns[c][i]
     IN  CASE k.what = "count" -> t.count[k.src]
           [] k.what = "sum"   -> t.used[k.of]
           [] k.what = "names" -> NamesCell(c, t, i)]

\* What is written in one go: lines[i] is about the i-th tracer of a group.
HeaderOf(f, c) == [file |-> f, class |-> c, kind |-> "header", lines |-> <<>>]
RowsOf(c, g) ==
  [file |-> g.file, class |-> c, kind |-> "rows",
   lines |-> [i \in DOMAIN g.members |->
                [node |-> g.members[i].node, cells |-> PrintSum(c, g.members[i])]]]
DelaysOf(g, e) ==
  [file |-> g.file, class |-> "delay", kind |-> "delays",
   lines |-> [i \in {i \in DOMAIN g.members : Hears("delay", g.members[i], e)} |->
                [node |-> g.members[i].node, event |-> Len(log) + 1]]]

-----------------------------------------------------------------------------
(* What a simulation script and the simulator do.                          *)

Init ==
  /\ apps = AppsAtStart
  /\ groups = [c \in Classes |-> <<>>]
  /\ opened = {}
  /\ out = <<>>
  /\ log = <<>>
  /\ asked = [c \in Classes |-> <<>>]
  /\ ended = FALSE

AddApplication ==
  /\ ~ ended
  /\ \E n \in Nodes, a \in LateApps :
       /\ Len(apps[n]) < Len(AppsAtStart[n]) + MaxLate
       /\ \A m \in Nodes \ {n} : apps[m] = AppsAtStart[m]
       /\ apps' = [apps EXCEPT ![n] = Append(@, a)]
  /\ UNCHANGED <<groups, opened, out, log, asked, ended>>

Installed == UNION {{c} \X DOMAIN asked[c] : c \in Classes}

\* The three forms of Install differ in how the nodes are named.  A file that
\* cannot be opened leaves everything as it is; the scripts open each file once.
Install(c, ns, f) ==
  /\ ~ ended /\ Cardinality(Installed) < MaxGroups
  /\ f \notin opened
  /\ c = "orchNode" => \A i \in DOMAIN ns : apps[ns[i]] # <<>>
  /\ f \notin CannotOpen
  /\ groups' = [groups EXCEPT ![c] =
                  Append(@, [file |-> f, members |-> [i \in DOMAIN ns |-> New(c, ns[i])]])]
  /\ opened' = opened \union ({f} \ {"-"})
  /\ out' = IF ns = <<>> THEN out ELSE Append(out, HeaderOf(f, c))
  /\ asked' = [asked EXCEPT ![c] =
                 Append(@, [file |-> f, nodes |-> ns, since |-> Len(log),
                            had |-> [i \in DOMAIN ns |-> DOMAIN apps[ns[i]]]])]
  /\ UNCHANGED <<apps, log, ended>>

InstallComputeTracer(ns, f)     == Install("compute", ns, f)
InstallComputeNodeTracer(ns, f) == Install("computeNode", ns, f)
InstallConsumerTracer(ns, f)    == Install("consumer", ns, f)
InstallOrchTracer(ns, f)        == Install("orch", ns, f)
InstallOrchUdpTracer(ns, f)     == Install("orchUdp", ns, f)
InstallOrchNodeTracer(ns, f)    == Install("orchNode", ns, f)
InstallDelayTracer(ns, f)       == Install("delay", ns, f)

\* An application reports to the callbacks connected to the source, oldest first.
Told(c, g, e) ==
  [g EXCEPT !.members =
     [i \in DOMAIN @ |-> IF Hears(c, @[i], e) THEN Callback(@[i], e) ELSE @[i]]]

Report(e) ==
  /\ groups' = [c \in Classes |->
       IF c = "delay" THEN groups[c]
       ELSE [k \in DOMAIN groups[c] |-> Told(c, groups[c][k], e)]]
  /\ out' = out \o [k \in DOMAIN groups["delay"] |-> DelaysOf(groups["delay"][k], e)]
  /\ log' = Append(log, e)

Fire ==
  /\ ~ ended /\ Len(log) < MaxEvents
  /\ \E n \in Nodes : \E i \in DOMAIN apps[n] :
       \E s \in SourcesOf[apps[n][i]] \intersect Fired, cost \in Costs :
         Report([node |-> n, app |-> i, src |-> s, cost |-> cost])
  /\ UNCHANGED <<apps, opened, asked, ended>>

EndSimulation ==
  /\ ~ ended
  /\ ended' = TRUE
  /\ UNCHANGED <<apps, groups, opened, out, log, asked>>

\* Wrong variant: the list is emptied and nobody prints.
DestroySilently(c) ==
  /\ ended /\ groups[c] # <<>>
  /\ groups' = [groups EXCEPT ![c] = <<>>]
  /\ UNCHANGED <<apps, opened, out, log, asked, ended>>

\* Called for after a run, and at the end of the program for every class: the
\* callbacks hold plain pointers to the tracers, so that no event may follow.
Destroy(c) ==
  /\ ended /\ groups[c] # <<>>
  /\ out' = IF c = "delay" THEN out
            ELSE out \o [k \in DOMAIN groups[c] |-> RowsOf(c, groups[c][k])]
  /\ groups' = [groups EXCEPT ![c] = <<>>]
  /\ UNCHANGED <<apps, opened, log, asked, ended>>

Next ==
  \/ AddApplication
  \/ \E ns \in NodeLists, f \in Files :
       \/ InstallComputeTracer(ns, f) \/ InstallComputeNodeTracer(ns, f)
       \/ InstallConsumerTracer(ns, f) \/ InstallDelayTracer(ns, f)
       \/ InstallOrchTracer(ns, f) \/ InstallOrchUdpTracer(ns, f)
       \/ InstallOrchNodeTracer(ns, f)
  \/ Fire
  \/ EndSimulation
  \/ \E c \in Classes : Destroy(c)

Spec == Init /\ [][Next]_vars

-----------------------------------------------------------------------------
(* Properties.                                                             *)

\* A tracer of class c: it counts what its class connects to.
Tracer(c) ==
  [node : Nodes, apps : SUBSET Nat, count : [Connected[c] -> Nat],
   used : [Resources -> Nat], names : [Connected[c] -> Seq(Nat)]]

\* Each variable has its type; a tracer has a name for all it has counted, and
\* only files that have been opened are written.
TypeOK ==
  /\ apps \in [Nodes -> Seq(AppTypes)]
  /\ DOMAIN groups = Classes
  /\ \A c \in Classes :
       /\ groups[c] \in Seq([file : Files, members : Seq(Tracer(c))])
       /\ \A k \in DOMAIN groups[c] : \A i \in DOMAIN groups[c][k].members :
            LET t == groups[c][k].members[i]
            IN  \A s \in Connected[c] : Len(t.names[s]) = t.count[s]
  /\ opened \subseteq Files \ ({"-"} \union CannotOpen)
  /\ \A b \in 1 .. Len(out) : out[b].file \in opened \union {"-"} /\ out[b].class \in Classes
  /\ \A e \in 1 .. Len(log) : log[e].node \in Nodes /\ log[e].cost \in Costs
  /\ asked \in [Classes -> Seq([file : Files, nodes : NodeLists, since : Nat,
                                had : Seq(SUBSET Nat)])]
  /\ ended \in BOOLEAN

\* The events of s that the i-th tracer of the Install a should have heard: those
\* since, of the applications that were on its node then.
HeardOf(a, i, s) ==
  {e \in (a.since + 1) .. Len(log) :
     log[e].src = s /\ log[e].node = a.nodes[i] /\ log[e].app \in a.had[i]}

\* What they cost of r, all together.
SumOf(a, i, s, r) ==
  LET total[e \in a.since .. Len(log)] ==
        IF e = a.since THEN 0
        ELSE total[e - 1] + IF e \in HeardOf(a, i, s) THEN log[e].cost[r] ELSE 0
  IN  total[Len(log)]

\* The list has each member of S once, in the order in which they happened.
Lists(list, S) ==
  /\ {list[j] : j \in DOMAIN list} = S
  /\ \A j, k \in DOMAIN list : j < k => list[j] < list[k]

\* Every heading has a cell but FunctionsExecTime: its times are in the cell before.
HasCell(c, j) == ~ (c = "computeNode" /\ j = Len(Headings[c]))

\* The cell in column j of class c: the number, the sum, or the names its heading is
\* about, each of the lists that are in it those of one names column up to this one.
Tells(c, a, i, j, cell) ==
  LET h == Headings[c][j]
  IN  CASE h.what = "count" -> cell = Cardinality(HeardOf(a, i, h.src))
        [] h.what = "sum"   -> cell = SumOf(a, i, h.src, h.of)
        [] h.what = "names" ->
             /\ DOMAIN cell = {k \in 1 .. j : Headings[c][k].what = "names"}
             /\ \A k \in DOMAIN cell : Lists(cell[k], HeardOf(a, i, Headings[c][k].src))

RowIsExact(c, a, i, cells) ==
  /\ DOMAIN cells = {j \in DOMAIN Headings[c] : HasCell(c, j)}
  /\ \A j \in DOMAIN cells : Tells(c, a, i, j, cells[j])

\* The rows of class c are the writes after the b-th, one for each Install.
PrintedAfter(c, b) ==
  {w \in DOMAIN out : out[w].class = c /\ out[w].kind = "rows"} = (b + 1) .. (b + Len(asked[c]))

\* The lines of the delay tracers about event e: one for each that heard it, in
\* its file, in the order in which they were installed.
DelaysPrinted(e) ==
  LET Asked    == asked["delay"]
      Heard(k) == {i \in DOMAIN Asked[k].nodes :
                     e \in HeardOf(Asked[k], i, "FirstInterestDataDelayInc")}
      Delays   == {w \in DOMAIN out : out[w].kind = "delays"}
  IN  \E b \in 0 .. Len(out) :
        /\ \A k \in DOMAIN Asked : \A i \in Heard(k) :
             /\ b + k \in Delays /\ out[b + k].file = Asked[k].file
             /\ i \in DOMAIN out[b + k].lines
             /\ out[b + k].lines[i] = [node |-> Asked[k].nodes[i], event |-> e]
        /\ \A w \in Delays : \A i \in DOMAIN out[w].lines :
             out[w].lines[i].event = e => \E k \in DOMAIN Asked : w = b + k /\ i \in Heard(k)

\* What is in the rows, neither more nor less, at any time in the row a tracer would
\* print and in the end in the one it has printed: under a heading of a counter or a
\* sum, that of the events the tracer should have heard; under a heading of names,
\* their names in order, after those of each column of names before it (PrintSum
\* clears the stream's state, not its text: see NamesAreOwn); and no cell under
\* FunctionsExecTime.  The delay tracers have printed a line for each event they
\* should have heard.
RowsAreExact ==
  /\ \A c \in Classes \ {"delay"} :
       /\ \A k \in DOMAIN groups[c] : \A i \in DOMAIN groups[c][k].members :
            RowIsExact(c, asked[c][k], i, PrintSum(c, groups[c][k].members[i]))
       /\ \A b \in 0 .. Len(out) : groups[c] = <<>> /\ PrintedAfter(c, b) =>
            \A k \in DOMAIN asked[c] : \A i \in DOMAIN out[b + k].lines :
              RowIsExact(c, asked[c][k], i, out[b + k].lines[i].cells)
  /\ \A e \in 1 .. Len(log) : DelaysPrinted(e)

\* The names a cell holds, of all its lists.
NamesIn(cell) == UNION {{cell[k][m] : m \in DOMAIN cell[k]} : k \in DOMAIN cell}

\* A cell of names in a printed row holds the names its heading is about and no
\* others, as the header announces ("ReceivedInterestNames", "FuncNames").
NamesAreOwn ==
  \A c \in Classes : \A b \in 0 .. Len(out) : groups[c] = <<>> /\ PrintedAfter(c, b) =>
    \A k \in DOMAIN asked[c] : \A i \in DOMAIN out[b + k].lines :
      LET cells == out[b + k].lines[i].cells
      IN  \A j \in DOMAIN cells : Headings[c][j].what = "names" =>
            NamesIn(cells[j]) = HeardOf(asked[c][k], i, Headings[c][j].src)

\* Each Install writes its header if it has a node and, once the class is destroyed
\* and not before, one row per node in the order of the nodes, in its own file, the
\* rows of one class one after the other and after the headers.
OneRowEach ==
  \A c \in Classes \ {"delay"} :
    /\ \A k \in DOMAIN asked[c] : asked[c][k].nodes # <<>> =>
         \E w \in DOMAIN out : out[w] = HeaderOf(asked[c][k].file, c)
    /\ IF groups[c] # <<>> THEN \A w \in DOMAIN out : out[w].class = c => out[w].kind = "header"
       ELSE \E b \in 0 .. Len(out) :
              /\ PrintedAfter(c, b)
              /\ \A w \in (b + 1) .. Len(out) : out[w].class = c => out[w].kind = "rows"
              /\ \A k \in DOMAIN asked[c] :
                   /\ out[b + k].file = asked[c][k].file
                   /\ DOMAIN out[b + k].lines = DOMAIN asked[c][k].nodes
                   /\ \A i \in DOMAIN asked[c][k].nodes :
                        out[b + k].lines[i].node = asked[c][k].nodes[i]
=============================================================================
