------------------------------- MODULE Scenario -------------------------------
(***************************************************************************)
(* The scenario nfn-hydro up to the start of the simulation: it has a data *)
(* set written (Dataset), reads the file twice (TopologyReader), puts the  *)
(* applications on the nodes and announces the prefixes they serve.  Four  *)
(* arrays are built on the way, of compute nodes, of what is known of      *)
(* them, of consumers and of what is known of those, and matched by index. *)
(***************************************************************************)
EXTENDS TopologyReader

CONSTANTS
  Settings,  \* the command lines: see Usable, and orch for orchestration-switch
  Draws      \* the requests [func, inputs] the generator may draw, of all it could

ASSUME SettingsAssumption ==
  \A s \in Settings : Usable(s) /\ s.data = s.consumers /\ {s.load, s.orch} \subseteq BOOLEAN
ASSUME DrawsAssumption == Draws \subseteq [func : Nat, inputs : Seq(Nat)]

VARIABLES
  p,        \* the settings of this execution
  stage,    \* how far the scenario is
  drawn,    \* the generator's draws: inputs per function, data names, bursts done
  file,     \* the sections of the file
  net,      \* what the reader builds: nodes, consumers, links, functions, status
  info,     \* what the parser knows of compute nodes and of consumers
  apps,     \* apps[n]: the applications on node n, in order
  origins   \* the prefixes announced, with the node

vars == <<p, stage, drawn, file, net, info, apps, origins>>

EmptyFile ==
  [routers |-> <<>>, links |-> <<>>, functions |-> <<>>, status |-> <<>>,
   requests |-> <<>>, data |-> <<>>]

EmptyNet ==
  [nodes |-> <<>>, consumers |-> <<>>, links |-> <<>>, functions |-> <<>>, status |-> <<>>]

Stages ==
  <<"routers", "links", "functions", "bursts", "others", "data",
    "readNodes", "readLinks", "readFunctions", "readRequests", "parse",
    "setUp", "bootstrap", "consumers", "producers", "dataProducers", "polls", "origins", "run">>

Init ==
  /\ p \in Settings
  /\ stage = "routers"
  /\ drawn = [inputs |-> <<>>, provided |-> <<>>, bursts |-> 0]
  /\ file = EmptyFile
  /\ net = EmptyNet
  /\ info = [compute |-> <<>>, consumers |-> <<>>]
  /\ apps = <<>>
  /\ origins = {}

At(s)   == stage = s
Then(s) == stage' = s

-----------------------------------------------------------------------------
(* Writing the file.                                                       *)

WriteRouters ==
  /\ At("routers") /\ Then("links")
  /\ file' = [file EXCEPT !.routers = RouterSection(p)]
  /\ UNCHANGED <<p, drawn, net, info, apps, origins>>

WriteLinks ==
  /\ At("links") /\ Then("functions")
  /\ file' = [file EXCEPT !.links = LinkSection(p)]
  /\ UNCHANGED <<p, drawn, net, info, apps, origins>>

WriteFunctions ==
  /\ At("functions") /\ Then("bursts")
  /\ \E list \in FuncLists(p), provided \in ProvidedData(p) :
       /\ drawn' = [drawn EXCEPT !.inputs = list, !.provided = provided]
       /\ file' = [file EXCEPT !.functions = FunctionSection(list), !.status = StatusSection(list)]
  /\ UNCHANGED <<p, net, info, apps, origins>>

\* A function is drawn, and a list of inputs as long as the function's.
Drawable ==
  {d \in Draws : d.func < p.funcs /\ d.inputs \in InputLists(drawn.inputs[d.func + 1], p.data)}

AskBy(who) ==
  \E d \in [DOMAIN who -> Drawable] :
    file' = [file EXCEPT !.requests =
               @ \o [i \in DOMAIN who |-> RequestLine(who[i], d[i].func, d[i].inputs)]]

WriteBurst ==
  /\ At("bursts")
  /\ Then(IF drawn.bursts = 2 THEN "others" ELSE "bursts")
  /\ drawn' = [drawn EXCEPT !.bursts = @ + 1]
  /\ \E load \in LoadIndexes(p) : AskBy(BurstConsumers(p, load))
  /\ UNCHANGED <<p, net, info, apps, origins>>

WriteOthers ==
  /\ At("others") /\ Then("data")
  /\ AskBy(OtherConsumers(p))
  /\ UNCHANGED <<p, drawn, net, info, apps, origins>>

WriteData ==
  /\ At("data") /\ Then("readNodes")
  /\ file' = [file EXCEPT !.data = DataSection(p, drawn.provided)]
  /\ UNCHANGED <<p, drawn, net, info, apps, origins>>

-----------------------------------------------------------------------------
(* Reading it.                                                             *)

ReadNodes ==
  /\ At("readNodes") /\ Then("readLinks")
  /\ LET lines == ComputeLines(file.routers)
     IN  net' = [net EXCEPT !.nodes = [i \in DOMAIN lines |-> CreateIncComputeNode(lines[i])],
                            !.consumers = NamesOf(ConsumerLines(file.routers))]
  /\ UNCHANGED <<p, drawn, file, info, apps, origins>>

Names == {net.nodes[i].name : i \in DOMAIN net.nodes} \union Range(net.consumers)

ReadLinks ==
  /\ At("readLinks") /\ Then("readFunctions")
  /\ EndsExist(file.links, Names)
  /\ net' = [net EXCEPT !.links = LinksRead(file.links)]
  /\ UNCHANGED <<p, drawn, file, info, apps, origins>>

ReadFunctions ==
  /\ At("readFunctions") /\ Then("readRequests")
  /\ net' = [net EXCEPT !.functions = [i \in DOMAIN file.functions |-> ReadFunction(file.functions[i])],
                        !.status = ReadStatus(file.status)]
  /\ UNCHANGED <<p, drawn, file, info, apps, origins>>

ReadRequests ==
  /\ At("readRequests") /\ Then("parse")
  /\ LET functions == RequestsRead(net.functions, file.requests)
     IN  net' = [net EXCEPT !.functions = functions,
                            !.nodes = AddNewFunctions(net.nodes, functions)]
  /\ apps' = [n \in Names |-> <<>>]
  /\ UNCHANGED <<p, drawn, file, info, origins>>

ParseNodeInfo ==
  /\ At("parse") /\ Then("setUp")
  /\ info' = [compute |-> UpdateComputeInfo(net.nodes),
              consumers |-> UpdateConsumerInfo(file.requests, file.data)]
  /\ UNCHANGED <<p, drawn, file, net, apps, origins>>

-----------------------------------------------------------------------------
(* Applications.                                                           *)

App(type, prefix, at) == [type |-> type, prefix |-> prefix, at |-> at]

\* Installing applications: the first |more[n]| places after those on node n.
Install(more) == apps' = [n \in DOMAIN apps |-> IF n \in DOMAIN more THEN apps[n] \o more[n] ELSE apps[n]]

InitialFunctions(i) ==
  LET n == net.nodes[i].name
  IN  IF i > 1 /\ n \in DOMAIN net.status THEN net.status[n] ELSE <<>>

\* EnableFunction says false for a function the node does not have.
SetUpFunctions ==
  /\ At("setUp") /\ Then("bootstrap")
  /\ LET Has(node) == {node.functions[k].name : k \in DOMAIN node.functions}
         SetUp(i, node) == [node EXCEPT !.enabled = Range(InitialFunctions(i)) \intersect Has(node)]
         Known(i, c) == [c EXCEPT !.functions = <<LambdaPrefix>> \o
           [k \in DOMAIN InitialFunctions(i) |-> FunctionPrefix(InitialFunctions(i)[k])]]
     IN  /\ net' = [net EXCEPT !.nodes = [i \in DOMAIN net.nodes |-> SetUp(i, net.nodes[i])]]
         /\ info' = [info EXCEPT !.compute = [i \in DOMAIN info.compute |->
              IF i = 1 THEN info.compute[i] ELSE Known(i, info.compute[i])]]
  /\ UNCHANGED <<p, drawn, file, apps, origins>>

\* The nodes the orchestrator looks after: neither itself nor the cloud.
Managed == 3 .. Len(net.nodes)

Home == net.nodes[1].name

Asking(kind, at) ==
  [k \in 1 .. Cardinality(Managed) |-> App(kind, info.compute[k + 2].prefix, at)]

\* With orchestration, an application per node obeys, and one asks it for what
\* it is.
InstallBootstrap ==
  /\ At("bootstrap") /\ Then("consumers")
  /\ IF p.orch
     THEN Install([n \in {net.nodes[i].name : i \in Managed} \union {Home} |->
            IF n = Home THEN Asking("bootstrap", 1)
            ELSE <<App("node", info.compute[CHOOSE i \in Managed : net.nodes[i].name = n].prefix, 0)>>])
     ELSE UNCHANGED apps
  /\ UNCHANGED <<p, drawn, file, net, info, origins>>

\* The t-th consumer of the parser asks from the t-th node of the container.
InstallConsumers ==
  /\ At("consumers") /\ Then("producers")
  /\ LET Here(n) == {t \in DOMAIN info.consumers : net.consumers[t] = n}
         Of(t) == [k \in DOMAIN info.consumers[t].requests |->
                     App("consumer", info.consumers[t].requests[k], 0)]
     IN  Install([n \in Range(net.consumers) |->
                    IF Here(n) = {} THEN <<>> ELSE Of(CHOOSE t \in Here(n) : TRUE)])
  /\ UNCHANGED <<p, drawn, file, net, info, origins>>

InstallProducers ==
  /\ At("producers") /\ Then("dataProducers")
  /\ LET Of(i) == [k \in DOMAIN info.compute[i].functions |->
                     App("nfnProducer", info.compute[i].functions[k], 0)]
         Orchestrate == <<App("nfnProducer", [to |-> "orchestrate", of |-> "any"], 0)>>
     IN  Install([n \in {net.nodes[i].name : i \in DOMAIN net.nodes} |->
                    IF n = Home /\ p.orch THEN Orchestrate
                    ELSE Of(CHOOSE i \in DOMAIN net.nodes : net.nodes[i].name = n)])
  /\ UNCHANGED <<p, drawn, file, net, info, origins>>

InstallDataProducers ==
  /\ At("dataProducers") /\ Then("polls")
  /\ LET Of(t) == [k \in DOMAIN info.consumers[t].provides |->
                     App("dataProducer", info.consumers[t].provides[k], 0)]
         Here(n) == {t \in DOMAIN info.consumers : net.consumers[t] = n}
     IN  Install([n \in Range(net.consumers) |->
                    IF Here(n) = {} THEN <<>> ELSE Of(CHOOSE t \in Here(n) : TRUE)])
  /\ UNCHANGED <<p, drawn, file, net, info, origins>>

InstallPolls ==
  /\ At("polls") /\ Then("origins")
  /\ IF p.orch
     THEN Install([n \in {Home} |->
            Asking("poll", 10) \o <<App("management", [to |-> "none", of |-> "any"], 12)>>])
     ELSE UNCHANGED apps
  /\ UNCHANGED <<p, drawn, file, net, info, origins>>

NodeOrigins == IF p.orch THEN {<<info.compute[i].prefix, net.nodes[i].name>> : i \in DOMAIN net.nodes}
               ELSE {}

\* Wrong variant: only the functions that start on a node are announced.
FunctionOriginsByName ==
  UNION {{<<f, net.nodes[i].name>> : f \in Range(info.compute[i].functions) \ {LambdaPrefix}}
           : i \in 2 .. Len(net.nodes)}

FunctionOrigins ==
  UNION {{<<f, net.nodes[i].name>> : f \in Range(info.compute[i].functions)}
           : i \in 2 .. Len(net.nodes)}

DataOrigins ==
  UNION {{<<d, net.consumers[t]>> : d \in Range(info.consumers[t].provides)}
           : t \in 1 .. p.consumers}

AddOrigins ==
  /\ At("origins") /\ Then("run")
  /\ origins' = NodeOrigins \union FunctionOrigins \union DataOrigins
  /\ UNCHANGED <<p, drawn, file, net, info, apps>>

\* The simulation itself is the other modules' concern.
Run == At("run") /\ UNCHANGED vars

Next ==
  \/ WriteRouters \/ WriteLinks \/ WriteFunctions \/ WriteBurst \/ WriteOthers \/ WriteData
  \/ ReadNodes \/ ReadLinks \/ ReadFunctions \/ ReadRequests \/ ParseNodeInfo
  \/ SetUpFunctions \/ InstallBootstrap \/ InstallConsumers \/ InstallProducers
  \/ InstallDataProducers \/ InstallPolls \/ AddOrigins
  \/ Run

Spec == Init /\ [][Next]_vars

-----------------------------------------------------------------------------
(* Properties.                                                             *)

\* Each variable has its type.
TypeOK ==
  /\ p \in Settings /\ stage \in Range(Stages)
  /\ drawn.bursts \in 0 .. 3
  /\ \A i \in DOMAIN file.requests : file.requests[i].inputs \in Seq(0 .. p.data)
  /\ \A i \in DOMAIN net.nodes : net.nodes[i].enabled \subseteq 0 .. p.funcs - 1
  /\ Len(info.consumers) <= p.consumers /\ Len(info.compute) = IF info.compute = <<>> THEN 0 ELSE Len(net.nodes)
  /\ DOMAIN apps \in {{}, Names}

Linked(a, b) == <<a, b>> \in Range(net.links) \/ <<b, a>> \in Range(net.links)

Beyond(S) == S \union {b \in Names : \E a \in S : Linked(a, b)}

\* Once the links are read, everything is within two of the orchestrator; the
\* gateway is linked to the cloud and to tier 2, each of tier 2 to two of tier 3;
\* each consumer hangs by one link on a node of tier 3, and the consumers are
\* spread evenly over that tier.
Wired ==
  At("readFunctions") =>
    LET Tiered(t) == {k \in DOMAIN net.nodes : net.nodes[k].tier = t}
        Joins(k, l) == Linked(net.nodes[k].name, net.nodes[l].name)
        Ends(n) == Cardinality({i \in DOMAIN net.links : n \in Range(net.links[i])})
        Load(k) == Cardinality({c \in Range(net.consumers) : Linked(net.nodes[k].name, c)})
    IN  /\ Beyond(Beyond({Home})) = Names
        /\ \A g \in Tiered("gateway"), k \in Tiered("cloud") \union Tiered("tier2") : Joins(g, k)
        /\ \A k \in Tiered("tier2") :
             \E x, y \in Tiered("tier3") : x # y /\ Joins(k, x) /\ Joins(k, y)
        /\ \A i \in DOMAIN net.links :
             net.links[i][2] \in Range(net.consumers) =>
               \E k \in Tiered("tier3") : net.nodes[k].name = net.links[i][1]
        /\ \A c \in Range(net.consumers) : Ends(c) = 1
        /\ \A k, m \in Tiered("tier3") : Load(k) <= Load(m) + 1

Runs(n, type, prefix) == \E i \in DOMAIN apps[n] : apps[n][i].type = type /\ apps[n][i].prefix = prefix

Served(type, prefix) ==
  \E n \in Names : Runs(n, type, prefix) /\ {m \in Names : <<prefix, m>> \in origins} = {n}

\* The list of a function has the input, or a name that the input's begins:
\* AddToInputList then takes it for listed.
ListsOrHides(copy, a) ==
  a \in Range(copy.inputs) \/ \E b \in Range(copy.inputs) : b # a /\ Begins(a, b)

\* The nodes a consumer's Interest may be routed to: "/lambda/Function/func-i/..."
\* begins with this prefix and with no other that is announced.
RequestOrigins == {m \in Names : <<LambdaPrefix, m>> \in origins}

\* A consumer's request leads to the compute nodes, all but the orchestrator's, and
\* at each a producer takes it whose node has a copy of the function, with as many
\* inputs as the request.  One of them has the function enabled, and it serves the
\* function's own name, by which the others fetch it, alone.  Every input that
\* somebody provides is produced where the routes lead; one is that nobody does,
\* and a request for it is not answered.
RequestIsServed(request) ==
  LET f == request.of.func
      Nodes == {i \in DOMAIN net.nodes : net.nodes[i].name \in RequestOrigins}
      Copies(i) == {copy \in Range(net.nodes[i].functions) : copy.name = f}
  IN  /\ RequestOrigins = {net.nodes[i].name : i \in Nodes} /\ Nodes = 2 .. Len(net.nodes)
      /\ \A i \in Nodes :
           /\ Runs(net.nodes[i].name, "nfnProducer", LambdaPrefix)
           /\ Copies(i) # {}
           /\ \A copy \in Copies(i) :
                /\ copy.params = Len(request.of.inputs)
                /\ \A a \in Range(request.of.inputs) : ListsOrHides(copy, a)
      /\ Served("nfnProducer", FunctionPrefix(f))
      /\ \E i \in Nodes :
           /\ f \in net.nodes[i].enabled
           /\ Runs(net.nodes[i].name, "nfnProducer", FunctionPrefix(f))
      /\ \A a \in Range(request.of.inputs) :
           a \in Range(drawn.provided) => Served("dataProducer", DataPrefix(a))

\* When the simulation starts, the routes lead what the applications ask to one
\* that serves it: the requests of the consumers, but for the one input that nobody
\* provides (RequestIsServed), and the orchestrator's questions, each of which is
\* put first to introduce the node and then to poll it, before the first decision.
AskedIsServed ==
  stage = "run" =>
    /\ \A n \in Names : \A i \in DOMAIN apps[n] :
         LET a == apps[n][i]
         IN  /\ a.type = "consumer" => RequestIsServed(a.prefix)
             /\ a.type \in {"bootstrap", "poll"} => Served("node", a.prefix)
             /\ a.type = "poll" =>
                  \E j \in DOMAIN apps[n] : /\ apps[n][j].type = "bootstrap"
                                            /\ apps[n][j].prefix = a.prefix
                                            /\ apps[n][j].at < a.at
             /\ a.type = "management" =>
                  \A j \in DOMAIN apps[n] : apps[n][j].type = "poll" => apps[n][j].at < a.at
    /\ Cardinality((0 .. p.data) \ Range(drawn.provided)) = 1
=============================================================================
