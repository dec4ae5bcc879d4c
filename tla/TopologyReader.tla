---------------------------- MODULE TopologyReader ----------------------------
(***************************************************************************)
(* What the file of a scenario becomes when it is read: ReadTopology of    *)
(* inc-annotated-topology-reader, which builds the network, and            *)
(* hier-parser-node-info, which reads the same file again for what the     *)
(* applications are to ask and to provide.                                 *)
(***************************************************************************)
EXTENDS Dataset

\* What is read line by line: the fold of the lines, as a function of how many of
\* them have been read.
AfterLines(step(_, _), start, lines) ==
  LET after[k \in 0 .. Len(lines)] == IF k = 0 THEN start ELSE step(after[k - 1], lines[k])
  IN  after[Len(lines)]

-----------------------------------------------------------------------------
(* ReadTopology.                                                           *)

\* The two node containers, in the order of the lines.
ComputeLines(routers) ==
  Chosen(routers, {i \in DOMAIN routers : routers[i].name[1] \in {"orchestrator", "compute"}})

ConsumerLines(routers) ==
  Chosen(routers, {i \in DOMAIN routers : routers[i].name[1] = "consumer"})

CreateIncComputeNode(line) ==
  [name |-> line.name, tier |-> line.tier, functions |-> <<>>, enabled |-> {}]

NamesOf(lines) == [i \in DOMAIN lines |-> lines[i].name]

\* A link that was read the other way round before is skipped; the same line
\* again is not.
AddLink(links, line) ==
  IF \E i \in DOMAIN links : links[i] = <<line[2], line[1]>> THEN links ELSE Append(links, line)

LinksRead(lines) == AfterLines(AddLink, <<>>, lines)

\* NS_ASSERT_MSG: both ends of a link have been created.
EndsExist(lines, names) == \A i \in DOMAIN lines : {lines[i][1], lines[i][2]} \subseteq names

\* A function as the reader creates it: the list of its inputs is "null".
ReadFunction(line) == [name |-> line.name, params |-> Len(line.signature), inputs |-> <<>>]

\* m_initial_func_status: for each node the functions of its lines.
ReadStatus(lines) ==
  LET Of(n) == Chosen(lines, {i \in DOMAIN lines : lines[i].node = n})
  IN  [n \in {lines[i].node : i \in DOMAIN lines} |-> [i \in DOMAIN Of(n) |-> Of(n)[i].name]]

\* AddToInputList: an operand is added unless it is found in the text so far.
AddToInputList(list, operand) == IF Found(operand, list) THEN list ELSE Append(list, operand)

\* Every line of the consumer section adds its inputs to the function it names.
ReadRequest(functions, line) ==
  [i \in DOMAIN functions |->
     IF functions[i].name # line.func THEN functions[i]
     ELSE [functions[i] EXCEPT !.inputs = AfterLines(AddToInputList, @, line.inputs)]]

RequestsRead(functions, lines) == AfterLines(ReadRequest, functions, lines)

\* A copy of each function for every compute node but the orchestrator.
AddNewFunctions(nodes, functions) ==
  [i \in DOMAIN nodes |-> IF i = 1 THEN nodes[i] ELSE [nodes[i] EXCEPT !.functions = functions]]

-----------------------------------------------------------------------------
(* parserNodeInfo.                                                         *)

\* Prefixes name what they lead to.
NodePrefix(node)     == [to |-> "node", of |-> node]
FunctionPrefix(f)    == [to |-> "function", of |-> f]
LambdaPrefix         == [to |-> "lambda", of |-> "any"]
DataPrefix(operand)  == [to |-> "data", of |-> operand]
RequestPrefix(line)  == [to |-> "request", of |-> [func |-> line.func, inputs |-> line.inputs]]

UpdateComputeInfo(nodes) ==
  [i \in DOMAIN nodes |->
     [name |-> nodes[i].name, prefix |-> NodePrefix(nodes[i].name), functions |-> <<>>]]

\* Wrong variant: every line makes a consumer of its own.
SeenNever(info, line) == Append(info, [name |-> line.who, requests |-> <<>>, provides |-> <<>>])

\* The place of a consumer in the result is that of its first line in the file.
Seen(info, line) ==
  IF \E i \in DOMAIN info : info[i].name = line.who THEN info
  ELSE Append(info, [name |-> line.who, requests |-> <<>>, provides |-> <<>>])

UpdateRequest(info, line) ==
  LET seen == Seen(info, line)
  IN  [i \in DOMAIN seen |->
         IF seen[i].name # line.who THEN seen[i]
         ELSE [seen[i] EXCEPT !.requests = Append(@, RequestPrefix(line))]]

UpdateData(info, line) ==
  LET seen == Seen(info, line)
  IN  [i \in DOMAIN seen |->
         IF seen[i].name # line.who THEN seen[i]
         ELSE [seen[i] EXCEPT !.provides = Append(@, DataPrefix(line.data))]]

UpdateConsumerInfo(requests, provided) ==
  AfterLines(UpdateData, AfterLines(UpdateRequest, <<>>, requests), provided)
=============================================================================
