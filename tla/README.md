# A verification project for incSIM

incSIM simulates in-network computing on top of ns-3 and ndnSIM: consumers ask
for the result of a function applied to named data, compute nodes on the path
execute the function, fetch what they lack, or pass the request on, and an
orchestrator enables and disables functions on the nodes. This directory holds
TLA+ models of its core, model-checking configurations for TLC, and proofs for
TLAPS.

Contents: [parts](#the-system) · [modules](#modules) · [runs](#runs) ·
[what the runs found](#disagreements-between-code-and-documentation) ·
[proofs](#proofs) · [not modelled](#what-is-not-modelled) · [plan](#plan)

## The system

The simulator is single-threaded. An event handler runs to completion, so one
handler is one atomic step. Calls from an application to the forwarder are
synchronous; the forwarder calls an application through a scheduled event.
Concurrency is therefore an interleaving of events: packets, timers,
orchestrator commands. Paths below are relative to `src/`.

| part | source | state | operations |
|---|---|---|---|
| NFN producer application | `apps/inc_compute_node_apps/inc_compute_app/NFN-producer-app.cpp` | pending content table, sending list, waiting list | `OnInterest`, `OnData`, `ResolveAndHandleDecisions`, `DoExecution`, `ScheduledExecutionEnd`, `ForwardInterest` |
| resolution engine | `.../NFN-interest-resolution-engine.cpp` | a global miss counter | `GetFetchDecisions` |
| compute node | `model/inc-orchestration-compute-node.cc` | RAM, cores, queue fill, exclude list, function map, busy counter, queue timers | `EnableFunction`, `DisableFunction`, queue and exclude-list accessors |
| function | `apps/inc_functions_template/INC-Computation.cpp` | enabled flag, execution and miss counters | `Enable`, `Disable`, `Execute` |
| consumer | `.../inc-consumer-base-app.cpp`, `inc-consumer-app.cpp` | sequence number, retransmission set, timeouts, delay records | `SendPacket`, `CheckRetxTimeout`, `OnData`, start, stop |
| data producer | `.../inc-data-producer.cpp` | none | `OnInterest` |
| orchestrator management | `apps/orchestration/orchestration_management_app/` | none between decisions; reads the table | `orchestrate`, `FunctionSwitchHandler` |
| orchestrator storage and message handler | `apps/orchestration/storage/`, `.../message_handler.cpp` | node and function table | bootstrap, status updates |
| orchestrator communication, NDN and UDP | `apps/orchestration/orchestration_communication_app/` | schedule of polls, sent budget | poll, send a command, receive |
| node orchestration application, NDN and UDP | `apps/inc_compute_node_apps/node_orchestration_*_app/` | none of its own | status fetch, function switch |
| data sets and topology reader | `utils/dataset_generation/`, `utils/topology/` | a scenario file; containers of nodes, links, functions | `generate_data`, `ReadTopology`, `update_consumer_info` |
| tracers | `utils/tracers/` | a list of tracers per class, counters, an output file | `Install`, callbacks, `Destroy` |
| scenario | `scratch/nfn-hydro.cc` | four arrays matched by index | installs applications, announces prefixes |

How they interact. A consumer's Interest reaches the NFN producer through the
forwarder (message). The producer asks the engine (call), reads and writes its
compute node (shared state: RAM, cores, queue fill, exclude list), sends fetch
Interests and receives Data (messages). The node orchestration application
changes the same compute node on the orchestrator's command, between any two
handlers of the producer. The orchestrator decides from a table that status
messages filled at an earlier time.

What is hard, and what makes each part correct:

* *Execution and queue.* Resources are booked and released in different
  handlers; the queue is kept twice, as a fill level in the node and as a list in
  the application; a waiting request is started only by the end of another one.
  Correct: nothing leaks, the two views agree, the queue is never left behind,
  no request is answered twice, and one that is accepted is answered, unless later
  ones overtake it for ever.
* *Fetching.* One fetch serves several requests, data may go stale between its
  arrival and its use, the table changes under the loop that walks it. Correct:
  nobody waits for data that nothing fetches, no request is handled twice, none is
  forgotten.
* *Consumer.* Two timers and late or duplicate Data. Correct: an unanswered item
  is watched by exactly one mechanism, the delay records are true, one send event,
  silence after stop, every item is answered.
* *Orchestration.* Commands are decided on old information and may be repeated
  or lost; enabling and excluding are two pieces of state. Out of band, polls and
  commands share a socket and a budget. Correct: the table is what the node said and
  never more than it did, one send event per application, what is missed is enabled.
* *Tracers.* Installed before or after the applications they watch, printed when the
  program ends. Correct: a cell has what its heading says, and no row is lost or printed twice.
* *Setting up.* A random file is written, read twice, and matched by index. Correct:
  the network is connected, tier by tier; a request finds its function and its data
  where the routes lead, but for data that nobody provides.

## Modules

| module | models |
|---|---|
| `RequestService` | abstract: a request is accepted and answered once, or handed on when offered |
| `NfnExecution` | the EXECUTE decision, booking, queue, end of execution; implements `RequestService` |
| `MCNfnExecution` | its instance |
| `NfnExecution_proofs` | theorems about `NfnExecution` |
| `NfnProducer` | the whole producer of an edge node with its engine; composes `NfnExecution` (as `Exec`) with the pending table, fetching, commands and a forwarder |
| `MCNfnProducer` | its instance |
| `NfnProducer_proofs` | theorems about `NfnProducer` |
| `RequestStream` | abstract: asks in sequence, repeats only what is unanswered |
| `IncConsumer` | the consumer application against an unreliable network; implements `RequestStream` |
| `IncConsumer_proofs` | theorems about `IncConsumer` |
| `NodeInfoStorage` | the orchestrator's table and its message handler, as operators on a table |
| `StatusReports` | polls, answers and the table they fill; uses `NodeInfoStorage` |
| `MCStatusReports` | its instance |
| `SwitchCommands` | what a decision is, from the table alone, and what a command does to a node's functions and exclude list, as operators |
| `SwitchCommands_proofs` | lemmas about the table, the decision and the exclude list |
| `FunctionSwitch` | orchestration in band: the periodic decision, commands and the node applications that carry them out; extends `StatusReports` and `SwitchCommands` |
| `MCFunctionSwitch` | its instance |
| `FunctionSwitch_proofs` | theorems about `StatusReports` and `FunctionSwitch` |
| `UdpOrchestration` | orchestration out of band: the applications of both ends, their sockets and budgets, composed with `SwitchCommands` and the table |
| `MCUdpOrchestration` | its instance |
| `UdpOrchestration_proofs` | theorems about `UdpOrchestration` |
| `Tracers` | the seven tracer classes and the files they write |
| `MCTracers` | its instance |
| `Tracers_proofs` | theorems about `Tracers` |
| `Dataset` | the file the generator writes, section by section, and what it draws, as operators |
| `TopologyReader` | what `ReadTopology` and the parser make of that file, as operators |
| `Scenario` | `nfn-hydro.cc` from the command line to the start; composes the two |
| `MCScenario` | its instance |
| `Scenario_proofs` | theorems about `Scenario` |

Operators that a comment calls a *wrong variant* are mutations: replacing the
operator after it by the variant must break a property. They are not part of
the model.

### NfnExecution

| variable | code |
|---|---|
| `free` | `m_ram`, `m_processor_core` of the compute node |
| `running` | requests with a scheduled `ScheduledExecutionEnd` |
| `waitingList`, `queueFill` | `m_waiting_list`, `m_queue_fill` |
| `nodeBusy` | `m_nodeBusyCounter` |
| `fullTimer`, `emptyTimer` | `m_full_timer_started`, `m_empty_timer_started` |
| `answered`, `forwarded` | results sent, requests handed on because the node is saturated; until asked again |

`RunNow`, `Enqueue` and `ForwardBusy` are the three branches of the EXECUTE case of
`ResolveAndHandleDecisions`. `ScheduledExecutionEnd` releases, answers, and starts
at most one waiting request, which is what the code does even when several would
fit. Execution time is abstracted: an end may come at any time. `QUEUE_ACTION` is
the compile-time constant "forward", so "push" and "nack" are not modelled. The
constructor the topology reader uses leaves the timer flags and the busy counter
uninitialised; the initial state draws them from `Garbage`.

Requests do not stop coming: what has been answered or forwarded is asked for again
(`AskAgain`), so that a finite set of requests stands for arrivals without end. A
request that arrives finds resources looked at before the queue
(NFN-producer-app.cpp:504) and may start at once while others wait. Whoever waits may
therefore wait for ever; `AnsweredUnlessOvertaken` says that this is the only way.

### NfnProducer

| variable | code |
|---|---|
| `pending` | `m_pending_content_table`, entries with the flags of what they wait for |
| `sending` | `m_sending_interest_list` |
| `enabled`, `excluded` | enabled flags; occurrences in the vector `m_FuncExcludeList` |
| `cs` | fresh data in the node's content store |
| `inflight`, `delivering` | fetches without an answer; Data scheduled for `OnData` |
| `scan` | the loop variable of `OnData` |
| `arrived`, `owed`, `spent` | history: requests seen, requests someone still waits for, disturbances used |

The loop of `OnData` is one event but is modelled entry by entry (`Visit`), because
each entry it completes calls `ResolveAndHandleDecisions`, which changes the table
the loop walks. While `scan` is not `Idle` no other handler is enabled, so the loop
is atomic for everybody else. Invariants about the table at rest say
`scan = Idle`.

A request that is forwarded or rejected leaves `owed`: the requester's answer is
then another node's. The forwarder and the network are environment: a fetch is
answered (data also enter the content store) or lost; a copy may go stale. Each
disturbance has a bound in `Budget`. A request here is an instance that arrives once: of
`NfnExecution` the module takes everything but `AskAgain` (`MaxBusy` is 0).

### IncConsumer

| variable | code |
|---|---|
| `active`, `firstTime`, `seq` | `m_active`, `m_firstTime`, `m_seq` |
| `sendEvents` | `SendPacket` events in the simulator's queue; `m_sendEvent` is one of them |
| `retxSeqs`, `seqTimeouts` | the containers of the same name |
| `fullDelay`, `lastDelay`, `retxCounts` | `m_seqFullDelay`, `m_seqLastDelay`, `m_seqRetxCounts` |
| `log` | the trace `SendInterestsInc` |
| `pit`, `inbox`, `early`, `lost` | the network, and the bounds used |

Time is the number of Interests sent, which is all the containers' order needs.
The retransmission timeout is an estimate of ns-3's, so `CheckRetxTimeout` may
find any set of oldest entries expired, including entries whose Data is on its way.
Nacks only get logged by the code and are losses.

### NodeInfoStorage and StatusReports

| variable | code |
|---|---|
| `node` | per node: `m_processor_core`, `m_ram`, `m_nodeBusyCounter`, scheduled ends of executions, and the flags and counters of its functions |
| `table` | `m_nodeInfoTable`; `initial` is the first of each pair, `current` the second |
| `requests`, `replies`, `lost` | Interests and Data under way, and losses |

A message is a record; how it is written to a string and split again is left out.
The setters are separate operators because one of them writes the wrong field and
what survives depends on the order in which a message is read (`Updated`):
`setNodeCPU` stores the cores it is given in the RAM's place
(node-info-storage.cpp:337), so that the current cores of a node never change, and
the RAM is right only because a message has it later. What a
request for a computation does to a node is reduced to the counters and resources
a report mentions; `running` is how many executions hold a core and a unit of RAM each, so
that what is free and what is held are together the whole node (`TypeOK`). Reports never list a function a node did not have when the
scenario started, because `getFuncIndex` finds only those.

### FunctionSwitch

| variable | code |
|---|---|
| `node`, `table`, `requests`, `replies`, `lost` | those of `StatusReports` |
| `excluded` | occurrences of each function in `m_FuncExcludeList` |
| `commands` | FunctionSwitch Interests or packets under way |
| `turn` | the two periodic timers, of equal period, started two seconds apart (`nfn-hydro.cc:334` and `:347`) |
| `dragging` | functions the node has fetched itself (code drag), not arrived yet |
| `decision` | history: the last command carried out on a node for a function |
| `spent` | requests, late timers and code drags so far |

`SwitchCommands` has the three passes of the handler. They read the same table, so
the commands of one run are a set computed from it, one per pass and node at
most (`Decision`); in band, two Interests of one name are one in the forwarder
(`FunctionSwitchCommands`). Disabling and excluding
are what the node applications do in one handler but to two pieces of state, which
is where they come apart. `ExecuteAllowed`, `Forward` and `FetchFunction` are the three
outcomes of the resolution engine; which one a request for a function gets also
depends on the data, which is left open.

The module's actions for reports (`AnswerReport`, `StoreReport`, `LoseReport`) are those of
`StatusReports`, which leave the other variables alone; what a node executes, though, is
`ExecuteAllowed`, which looks at the exclude list and leaves out the resources. Its
initial states, steps and specification are `SwitchInit`, `SwitchNext`, `SafetySpec`
and, with fairness, `SwitchSpec`.

The transport is NDN ("In-Band"), as in `nfn-hydro.cc`. Thresholds are constants;
`Ticks` is a third of the interval in the simulator's time unit,
because that is what the code compares a count with.

### UdpOrchestration

| variable | code |
|---|---|
| `socket`, `armed`, `sent` | `m_socket`, pending `m_sendEvent`s, `m_sent` of each orchestrator application |
| `polls`, `stopped` | history: packets sent by `Send` and `SendOnce`; stopped applications |
| `down` | node applications that have closed their sockets |
| `node`, `excluded` | as in `FunctionSwitch` |
| `table` | `m_nodeInfoTable` |
| `packets`, `answers` | under way to a node, and to an application of the orchestrator |
| `spent`, `crashed` | bounds used; a null socket was dereferenced |

The orchestrator has one application per question and node, each connected to
its peer. `Send` asks again after its interval, `SendOnce` does not; both are
`Transmit` and what happens to the timer. `Orchestrate` sends its commands through
the application that was installed first (`App0`), whose `m_sent` it counts up and
whose timer it leaves alone (`AfterCommands`): this is how commands use up the polls.
The node does not look at the name in a command, so the address (`Address`) is all
that matters, and it skips the last function named (`Switched`). UDP asks nothing
again; `Lose` takes a packet or an answer. Both transports share `SwitchCommands` and
`NodeInfoStorage`. Requests for computations are reduced to their counters. A packet's
`no` and `pass` keep packets of the same content apart.

### Tracers

| variable | code |
|---|---|
| `apps` | the applications of a node, in order |
| `groups` | `g_tracers`, per class, one group (a file and its tracers) per `Install` |
| `opened`, `out` | the output files; everything written, in order, one write per header, group of rows or event |
| `log`, `asked` | history: events; calls of `Install` per class, with the number of events before (`since`) and the applications then on each node (`had`) |
| `ended` | `Simulator::Destroy` was called |

The classes differ in the trace sources they connect to and the columns they print,
so each is three definitions (`...Connect`, `...Header`, `...Row`) over one behaviour. A
column is a count, a sum or the names of a source. `Watched` is the one difference in
`Connect`: the tracer of node applications connects to the first application only.
`NodeAppAssumption` says what the scripts do, and what makes this enough: the
application that obeys commands is the first on its node.
The names of a cell come after those of the cells before it, because the stream that
joins them is never emptied. Each list has its own brackets, so a cell is a list of
lists (`NamesCell`). `RowsAreExact` says what all of them are: those of the columns of
names up to this one, in order. `NamesAreOwn` says what the header announces, the names
of this column only, and is violated. A node's row has no cell under the last
heading, `FunctionsExecTime` (`HasCell`).

### Scenario

| variable | code |
|---|---|
| `p` | the command line |
| `stage` | the place in `main`, which is a sequence |
| `drawn` | what `rand` gave: inputs per function, provided data, bursts written |
| `file` | the sections of the file `generate_data` writes |
| `net` | what `ReadTopology` builds: node containers, links, functions, initial status |
| `info` | what `parserNodeInfo` returns: compute nodes and consumers |
| `apps` | the applications on each node, with type, prefix and start time |
| `origins` | prefixes announced, with the node |

Each action is a section of the file or a block of `main`. What is read line by line is a
fold (`AfterLines`), written as a function of the number of lines read; what a reader
passes over is left out by `Chosen`, and the generator's nested loops are functions of
the place in the section (`Above` is the node of tier 3 a consumer's link starts at). The random draws are
choices: any number of inputs per function, any provided data, any request of
`Draws`. A name is what it is made of, except where its text matters: `Begins` is
what `find` does with "Operand_1" in a text with "Operand_10", in a number system
whose base is a constant. `Usable` names the arguments the generator works with; it
checks none of them.

`RequestIsServed` follows a request: its name begins with the lambda prefix, which
every compute node but the orchestrator's announces (`RequestOrigins`), has a producer
for and has the function of; who has it disabled fetches or forwards it by the
function's own prefix, which the cloud node alone serves. Data that a consumer provides
are served where they are announced. One name is provided by nobody, and a request
for it is not answered. What the lists of inputs contain is said as the code has it:
`AddToInputList` leaves out an operand whose name begins that of another in the list
(`ListsOrHides`).

## Runs

| run | shows | result |
|---|---|---|
| `execution` | type, agreement of the two queues, no stranded queue, one fate, conservation, refinement of `RequestService`; with requests that never stop coming, who waits is answered, unless later requests overtake the queue for ever | holds |
| `producer` | with a loss, a stale copy and a command: no request forgotten or handled twice, execution sees legal histories; while nothing is lost or stale, nobody waits in vain and each request is resolved | holds |
| `producer_skip` | nobody waits in vain when a copy may go stale | violated |
| `consumer` | watched once, true records, one send event, silence, refinement of `RequestStream`, every item answered | holds |
| `status_reports` | no setter undoes another's field (RAM, busy counter, functions), bootstrap values are kept, what is free and what executions hold are the whole node | holds |
| `switch` | until a message is lost or late or a function fetched, the exclude list counts the last decision; in any case missed functions are enabled in the end, decisions come to rest | holds |
| `switch_excluded` | only what was last disabled is excluded | violated |
| `udp` | one send event, polls within the budget and none missing before it is used up, the table never runs ahead, who is asked becomes known | holds |
| `udp_named` | a command switches what it names, all of it, on the node it names | violated |
| `tracers` | each cell has the count, the sum or the names its heading announces, and of names also those of the columns before; each row appears once and in order | holds |
| `tracers_names` | a cell of names has those of its heading only | violated |
| `scenario` | everything within two links of the orchestrator, tiers and consumers linked; requests led to the function and to the data that somebody provides; who is asked for its state answers, introduced before polled | holds |

### Bounds

* `execution`: three light requests and two heavy ones, two resources, queue of two. A
  heavy function needs both cores, so a heavy request at the head
  blocks light ones behind it, later light ones overtake it, and the queue fills
  while requests of both kinds wait. Five requests are two running, two queued and
  one forwarded. Two light ones can take turns while a heavy one waits, which is the
  exception of `AnsweredUnlessOvertaken` (without it the run fails). Only the
  busy counter is bounded (`MaxBusy`): at two, nothing comes back before it is reset.
* `producer`, `producer_skip`: one core, queue of one, two data names, an enabled and a missing
  function. Two requests share a name, a third shares both data with them: the table
  gets entries for a shared fetch, entries that compare equal, and entries that wait
  for two things. `producer` allows one disturbance of each kind, each at any
  moment. No request has an argument too few: it is rejected, which to the state is what
  being forwarded is (`HandedOn`).
* `consumer`: three items, two premature timeouts, one loss: an item can be sent
  three times, and a check can find a proper part of the entries expired.
* `status_reports`: one node with one core, two units of RAM, an enabled and a
  disabled function; counters up to two and two losses give reports that differ in
  every field, also in what is free of cores and RAM. Nodes have an entry of their own
  each, and the theorems below are about any number of them.
* `switch`, `switch_excluded`: nodes of one
  core and two functions, three requests, one fetched function. The
  thresholds are scaled from 8, 5 and 10 to 0 (`switch`: 2), 0 and 1, which keeps the order
  of the two for misses, so that three requests can meet the passes. `Ticks` is large
  against any counter, as nanoseconds are. In `switch` there is one node, because the
  nodes do not influence each other while no function is a busy one (`BusyExe` is out of
  reach, see `Settles`), and one loss and one late timer; what was missed can be enabled,
  disabled when another function runs, and missed again. That an idle node is sent the
  busy function of another occurs in `udp`, which decides with the same operators.
* `udp`: two nodes, of which application 0 is connected to one; a poll and two single
  questions, so that a node is asked by two applications; a budget of two packets that
  polls and commands compete for; one execution, which makes a node busy and the
  functions it did not execute idle, two decisions, one fault (a loss or a stop).
  Three functions, because a command reaches all but the last it names. `udp_named`
  allows no fault: what it shows needs none. Its thresholds and its node of application 0,
  with one function enabled, leave one kind of command, for the other node.
* `tracers`: two calls of `Install` of any classes on two nodes, two events of any of
  the sources in `Fired`, one application added late to either node, a file that
  cannot be opened. Two groups are enough for two classes to share the standard output
  and for one class to be installed twice; two events for one before and one after. A
  million states.
* `scenario`: three command lines with three consumers: an uneven rest, a node of tier 3
  without a link to tier 2, load distribution on and off, orchestration on and off, two
  functions and three. Numbers are written in base two, so that "1" begins "10" and "11".
  `LoadUnit` is two for twenty, which makes a burst's load index reach beyond the first
  node. Of all requests the generator could draw, six are allowed; they contain every
  data name, and of the third function one that asks for 1 and one that asks for 2, so
  that a list from which 1 is left out occurs.

### Fairness

Weak fairness of the simulator's events (end of execution, delivery of Data,
send event, timeout check), because the simulator fires every scheduled event at
its time; and of the network's answers to what it does not lose. No request, command,
loss or stop has to happen. `EveryRequestResolved` is about the requests of a finite set,
each of which arrives once; where arrivals may go on for ever (`NfnExecution`), the
property excepts the behaviours in which they overtake the queue again and again. A timeout of
the consumer is fair because the estimate is bounded (ns-3 caps its multiplier).
`AskedIsAnswered` excepts a stopped consumer, which ignores Data. In
`FunctionSwitch` both timers are fair, and handlers of messages that are not lost;
requests, losses and code drags are not. Losses are bounded, which is what
`MissedIsEnabled` needs: a network that loses every report or command teaches the
orchestrator nothing. In `UdpOrchestration` scheduled sends, status questions that
arrive and answers that arrive are fair; decisions, commands, traffic, stops and
losses are not, and `AskedIsKnown` excepts the behaviours with a fault, because
nothing is asked twice. `Tracers` and `Scenario` have no liveness property.

## Disagreements between code and documentation

Four runs show a behaviour against a comment or the purpose a definition states:

* `producer_skip`: the backward loop of `OnData` (NFN-producer-app.cpp:347) is
  documented as safe against position changes, but the loop body may insert at the
  front (line 492). The walk then meets one entry twice and ends before it has
  reached the first one. A request is left waiting for a name that is neither in
  flight nor going to be fetched. It takes a copy that goes stale while another
  argument is fetched, so that a completed entry has to fetch again. `WaitedForIsSent`
  holds in `producer` until a copy goes stale (`WaitedForIsSentWhileFresh`).
* `switch_excluded`: Disable appends to the exclude list, Enable removes one
  occurrence. After a code drag the function is enabled but excluded; it has not
  executed, so it is disabled again and stands twice in the list. The Enable that its
  misses bring leaves it enabled and excluded: nothing is executed, and nothing counts
  as missed any more. `ExcludedAsDecided` says, in `switch`, that it takes such
  a disturbance.
* `udp_named`: a function is put into a command to disable it "at this node"
  (orchestration-management-app.cpp:182, and :210 and :254 for enabling), the node the
  command names. Out of band all commands leave through the socket of application 0
  (line 199), and the node at its other end does not look at the name: it carries the
  command out, and the node that is named does nothing. The comment of
  udp-orchestration-node-app.cpp:267 gives a command for three functions, "Func1/Func2/Func3";
  the loop of lines 267 to 273 ends before the third, and a command for one function does
  nothing. In the run, of the two functions a command names the first gets on the exclude
  list of the wrong node, and the second on none.
* `tracers_names`: the header of the compute tracer (inc-compute-tracer.cpp:286) announces
  names per kind of event. `PrintSum` joins them in one stream and calls `ss.clear()`
  between them (line 339), which empties nothing: under `FuncNames`, documented as the
  functions whose execution failed (inc-compute-tracer.hpp:85), the row prints what was
  sent and received as well. Other classes do the same.

Observations met while modelling. The models have the code's behaviour; no run
is about them, because each is plain from the lines.

* `apps/orchestration/orchestration_management_app/orchestration-management-app.cpp`,
  line 168: `4/5` is an integer, so every node that has executed anything is busy; line
  229: a count is compared with a time, so every node helps. No document gives the
  intended threshold.
* `model/inc-orchestration-compute-node.cc:145`: the timer behind the trace of full
  queues is started only by a call that no caller makes.
* `NFN-producer-app.cpp:286`: an entry of the pending table is erased only when an
  execution starts (and at line 379, when a function arrives that the node does not
  have); a request that fetched and is then forwarded or rejected, or
  has to fetch again, leaves its entry for ever. NFN-producer-app.hpp:134 describes the deletion.
* `nfn-hydro.cc`, lines 255 to 321 and 376 to 384: consumer applications, data producers
  and their prefixes go to the i-th node of the container for the i-th consumer of the
  parser, which is the i-th that appears in the requests; the log of line 381 names the
  consumer. Placement and announcement agree with each other, which `AskedIsServed`
  shows, but not with the file: a consumer may ask from another's node.
* `apps/inc_functions_template/INC-Computation.cpp:222`: whether an operand is in a
  function's list of inputs is asked by searching the list's text, so that "Operand_1" is
  not added after "Operand_10". The number of parameters is unaffected.
* `utils/tracers/inc-compute-node-tracer.cpp:259`: the header ends with
  `FunctionsExecTime`, and no row has a cell there.
* `AddNewFunction` of the compute node copies neither the number of instructions nor
  the size of the result.
* In the branch of the generator without zipf, a row takes the number of inputs of
  function `i` and names function `j`.
* HYDRO.md's defaults (functions, interval) and its spelling of `orchestration-switch`
  differ from those of nfn-hydro.cc.

## Proofs

TLC checks the small instances above. TLAPS proves the following for every value
of the constants that satisfies the named assumptions of the modules.

`NfnExecution_proofs` (assumptions: functions fit on the idle node
(`FitsAssumption`), and the types of the constants): `TypeCorrect`,
`QueueFillCorrect`, `QueueNeverStranded`, `OneFateOnly`, `ResourcesAreConserved`,
`ImplementsRequestService`. The invariant needed beyond the properties is
conservation: what is free plus what is booked is the capacity. It is what makes
`NoStrandedQueue` inductive: a request that does not fit on a node where nothing runs
would contradict `FitsAssumption`. Booked amounts are a sum over the running set,
which the provers cannot unfold step by step; the induction therefore uses a *ledger*,
a function from sets of requests to totals that a single member changes by what this
member needs. Booking extends a ledger by one member, releasing restricts it.
`LedgerIsSum` then says that what a ledger has of a finite set is the sum `BookedBy`
defines (of the sets on which they differed, one of least size would not be empty, and
without a member of it they agree), and only finitely many requests run at a time.

`NfnProducer_proofs` (assumptions: the types of the constants, and `NodeAssumption`,
which is what `NfnExecution` assumes of its own but for `FitsAssumption`): six
theorems of `SafetySpec`, about losses, stale copies and commands at any moment unless
a condition says otherwise.

* `TypeCorrect`, `NeverHandledTwice`, `NobodyForgotten`, `RefinesExecution` follow from
  `BaseInv`. Beyond the properties it says that fill level and waiting list agree (so
  that the head exists when an execution ends), that the loop of `OnData` stands on an
  entry that has the name it looks for (`ScanValid`), and that who is in the table
  or in the execution half has arrived (`Arrivals`, so that an arriving request is
  new). `NoDouble` and `Covered` are the two properties as operators on a table: each
  operation on the table has a lemma that says what it keeps of them, whether it
  deletes an entry, inserts one in front or sets a flag. A deletion is by name and
  takes the first entry that has it, which may not be the one the loop is at.
* `SendingListExact` is `SendingIsInFlight`, which has the condition that nothing is
  lost: a lost fetch leaves its name in the sending list for ever, as in the code. `SentInv` adds that a name is never both in flight and
  delivered, which holds without the condition.
* `WaitingIsSent` is `WaitedForIsSentWhileFresh`, with losses and
  commands. The run `producer_skip` shows that it fails with a stale copy. `WaitInv`
  says, of the middle of the loop, that a flag unset is in the sending list or
  belongs to an entry not yet visited (`SentOrBelow`), and that what the entry lacks
  besides is in the content store, enabled or excluded (`DataComes`, `FuncComes`): so
  no completed entry has to fetch again, no entry is inserted during the
  loop, and the indices the loop still has to visit do not move up.

`IncConsumer_proofs`: `TypeCorrect`, `EachWatchedOnce`, `DelaysCorrect`,
`SendEventUnique`, `StoppedIsSilent`, `ImplementsRequestStream`. The invariant adds
that only numbers below `seq` occur in the trace and the containers, so that a new
number has no old record, and that an application that has not started has no send
event. The count of transmissions is the cardinality of the set of their times,
which one `Append` enlarges by one.

`SwitchCommands_proofs` has what the two transports share. A message handled keeps the
table's type and every bootstrap value, and changes one entry (`HandledTable`,
`HandledCurrent`). A pass names the functions
of a report that meet its test, in the report's order: `Rank` numbers the positions that
do, every number up to their count is taken (`RanksAreTaken`), so `FuncsAt` is a
sequence of known functions (`FuncsAtPositions`), which names each once because the
order has each once (`ToDisableNames`; `OrderAssumption` says so of the unordered map
keyed by name). `ExcludeListType` says that no exclude list counts below zero.

`FunctionSwitch_proofs` (assumptions: `CoresAssumption`, `EnabledAssumption` and
`BoundsAssumption` of `StatusReports`, and `OrderAssumption`) has theorems of two
specifications. Of `Spec` of `StatusReports`: `TypeCorrect`, `InitialKept`,
`StatusStored`. Types need `NodesWhole`: what a node has free and what its running
executions hold are its cores and its RAM, so that nothing is released twice. The other
two rest on lemmas about
the table's operators (what `Updated` and `HandleMessage` return for any entry and
message) and on the fact that only a handled message changes the table. Of `SafetySpec`
of `FunctionSwitch`: `SwitchTypeCorrect`, which uses the same lemmas about reports, and
`ExcludedAsDecidedHolds`: as long as nothing is lost, no timer late and no function fetched
by a node (`Undisturbed`). The
condition is needed (`switch_excluded` is the counterexample with a fetched function);
the number of nodes, functions and requests is not limited. What has disturbed is not
taken back (`Disturbances`), so the induction may assume it has not happened yet. The invariant `CalmInv` is about time: commands are under way
only between a decision and the next poll (`CommandsAlone`), the table is as old as
the last poll (`PollInProgress`), so a Disable under way is the only one for its
node and names functions the node has enabled (`DisablesEnabled`), and what is enabled
is not excluded (`EnabledNotExcluded`). A list therefore goes from none to one and back.

`UdpOrchestration_proofs` (assumptions: `AppAssumption`, `NodeAssumption`,
`UdpBoundsAssumption`, and those of `SwitchCommands`): `TypeCorrect`,
`OneSendEventHolds`, `PollsWithinBudgetHolds`, `TableNeverAheadHolds`, of `SafetySpec`, that is, without fairness. The invariant `IInv`
has four parts. `Budget` says that a scheduled call has an open socket and at least one
packet left, and that who never ran has asked nothing; without it a start could arm a
second call. `Travel` says that what is under way goes between nodes and applications
that exist. `NodeTypes` and `AppTypes` are types.
`TableNeverAhead` is not inductive: an answer under way could carry more than the node
has counted, so `NeverAhead` says it of answers too, and uses that counters only grow.
`TypeCorrect` adds the variables `IInv` leaves out; that a command is one for known
functions comes from `SwitchCommands_proofs`.

`Tracers_proofs` (assumptions: `AppsAssumption`, `NodeAppAssumption`,
`InstanceAssumption`): `TypeCorrect`, `RowsExact`, `OneRowForEach`, for any network,
applications, files, and any order of installing, reporting and destroying. The
invariant `TracersInv` has a part per variable.

* `GroupsInv`: until the program has ended, the groups of a class are its calls of
  `Install`, in order; after that, all of them or none, for a class is destroyed at
  once. Each tracer stands at its node and has counted what it should (`Counted`): its
  counters are the numbers of events heard, its names are these events in order, and a
  running total `g` over the log ends in what it has added up. `TotalIsSum` says that a
  running total ends in what `SumOf` defines: at the first event where they differed
  they would agree on the one before.
* `WritesInv`, `HeadersInv`, `RowsInv`: what is written stays where it is; no rows of a
  class while it has groups, and afterwards one write per `Install` in a row, each as
  true as the tracers were (`RowIn` has the log in it, so that it goes on holding).
* `DelaysInv`: the delay tracers wrote about an event in one stretch of the output.
* `HistoryInv`, `AppsInv`: the log is about applications that exist, and these are only
  ever added behind the others.

`HearsItsOwn` is where the tracer that watches one application hears as much as it
should: by `NodeAppAssumption` no other application fires what it listens to
(`NodeAppFires`). `ColumnsAnnounced` goes through the seven classes: what is printed in
a column is what the header announces there, of a source the class connects to;
`ColumnsFromFirst` and `ColumnsWithCell` say which lists a cell of names has, and which
heading has no cell.

`Scenario_proofs` (assumptions: `SettingsAssumption`, that is, the command lines are
`Usable` and name as many data as consumers; `DrawsAssumption`, `BaseAssumption`,
`LoadUnitAssumption`): `ScenarioInvariance`, `ScenarioTypeCorrect`, `AlwaysWired`,
`AlwaysServed`, for any number of nodes, consumers, functions and data and any draw.
A property of the last stage depends on all that came before, so the inductive invariant
`ScenarioInv` goes by stages: sets of stages such as `LinksToRead` say until when a part
does not hold yet.

* `FileInv`: the sections written so far are the generator's, and each line of the
  consumer section is one that may be drawn (`RequestOK`).
* `NetInv`: the nodes read are those of the section in its order (`NodesBuilt`), the links
  are the section (reading drops none, because none is written twice), the functions
  have the drawn parameters, are on every node but the orchestrator, and list every
  input that is asked for or another that begins with it (`CopiesBuilt`).
* `InfoInv`: the parser knows each node under its prefix and each consumer once. It finds
  all of them, because each provides a datum. For each line of the data section
  the entry of its consumer has the datum (`Provided`).
* `AppsInv`: an application asks only what is in the file, or a node that obeys the
  orchestrator (`AppOK`), and what will be needed is installed, the producers of
  requests on every node but the orchestrator's among it (`NodesServe`).
* `OriginsInv`: in the end, the announced routes are those of `AddOrigins`.

Reading is a fold. The provers cannot unfold a function defined by recursion for all
lines at once, so the lemmas about folds (`InputSteps`, `RequestSteps`,
`RequestInfoSteps`, `DataInfoSteps`) give the intermediate results as a function with a
start and steps, and `LineInduction` does the induction: at the first line where a claim
failed it would hold of the line before. `Wired` is arithmetic on places: consumer `j`
hangs on the tier 3 node numbered by `EdgeOf`, so that a node of tier 3 has a
block of consumers and at most one more. `AlwaysServed` looks up each prefix: no two
sections of `AddOrigins` announce the same kind (`Announced`), a node's list of functions
begins with the lambda prefix (`LambdaServed`), and only the cloud's goes on. Then it
counts: of one name more than there are data, exactly one is provided by nobody
(`OneUnprovided`).

Only model-checked:

* all liveness (`AnsweredUnlessOvertaken`, `EveryRequestResolved`, `AskedIsAnswered`,
  `MissedIsEnabled`, `Settles`, `AskedIsKnown`): fairness and ENABLED are out of the
  provers' reach;
* the four properties that fail, which the runs refute.

## What is not modelled

* `ForwardInterest` changes the forwarder's PIT and FIB (next hops, hop costs);
  here a forwarded request leaves the node.
* Several producer applications on one compute node (the cloud node), which share
  RAM, cores and queue fill but keep their own waiting lists.
* Code-drag requests answered for other nodes.
* The list of inputs of a function in the orchestrator's table, which every report
  lengthens (`setFuncInputs`) and nothing reads.
* `notifyFib*` of the compute node: enabling and disabling also change the
  forwarder's next hops, so that fewer requests reach a node.
* `calculate_hop_distance` and `CheckAtleastOnceEnabled`: nothing reads the result of
  the first, nothing calls the second.
* What a UDP packet's bytes are (terminating zeros, the buffer that is read as a C
  string), and the answers to anything but status questions, which nobody reads.
* The tracers' printing per period, which is commented out, and events after
  `Destroy`, when callbacks hold dangling pointers; the scripts end the simulation first.
* The topology reader's older format (`Read`), the addresses it assigns and the
  metrics it sets; capacities, positions, frequencies and times of the file's lines; the
  generator's uniform draws and the generator and parser the build leaves out.
* The data producer: it is stateless. Its answers are part of the network.

## Plan

1. `RequestService`, `NfnExecution` and its proofs. *Done.*
2. `NfnProducer` and its proofs. *Done.*
3. `RequestStream`, `IncConsumer` and its proofs. *Done.*
4. `NodeInfoStorage`, `StatusReports`, `FunctionSwitch` and their proofs. *Done.*
5. `SwitchCommands`, `UdpOrchestration` and its proofs. *Done.*
6. `Tracers` and its proofs. *Done.*
7. `Dataset`, `TopologyReader`, `Scenario` and its proofs. *Done.*
8. `NfnSharedNode`: two `NfnExecution` instances on one node's resources and queue
   fill. Question: is every queued request started, and by whom.
9. `ForwardInterest` and `notifyFib*` as operators on FIB and PIT, composed with
   two nodes of the chain; code drag answered for a neighbour.
