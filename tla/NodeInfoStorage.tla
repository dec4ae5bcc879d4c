--------------------------- MODULE NodeInfoStorage ---------------------------
(***************************************************************************)
(* The orchestrator's table of compute nodes (OrchestratorNodeInfoStorage) *)
(* and the handler that writes the nodes' messages into it                 *)
(* (OrchestrationMessageHandler), as operators on a table.                 *)
(*                                                                         *)
(* An entry holds what the node said at bootstrap ("initial", the setters' *)
(* defaultvalue = true) and what it said last ("current").  Left out are   *)
(* the fields that no report changes (ROM, links, runtimes, provided data, *)
(* the needs of a function) and a function's list of inputs, which every   *)
(* report lengthens by the word "null" and nothing reads.                  *)
(***************************************************************************)
EXTENDS Naturals

CONSTANTS
  Nodes,   \* compute nodes the orchestrator manages
  Funcs    \* functions, the same on every node

Kinds == {"BootstrapInfo", "NodeStatusFetch"}

\* What a node says of one of its functions.
FuncState == [status : BOOLEAN, exe : Nat, misses : Nat]

Message == [from : Nodes, kind : Kinds, cpu : Nat, ram : Nat, busy : Nat,
            funcs : [Funcs -> FuncState]]
Info    == [cpu : Nat, ram : Nat, busy : Nat, funcs : [Funcs -> FuncState]]
Entry   == [initial : Info, current : Info]

-----------------------------------------------------------------------------
(* The setters the handler uses, with defaultvalue = false.                *)

setNodeCPU(e, v)        == [e EXCEPT !.current.ram = v]   \* sic: ram.second
setNodeRAM(e, v)        == [e EXCEPT !.current.ram = v]

setNodeBusyCounter(e, v) == [e EXCEPT !.current.busy = v]

\* Wrong variant: the flag is left to its default, true.
setInitialFuncs(e, fs)  == [e EXCEPT !.initial.funcs = fs]

\* Status, execution counter and interest counter of each reported function.
setFuncs(e, fs)         == [e EXCEPT !.current.funcs = fs]

-----------------------------------------------------------------------------
(* The message handler.                                                    *)

\* An entry that is there already stays as it is (map::insert).
AddNodeToTable(tbl, n, info) ==
  IF n \in DOMAIN tbl THEN tbl
  ELSE [m \in DOMAIN tbl \union {n} |->
          IF m = n THEN [initial |-> info, current |-> info] ELSE tbl[m]]

BootstrapPhaseHandler(tbl, m) ==
  AddNodeToTable(tbl, m.from,
                 [cpu |-> m.cpu, ram |-> m.ram, busy |-> 0, funcs |-> m.funcs])

\* Wrong variant: the fields of a message in another order.
UpdatedRamFirst(e, m) ==
  setFuncs(setNodeBusyCounter(setNodeCPU(setNodeRAM(e, m.ram), m.cpu), m.busy),
           m.funcs)

\* The fields in the order in which a message holds them.
Updated(e, m) ==
  setFuncs(setNodeBusyCounter(setNodeRAM(setNodeCPU(e, m.cpu), m.ram), m.busy),
           m.funcs)

\* The setters find nothing to set for a node that is not in the table.
\* (getFuncIndex has no return statement for such a node; whatever pair its
\* caller sees, the setters that follow do nothing.)
NodeStatusFetchHandler(tbl, m) ==
  IF m.from \in DOMAIN tbl THEN [tbl EXCEPT ![m.from] = Updated(@, m)] ELSE tbl

HandleMessage(tbl, m) ==
  IF m.kind = "BootstrapInfo" THEN BootstrapPhaseHandler(tbl, m)
                              ELSE NodeStatusFetchHandler(tbl, m)
=============================================================================
