--------------------------- MODULE SwitchCommands ---------------------------
(***************************************************************************)
(* What the management application (OrchestrationManagementApp) decides    *)
(* with the strategy "Function Switch", from the table alone: which        *)
(* functions to disable and enable on which nodes; and what a command does *)
(* to the objects of the node that carries it out.  Both are the same for  *)
(* both transports.                                                        *)
(***************************************************************************)
EXTENDS NodeInfoStorage, FiniteSets, SequencesExt

CONSTANTS
  FuncOrder,    \* Funcs in the order in which reports list them
  BusyExe,      \* 8: executions that make a function a busy one
  MissLow,      \* 5: misses that enable a function
  MissHigh,     \* 10: misses that enable a function, third pass
  Ticks         \* a third of the interval, in the simulator's time unit

ASSUME OrderAssumption ==
  /\ FuncOrder \in Seq(Funcs) /\ ToSet(FuncOrder) = Funcs
  /\ IsInjective(FuncOrder)   \* a node keeps its functions in a map
ASSUME ThresholdAssumption == {BusyExe, MissLow, MissHigh, Ticks} \subseteq Nat

Ops     == {"Enable", "Disable"}
Command == [to : Nodes, op : Ops, funcs : Seq(Funcs)]

(* The decisions, on the entry e of one node.                              *)

State(e, f) == e.current.funcs[f]

SumExe(e) == MapThenSumSet(LAMBDA f : State(e, f).exe, Funcs)

\* The threshold is four fifths of the node's capacity, written 4/5 in
\* integers.
IsBusy(e) == SumExe(e) > Ticks * e.initial.cpu * (4 \div 5)

\* Functions that a busy node executes most.
BusyFunctions(tbl) ==
  {f \in Funcs : \E n \in DOMAIN tbl :
      /\ IsBusy(tbl[n])
      /\ State(tbl[n], f).status
      /\ State(tbl[n], f).exe > BusyExe}

\* The capacity is in the simulator's time unit, the counter is a number.
Helps(e) == SumExe(e) = 0 \/ SumExe(e) < (Ticks * e.initial.cpu) \div 2

\* The functions at the positions I of a report, in its order; position i is
\* the k-th if k members of I are no greater.
Rank(I, i)   == Cardinality({x \in I : x <= i})
FuncsAt(I)   == [k \in 1 .. Cardinality(I) |-> FuncOrder[CHOOSE i \in I : Rank(I, i) = k]]
Positions    == 1 .. Len(FuncOrder)
Pick(Test(_)) == FuncsAt({i \in Positions : Test(FuncOrder[i])})

\* First pass: on a busy node, what is enabled and was never executed.
ToDisable(e) ==
  IF IsBusy(e)
  THEN Pick(LAMBDA f : State(e, f).status /\ State(e, f).exe = 0)
  ELSE <<>>

\* Wrong variant: the threshold is one lower.
MissedTooFew(e, limit) ==
  Pick(LAMBDA f : ~ State(e, f).status /\ State(e, f).misses >= limit)

Missed(e, limit) ==
  Pick(LAMBDA f : ~ State(e, f).status /\ State(e, f).misses > limit)

\* Second pass; a function can be named twice.
ToEnable(tbl, e) ==
  Missed(e, MissLow) \o
  (IF Helps(e)
   THEN Pick(LAMBDA f : ~ State(e, f).status /\ f \in BusyFunctions(tbl))
   ELSE <<>>)

\* The three passes over the table; nothing is sent that names no function.
\* Each pass sends a node at most one command.
Passes == {"disable", "help", "miss"}

Decision(tbl, pass, n) ==
  LET Switch(op, fs) == [to |-> n, op |-> op, funcs |-> fs]
  IN  CASE pass = "disable" -> Switch("Disable", ToDisable(tbl[n]))
        [] pass = "help"    -> Switch("Enable", ToEnable(tbl, tbl[n]))
        [] pass = "miss"    -> Switch("Enable", Missed(tbl[n], MissHigh))

Decisions(tbl) ==
  {d \in Passes \X DOMAIN tbl : Decision(tbl, d[1], d[2]).funcs # <<>>}

-----------------------------------------------------------------------------
(* What a node does with a command: the functions and the exclude list.    *)

\* EnableFunction also clears the function's misses.
Enabled(fs, S) ==
  [f \in Funcs |-> IF f \in S THEN [fs[f] EXCEPT !.status = TRUE, !.misses = 0]
                              ELSE fs[f]]
Disabled(fs, S) ==
  [f \in Funcs |-> IF f \in S THEN [fs[f] EXCEPT !.status = FALSE] ELSE fs[f]]

Times(f, fs) == Cardinality({i \in DOMAIN fs : fs[i] = f})

\* Wrong variant: Enable leaves the exclude list alone.
ExcludedForEver(ex, op, fs) ==
  IF op = "Enable" THEN ex
  ELSE [f \in Funcs |-> ex[f] + Times(f, fs)]

\* Wrong variant: erases without having found the function.
ExcludeListUnchecked(ex, op, fs) ==
  [f \in Funcs |-> IF op = "Disable" THEN ex[f] + Times(f, fs)
                                     ELSE ex[f] - Times(f, fs)]

\* Enable removes one occurrence, if there is one, for every time it names the
\* function; Disable appends one.
ExcludeList(ex, op, fs) ==
  [f \in Funcs |-> IF op = "Disable" THEN ex[f] + Times(f, fs)
                   ELSE IF ex[f] > Times(f, fs) THEN ex[f] - Times(f, fs) ELSE 0]
=============================================================================
