------------------------ MODULE SwitchCommands_proofs ------------------------
(***************************************************************************)
(* Lemmas about the orchestrator's table, about what the management        *)
(* application decides from it, and about what a command does to a node's  *)
(* functions and exclude list, for the theorems about both transports.     *)
(***************************************************************************)
EXTENDS SwitchCommands, FiniteSetTheorems, TLAPS

-----------------------------------------------------------------------------
(* The operators on the table.                                             *)

\* Updating an entry leaves its bootstrap half alone and stores RAM, busy
\* counter and functions of the message.
LEMMA UpdatedEntry ==
  ASSUME NEW e \in Entry, NEW m \in Message
  PROVE  /\ Updated(e, m) \in Entry
         /\ Updated(e, m).initial = e.initial
         /\ Updated(e, m).current.ram = m.ram
         /\ Updated(e, m).current.busy = m.busy
         /\ Updated(e, m).current.funcs = m.funcs
  BY DEF Updated, setFuncs, setNodeBusyCounter, setNodeRAM, setNodeCPU,
         Entry, Info, Message

\* Handling a message keeps the table's type and every entry's bootstrap half.
LEMMA HandledTable ==
  ASSUME NEW tbl, DOMAIN tbl \subseteq Nodes, tbl \in [DOMAIN tbl -> Entry],
         NEW m \in Message
  PROVE  /\ DOMAIN HandleMessage(tbl, m) \subseteq Nodes
         /\ HandleMessage(tbl, m) \in [DOMAIN HandleMessage(tbl, m) -> Entry]
         /\ DOMAIN tbl \subseteq DOMAIN HandleMessage(tbl, m)
         /\ \A n \in DOMAIN tbl : HandleMessage(tbl, m)[n].initial = tbl[n].initial
<1>1. CASE m.kind = "BootstrapInfo"
  <2> DEFINE info == [cpu |-> m.cpu, ram |-> m.ram, busy |-> 0, funcs |-> m.funcs]
  <2>1. info \in Info /\ m.from \in Nodes
    BY DEF Message, Info
  <2>2. [initial |-> info, current |-> info] \in Entry
    BY <2>1 DEF Entry
  <2>3. HandleMessage(tbl, m) = AddNodeToTable(tbl, m.from, info)
    BY <1>1 DEF HandleMessage, BootstrapPhaseHandler
  <2> HIDE DEF info
  <2> QED
    BY <2>1, <2>2, <2>3 DEF AddNodeToTable
<1>2. CASE m.kind # "BootstrapInfo"
  <2>1. HandleMessage(tbl, m) = NodeStatusFetchHandler(tbl, m)
    BY <1>2 DEF HandleMessage
  <2>2. CASE m.from \notin DOMAIN tbl
    BY <2>1, <2>2 DEF NodeStatusFetchHandler
  <2>3. CASE m.from \in DOMAIN tbl
    <3>1. tbl[m.from] \in Entry
      BY <2>3
    <3>2. /\ Updated(tbl[m.from], m) \in Entry
          /\ Updated(tbl[m.from], m).initial = tbl[m.from].initial
      BY <3>1, UpdatedEntry
    <3>3. HandleMessage(tbl, m) = [tbl EXCEPT ![m.from] = Updated(tbl[m.from], m)]
      BY <2>1, <2>3 DEF NodeStatusFetchHandler
    <3> QED
      BY <3>2, <3>3
  <2> QED
    BY <2>2, <2>3
<1> QED
  BY <1>1, <1>2

\* What the table says of a node after a message has been handled is what it
\* said before or what the message says.
LEMMA HandledCurrent ==
  ASSUME NEW tbl, DOMAIN tbl \subseteq Nodes, tbl \in [DOMAIN tbl -> Entry],
         NEW m \in Message,
         NEW n \in DOMAIN HandleMessage(tbl, m)
  PROVE  \/ n \in DOMAIN tbl /\ HandleMessage(tbl, m)[n].current.funcs = tbl[n].current.funcs
         \/ n = m.from /\ HandleMessage(tbl, m)[n].current.funcs = m.funcs
<1>1. CASE m.kind = "BootstrapInfo"
  <2> DEFINE info == [cpu |-> m.cpu, ram |-> m.ram, busy |-> 0, funcs |-> m.funcs]
  <2>1. HandleMessage(tbl, m) = AddNodeToTable(tbl, m.from, info)
    BY <1>1 DEF HandleMessage, BootstrapPhaseHandler
  <2>2. info.funcs = m.funcs
    OBVIOUS
  <2> HIDE DEF info
  <2>3. CASE m.from \in DOMAIN tbl
    BY <2>1, <2>3 DEF AddNodeToTable
  <2>4. CASE m.from \notin DOMAIN tbl
    BY <2>1, <2>2, <2>4 DEF AddNodeToTable
  <2> QED
    BY <2>3, <2>4
<1>2. CASE m.kind # "BootstrapInfo"
  <2>1. HandleMessage(tbl, m) = NodeStatusFetchHandler(tbl, m)
    BY <1>2 DEF HandleMessage
  <2>2. CASE m.from \notin DOMAIN tbl
    BY <2>1, <2>2 DEF NodeStatusFetchHandler
  <2>3. CASE m.from \in DOMAIN tbl
    <3>1. Updated(tbl[m.from], m).current.funcs = m.funcs
      BY <2>3, UpdatedEntry
    <3>2. HandleMessage(tbl, m) = [tbl EXCEPT ![m.from] = Updated(tbl[m.from], m)]
      BY <2>1, <2>3 DEF NodeStatusFetchHandler
    <3> QED
      BY <3>1, <3>2
  <2> QED
    BY <2>2, <2>3
<1> QED
  BY <1>1, <1>2
-----------------------------------------------------------------------------
(* The functions at some positions of a report.                            *)

\* Every rank from one to the number of positions is the rank of one of them:
\* ranks are different for different positions and none exceeds the number.
LEMMA RanksAreTaken ==
  ASSUME NEW I \in SUBSET Positions
  PROVE  /\ Cardinality(I) \in Nat
         /\ \A k \in 1 .. Cardinality(I) : \E i \in I : Rank(I, i) = k
<1>1. Len(FuncOrder) \in Nat
  BY OrderAssumption
<1>2. IsFiniteSet(Positions) /\ Positions \subseteq Nat
  BY <1>1, FS_Interval DEF Positions
<1>3. IsFiniteSet(I) /\ Cardinality(I) \in Nat
  BY <1>2, FS_Subset, FS_CardinalityType
<1> DEFINE c == Cardinality(I)
           Upto(i) == {x \in I : x <= i}
           r == [i \in I |-> Rank(I, i)]
<1>4. ASSUME NEW i \in I
      PROVE  IsFiniteSet(Upto(i)) /\ Rank(I, i) \in 1 .. c
  <2>1. IsFiniteSet(Upto(i)) /\ Cardinality(Upto(i)) <= c
    BY <1>3, FS_Subset
  <2>2. i \in Upto(i)
    BY <1>2
  <2>3. Cardinality(Upto(i)) \in Nat /\ Cardinality(Upto(i)) # 0
    BY <2>1, <2>2, FS_CardinalityType, FS_EmptySet
  <2> QED
    BY <1>3, <2>1, <2>3 DEF Rank
<1>5. ASSUME NEW i \in I, NEW j \in I, i < j
      PROVE  Rank(I, i) # Rank(I, j)
  <2>1. Upto(i) \subseteq Upto(j) /\ j \in Upto(j) /\ j \notin Upto(i)
    <3>1. I \subseteq Nat
      BY <1>2
    <3>2. \A x \in I : x <= i => x <= j
      BY <1>5, <3>1
    <3>3. j <= j /\ ~ (j <= i)
      BY <1>5, <3>1
    <3> QED
      BY <3>2, <3>3
  <2>2. Upto(i) # Upto(j)
    BY <2>1
  <2> QED
    BY <1>4, <2>1, <2>2, FS_Subset DEF Rank
<1>6. r \in Injection(I, 1 .. c)
  <2>1. r \in [I -> 1 .. c]
    BY <1>4
  <2>2. \A i, j \in I : r[i] = r[j] => i = j
    BY <1>2, <1>5
  <2> QED
    BY <2>1, <2>2 DEF Injection, IsInjective
<1>7. IsFiniteSet(1 .. c) /\ Cardinality(1 .. c) = c
  BY <1>3, FS_Interval
<1>8. r \in Surjection(I, 1 .. c)
  BY <1>6, <1>7, FS_Injection
<1> QED
  BY <1>3, <1>8 DEF Surjection

\* What is picked is a list of functions, each at one of the positions.
LEMMA FuncsAtPositions ==
  ASSUME NEW I \in SUBSET Positions
  PROVE  /\ FuncsAt(I) \in Seq(Funcs)
         /\ \A k \in DOMAIN FuncsAt(I) : \E i \in I : FuncsAt(I)[k] = FuncOrder[i]
         /\ IsInjective(FuncsAt(I))
<1> DEFINE At(k) == CHOOSE i \in I : Rank(I, i) = k
           c == Cardinality(I)
<1>1. c \in Nat /\ \A k \in 1 .. c : At(k) \in I /\ Rank(I, At(k)) = k
  BY RanksAreTaken
<1>2. FuncsAt(I) = [k \in 1 .. c |-> FuncOrder[At(k)]]
  BY DEF FuncsAt
<1> HIDE DEF At, c
<1>3. \A i \in I : i \in DOMAIN FuncOrder /\ FuncOrder[i] \in Funcs
  BY OrderAssumption DEF Positions
<1>4. FuncsAt(I) \in Seq(Funcs)
  BY <1>1, <1>2, <1>3
<1>5. \A k \in 1 .. c : FuncsAt(I)[k] = FuncOrder[At(k)]
  BY <1>2
<1>6. \A k, l \in 1 .. c : FuncOrder[At(k)] = FuncOrder[At(l)] => k = l
  BY <1>1, <1>3, OrderAssumption DEF IsInjective
<1> QED
  BY <1>1, <1>2, <1>4, <1>5, <1>6 DEF IsInjective

\* How often a list names a function, and whether it does.
LEMMA TimesNamed ==
  ASSUME NEW fs \in Seq(Funcs), NEW f
  PROVE  /\ Times(f, fs) \in Nat
         /\ Times(f, fs) = 0 <=> f \notin ToSet(fs)
         /\ IsInjective(fs) => Times(f, fs) <= 1
<1> DEFINE At == {i \in DOMAIN fs : fs[i] = f}
<1>1. IsFiniteSet(DOMAIN fs)
  <2>1. Len(fs) \in Nat /\ DOMAIN fs = 1 .. Len(fs)
    OBVIOUS
  <2> QED
    BY <2>1, FS_Interval
<1>2. IsFiniteSet(At) /\ Cardinality(At) \in Nat
  BY <1>1, FS_Subset, FS_CardinalityType
<1>3. Cardinality(At) = 0 <=> At = {}
  BY <1>2, FS_EmptySet
<1>4. At = {} <=> f \notin ToSet(fs)
  BY DEF ToSet
<1>5. ASSUME IsInjective(fs), At # {} PROVE Cardinality(At) = 1
  <2>1. PICK i \in At : TRUE
    BY <1>5
  <2>2. At = {i}
    BY <1>5, <2>1 DEF IsInjective
  <2> QED
    BY <2>2, FS_Singleton
<1>6. Times(f, fs) = Cardinality(At)
  BY DEF Times
<1> HIDE DEF At
<1> QED
  BY <1>2, <1>3, <1>4, <1>5, <1>6

-----------------------------------------------------------------------------
(* The decisions.                                                          *)

\* The first pass names functions that the entry holds for enabled, each once.
LEMMA ToDisableNames ==
  ASSUME NEW e \in Entry
  PROVE  /\ ToDisable(e) \in Seq(Funcs)
         /\ IsInjective(ToDisable(e))
         /\ \A f \in ToSet(ToDisable(e)) : f \in Funcs /\ State(e, f).status
<1> DEFINE I == {i \in Positions : State(e, FuncOrder[i]).status
                                  /\ State(e, FuncOrder[i]).exe = 0}
<1>1. CASE ~ IsBusy(e)
  BY <1>1 DEF ToDisable, ToSet, IsInjective
<1>2. CASE IsBusy(e)
  <2>1. ToDisable(e) = FuncsAt(I)
    BY <1>2 DEF ToDisable, Pick
  <2>2. I \in SUBSET Positions
    OBVIOUS
  <2>3. \A i \in I : FuncOrder[i] \in Funcs /\ State(e, FuncOrder[i]).status
    BY OrderAssumption DEF Positions
  <2> HIDE DEF I
  <2> QED
    BY <2>1, <2>2, <2>3, FuncsAtPositions DEF ToSet
<1> QED
  BY <1>1, <1>2

\* The functions with many misses are ones that the entry holds for disabled.
LEMMA MissedNames ==
  ASSUME NEW e \in Entry, NEW limit
  PROVE  /\ Missed(e, limit) \in Seq(Funcs)
         /\ \A f \in ToSet(Missed(e, limit)) : f \in Funcs /\ ~ State(e, f).status
<1> DEFINE I == {i \in Positions : ~ State(e, FuncOrder[i]).status
                                  /\ State(e, FuncOrder[i]).misses > limit}
<1>1. Missed(e, limit) = FuncsAt(I)
  BY DEF Missed, Pick
<1>2. I \in SUBSET Positions
  OBVIOUS
<1>3. \A i \in I : FuncOrder[i] \in Funcs /\ ~ State(e, FuncOrder[i]).status
  BY OrderAssumption DEF Positions
<1> HIDE DEF I
<1> QED
  BY <1>1, <1>2, <1>3, FuncsAtPositions DEF ToSet

\* So are the functions that a node is to help a busy one with.
LEMMA ToEnableNames ==
  ASSUME NEW tbl, NEW e \in Entry
  PROVE  /\ ToEnable(tbl, e) \in Seq(Funcs)
         /\ \A f \in ToSet(ToEnable(tbl, e)) : f \in Funcs /\ ~ State(e, f).status
<1> DEFINE I == {i \in Positions : ~ State(e, FuncOrder[i]).status
                                  /\ FuncOrder[i] \in BusyFunctions(tbl)}
           help == IF Helps(e) THEN FuncsAt(I) ELSE <<>>
           missed == Missed(e, MissLow)
<1>1. ToEnable(tbl, e) = missed \o help
  BY DEF ToEnable, Pick
<1>2. I \in SUBSET Positions
  OBVIOUS
<1>3. \A i \in I : FuncOrder[i] \in Funcs /\ ~ State(e, FuncOrder[i]).status
  BY OrderAssumption DEF Positions
<1> HIDE DEF I
<1>4. /\ help \in Seq(Funcs)
      /\ \A f \in ToSet(help) : f \in Funcs /\ ~ State(e, f).status
  <2>1. CASE Helps(e)
    BY <2>1, <1>2, <1>3, FuncsAtPositions DEF ToSet
  <2>2. CASE ~ Helps(e)
    BY <2>2 DEF ToSet
  <2> QED
    BY <2>1, <2>2
<1>5. /\ missed \in Seq(Funcs)
      /\ \A f \in ToSet(missed) : f \in Funcs /\ ~ State(e, f).status
  BY MissedNames
<1> HIDE DEF help, missed
<1>6. missed \o help \in Seq(Funcs)
  BY <1>4, <1>5
<1>7. ToSet(missed \o help) \subseteq ToSet(missed) \union ToSet(help)
  BY <1>4, <1>5 DEF ToSet
<1> QED
  BY <1>1, <1>4, <1>5, <1>6, <1>7

\* What the orchestrator sends is a command: one that disables names each function
\* once and only what the table says is enabled, one that enables names only
\* what the table says is disabled.
LEMMA DecisionNames ==
  ASSUME NEW tbl, DOMAIN tbl \subseteq Nodes, tbl \in [DOMAIN tbl -> Entry],
         NEW d \in Decisions(tbl)
  PROVE  LET c == Decision(tbl, d[1], d[2])
         IN  /\ c \in Command /\ c.to = d[2] /\ d[2] \in DOMAIN tbl
             /\ c.op = "Disable" <=> d[1] = "disable"
             /\ c.op = "Disable" => IsInjective(c.funcs)
             /\ \A f \in ToSet(c.funcs) :
                  f \in Funcs /\ (tbl[c.to].current.funcs[f].status <=> c.op = "Disable")
<1> DEFINE n == d[2]
           c == Decision(tbl, d[1], n)
<1>1. d[1] \in Passes /\ n \in DOMAIN tbl /\ n \in Nodes /\ tbl[n] \in Entry
  BY DEF Decisions
<1>2. CASE d[1] = "disable"
  <2>1. c = [to |-> n, op |-> "Disable", funcs |-> ToDisable(tbl[n])]
    BY <1>2 DEF Decision
  <2> HIDE DEF c, n
  <2>2. c \in Command /\ c.to = n /\ c.op = "Disable" /\ c.funcs = ToDisable(tbl[n])
    BY <1>1, <2>1, ToDisableNames DEF Command, Ops
  <2> QED
    BY <1>1, <1>2, <2>2, ToDisableNames DEF State, c, n
<1>3. CASE d[1] # "disable"
  <2>1. PICK fs \in {ToEnable(tbl, tbl[n]), Missed(tbl[n], MissHigh)} :
          c = [to |-> n, op |-> "Enable", funcs |-> fs]
    BY <1>1, <1>3 DEF Decision, Passes
  <2>2. fs \in Seq(Funcs) /\ \A f \in ToSet(fs) : f \in Funcs /\ ~ State(tbl[n], f).status
    BY <1>1, <2>1, ToEnableNames, MissedNames
  <2> HIDE DEF c, n
  <2>3. c \in Command /\ c.to = n /\ c.op = "Enable" /\ c.funcs = fs
    BY <1>1, <2>1, <2>2 DEF Command, Ops
  <2> QED
    BY <1>1, <1>3, <2>2, <2>3 DEF State, c, n
<1> QED
  BY <1>2, <1>3

-----------------------------------------------------------------------------
(* What a node does with a command.                                        *)

\* The functions keep their type, their counts of executions, and the status of
\* those that are not named.
LEMMA SwitchedFunctions ==
  ASSUME NEW fs \in [Funcs -> FuncState], NEW S
  PROVE  /\ Enabled(fs, S) \in [Funcs -> FuncState]
         /\ Disabled(fs, S) \in [Funcs -> FuncState]
         /\ \A f \in Funcs :
              /\ Enabled(fs, S)[f].exe = fs[f].exe
              /\ Disabled(fs, S)[f].exe = fs[f].exe
              /\ Enabled(fs, S)[f].status <=> (f \in S \/ fs[f].status)
              /\ Disabled(fs, S)[f].status <=> (f \notin S /\ fs[f].status)
  BY DEF Enabled, Disabled, FuncState

\* The exclude list keeps its type.
LEMMA ExcludeListType ==
  ASSUME NEW ex \in [Funcs -> Nat], NEW op, NEW fs \in Seq(Funcs)
  PROVE  ExcludeList(ex, op, fs) \in [Funcs -> Nat]
<1> SUFFICES ASSUME NEW f \in Funcs PROVE ExcludeList(ex, op, fs)[f] \in Nat
  BY DEF ExcludeList
<1>1. Times(f, fs) \in Nat /\ ex[f] \in Nat
  BY TimesNamed
<1> QED
  BY <1>1 DEF ExcludeList
=============================================================================
