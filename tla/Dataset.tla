------------------------------- MODULE Dataset -------------------------------
(***************************************************************************)
(* The generator of data sets, DataGen of hier-topology-data-generation:   *)
(* what generate_data writes into the file of a scenario, section by       *)
(* section, and what it draws at random.                                   *)
(*                                                                         *)
(* A line is a record of the fields that something later depends on; the   *)
(* capacities, positions, frequencies and times of a line are left out.    *)
(* Names are what they are made of: <<"compute", i>> is "compute_node_i",  *)
(* operand n is "Operand_n", function i is "func-i".  p is the argument    *)
(* list of generate_data, as nfn-hydro gives it (zipf is TRUE).            *)
(***************************************************************************)
EXTENDS Naturals, Sequences, Functions, FiniteSets

CONSTANTS
  Base,      \* the base names are written in (10)
  LoadUnit   \* consumers per step of a burst's load index (20)

ASSUME BaseAssumption     == Base \in Nat \ {0, 1}
ASSUME LoadUnitAssumption == LoadUnit \in Nat \ {0}

\* What s has at the places in S, in their order.
Chosen(s, S) ==
  LET place(k) == CHOOSE i \in S : Cardinality({j \in S : j <= i}) = k
  IN  [k \in 1 .. Cardinality(S) |-> s[place(k)]]

Orchestrator   == <<"orchestrator">>
ComputeNode(i) == <<"compute", i>>
Consumer(j)    == <<"consumer", j>>

\* The generator's arguments are usable: the links of tier 2 need two nodes of
\* tier 3 each, the blocks of the load distribution a consumer per node, and the
\* tiers of the router section one node in tier 1.
Usable(p) ==
  /\ {p.t1, p.t2, p.t3, p.consumers, p.funcs, p.data, p.inputs} \subseteq Nat
  /\ p.t1 = 1
  /\ p.t3 >= 2 * p.t2 /\ p.t3 > 0
  /\ p.consumers >= p.t3
  /\ p.funcs > 0 /\ p.inputs > 0

-----------------------------------------------------------------------------
(* Routers and links.                                                      *)

\* m_node_list has the compute nodes without the orchestrator.
NodeList(p) == [i \in 1 .. p.t1 + p.t2 + p.t3 + 1 |-> ComputeNode(i - 1)]

\* The tier decides a node's capacity: cloud, gateway, then tiers 2 and 3.
Tier(p, i) ==
  CASE i = 0 -> "cloud"
    [] i = 1 -> "gateway"
    [] i > 1 /\ i <= p.t2 + 1 -> "tier2"
    [] i > p.t2 + 1 -> IF i > p.t2 + p.t1 THEN "tier3" ELSE "none"

RouterSection(p) ==
  <<[name |-> Orchestrator, tier |-> "orchestrator"]>>
    \o [i \in 1 .. Len(NodeList(p)) |-> [name |-> ComputeNode(i - 1), tier |-> Tier(p, i - 1)]]
    \o [j \in 1 .. p.consumers |-> [name |-> Consumer(j - 1), tier |-> "consumer"]]

\* The orchestrator is linked to all compute nodes but the cloud.
OrchestratorLinks(p) ==
  [i \in 1 .. Len(NodeList(p)) - 1 |-> <<Orchestrator, ComputeNode(i)>>]

\* Cloud and gateway, gateway and tier 2, and two of tier 3 below each of tier 2.
TierLinks(p) ==
  <<<<ComputeNode(0), ComputeNode(1)>>>>
    \o [l \in 1 .. p.t2 |-> <<ComputeNode(1), ComputeNode(l + 1)>>]
    \o [k \in 1 .. 2 * p.t2 |-> <<ComputeNode((k + 1) \div 2 + 1), ComputeNode(p.t2 + 1 + k)>>]

\* Consumers of each node of tier 3, before the rest is dealt out.
Block(p) == p.consumers \div p.t3

\* The node of tier 3 that consumer j hangs on: a block each, then one each of
\* those that are left.
Above(p, j) ==
  ComputeNode(p.t2 + 2 + IF j < Block(p) * p.t3 THEN j \div Block(p) ELSE j - Block(p) * p.t3)

\* Wrong variant: the consumers that are left over get no link.
ConsumerLinksNoRest(p) ==
  [k \in 1 .. Block(p) * p.t3 |-> <<Above(p, k - 1), Consumer(k - 1)>>]

ConsumerLinks(p) == [k \in 1 .. p.consumers |-> <<Above(p, k - 1), Consumer(k - 1)>>]

LinkSection(p) == OrchestratorLinks(p) \o TierLinks(p) \o ConsumerLinks(p)

-----------------------------------------------------------------------------
(* Functions and data.                                                     *)

\* Numbers of inputs that may be drawn for the functions, in their order; a
\* signature is as long, and no function is without inputs.
FuncLists(p) == [1 .. p.funcs -> 1 .. p.inputs]

FunctionSection(list) ==
  [i \in DOMAIN list |-> [name |-> i - 1, signature |-> [j \in 1 .. list[i] |-> j % 2]]]

\* All functions start on the cloud.
StatusSection(list) == [i \in DOMAIN list |-> [node |-> ComputeNode(0), name |-> i - 1]]

\* Data names that are provided: num_data different ones of num_data + 1.
ProvidedData(p) ==
  {s \in [1 .. p.data -> 0 .. p.data] : IsInjective(s)}

\* find sees "Operand_a" in a text with "Operand_b" when a's digits begin b's.
Begins(a, b) == a = b \/ (a # 0 /\ \E k \in 1 .. b : a = b \div (Base ^ k))

Found(a, list) == \E i \in DOMAIN list : Begins(a, list[i])

\* Input lists that may be drawn: no operand is found in the text before it.
InputLists(n, data) ==
  {s \in [1 .. n -> 0 .. data] : \A i \in DOMAIN s : ~ Found(s[i], SubSeq(s, 1, i - 1))}

-----------------------------------------------------------------------------
(* Requests and the consumers that provide data.                           *)

\* Consumers of one burst: with load distribution, those of one node of tier 3.
BurstConsumers(p, load) ==
  LET j(i) == IF p.load THEN (i % Block(p)) + load * Block(p) ELSE i
      half == p.consumers \div 2
  IN  Chosen([i \in 1 .. half |-> j(i - 1)], {i \in 1 .. half : j(i - 1) < p.consumers})

LoadIndexes(p) == 0 .. p.consumers \div LoadUnit

\* After the bursts of a load distribution every consumer asks once more.
OtherConsumers(p) == IF p.load THEN [i \in 1 .. p.consumers |-> i - 1] ELSE <<>>

\* A line of the consumer section: the function's place in the list is its name.
RequestLine(j, func, inputs) == [who |-> Consumer(j), func |-> func, inputs |-> inputs]

\* The provided data is dealt to the consumers in turn.
DataSection(p, provided) ==
  [i \in DOMAIN provided |-> [who |-> Consumer((i - 1) % p.consumers), data |-> provided[i]]]
=============================================================================
