-------------------------- MODULE Scenario_proofs --------------------------
(***************************************************************************)
(* Theorems about Scenario, for every command line and every draw of the   *)
(* generator: types, that the network that is read is the one that was     *)
(* meant (Wired), and that whoever asks is served where the routes lead    *)
(* (AskedIsServed).                                                        *)
(*                                                                         *)
(* nfn-hydro is one long sequence, so the inductive invariant ScenarioInv  *)
(* goes by stages: of each stage it says what holds from then on.  The     *)
(* file has the sections the generator means, the network is what the      *)
(* sections say, the information parsed of it knows every name that is     *)
(* asked, the applications ask no other, and the routes lead to them.      *)
(* Lemmas about the numbers and sequences come first, then one about each  *)
(* section of the file and each reader, then one per action.               *)
(***************************************************************************)
EXTENDS Scenario, FiniteSetTheorems, WellFoundedInduction, TLAPS

-----------------------------------------------------------------------------
(* Numbers and sequences.                                                  *)

\* A set of numbers has a smallest member.
LEMMA LeastExists ==
  ASSUME NEW S \in SUBSET Nat, S # {}
  PROVE  \E x \in S : \A y \in S : x <= y
<1> DEFINE R == OpToRel(<, Nat)
<1>1. IsWellFoundedOn(R, Nat)
  BY NatLessThanWellFounded
<1> HIDE DEF R
<1>2. PICK x \in S : \A y \in S : ~ (<<y, x>> \in R)
  BY <1>1, WFMin
<1>3. ASSUME NEW y \in S PROVE x <= y
  <2>1. <<y, x>> \notin R /\ y \in Nat /\ x \in Nat
    BY <1>2
  <2>2. ~ (y < x)
    BY <2>1 DEF R, OpToRel
  <2> QED
    BY <2>1, <2>2
<1> QED
  BY <1>3

\* What is so before the first line, and after a line if before it, is so after
\* all of them: there is no first line after which it is not.
LEMMA LineInduction ==
  ASSUME NEW n \in Nat, NEW S, 0 \in S, \A k \in 1 .. n : k - 1 \in S => k \in S
  PROVE  0 .. n \subseteq S
<1> DEFINE Not == (0 .. n) \ S
<1>1. SUFFICES ASSUME Not # {} PROVE FALSE
  OBVIOUS
<1>2. PICK x \in Not : \A y \in Not : x <= y
  <2>1. Not \in SUBSET Nat
    OBVIOUS
  <2> HIDE DEF Not
  <2> QED
    BY <1>1, <2>1, LeastExists
<1>3. x \in 1 .. n /\ x - 1 \in 0 .. n /\ ~ (x <= x - 1)
  BY <1>2
<1>4. x - 1 \in S
  BY <1>2, <1>3
<1>5. \A k \in 1 .. n : k - 1 \in S => k \in S
  OBVIOUS
<1>6. x \in S
  BY <1>3, <1>4, <1>5
<1> QED
  BY <1>2, <1>6

\* g is where n steps lead to from start, one after the other.
Steps(g, X, start, n, op) ==
  /\ g \in [0 .. n -> X] /\ g[0] = start
  /\ \A k \in 1 .. n : g[k] = op[<<g[k - 1], k>>]

\* Step by step, line after line, one gets somewhere.
LEMMA StepsExist ==
  ASSUME NEW X, NEW start \in X, NEW n \in Nat, NEW op \in [X \X (1 .. n) -> X]
  PROVE  \E g : Steps(g, X, start, n, op)
<1> DEFINE Is(g, m) == Steps(g, X, start, m, op)
           S == {m \in 0 .. n : \E g : Is(g, m)}
<1>1. 0 \in S
  <2> DEFINE g == [m \in 0 .. 0 |-> start]
  <2>1. Is(g, 0)
    BY DEF Steps
  <2> HIDE DEF Is, g
  <2> QED
    BY <2>1
<1>2. ASSUME NEW k \in 1 .. n, k - 1 \in S PROVE k \in S
  <2>1. \E g : Is(g, k - 1)
    <3> HIDE DEF Is
    <3> QED
      BY <1>2
  <2>2a. PICK g : Is(g, k - 1)
    BY <2>1
  <2> DEFINE h == [m \in 0 .. k |-> IF m = k THEN op[<<g[k - 1], k>>] ELSE g[m]]
  <2>2. g[k - 1] \in X /\ op[<<g[k - 1], k>>] \in X
    BY <2>2a DEF Steps
  <2>3. h \in [0 .. k -> X] /\ h[0] = start
    BY <2>2a, <2>2 DEF Steps
  <2>4. ASSUME NEW m \in 1 .. k PROVE h[m] = op[<<h[m - 1], m>>]
    BY <2>2a DEF Steps
  <2>5. Is(h, k)
    BY <2>3, <2>4 DEF Steps
  <2> HIDE DEF Is, h
  <2> QED
    BY <2>5
<1> HIDE DEF S
<1>3. n \in S
  BY <1>1, <1>2, LineInduction
<1> QED
  BY <1>3 DEF S

IsSeq(s) == s \in Seq({s[w] : w \in DOMAIN s})

\* A function of the numbers up to n is a sequence.
LEMMA FunctionIsSeq ==
  ASSUME NEW n \in Nat, NEW F, F = [k \in 1 .. n |-> F[k]]
  PROVE  IsSeq(F) /\ Len(F) = n /\ DOMAIN F = 1 .. n
<1>1. F \in Seq({F[k] : k \in 1 .. n}) /\ Len(F) = n
  OBVIOUS
<1> QED
  BY <1>1 DEF IsSeq

\* A sequence of the library's is one in the sense of IsSeq.
LEMMA SeqOfItsOwn ==
  ASSUME NEW S, NEW s \in Seq(S)
  PROVE  IsSeq(s)
BY DEF IsSeq

\* Two sequences one after the other, as one.
Joined(O, F, R) ==
  /\ IsSeq(R) /\ Len(R) = Len(O) + Len(F) /\ DOMAIN R = 1 .. Len(R)
  /\ \A k \in 1 .. Len(O) : R[k] = O[k]
  /\ \A k \in 1 .. Len(F) : R[Len(O) + k] = F[k]
  /\ \A k \in 1 .. Len(R) : k > Len(O) => k - Len(O) \in 1 .. Len(F) /\ R[k] = F[k - Len(O)]

\* What is joined has the places of both parts.
LEMMA Concat ==
  ASSUME NEW O, IsSeq(O), NEW F, IsSeq(F)
  PROVE  Joined(O, F, O \o F) /\ Len(O) \in Nat /\ Len(F) \in Nat
<1> DEFINE S == {O[w] : w \in DOMAIN O} \union {F[w] : w \in DOMAIN F}
<1>1. O \in Seq(S) /\ F \in Seq(S)
  BY DEF IsSeq
<1> HIDE DEF S
<1>2. O \o F \in Seq(S)
  BY <1>1
<1>3. IsSeq(O \o F)
  BY <1>2, SeqOfItsOwn
<1> QED
  BY <1>1, <1>3 DEF Joined

-----------------------------------------------------------------------------
(* What is chosen from a list.                                             *)

\* Places in a row are chosen in a row.
LEMMA ChosenRow ==
  ASSUME NEW a \in Nat, NEW n \in Nat, NEW s
  PROVE  Chosen(s, (a + 1) .. (a + n)) = [k \in 1 .. n |-> s[a + k]]
<1> DEFINE S == (a + 1) .. (a + n)
           place(k) == CHOOSE i \in S : Cardinality({j \in S : j <= i}) = k
<1>1. Cardinality(S) = n
  BY FS_Interval
<1>2. ASSUME NEW i \in S PROVE Cardinality({j \in S : j <= i}) = i - a
  <2>1. {j \in S : j <= i} = (a + 1) .. i
    OBVIOUS
  <2>2. a + 1 \in Int /\ i \in Int /\ ~ (a + 1 > i) /\ i - (a + 1) + 1 = i - a
    OBVIOUS
  <2> QED
    BY <2>1, <2>2, FS_Interval
<1>3. ASSUME NEW k \in 1 .. n PROVE place(k) = a + k
  <2>1. a + k \in S /\ Cardinality({j \in S : j <= a + k}) = k
    BY <1>2
  <2>2. place(k) \in S /\ Cardinality({j \in S : j <= place(k)}) = k
    BY <2>1
  <2> HIDE DEF place
  <2>3. place(k) - a = k
    BY <1>2, <2>2
  <2> QED
    BY <2>2, <2>3
<1>4. Chosen(s, S) = [k \in 1 .. Cardinality(S) |-> s[place(k)]]
  BY DEF Chosen
<1> HIDE DEF S, place
<1>5. Chosen(s, S) = [k \in 1 .. n |-> s[a + k]]
  BY <1>1, <1>3, <1>4
<1> QED
  BY <1>5 DEF S

\* Everything in c is what s has at a place in S.
From(c, s, S) == \A k \in DOMAIN c : \E i \in S : c[k] = s[i]

\* What is chosen are entries at the places to choose from: every number up to
\* how many there are is the rank of one of them.
LEMMA ChosenPlaces ==
  ASSUME NEW m \in Nat, NEW S \in SUBSET (1 .. m), NEW s
  PROVE  /\ Cardinality(S) \in Nat
         /\ IsSeq(Chosen(s, S)) /\ DOMAIN Chosen(s, S) = 1 .. Cardinality(S)
         /\ From(Chosen(s, S), s, S)
<1> DEFINE c == Cardinality(S)
           Upto(i) == {j \in S : j <= i}
           Rank(i) == Cardinality(Upto(i))
           r == [i \in S |-> Rank(i)]
           place(k) == CHOOSE i \in S : Cardinality({j \in S : j <= i}) = k
<1>1. IsFiniteSet(S) /\ c \in Nat
  <2>1. IsFiniteSet(1 .. m)
    BY FS_Interval
  <2> QED
    BY <2>1, FS_Subset, FS_CardinalityType
<1>2. ASSUME NEW i \in S
      PROVE  IsFiniteSet(Upto(i)) /\ Rank(i) \in 1 .. c
  <2>1. IsFiniteSet(Upto(i)) /\ Cardinality(Upto(i)) <= c
    BY <1>1, FS_Subset
  <2>2. i \in Upto(i)
    OBVIOUS
  <2> HIDE DEF Upto, c
  <2>3. Cardinality(Upto(i)) \in Nat /\ Cardinality(Upto(i)) # 0
    BY <2>1, <2>2, FS_CardinalityType, FS_EmptySet
  <2> QED
    BY <1>1, <2>1, <2>3
<1>3. ASSUME NEW i \in S, NEW j \in S, i < j
      PROVE  Rank(i) # Rank(j)
  <2>1. Upto(i) \subseteq Upto(j) /\ j \in Upto(j) /\ j \notin Upto(i)
    <3>1. S \subseteq Nat
      OBVIOUS
    <3>2. \A x \in S : x <= i => x <= j
      BY <1>3, <3>1
    <3>3. j <= j /\ ~ (j <= i)
      BY <1>3, <3>1
    <3> QED
      BY <3>2, <3>3
  <2> HIDE DEF Upto
  <2>2. Upto(i) # Upto(j) /\ Upto(i) \in SUBSET Upto(j)
    BY <2>1
  <2>3. IsFiniteSet(Upto(j))
    BY <1>2
  <2> QED
    BY <2>2, <2>3, FS_Subset
<1>4. r \in Injection(S, 1 .. c)
  <2>1. r \in [S -> 1 .. c]
    BY <1>2
  <2>2. \A i \in S : r[i] = Rank(i)
    OBVIOUS
  <2> HIDE DEF r, Rank
  <2>3. \A i, j \in S : r[i] = r[j] => i = j
    <3> SUFFICES ASSUME NEW i \in S, NEW j \in S, i # j PROVE r[i] # r[j]
      OBVIOUS
    <3>1. i < j \/ j < i
      OBVIOUS
    <3> QED
      BY <3>1, <1>3, <2>2
  <2> QED
    BY <2>1, <2>3 DEF Injection, IsInjective
<1>5. IsFiniteSet(1 .. c) /\ Cardinality(1 .. c) = c
  BY <1>1, FS_Interval
<1>6. r \in Surjection(S, 1 .. c)
  <2> HIDE DEF r, c
  <2> QED
    BY <1>4, <1>5, FS_Injection DEF c
<1>7. \A k \in 1 .. c : place(k) \in S
  <2> TAKE k \in 1 .. c
  <2>1. \E i \in S : r[i] = k
    <3> HIDE DEF r, c
    <3> QED
      BY <1>6 DEF Surjection
  <2>2. \E i \in S : Cardinality({j \in S : j <= i}) = k
    BY <2>1
  <2> QED
    BY <2>2
<1>8. Chosen(s, S) = [k \in 1 .. c |-> s[place(k)]]
  BY DEF Chosen
<1> HIDE DEF place, c
<1>9. Chosen(s, S) = [k \in 1 .. c |-> Chosen(s, S)[k]]
  BY <1>8
<1>10. IsSeq(Chosen(s, S)) /\ DOMAIN Chosen(s, S) = 1 .. c
  <2> DEFINE F == Chosen(s, S)
  <2>1. F = [k \in 1 .. c |-> F[k]]
    BY <1>9
  <2> HIDE DEF F
  <2>2. IsSeq(F) /\ DOMAIN F = 1 .. c
    BY <2>1, <1>1, FunctionIsSeq
  <2> QED
    BY <2>2 DEF F
<1> QED
  BY <1>1, <1>7, <1>8, <1>10 DEF c, From

\* What the generator's assertions leave of a command line (Usable).
LEMMA SettingFacts ==
  ASSUME NEW s \in Settings
  PROVE  /\ s.t1 = 1 /\ s.t2 \in Nat /\ s.t3 \in Nat /\ s.consumers \in Nat
         /\ s.funcs \in Nat /\ s.data = s.consumers /\ s.inputs \in Nat
         /\ s.t3 > 0 /\ s.t3 >= 2 * s.t2 /\ s.consumers >= s.t3 /\ s.funcs > 0
  BY SettingsAssumption DEF Usable

\* Division as the tier's blocks use it.
LEMMA DivBounds ==
  ASSUME NEW a \in Nat, NEW b \in Nat, b > 0
  PROVE  /\ a \div b \in Nat
         /\ b * (a \div b) <= a /\ a < b * (a \div b) + b
  OBVIOUS

\* Products of numbers keep their order.
LEMMA MulMono ==
  ASSUME NEW a \in Nat, NEW b \in Nat, NEW c \in Nat, a <= b
  PROVE  a * c <= b * c /\ a * c \in Nat /\ c * a = a * c
  OBVIOUS

\* Consumers are dealt in blocks to tier 3, and fewer than tier 3 has nodes are
\* left.
LEMMA BlockFacts ==
  ASSUME NEW s \in Settings
  PROVE  /\ Block(s) \in Nat /\ Block(s) > 0
         /\ Block(s) * s.t3 \in Nat /\ Block(s) * s.t3 <= s.consumers
         /\ s.consumers < Block(s) * s.t3 + s.t3
  <1>1. s.t3 \in Nat /\ s.t3 > 0 /\ s.consumers \in Nat /\ s.consumers >= s.t3
    BY SettingFacts
  <1> DEFINE q == Block(s)
  <1>2. q = s.consumers \div s.t3
    BY DEF Block
  <1>3. q \in Nat /\ s.t3 * q <= s.consumers /\ s.consumers < s.t3 * q + s.t3
    BY <1>1, <1>2, DivBounds
  <1> HIDE DEF q
  <1>4. q * s.t3 = s.t3 * q /\ s.t3 * q \in Nat
    BY <1>1, <1>3
  <1>5. q # 0
    <2> SUFFICES ASSUME q = 0 PROVE FALSE
      OBVIOUS
    <2>1. s.t3 * q = 0
      BY <1>1
    <2> QED
      BY <2>1, <1>1, <1>3
  <1> QED
    BY <1>3, <1>4, <1>5 DEF q

\* How many nodes of tier 3 are above a consumer's.
EdgeOf(s, j) == IF j < Block(s) * s.t3 THEN j \div Block(s) ELSE j - Block(s) * s.t3

\* Every consumer hangs on a node of tier 3.
LEMMA EdgeBounds ==
  ASSUME NEW s \in Settings, NEW j \in 0 .. s.consumers - 1
  PROVE  /\ EdgeOf(s, j) \in 0 .. s.t3 - 1
         /\ Above(s, j) = ComputeNode(s.t2 + 2 + EdgeOf(s, j))
<1> DEFINE q == Block(s)
           t == s.t3
<1>1. /\ q \in Nat /\ q > 0 /\ q * t \in Nat /\ t \in Nat /\ t > 0 /\ j \in Nat
      /\ s.consumers \in Nat /\ s.consumers < q * t + t
  BY BlockFacts, SettingFacts
<1>2. Above(s, j) = ComputeNode(s.t2 + 2 + EdgeOf(s, j))
  BY DEF Above, EdgeOf
<1>3. EdgeOf(s, j) = IF j < q * t THEN j \div q ELSE j - q * t
  BY DEF EdgeOf
<1> HIDE DEF q, t
<1>4. CASE j < q * t
  <2> DEFINE e == j \div q
  <2>1. e \in Nat /\ q * e <= j
    BY <1>1, DivBounds
  <2> HIDE DEF e
  <2>2. e < t
    <3> SUFFICES ASSUME t <= e PROVE FALSE
      BY <1>1, <2>1
    <3>1. t * q <= e * q
      BY <1>1, <2>1, MulMono
    <3>2. t * q = q * t /\ e * q = q * e /\ q * e \in Nat
      BY <1>1, <2>1
    <3> QED
      BY <1>1, <1>4, <2>1, <3>1, <3>2
  <2>3. EdgeOf(s, j) = e
    BY <1>3, <1>4 DEF e
  <2>4. e \in 0 .. t - 1
    BY <1>1, <2>1, <2>2
  <2> QED
    BY <1>2, <2>3, <2>4 DEF t
<1>5. CASE ~ (j < q * t)
  <2> DEFINE x == q * t
  <2>1. x \in Nat /\ ~ (j < x) /\ s.consumers < x + t /\ EdgeOf(s, j) = j - x
    BY <1>1, <1>3, <1>5
  <2> HIDE DEF x
  <2>2. j - x \in 0 .. t - 1
    BY <1>1, <2>1
  <2> QED
    BY <1>2, <2>1, <2>2 DEF t
<1> QED
  BY <1>4, <1>5

\* Compute nodes with the orchestrator's, and their names and tiers by place.
Computes(s) == s.t2 + s.t3 + 3

NodeName(i) == IF i = 1 THEN Orchestrator ELSE ComputeNode(i - 2)

NodeTier(s, i) == IF i = 1 THEN "orchestrator" ELSE Tier(s, i - 2)

ConsumerNames(s) == [j \in 1 .. s.consumers |-> Consumer(j - 1)]

AllNames(s) == {NodeName(i) : i \in 1 .. Computes(s)} \union {Consumer(j) : j \in 0 .. s.consumers - 1}

\* Different nodes have different names.
LEMMA NamesDiffer ==
  /\ \A i : ComputeNode(i) # Orchestrator /\ ComputeNode(i)[1] = "compute"
  /\ \A j : Consumer(j) # Orchestrator /\ Consumer(j)[1] = "consumer"
  /\ \A i, j : ComputeNode(i) # Consumer(j)
  /\ \A i, j : ComputeNode(i) = ComputeNode(j) => i = j
  /\ \A i, j : Consumer(i) = Consumer(j) => i = j
  /\ Orchestrator[1] = "orchestrator"
<1>1. \A i : ComputeNode(i)[1] = "compute" /\ ComputeNode(i)[2] = i
  BY DEF ComputeNode
<1>2. \A i : Consumer(i)[1] = "consumer" /\ Consumer(i)[2] = i
  BY DEF Consumer
<1>3. Orchestrator[1] = "orchestrator"
  BY DEF Orchestrator
<1>4. "compute" # "consumer" /\ "compute" # "orchestrator" /\ "consumer" # "orchestrator"
  OBVIOUS
<1> QED
  BY <1>1, <1>2, <1>3, <1>4

\* No two nodes have one name, and none has a consumer's.
LEMMA NodeNamesDiffer ==
  /\ \A i, j \in Nat : i > 0 /\ j > 0 /\ NodeName(i) = NodeName(j) => i = j
  /\ \A i \in Nat : \A j : NodeName(i) # Consumer(j) /\ NodeName(i)[1] \in {"orchestrator", "compute"}
<1>1. ASSUME NEW i \in Nat, NEW j \in Nat, i > 0, j > 0, NodeName(i) = NodeName(j) PROVE i = j
  <2>1. CASE i = 1 \/ j = 1
    BY <1>1, <2>1, NamesDiffer DEF NodeName
  <2>2. CASE i # 1 /\ j # 1
    <3>1. i - 2 = j - 2
      BY <1>1, <2>2, NamesDiffer DEF NodeName
    <3> QED
      BY <3>1
  <2> QED
    BY <2>1, <2>2
<1>2. ASSUME NEW i \in Nat, NEW j
      PROVE  NodeName(i) # Consumer(j) /\ NodeName(i)[1] \in {"orchestrator", "compute"}
  BY NamesDiffer DEF NodeName
<1> QED
  BY <1>1, <1>2

\* The node section lists all nodes but the consumers and the orchestrator.
LEMMA NodeListLength ==
  ASSUME NEW s \in Settings
  PROVE  /\ Len(NodeList(s)) = Computes(s) - 1 /\ Computes(s) \in Nat /\ Computes(s) > 3
         /\ s.t1 + s.t2 + s.t3 + 1 = Computes(s) - 1
<1>1. s.t1 = 1 /\ s.t2 \in Nat /\ s.t3 \in Nat /\ s.t3 > 0
  BY SettingFacts
<1>2. s.t1 + s.t2 + s.t3 + 1 \in Nat /\ s.t1 + s.t2 + s.t3 + 1 = Computes(s) - 1
  BY <1>1 DEF Computes
<1>3. Len(NodeList(s)) = s.t1 + s.t2 + s.t3 + 1
  BY <1>2 DEF NodeList
<1> QED
  BY <1>1, <1>2, <1>3 DEF Computes

\* The lines of the router section.
LEMMA RouterLines ==
  ASSUME NEW s \in Settings
  PROVE  LET R == RouterSection(s)
         IN  /\ DOMAIN R = 1 .. (Computes(s) + s.consumers)
             /\ \A i \in 1 .. Computes(s) : R[i].name = NodeName(i) /\ R[i].tier = NodeTier(s, i)
             /\ \A j \in 1 .. s.consumers : R[Computes(s) + j].name = Consumer(j - 1)
<1> DEFINE n == Len(NodeList(s))
           c == s.consumers
           F == <<[name |-> Orchestrator, tier |-> "orchestrator"]>>
           G == [i \in 1 .. n |-> [name |-> ComputeNode(i - 1), tier |-> Tier(s, i - 1)]]
           H == [j \in 1 .. c |-> [name |-> Consumer(j - 1), tier |-> "consumer"]]
<1>1. n = Computes(s) - 1 /\ n \in Nat /\ c \in Nat /\ Computes(s) \in Nat
  BY NodeListLength, SettingFacts
<1>2. RouterSection(s) = (F \o G) \o H
  BY DEF RouterSection
<1>3. IsSeq(F) /\ Len(F) = 1 /\ F[1].name = Orchestrator /\ F[1].tier = "orchestrator"
  BY DEF IsSeq
<1>4. \A i \in 1 .. n : G[i].name = ComputeNode(i - 1) /\ G[i].tier = Tier(s, i - 1)
  OBVIOUS
<1>5. \A j \in 1 .. c : H[j].name = Consumer(j - 1)
  OBVIOUS
<1>6. G = [i \in 1 .. n |-> G[i]] /\ H = [j \in 1 .. c |-> H[j]]
  OBVIOUS
<1> HIDE DEF n, c, F, G, H
<1>7. IsSeq(G) /\ Len(G) = n /\ IsSeq(H) /\ Len(H) = c
  BY <1>1, <1>6, FunctionIsSeq
<1> DEFINE K == F \o G
           R == K \o H
<1>8. IsSeq(K) /\ Len(K) = 1 + n /\ K[1] = F[1] /\ \A i \in 1 .. n : K[1 + i] = G[i]
  <2>1. Joined(F, G, K)
    BY <1>3, <1>7, Concat
  <2> QED
    BY <2>1, <1>1, <1>3, <1>7 DEF Joined
<1> HIDE DEF K
<1>9. /\ DOMAIN R = 1 .. (1 + n + c)
      /\ \A i \in 1 .. (1 + n) : R[i] = K[i]
      /\ \A j \in 1 .. c : R[1 + n + j] = H[j]
  <2>1. Joined(K, H, R)
    BY <1>7, <1>8, Concat
  <2> HIDE DEF R
  <2> QED
    BY <2>1, <1>1, <1>7, <1>8 DEF Joined
<1>10. RouterSection(s) = R
  BY <1>2 DEF K
<1> HIDE DEF R
<1>11. ASSUME NEW i \in 1 .. Computes(s)
       PROVE  K[i].name = NodeName(i) /\ K[i].tier = NodeTier(s, i)
  <2>1. CASE i = 1
    BY <2>1, <1>3, <1>8 DEF NodeName, NodeTier
  <2>2. CASE i # 1
    <3>1. i - 1 \in 1 .. n /\ 1 + (i - 1) = i /\ (i - 1) - 1 = i - 2
      BY <2>2, <1>1
    <3>2. K[i] = G[i - 1]
      BY <3>1, <1>8
    <3>3. G[i - 1].name = ComputeNode(i - 2) /\ G[i - 1].tier = Tier(s, i - 2)
      BY <3>1, <1>4
    <3> QED
      BY <3>2, <3>3, <2>2 DEF NodeName, NodeTier
  <2> QED
    BY <2>1, <2>2
<1>12. 1 + n = Computes(s)
  BY <1>1
<1> QED
  BY <1>5, <1>9, <1>10, <1>11, <1>12 DEF c

\* The containers as they are read from these lines.
LEMMA RoutersRead ==
  ASSUME NEW s \in Settings
  PROVE  LET R == RouterSection(s)
             lines == ComputeLines(R)
         IN  /\ DOMAIN lines = 1 .. Computes(s)
             /\ \A i \in 1 .. Computes(s) :
                  lines[i].name = NodeName(i) /\ lines[i].tier = NodeTier(s, i)
             /\ NamesOf(ConsumerLines(R)) = ConsumerNames(s)
<1> DEFINE R == RouterSection(s)
           n == Computes(s)
           c == s.consumers
           A1 == {i \in DOMAIN R : R[i].name[1] \in {"orchestrator", "compute"}}
           A2 == {i \in DOMAIN R : R[i].name[1] = "consumer"}
<1>1. n \in Nat /\ c \in Nat
  BY NodeListLength, SettingFacts
<1>2. /\ DOMAIN R = 1 .. (n + c)
      /\ \A i \in 1 .. n : R[i].name = NodeName(i) /\ R[i].tier = NodeTier(s, i)
      /\ \A j \in 1 .. c : R[n + j].name = Consumer(j - 1)
  BY RouterLines
<1> HIDE DEF R, n, c
<1>3. \A i \in 1 .. n : R[i].name = NodeName(i) /\ R[i].tier = NodeTier(s, i)
  BY <1>2
<1>4. \A j \in 1 .. c : R[n + j].name = Consumer(j - 1)
  BY <1>2
<1>5. \A i \in 1 .. n : R[i].name[1] \in {"orchestrator", "compute"}
  BY <1>1, <1>3, NodeNamesDiffer
<1>6. \A i \in (n + 1) .. (n + c) : R[i].name[1] = "consumer"
  <2> TAKE i \in (n + 1) .. (n + c)
  <2>1. i - n \in 1 .. c /\ n + (i - n) = i
    BY <1>1
  <2> QED
    BY <2>1, <1>4, NamesDiffer
<1>7. A1 = (0 + 1) .. (0 + n) /\ A2 = (n + 1) .. (n + c)
  <2>1. \A i \in 1 .. (n + c) : i \in 1 .. n \/ i \in (n + 1) .. (n + c)
    BY <1>1
  <2>2. 1 .. n \subseteq 1 .. (n + c) /\ (n + 1) .. (n + c) \subseteq 1 .. (n + c)
    BY <1>1
  <2> QED
    BY <2>1, <2>2, <1>1, <1>2, <1>5, <1>6
<1>8. ComputeLines(R) = [k \in 1 .. n |-> R[0 + k]]
  <2>1. ComputeLines(R) = Chosen(R, A1)
    BY DEF ComputeLines
  <2> HIDE DEF A1
  <2>2. Chosen(R, (0 + 1) .. (0 + n)) = [k \in 1 .. n |-> R[0 + k]]
    BY <1>1, ChosenRow
  <2> QED
    BY <2>1, <2>2, <1>7
<1>9. ConsumerLines(R) = [k \in 1 .. c |-> R[n + k]]
  <2>1. ConsumerLines(R) = Chosen(R, A2)
    BY DEF ConsumerLines
  <2> HIDE DEF A2
  <2> QED
    BY <2>1, <1>1, <1>7, ChosenRow
<1>10. DOMAIN ComputeLines(R) = 1 .. n /\ \A k \in 1 .. n : ComputeLines(R)[k] = R[k]
  BY <1>1, <1>8
<1>11. NamesOf(ConsumerLines(R)) = ConsumerNames(s)
  <2>1. NamesOf(ConsumerLines(R)) = [k \in 1 .. c |-> R[n + k].name]
    BY <1>9 DEF NamesOf
  <2> QED
    BY <2>1, <1>4 DEF ConsumerNames, c
<1> QED
  BY <1>3, <1>10, <1>11 DEF R, n

\* Links before those of the consumers.
Inner(s) == Computes(s) - 1 + 3 * s.t2

Between(s, link) ==
  \E a, b \in 1 .. Computes(s) : a < b /\ link = <<NodeName(a), NodeName(b)>>

\* The i-th node that is created is the orchestrator or a compute node, by its
\* place (CreateIncComputeNode).
LEMMA NodeOf ==
  /\ \A i \in Nat : ComputeNode(i) = NodeName(i + 2)
  /\ Orchestrator = NodeName(1)
<1>1. ASSUME NEW i \in Nat PROVE ComputeNode(i) = NodeName(i + 2)
  <2>1. i + 2 # 1 /\ (i + 2) - 2 = i
    OBVIOUS
  <2> QED
    BY <2>1 DEF NodeName
<1> QED
  BY <1>1 DEF NodeName

\* The links of the l-th node of tier 2: from the gateway, and to two of tier 3.
TierTwoLinks(s, l) ==
  {<<NodeName(3), NodeName(l + 3)>>, <<NodeName(l + 3), NodeName(s.t2 + 2 * l + 2)>>,
   <<NodeName(l + 3), NodeName(s.t2 + 2 * l + 3)>>}

HasTierTwo(s, L, m) ==
  \A l \in 1 .. s.t2 : \A link \in TierTwoLinks(s, l) : \E i \in 1 .. m : L[i] = link

\* The links between the tiers lead from a node to a later one.
LEMMA TierPlaces ==
  ASSUME NEW s \in Settings
  PROVE  LET T == TierLinks(s)
         IN  /\ IsSeq(T) /\ Len(T) = 1 + 3 * s.t2 /\ T[1] = <<ComputeNode(0), ComputeNode(1)>>
             /\ \A i \in 1 .. 1 + 3 * s.t2 : Between(s, T[i])
             /\ HasTierTwo(s, T, 1 + 3 * s.t2)
<1> DEFINE t2 == s.t2
           t3 == s.t3
           F == <<<<ComputeNode(0), ComputeNode(1)>>>>
           G == [l \in 1 .. t2 |-> <<ComputeNode(1), ComputeNode(l + 1)>>]
           H == [k \in 1 .. 2 * t2 |-> <<ComputeNode((k + 1) \div 2 + 1), ComputeNode(t2 + 1 + k)>>]
           n == Computes(s)
<1>1. t2 \in Nat /\ t3 \in Nat /\ t3 >= 2 * t2 /\ t3 > 0 /\ n = t2 + t3 + 3 /\ 2 * t2 \in Nat
  BY SettingFacts DEF Computes
<1>2. TierLinks(s) = (F \o G) \o H
  BY DEF TierLinks
<1>3. IsSeq(F) /\ Len(F) = 1 /\ F[1] = <<ComputeNode(0), ComputeNode(1)>>
  BY DEF IsSeq
<1>4. \A l \in 1 .. t2 : G[l] = <<ComputeNode(1), ComputeNode(l + 1)>>
  OBVIOUS
<1>5. \A k \in 1 .. 2 * t2 : H[k] = <<ComputeNode((k + 1) \div 2 + 1), ComputeNode(t2 + 1 + k)>>
  OBVIOUS
<1>6. G = [l \in 1 .. t2 |-> G[l]] /\ H = [k \in 1 .. 2 * t2 |-> H[k]]
  OBVIOUS
<1> HIDE DEF t2, t3, F, G, H, n
<1>7. IsSeq(G) /\ Len(G) = t2 /\ IsSeq(H) /\ Len(H) = 2 * t2
  BY <1>1, <1>6, FunctionIsSeq
<1>8. Between(s, F[1])
  <2>1. ComputeNode(0) = NodeName(2) /\ ComputeNode(1) = NodeName(3)
    BY NodeOf
  <2>2. 2 \in 1 .. n /\ 3 \in 1 .. n /\ 2 < 3
    BY <1>1
  <2> QED
    BY <1>3, <2>1, <2>2 DEF Between, n
<1>9. ASSUME NEW l \in 1 .. t2 PROVE Between(s, G[l])
  <2>1. ComputeNode(1) = NodeName(3) /\ ComputeNode(l + 1) = NodeName(l + 3)
    <3>1. l + 1 \in Nat /\ (l + 1) + 2 = l + 3
      BY <1>1
    <3> QED
      BY <3>1, NodeOf
  <2>2. 3 \in 1 .. n /\ l + 3 \in 1 .. n /\ 3 < l + 3
    BY <1>1
  <2> QED
    BY <1>4, <2>1, <2>2 DEF Between, n
<1>10. ASSUME NEW k \in 1 .. 2 * t2 PROVE Between(s, H[k])
  <2> DEFINE h == (k + 1) \div 2
  <2>1. h \in Nat /\ 2 * h <= k + 1 /\ k + 1 < 2 * h + 2
    BY <1>1, DivBounds
  <2>2. H[k] = <<ComputeNode(h + 1), ComputeNode(t2 + 1 + k)>>
    BY <1>5
  <2> HIDE DEF h
  <2>3. h + 1 \in Nat /\ (h + 1) + 2 = h + 3 /\ t2 + 1 + k \in Nat /\ (t2 + 1 + k) + 2 = t2 + 3 + k
    BY <1>1, <2>1
  <2>4. h + 3 \in 1 .. n /\ t2 + 3 + k \in 1 .. n /\ h + 3 < t2 + 3 + k
    BY <1>1, <2>1
  <2> QED
    BY <2>2, <2>3, <2>4, NodeOf DEF Between, n
<1> DEFINE K == F \o G
           T == K \o H
<1>11. IsSeq(K) /\ Len(K) = 1 + t2 /\ K[1] = F[1] /\ \A l \in 1 .. t2 : K[1 + l] = G[l]
  <2>1. Joined(F, G, K)
    BY <1>3, <1>7, Concat
  <2> HIDE DEF K
  <2> QED
    BY <2>1, <1>1, <1>3, <1>7 DEF Joined
<1>12. \A i \in 1 .. 1 + t2 : Between(s, K[i])
  <2> TAKE i \in 1 .. 1 + t2
  <2>1. CASE i = 1
    BY <2>1, <1>8, <1>11
  <2>2. CASE i # 1
    <3>1. i - 1 \in 1 .. t2 /\ 1 + (i - 1) = i
      BY <2>2, <1>1
    <3> QED
      BY <3>1, <1>9, <1>11
  <2> QED
    BY <2>1, <2>2
<1> HIDE DEF K
<1>13. /\ IsSeq(T) /\ Len(T) = (1 + t2) + 2 * t2 /\ \A i \in 1 .. 1 + t2 : T[i] = K[i]
       /\ \A k \in 1 .. 2 * t2 : T[1 + t2 + k] = H[k]
  <2>1. Joined(K, H, T)
    BY <1>7, <1>11, Concat
  <2> HIDE DEF T
  <2> QED
    BY <2>1, <1>1, <1>7, <1>11 DEF Joined
<1>14. TierLinks(s) = T
  BY <1>2 DEF K
<1> HIDE DEF T
<1>15. \A i \in 1 .. 1 + 3 * t2 : Between(s, T[i])
  <2> TAKE i \in 1 .. 1 + 3 * t2
  <2>1. CASE i <= 1 + t2
    <3>1. i \in 1 .. 1 + t2
      BY <2>1, <1>1
    <3> QED
      BY <3>1, <1>12, <1>13
  <2>2. CASE i > 1 + t2
    <3>1. i - (1 + t2) \in 1 .. 2 * t2 /\ 1 + t2 + (i - (1 + t2)) = i
      BY <2>2, <1>1
    <3> QED
      BY <3>1, <1>10, <1>13
  <2> QED
    BY <2>1, <2>2, <1>1
<1>16. (1 + t2) + 2 * t2 = 1 + 3 * t2 /\ 1 \in 1 .. 1 + t2
  BY <1>1
<1>17. ASSUME NEW l \in 1 .. t2, NEW link \in TierTwoLinks(s, l)
       PROVE  \E i \in 1 .. 1 + 3 * t2 : T[i] = link
  <2>1. CASE link = <<NodeName(3), NodeName(l + 3)>>
    <3>1. l + 1 \in Nat /\ (l + 1) + 2 = l + 3 /\ 1 + l \in 1 .. 1 + t2 /\ 1 + l \in 1 .. 1 + 3 * t2
      BY <1>1
    <3>2. ComputeNode(l + 1) = NodeName(l + 3) /\ ComputeNode(1) = NodeName(3)
      BY <3>1, NodeOf
    <3>3. T[1 + l] = G[l]
      BY <3>1, <1>11, <1>13
    <3> QED
      BY <1>4, <2>1, <3>1, <3>2, <3>3
  <2>2. ASSUME NEW k \in {2 * l - 1, 2 * l}, link = <<NodeName(l + 3), NodeName(t2 + k + 3)>>
        PROVE  \E i \in 1 .. 1 + 3 * t2 : T[i] = link
    <3> DEFINE h == (k + 1) \div 2
    <3>1. k \in 1 .. 2 * t2 /\ k + 1 \in Nat /\ (k + 1 = 2 * l \/ k + 1 = 2 * l + 1)
      BY <1>1, <2>2
    <3>2. h \in Nat /\ 2 * h <= k + 1 /\ k + 1 < 2 * h + 2
      BY <1>1, <3>1, DivBounds
    <3>3. H[k] = <<ComputeNode(h + 1), ComputeNode(t2 + 1 + k)>>
      BY <1>5, <3>1
    <3> HIDE DEF h
    <3>4. h = l
      BY <1>1, <3>1, <3>2
    <3>5. l + 1 \in Nat /\ (l + 1) + 2 = l + 3 /\ t2 + 1 + k \in Nat /\ (t2 + 1 + k) + 2 = t2 + k + 3
          /\ 1 + t2 + k \in 1 .. 1 + 3 * t2
      BY <1>1, <3>1
    <3>6. ComputeNode(l + 1) = NodeName(l + 3) /\ ComputeNode(t2 + 1 + k) = NodeName(t2 + k + 3)
      BY <3>5, NodeOf
    <3>7. T[1 + t2 + k] = H[k]
      BY <3>1, <1>13
    <3> QED
      BY <2>2, <3>3, <3>4, <3>5, <3>6, <3>7
  <2>3. t2 + (2 * l - 1) + 3 = t2 + 2 * l + 2 /\ t2 + 2 * l + 3 = t2 + (2 * l) + 3
    BY <1>1
  <2>4. \/ link = <<NodeName(3), NodeName(l + 3)>>
        \/ link = <<NodeName(l + 3), NodeName(t2 + (2 * l - 1) + 3)>>
        \/ link = <<NodeName(l + 3), NodeName(t2 + (2 * l) + 3)>>
    BY <1>17, <2>3 DEF TierTwoLinks, t2
  <2> QED
    BY <2>1, <2>2, <2>4
<1>18. HasTierTwo(s, T, 1 + 3 * t2)
  BY <1>17 DEF HasTierTwo, t2
<1> QED
  BY <1>3, <1>11, <1>13, <1>14, <1>15, <1>16, <1>18 DEF t2

\* The links of a data set, by their places.
LEMMA LinkPlaces ==
  ASSUME NEW s \in Settings
  PROVE  LET L == LinkSection(s)
             m == Inner(s)
         IN  /\ m \in Nat /\ IsSeq(L) /\ DOMAIN L = 1 .. m + s.consumers /\ Len(L) = m + s.consumers
             /\ \A i \in 1 .. m : Between(s, L[i])
             /\ \A k \in 1 .. s.consumers : L[m + k] = <<Above(s, k - 1), Consumer(k - 1)>>
             /\ \A i \in 3 .. Computes(s) : \E k \in 1 .. m : L[k] = <<NodeName(1), NodeName(i)>>
             /\ \E k \in 1 .. m : L[k] = <<NodeName(2), NodeName(3)>>
             /\ HasTierTwo(s, L, m)
<1> DEFINE n == Computes(s)
           c == s.consumers
           O == OrchestratorLinks(s)
           T == TierLinks(s)
           C == ConsumerLinks(s)
           t == 1 + 3 * s.t2
<1>1. n \in Nat /\ n > 3 /\ c \in Nat /\ t \in Nat /\ t > 0 /\ Inner(s) = (n - 2) + t /\ n - 2 \in Nat
  <2>1. n \in Nat /\ n > 3 /\ c \in Nat /\ s.t2 \in Nat
    BY NodeListLength, SettingFacts
  <2>2. Inner(s) = n - 1 + 3 * s.t2
    BY DEF Inner
  <2> HIDE DEF n, c
  <2> QED
    BY <2>1, <2>2
<1>2. LinkSection(s) = (O \o T) \o C
  BY DEF LinkSection
<1>3. O = [i \in 1 .. n - 2 |-> <<Orchestrator, ComputeNode(i)>>]
  <2>1. Len(NodeList(s)) - 1 = n - 2
    BY NodeListLength
  <2> QED
    BY <2>1 DEF OrchestratorLinks
<1>4. C = [k \in 1 .. c |-> <<Above(s, k - 1), Consumer(k - 1)>>]
  BY DEF ConsumerLinks
<1>5. IsSeq(T) /\ Len(T) = t /\ T[1] = <<ComputeNode(0), ComputeNode(1)>>
      /\ \A i \in 1 .. t : Between(s, T[i])
  BY TierPlaces
<1> HIDE DEF O, T, C, t, n, c
<1>6. O = [i \in 1 .. n - 2 |-> O[i]] /\ \A i \in 1 .. n - 2 : O[i] = <<Orchestrator, ComputeNode(i)>>
  BY <1>3
<1>7. C = [k \in 1 .. c |-> C[k]] /\ \A k \in 1 .. c : C[k] = <<Above(s, k - 1), Consumer(k - 1)>>
  BY <1>4
<1>8. IsSeq(O) /\ Len(O) = n - 2 /\ IsSeq(C) /\ Len(C) = c
  BY <1>1, <1>6, <1>7, FunctionIsSeq
<1>9. \A i \in 1 .. n - 2 : O[i] = <<NodeName(1), NodeName(i + 2)>>
  BY <1>1, <1>6, NodeOf
<1> DEFINE K == O \o T
           m == (n - 2) + t
           L == K \o C
<1>10. /\ IsSeq(K) /\ Len(K) = m /\ \A i \in 1 .. n - 2 : K[i] = O[i]
       /\ \A i \in 1 .. t : K[(n - 2) + i] = T[i]
  <2>1. Joined(O, T, K)
    BY <1>5, <1>8, Concat
  <2> HIDE DEF K
  <2> QED
    BY <2>1, <1>1, <1>5, <1>8 DEF Joined
<1>11. m \in Nat /\ m = Inner(s)
  BY <1>1
<1> HIDE DEF K
<1>12. \A i \in 1 .. m : Between(s, K[i])
  <2> TAKE i \in 1 .. m
  <2>1. CASE i <= n - 2
    <3>1. i \in 1 .. n - 2 /\ i + 2 \in 1 .. n /\ 1 \in 1 .. n /\ 1 < i + 2
      BY <2>1, <1>1
    <3>2. K[i] = <<NodeName(1), NodeName(i + 2)>>
      BY <3>1, <1>9, <1>10
    <3> QED
      BY <3>1, <3>2 DEF Between, n
  <2>2. CASE i > n - 2
    <3>1. i - (n - 2) \in 1 .. t /\ (n - 2) + (i - (n - 2)) = i
      BY <2>2, <1>1
    <3> QED
      BY <3>1, <1>5, <1>10
  <2> QED
    BY <2>1, <2>2, <1>1
<1>13. \A i \in 3 .. n : \E k \in 1 .. m : K[k] = <<NodeName(1), NodeName(i)>>
  <2> TAKE i \in 3 .. n
  <2>1. i - 2 \in 1 .. n - 2 /\ i - 2 \in 1 .. m /\ (i - 2) + 2 = i
    BY <1>1
  <2>2. K[i - 2] = <<NodeName(1), NodeName(i)>>
    BY <2>1, <1>9, <1>10
  <2> QED
    BY <2>1, <2>2
<1>14. \E k \in 1 .. m : K[k] = <<NodeName(2), NodeName(3)>>
  <2>1. (n - 2) + 1 \in 1 .. m /\ 1 \in 1 .. t
    BY <1>1
  <2>2. ComputeNode(0) = NodeName(2) /\ ComputeNode(1) = NodeName(3)
    BY NodeOf
  <2> QED
    BY <2>1, <2>2, <1>5, <1>10
<1>15. /\ IsSeq(L) /\ DOMAIN L = 1 .. m + c /\ Len(L) = m + c /\ \A i \in 1 .. m : L[i] = K[i]
       /\ \A k \in 1 .. c : L[m + k] = C[k]
  <2>1. Joined(K, C, L)
    BY <1>8, <1>10, Concat
  <2> HIDE DEF L, m
  <2> QED
    BY <2>1, <1>1, <1>8, <1>10, <1>11 DEF Joined
<1>16. LinkSection(s) = L
  BY <1>2 DEF K
<1> HIDE DEF L, m
<1>17. \A k \in 1 .. c : L[m + k] = <<Above(s, k - 1), Consumer(k - 1)>>
  BY <1>7, <1>15
<1>18. HasTierTwo(s, L, m)
  <2>1. HasTierTwo(s, T, t)
    BY TierPlaces DEF T, t
  <2>2. \A i \in 1 .. t : (n - 2) + i \in 1 .. m /\ L[(n - 2) + i] = T[i]
    BY <1>1, <1>10, <1>11, <1>15
  <2>3. ASSUME NEW l \in 1 .. s.t2, NEW link \in TierTwoLinks(s, l)
        PROVE  \E k \in 1 .. m : L[k] = link
    <3>1. PICK i \in 1 .. t : T[i] = link
      BY <2>1 DEF HasTierTwo
    <3> QED
      BY <2>2, <3>1
  <2> QED
    BY <2>3 DEF HasTierTwo
<1> QED
  BY <1>11, <1>12, <1>13, <1>14, <1>15, <1>16, <1>17, <1>18 DEF n, c

\* The first k lines, and one more.
LEMMA OneMore ==
  ASSUME NEW L, IsSeq(L), NEW k \in 1 .. Len(L)
  PROVE  /\ [j \in 1 .. k - 1 |-> L[j]] \in Seq({L[w] : w \in DOMAIN L})
         /\ DOMAIN [j \in 1 .. k - 1 |-> L[j]] = 1 .. k - 1
         /\ Append([j \in 1 .. k - 1 |-> L[j]], L[k]) = [j \in 1 .. k |-> L[j]]
<1> DEFINE S == {L[w] : w \in DOMAIN L}
           f == [j \in 1 .. k - 1 |-> L[j]]
           h == Append(f, L[k])
<1>1. L \in Seq(S) /\ Len(L) \in Nat /\ DOMAIN L = 1 .. Len(L)
  BY DEF IsSeq
<1>2. \A j \in 1 .. k : L[j] \in S
  BY <1>1
<1> HIDE DEF S
<1>3. f \in Seq(S) /\ Len(f) = k - 1 /\ \A j \in 1 .. k - 1 : f[j] = L[j]
  BY <1>1, <1>2
<1>4. h \in Seq(S) /\ Len(h) = k /\ h[k] = L[k] /\ \A j \in 1 .. k - 1 : h[j] = f[j]
  <2> HIDE DEF f
  <2>1. L[k] \in S
    BY <1>2
  <2> QED
    BY <1>1, <1>3, <2>1
<1>5. DOMAIN h = 1 .. k
  BY <1>1, <1>4
<1>6. \A j \in 1 .. k : h[j] = L[j]
  <2> HIDE DEF f, h
  <2> QED
    BY <1>1, <1>3, <1>4
<1>7. h = [j \in 1 .. k |-> h[j]]
  <2> HIDE DEF f, h
  <2> QED
    BY <1>4, <1>5
<1> QED
  BY <1>3, <1>6, <1>7 DEF S

\* No line is a link the other way round: inner links lead to a node further on
\* in the container, the others to a consumer.
LEMMA Down ==
  ASSUME NEW s \in Settings, NEW i \in DOMAIN LinkSection(s), NEW k \in DOMAIN LinkSection(s)
  PROVE  LinkSection(s)[i] # <<LinkSection(s)[k][2], LinkSection(s)[k][1]>>
<1> DEFINE L == LinkSection(s)
           m == Inner(s)
           c == s.consumers
           n == Computes(s)
<1>1. /\ m \in Nat /\ c \in Nat /\ n \in Nat
      /\ DOMAIN L = 1 .. m + c
      /\ \A x \in 1 .. m : Between(s, L[x])
      /\ \A x \in 1 .. c : L[m + x] = <<Above(s, x - 1), Consumer(x - 1)>>
  BY LinkPlaces, SettingFacts, NodeListLength
<1> HIDE DEF L, m, c, n
<1>2. ASSUME NEW x \in 1 .. m + c, x > m PROVE \E y : L[x] = <<L[x][1], Consumer(y)>>
  <2>1. x - m \in 1 .. c /\ m + (x - m) = x
    BY <1>1, <1>2
  <2>2. L[m + (x - m)] = <<Above(s, (x - m) - 1), Consumer((x - m) - 1)>>
    BY <2>1, <1>1
  <2>3. L[x] = <<Above(s, (x - m) - 1), Consumer((x - m) - 1)>>
    BY <2>1, <2>2
  <2>4. L[x][1] = Above(s, (x - m) - 1)
    BY <2>3
  <2>5. L[x] = <<L[x][1], Consumer((x - m) - 1)>>
    BY <2>3, <2>4
  <2> QED
    BY <2>5
<1>3. ASSUME NEW x \in 1 .. m + c
      PROVE  \E a \in Nat : a > 0 /\ L[x][1] = NodeName(a)
  <2>1. CASE x <= m
    <3>1. Between(s, L[x])
      BY <2>1, <1>1
    <3>2. PICK a, b \in 1 .. n : L[x] = <<NodeName(a), NodeName(b)>>
      BY <3>1 DEF Between, n
    <3> QED
      BY <1>1, <3>2
  <2>2. CASE x > m
    <3>1. x - m \in 1 .. c /\ m + (x - m) = x /\ (x - m) - 1 \in 0 .. c - 1
      BY <1>1, <2>2
    <3>2. L[x][1] = Above(s, (x - m) - 1)
      <4>1. L[m + (x - m)] = <<Above(s, (x - m) - 1), Consumer((x - m) - 1)>>
        BY <3>1, <1>1
      <4> QED
        BY <3>1, <4>1
    <3>3. /\ EdgeOf(s, (x - m) - 1) \in 0 .. s.t3 - 1
          /\ Above(s, (x - m) - 1) = ComputeNode(s.t2 + 2 + EdgeOf(s, (x - m) - 1))
      BY <3>1, EdgeBounds DEF c
    <3>4. s.t2 \in Nat /\ s.t3 \in Nat
      BY SettingFacts
    <3>5. s.t2 + 2 + EdgeOf(s, (x - m) - 1) \in Nat
      BY <3>3, <3>4
    <3>6. L[x][1] = NodeName((s.t2 + 2 + EdgeOf(s, (x - m) - 1)) + 2)
      BY <3>2, <3>3, <3>5, NodeOf
    <3> DEFINE y == s.t2 + 2 + EdgeOf(s, (x - m) - 1)
    <3>7. y + 2 \in Nat /\ y + 2 > 0
      BY <3>5
    <3> HIDE DEF y
    <3> QED
      BY <3>6, <3>7 DEF y
  <2> QED
    BY <2>1, <2>2, <1>1
<1>4. SUFFICES ASSUME L[i] = <<L[k][2], L[k][1]>> PROVE FALSE
  BY DEF L
<1>5. i \in 1 .. m + c /\ k \in 1 .. m + c
  BY <1>1 DEF L
<1>6. PICK a \in Nat : a > 0 /\ L[i][1] = NodeName(a)
  BY <1>3, <1>5
<1>7. PICK b \in Nat : b > 0 /\ L[k][1] = NodeName(b)
  BY <1>3, <1>5
<1>8. L[k][2] = NodeName(a) /\ L[i][2] = NodeName(b)
  BY <1>4, <1>6, <1>7
<1>9. i <= m /\ k <= m
  <2>1. ASSUME i > m PROVE FALSE
    BY <2>1, <1>2, <1>5, <1>7, <1>8, NodeNamesDiffer
  <2>2. ASSUME k > m PROVE FALSE
    BY <2>2, <1>2, <1>5, <1>6, <1>8, NodeNamesDiffer
  <2> QED
    BY <2>1, <2>2, <1>1, <1>5
<1>10. a < b
  <2>1. Between(s, L[i])
    BY <1>1, <1>5, <1>9
  <2>2. PICK x, y \in 1 .. n : x < y /\ L[i] = <<NodeName(x), NodeName(y)>>
    BY <2>1 DEF Between, n
  <2>3. x = a /\ y = b
    BY <2>2, <1>1, <1>6, <1>7, <1>8, NodeNamesDiffer
  <2> QED
    BY <2>2, <2>3
<1>11. b < a
  <2>1. Between(s, L[k])
    BY <1>1, <1>5, <1>9
  <2>2. PICK x, y \in 1 .. n : x < y /\ L[k] = <<NodeName(x), NodeName(y)>>
    BY <2>1 DEF Between, n
  <2>3. x = b /\ y = a
    BY <2>2, <1>1, <1>6, <1>7, <1>8, NodeNamesDiffer
  <2> QED
    BY <2>2, <2>3
<1> QED
  BY <1>10, <1>11

\* So reading the links skips none.
LEMMA AllLinksRead ==
  ASSUME NEW s \in Settings
  PROVE  LinksRead(LinkSection(s)) = LinkSection(s)
<1> DEFINE L == LinkSection(s)
           N == Len(L)
           Upto(k) == [j \in 1 .. k |-> L[j]]
           g == [k \in 0 .. N |-> Upto(k)]
           after[k \in 0 .. N] == IF k = 0 THEN <<>> ELSE AddLink(after[k - 1], L[k])
<1>1. IsSeq(L) /\ N \in Nat /\ DOMAIN L = 1 .. N
  <2>1. IsSeq(L) /\ DOMAIN L = 1 .. N /\ N = Inner(s) + s.consumers
        /\ Inner(s) \in Nat /\ s.consumers \in Nat
    BY LinkPlaces, SettingFacts
  <2> QED
    BY <2>1
<1>2. ASSUME NEW k \in 1 .. N PROVE AddLink(Upto(k - 1), L[k]) = Upto(k)
  <2>1. DOMAIN Upto(k - 1) = 1 .. k - 1 /\ Append(Upto(k - 1), L[k]) = Upto(k)
    BY <1>1, OneMore
  <2>2. ASSUME NEW i \in 1 .. k - 1 PROVE Upto(k - 1)[i] # <<L[k][2], L[k][1]>>
    <3>1. i \in DOMAIN L /\ k \in DOMAIN L /\ Upto(k - 1)[i] = L[i]
      BY <1>1
    <3> QED
      BY <3>1, Down
  <2> HIDE DEF Upto
  <2> QED
    BY <2>1, <2>2 DEF AddLink
<1>3. g = [k \in 0 .. N |-> IF k = 0 THEN <<>> ELSE AddLink(g[k - 1], L[k])]
  <2>1. Upto(0) = <<>>
    OBVIOUS
  <2>2. \A k \in 0 .. N : k # 0 => k \in 1 .. N /\ k - 1 \in 0 .. N /\ g[k - 1] = Upto(k - 1)
    BY <1>1
  <2>3. \A k \in 0 .. N : Upto(k) = IF k = 0 THEN <<>> ELSE AddLink(g[k - 1], L[k])
    <3> HIDE DEF g, Upto
    <3> QED
      BY <2>1, <2>2, <1>2
  <2>4. g = [k \in 0 .. N |-> g[k]] /\ \A k \in 0 .. N : g[k] = Upto(k)
    OBVIOUS
  <2> HIDE DEF g, Upto
  <2> QED
    BY <2>3, <2>4
<1> HIDE DEF g
<1>4. after = [k \in 0 .. N |-> IF k = 0 THEN <<>> ELSE AddLink(after[k - 1], L[k])]
  BY <1>3
<1>5. LinksRead(L) = after[N]
  BY DEF LinksRead, AfterLines
<1> HIDE DEF after, L, N
<1>6. 0 .. N \subseteq {k \in 0 .. N : after[k] = Upto(k)}
  <2> DEFINE S == {k \in 0 .. N : after[k] = Upto(k)}
  <2>1. 0 \in S
    BY <1>1, <1>4
  <2>2. ASSUME NEW k \in 1 .. N, k - 1 \in S PROVE k \in S
    <3>1. k \in 0 .. N /\ k # 0 /\ after[k] = AddLink(after[k - 1], L[k])
      BY <1>1, <1>4
    <3> QED
      BY <2>2, <3>1, <1>2
  <2> HIDE DEF S
  <2>3. 0 .. N \subseteq S
    BY <1>1, <2>1, <2>2, LineInduction
  <2> QED
    BY <2>3 DEF S
<1>7. after[N] = Upto(N)
  BY <1>1, <1>6
<1>8. L = Upto(N)
  BY <1>1 DEF IsSeq
<1> QED
  BY <1>5, <1>7, <1>8 DEF L

\* Which numbers have a given quotient.
LEMMA DivIs ==
  ASSUME NEW j \in Nat, NEW q \in Nat, q > 0, NEW e \in Nat
  PROVE  j \div q = e <=> (q * e <= j /\ j < q * e + q)
<1> DEFINE d == j \div q
<1>1. d \in Nat /\ q * d <= j /\ j < q * d + q
  BY DivBounds
<1> HIDE DEF d
<1>2. ASSUME NEW x \in Nat, NEW y \in Nat, x < y, q * y <= j, j < q * x + q PROVE FALSE
  <2>1. x + 1 <= y
    BY <1>2
  <2>2. q * (x + 1) <= q * y
    <3>1. (x + 1) * q <= y * q /\ q * (x + 1) = (x + 1) * q /\ q * y = y * q
      BY <2>1, MulMono
    <3> QED
      BY <3>1
  <2>3. q * (x + 1) = q * x + q
    OBVIOUS
  <2>4. q * x \in Nat /\ q * y \in Nat
    OBVIOUS
  <2> QED
    BY <1>2, <2>2, <2>3, <2>4
<1>3. ASSUME q * e <= j, j < q * e + q PROVE d = e
  <2>1. d < e \/ e < d \/ d = e
    BY <1>1
  <2>2. ~ (d < e)
    BY <1>1, <1>2, <1>3
  <2>3. ~ (e < d)
    BY <1>1, <1>2, <1>3
  <2> QED
    BY <2>1, <2>2, <2>3
<1> QED
  BY <1>1, <1>3 DEF d

\* A node of tier 3 has a block of consumers, and perhaps one of the rest.
LEMMA EdgeShare ==
  ASSUME NEW s \in Settings, NEW e \in 0 .. s.t3 - 1
  PROVE  LET J == {j \in 0 .. s.consumers - 1 : EdgeOf(s, j) = e}
         IN  IsFiniteSet(J) /\ Cardinality(J) \in {Block(s), Block(s) + 1}
<1> DEFINE q == Block(s)
           t == s.t3
           c == s.consumers
           x == q * t
           y == q * e
           J == {j \in 0 .. c - 1 : EdgeOf(s, j) = e}
           K == y .. (y + q - 1)
<1>1. /\ q \in Nat /\ q > 0 /\ t \in Nat /\ t > 0 /\ c \in Nat /\ e \in Nat /\ e < t
      /\ x \in Nat /\ x <= c /\ c < x + t
  BY BlockFacts, SettingFacts
<1>2. \A j \in 0 .. c - 1 : EdgeOf(s, j) = IF j < x THEN j \div q ELSE j - x
  BY DEF EdgeOf
<1>3. y \in Nat /\ y + q <= x
  <2> HIDE DEF q, t
  <2>1. (e + 1) * q <= t * q /\ t * q = q * t
    <3>1. e + 1 \in Nat /\ e + 1 <= t
      BY <1>1
    <3> QED
      BY <3>1, <1>1, MulMono
  <2>2. (e + 1) * q = q * e + q /\ q * e \in Nat
    BY <1>1
  <2> QED
    BY <2>1, <2>2
<1> HIDE DEF q, t, c, x
<1>4. \A j \in 0 .. c - 1 : j < x => (j \div q = e <=> (y <= j /\ j < y + q))
  <2> TAKE j \in 0 .. c - 1
  <2>1. j \in Nat
    BY <1>1
  <2> QED
    BY <1>1, <2>1, DivIs
<1> HIDE DEF y
<1>5. J = K \union (IF x + e < c THEN {x + e} ELSE {})
  <2>1. ASSUME NEW j \in J PROVE j \in K \union (IF x + e < c THEN {x + e} ELSE {})
    <3>1. CASE j < x
      BY <3>1, <1>1, <1>2, <1>3, <1>4
    <3>2. CASE ~ (j < x)
      BY <3>2, <1>1, <1>2
    <3> QED
      BY <3>1, <3>2
  <2>2. ASSUME NEW j \in K PROVE j \in J
    <3>1. j \in 0 .. c - 1 /\ j < x /\ y <= j /\ j < y + q
      BY <1>1, <1>3
    <3> QED
      BY <3>1, <1>2, <1>4
  <2>3. ASSUME x + e < c PROVE x + e \in J
    <3>1. x + e \in 0 .. c - 1 /\ ~ (x + e < x) /\ (x + e) - x = e
      BY <1>1, <2>3
    <3> QED
      BY <3>1, <1>2
  <2> HIDE DEF J, K
  <2> QED
    BY <2>1, <2>2, <2>3
<1>6. IsFiniteSet(K) /\ Cardinality(K) = q
  <2>1. y \in Int /\ y + q - 1 \in Int /\ ~ (y > y + q - 1) /\ (y + q - 1) - y + 1 = q
    BY <1>1, <1>3
  <2> QED
    BY <2>1, FS_Interval
<1>7. x + e \notin K
  BY <1>1, <1>3
<1> HIDE DEF J, K
<1>8. CASE x + e < c
  <2>1. J = K \cup {x + e}
    BY <1>5, <1>8
  <2> QED
    BY <2>1, <1>6, <1>7, FS_AddElement DEF J, q, c
<1>9. CASE ~ (x + e < c)
  <2>1. J = K
    BY <1>5, <1>9
  <2> QED
    BY <2>1, <1>6 DEF J, q, c
<1> QED
  BY <1>8, <1>9

-----------------------------------------------------------------------------
(* The network as it is built.                                             *)

NodesBuilt ==
  /\ DOMAIN net.nodes = 1 .. Computes(p)
  /\ \A i \in 1 .. Computes(p) :
       net.nodes[i].name = NodeName(i) /\ net.nodes[i].tier = NodeTier(p, i)
  /\ net.consumers = ConsumerNames(p)

\* The nodes that have been read are those the command line means.
LEMMA NamesBuilt ==
  ASSUME p \in Settings, NodesBuilt
  PROVE  /\ Names = AllNames(p) /\ Home = NodeName(1)
         /\ Range(net.consumers) = {Consumer(j) : j \in 0 .. p.consumers - 1}
<1> DEFINE c == p.consumers
           n == Computes(p)
<1>1. c \in Nat /\ n \in Nat /\ n > 3
  BY SettingFacts, NodeListLength
<1> HIDE DEF c, n
<1>2. Range(net.consumers) = {Consumer(j) : j \in 0 .. c - 1}
  <2>1. Range(net.consumers) = {Consumer(j - 1) : j \in 1 .. c}
    BY DEF NodesBuilt, ConsumerNames, Range, c
  <2>2. \A j \in 1 .. c : j - 1 \in 0 .. c - 1
    BY <1>1
  <2>3. \A j \in 0 .. c - 1 : j + 1 \in 1 .. c /\ (j + 1) - 1 = j
    BY <1>1
  <2> QED
    BY <2>1, <2>2, <2>3
<1>3. {net.nodes[i].name : i \in DOMAIN net.nodes} = {NodeName(i) : i \in 1 .. n}
  BY DEF NodesBuilt, n
<1>4. Home = NodeName(1)
  BY <1>1 DEF Home, NodesBuilt, n
<1> QED
  BY <1>2, <1>3, <1>4 DEF Names, AllNames, c, n

\* Where a consumer hangs.
LEMMA AboveName ==
  ASSUME NEW s \in Settings, NEW j \in 0 .. s.consumers - 1
  PROVE  /\ EdgeOf(s, j) \in 0 .. s.t3 - 1
         /\ Above(s, j) = NodeName(s.t2 + 4 + EdgeOf(s, j))
         /\ s.t2 + 4 + EdgeOf(s, j) \in 3 .. Computes(s)
<1> DEFINE e == EdgeOf(s, j)
           i == s.t2 + 2 + e
<1>1. e \in 0 .. s.t3 - 1 /\ Above(s, j) = ComputeNode(i)
  BY EdgeBounds
<1>2. s.t2 \in Nat /\ s.t3 \in Nat /\ Computes(s) = s.t2 + s.t3 + 3
  BY SettingFacts DEF Computes
<1> HIDE DEF e
<1>3. i \in Nat /\ i + 2 = s.t2 + 4 + e /\ s.t2 + 4 + e \in 3 .. Computes(s)
  BY <1>1, <1>2
<1> HIDE DEF i
<1>4. Above(s, j) = NodeName(i + 2)
  BY <1>1, <1>3, NodeOf
<1> QED
  BY <1>1, <1>3, <1>4 DEF e

\* What kind of node is where.
LEMMA TierOf ==
  ASSUME NEW s \in Settings, NEW k \in 1 .. Computes(s)
  PROVE  /\ NodeTier(s, k) = "cloud" => k = 2
         /\ NodeTier(s, k) = "gateway" => k = 3
         /\ NodeTier(s, k) = "tier2" => k \in 4 .. s.t2 + 3
         /\ NodeTier(s, k) = "tier3" <=> k >= s.t2 + 4
<1> DEFINE i == k - 2
<1>1. s.t2 \in Nat /\ s.t1 = 1 /\ Computes(s) \in Nat
  BY SettingFacts, NodeListLength
<1>2. CASE k = 1
  BY <1>1, <1>2 DEF NodeTier
<1>3. CASE k = 2
  BY <1>1, <1>3 DEF NodeTier, Tier
<1>4. CASE k = 3
  BY <1>1, <1>4 DEF NodeTier, Tier
<1>5. CASE k > 3 /\ k <= s.t2 + 3
  <2>1. k # 1 /\ i \in Int /\ i # 0 /\ i # 1 /\ i > 1 /\ i <= s.t2 + 1 /\ ~ (k >= s.t2 + 4)
        /\ ~ (i > s.t2 + 1)
    BY <1>1, <1>5
  <2>2. NodeTier(s, k) = Tier(s, i)
    BY <2>1 DEF NodeTier
  <2> HIDE DEF i
  <2>3. Tier(s, i) = "tier2"
    BY <2>1 DEF Tier
  <2>4. k \in 4 .. s.t2 + 3
    BY <1>1, <1>5
  <2> QED
    BY <2>1, <2>2, <2>3, <2>4
<1>6. CASE k >= s.t2 + 4
  <2>1. k # 1 /\ i \in Int /\ i # 0 /\ i # 1 /\ i > s.t2 + 1 /\ ~ (i <= s.t2 + 1) /\ i > s.t2 + s.t1
    BY <1>1, <1>6
  <2>2. NodeTier(s, k) = Tier(s, i)
    BY <2>1 DEF NodeTier
  <2> HIDE DEF i
  <2>3. Tier(s, i) = "tier3"
    BY <2>1 DEF Tier
  <2> QED
    BY <1>6, <2>2, <2>3
<1>7. k = 1 \/ k = 2 \/ k = 3 \/ (k > 3 /\ k <= s.t2 + 3) \/ k >= s.t2 + 4
  BY <1>1
<1> QED
  BY <1>2, <1>3, <1>4, <1>5, <1>6, <1>7

\* The links of a consumer: one, from the node above it.
LEMMA ConsumerLink ==
  ASSUME NEW s \in Settings, NEW j \in 0 .. s.consumers - 1
  PROVE  LET L == LinkSection(s)
         IN  /\ Inner(s) + j + 1 \in DOMAIN L
             /\ L[Inner(s) + j + 1] = <<Above(s, j), Consumer(j)>>
             /\ \A i \in DOMAIN L : Consumer(j) \in Range(L[i]) => i = Inner(s) + j + 1
<1> DEFINE L == LinkSection(s)
           m == Inner(s)
           c == s.consumers
           n == Computes(s)
<1>1. /\ m \in Nat /\ c \in Nat /\ n \in Nat
      /\ DOMAIN L = 1 .. m + c
      /\ \A x \in 1 .. m : Between(s, L[x])
      /\ \A x \in 1 .. c : L[m + x] = <<Above(s, x - 1), Consumer(x - 1)>>
  BY LinkPlaces, SettingFacts, NodeListLength
<1> HIDE DEF L, m, c, n
<1>2. j \in 0 .. c - 1 /\ j + 1 \in 1 .. c /\ (j + 1) - 1 = j /\ m + (j + 1) = m + j + 1
  BY <1>1 DEF c
<1>3. L[m + (j + 1)] = <<Above(s, (j + 1) - 1), Consumer((j + 1) - 1)>>
  BY <1>1, <1>2
<1>4. m + j + 1 \in DOMAIN L
  BY <1>1, <1>2
<1>5. ASSUME NEW i \in DOMAIN L, Consumer(j) \in Range(L[i]) PROVE i = m + j + 1
  <2>1. CASE i <= m
    <3>1. Between(s, L[i])
      BY <1>1, <2>1
    <3>2. PICK a, b \in 1 .. n : L[i] = <<NodeName(a), NodeName(b)>>
      BY <3>1 DEF Between, n
    <3>3. Range(L[i]) = {NodeName(a), NodeName(b)}
      BY <3>2 DEF Range
    <3>4. a \in Nat /\ b \in Nat
      BY <1>1
    <3> QED
      BY <1>5, <3>3, <3>4, NodeNamesDiffer
  <2>2. CASE i > m
    <3> DEFINE x == i - m
    <3>1. x \in 1 .. c /\ m + x = i /\ x - 1 \in 0 .. c - 1
      BY <1>1, <2>2
    <3>2. L[m + x] = <<Above(s, x - 1), Consumer(x - 1)>>
      BY <3>1, <1>1
    <3> HIDE DEF x
    <3>3. Range(L[i]) = {Above(s, x - 1), Consumer(x - 1)}
      BY <3>1, <3>2 DEF Range
    <3>4. Above(s, x - 1) = NodeName(s.t2 + 4 + EdgeOf(s, x - 1))
          /\ s.t2 + 4 + EdgeOf(s, x - 1) \in 3 .. n
      BY <3>1, AboveName DEF c, n
    <3>5. s.t2 + 4 + EdgeOf(s, x - 1) \in Nat
      BY <1>1, <3>4
    <3>6. Consumer(j) = Consumer(x - 1)
      BY <1>5, <3>3, <3>4, <3>5, NodeNamesDiffer
    <3>7. j = x - 1
      BY <3>6, NamesDiffer
    <3> QED
      BY <3>1, <3>7, <1>1, <1>2
  <2> QED
    BY <2>1, <2>2, <1>1
<1> QED
  BY <1>2, <1>3, <1>4, <1>5 DEF L, m

LinksBuilt == NodesBuilt /\ net.links = LinkSection(p)

\* Which consumers a node is linked to.
LEMMA LinkedConsumer ==
  ASSUME p \in Settings, LinksBuilt, NEW k \in 1 .. Computes(p), NEW j \in 0 .. p.consumers - 1
  PROVE  Linked(NodeName(k), Consumer(j)) <=> k = p.t2 + 4 + EdgeOf(p, j)
<1> DEFINE L == net.links
           i0 == Inner(p) + j + 1
           a == p.t2 + 4 + EdgeOf(p, j)
<1>1. L = LinkSection(p)
  BY DEF LinksBuilt
<1>2. /\ i0 \in DOMAIN L /\ L[i0] = <<NodeName(a), Consumer(j)>>
      /\ a \in Nat /\ a > 0
      /\ \A i \in DOMAIN L : Consumer(j) \in Range(L[i]) => i = i0
  <2>1. a \in 3 .. Computes(p) /\ Above(p, j) = NodeName(a)
    BY AboveName
  <2>2. Computes(p) \in Nat
    BY NodeListLength
  <2>3. a \in Nat /\ a > 0
    <3> HIDE DEF a
    <3> QED
      BY <2>1, <2>2
  <2> QED
    BY <1>1, <2>1, <2>3, ConsumerLink
<1>3. Range(L) = {L[i] : i \in DOMAIN L}
  BY DEF Range
<1> HIDE DEF L, i0, a
<1>4. k \in Nat /\ k > 0
  BY NodeListLength
<1>5. ASSUME k = a PROVE Linked(NodeName(k), Consumer(j))
  BY <1>2, <1>3, <1>5 DEF Linked, L
<1>6. ASSUME Linked(NodeName(k), Consumer(j)) PROVE k = a
  <2>1. CASE <<NodeName(k), Consumer(j)>> \in Range(L)
    <3>1. PICK i \in DOMAIN L : L[i] = <<NodeName(k), Consumer(j)>>
      BY <2>1, <1>3
    <3>2. Consumer(j) \in Range(L[i])
      BY <3>1 DEF Range
    <3>3. i = i0
      BY <3>2, <1>2
    <3>4. NodeName(k) = NodeName(a)
      BY <3>1, <3>3, <1>2
    <3> QED
      BY <3>4, <1>2, <1>4, NodeNamesDiffer
  <2>2. CASE <<Consumer(j), NodeName(k)>> \in Range(L)
    <3>1. PICK i \in DOMAIN L : L[i] = <<Consumer(j), NodeName(k)>>
      BY <2>2, <1>3
    <3>2. Consumer(j) \in Range(L[i])
      BY <3>1 DEF Range
    <3>3. i = i0
      BY <3>2, <1>2
    <3>4. NodeName(a) = Consumer(j)
      BY <3>1, <3>3, <1>2
    <3> QED
      BY <3>4, <1>2, NodeNamesDiffer
  <2> QED
    BY <1>6, <2>1, <2>2 DEF Linked, L
<1> QED
  BY <1>5, <1>6 DEF a

\* How many consumers a node of tier 3 has.
LEMMA LoadIs ==
  ASSUME p \in Settings, LinksBuilt, NEW k \in DOMAIN net.nodes, net.nodes[k].tier = "tier3"
  PROVE  Cardinality({c \in Range(net.consumers) : Linked(net.nodes[k].name, c)})
           \in {Block(p), Block(p) + 1}
<1> DEFINE e == k - (p.t2 + 4)
           J == {j \in 0 .. p.consumers - 1 : EdgeOf(p, j) = e}
           T == {c \in Range(net.consumers) : Linked(net.nodes[k].name, c)}
           f == [j \in J |-> Consumer(j)]
<1>1. k \in 1 .. Computes(p) /\ net.nodes[k].name = NodeName(k) /\ NodeTier(p, k) = "tier3"
  BY DEF LinksBuilt, NodesBuilt
<1>2. e \in 0 .. p.t3 - 1
  <2>1. k >= p.t2 + 4
    BY <1>1, TierOf
  <2>2. Computes(p) = p.t2 + p.t3 + 3 /\ p.t2 \in Nat /\ p.t3 \in Nat
    BY SettingFacts DEF Computes
  <2> QED
    BY <1>1, <2>1, <2>2
<1>3. IsFiniteSet(J) /\ Cardinality(J) \in {Block(p), Block(p) + 1}
  BY <1>2, EdgeShare
<1>4. \A j \in 0 .. p.consumers - 1 : Linked(NodeName(k), Consumer(j)) <=> EdgeOf(p, j) = e
  <2> TAKE j \in 0 .. p.consumers - 1
  <2>1. EdgeOf(p, j) \in 0 .. p.t3 - 1 /\ p.t2 \in Nat /\ k \in Int
    BY <1>1, EdgeBounds, SettingFacts
  <2>2. Linked(NodeName(k), Consumer(j)) <=> k = p.t2 + 4 + EdgeOf(p, j)
    BY <1>1, LinkedConsumer
  <2> QED
    BY <2>1, <2>2
<1>5. T = {Consumer(j) : j \in J}
  <2>1. Range(net.consumers) = {Consumer(j) : j \in 0 .. p.consumers - 1}
    BY NamesBuilt DEF LinksBuilt
  <2> HIDE DEF e
  <2> QED
    BY <1>1, <1>4, <2>1
<1>6. ExistsBijection(J, T)
  <2>1. \A j \in J : f[j] = Consumer(j)
    OBVIOUS
  <2>2. f \in [J -> T]
    BY <1>5
  <2> HIDE DEF J, T, f
  <2>3. f \in Injection(J, T)
    BY <2>1, <2>2, NamesDiffer DEF Injection, IsInjective
  <2>4. f \in Surjection(J, T)
    BY <1>5, <2>1, <2>2 DEF Surjection
  <2>5. f \in Bijection(J, T)
    BY <2>3, <2>4 DEF Bijection
  <2> QED
    BY <2>5 DEF ExistsBijection
<1> HIDE DEF J, T
<1>7. Cardinality(T) = Cardinality(J)
  BY <1>3, <1>6, FS_Bijection
<1> QED
  BY <1>3, <1>7 DEF T

\* Everything is near the orchestrator.
LEMMA Reached ==
  ASSUME p \in Settings, LinksBuilt
  PROVE  Beyond(Beyond({Home})) = Names
<1> DEFINE L == net.links
           n == Computes(p)
           S1 == Beyond({Home})
           S2 == Beyond(S1)
<1>1. /\ Names = AllNames(p) /\ Home = NodeName(1)
      /\ n \in Nat /\ n > 3 /\ p.consumers \in Nat
  BY NamesBuilt, NodeListLength, SettingFacts DEF LinksBuilt
<1>2. /\ \A i \in 3 .. n : <<NodeName(1), NodeName(i)>> \in Range(L)
      /\ <<NodeName(2), NodeName(3)>> \in Range(L)
  <2>1. L = LinkSection(p)
    BY DEF LinksBuilt
  <2>2. /\ Inner(p) \in Nat
        /\ DOMAIN L = 1 .. Inner(p) + p.consumers
        /\ \A i \in 3 .. n : \E k \in 1 .. Inner(p) : L[k] = <<NodeName(1), NodeName(i)>>
        /\ \E k \in 1 .. Inner(p) : L[k] = <<NodeName(2), NodeName(3)>>
    BY <2>1, LinkPlaces
  <2>3. 1 .. Inner(p) \subseteq DOMAIN L
    BY <1>1, <2>2
  <2> HIDE DEF L, n
  <2> QED
    BY <2>2, <2>3 DEF Range
<1> HIDE DEF L, n
<1>3. \A i \in 1 .. n : NodeName(i) \in Names
  BY <1>1 DEF AllNames, n
<1>4. \A i \in 3 .. n : NodeName(i) \in S1
  BY <1>1, <1>2, <1>3 DEF Beyond, Linked, L
<1>5. S1 \subseteq Names /\ Home \in S1
  BY <1>1, <1>3 DEF Beyond
<1> HIDE DEF S1
<1>6. S1 \subseteq S2 /\ S2 \subseteq Names
  BY <1>5 DEF Beyond
<1>7. NodeName(2) \in S2
  <2>1. NodeName(3) \in S1 /\ NodeName(2) \in Names
    BY <1>1, <1>3, <1>4
  <2> QED
    BY <1>2, <2>1 DEF Beyond, Linked, L
<1>8. \A j \in 0 .. p.consumers - 1 : Consumer(j) \in S2
  <2> TAKE j \in 0 .. p.consumers - 1
  <2> DEFINE a == p.t2 + 4 + EdgeOf(p, j)
  <2>1. a \in 3 .. n
    BY AboveName DEF n
  <2> HIDE DEF a
  <2>2. a \in 1 .. n /\ NodeName(a) \in S1
    BY <1>1, <1>4, <2>1
  <2>3. Linked(NodeName(a), Consumer(j))
    BY <2>2, LinkedConsumer DEF n, a
  <2>4. Consumer(j) \in Names
    BY <1>1 DEF AllNames
  <2> QED
    BY <2>2, <2>3, <2>4 DEF Beyond
<1> HIDE DEF S2
<1>9. Names \subseteq S2
  <2>1. \A i \in 1 .. n : NodeName(i) \in S2
    <3> TAKE i \in 1 .. n
    <3>1. i = 1 \/ i = 2 \/ i \in 3 .. n
      BY <1>1
    <3> QED
      BY <3>1, <1>1, <1>4, <1>5, <1>6, <1>7
  <2> QED
    BY <1>1, <1>8, <2>1 DEF AllNames, n
<1> QED
  BY <1>6, <1>9 DEF S1, S2

\* Cloud, gateway and tiers are linked.
LEMMA TiersJoined ==
  ASSUME p \in Settings, LinksBuilt
  PROVE  LET Tiered(t) == {k \in DOMAIN net.nodes : net.nodes[k].tier = t}
             Joins(k, l) == Linked(net.nodes[k].name, net.nodes[l].name)
         IN  /\ \A g \in Tiered("gateway"), k \in Tiered("cloud") \union Tiered("tier2") : Joins(g, k)
             /\ \A k \in Tiered("tier2") :
                  \E x, y \in Tiered("tier3") : x # y /\ Joins(k, x) /\ Joins(k, y)
<1> DEFINE n == Computes(p)
           L == net.links
           Tiered(t) == {k \in DOMAIN net.nodes : net.nodes[k].tier = t}
           Joins(k, l) == Linked(net.nodes[k].name, net.nodes[l].name)
<1>1. n \in Nat /\ n = p.t2 + p.t3 + 3 /\ p.t2 \in Nat /\ p.t3 \in Nat /\ p.t3 >= 2 * p.t2
  BY SettingFacts DEF Computes
<1>2. /\ DOMAIN net.nodes = 1 .. n
      /\ \A i \in 1 .. n : net.nodes[i].name = NodeName(i) /\ net.nodes[i].tier = NodeTier(p, i)
  BY DEF LinksBuilt, NodesBuilt
<1>3. /\ <<NodeName(2), NodeName(3)>> \in Range(L)
      /\ \A l \in 1 .. p.t2 : \A link \in TierTwoLinks(p, l) : link \in Range(L)
  <2>1. L = LinkSection(p)
    BY DEF LinksBuilt
  <2>2. /\ Inner(p) \in Nat /\ p.consumers \in Nat
        /\ DOMAIN L = 1 .. Inner(p) + p.consumers
        /\ \E k \in 1 .. Inner(p) : L[k] = <<NodeName(2), NodeName(3)>>
        /\ HasTierTwo(p, L, Inner(p))
    BY <2>1, LinkPlaces, SettingFacts
  <2>3. 1 .. Inner(p) \subseteq DOMAIN L
    BY <2>2
  <2> HIDE DEF L
  <2> QED
    BY <2>2, <2>3 DEF Range, HasTierTwo
<1> HIDE DEF n, L
<1>4. \A k \in 1 .. n :
        /\ NodeTier(p, k) = "cloud" => k = 2
        /\ NodeTier(p, k) = "gateway" => k = 3
        /\ NodeTier(p, k) = "tier2" => k \in 4 .. p.t2 + 3
        /\ NodeTier(p, k) = "tier3" <=> k >= p.t2 + 4
  BY TierOf DEF n
<1>5. /\ \A k \in Tiered("cloud") : net.nodes[k].name = NodeName(2)
      /\ \A k \in Tiered("gateway") : net.nodes[k].name = NodeName(3)
      /\ \A k \in Tiered("tier2") : k \in 4 .. p.t2 + 3 /\ net.nodes[k].name = NodeName(k)
  <2>1. ASSUME NEW k \in Tiered("cloud") PROVE net.nodes[k].name = NodeName(2)
    <3>1. k \in 1 .. n /\ net.nodes[k].tier = "cloud"
      BY <1>2
    <3>2. NodeTier(p, k) = "cloud"
      BY <1>2, <3>1
    <3> QED
      BY <1>1, <1>2, <1>4, <3>1, <3>2
  <2>2. ASSUME NEW k \in Tiered("gateway") PROVE net.nodes[k].name = NodeName(3)
    <3>1. k \in 1 .. n /\ net.nodes[k].tier = "gateway"
      BY <1>2
    <3>2. NodeTier(p, k) = "gateway"
      BY <1>2, <3>1
    <3> QED
      BY <1>1, <1>2, <1>4, <3>1, <3>2
  <2>3. ASSUME NEW k \in Tiered("tier2")
        PROVE  k \in 4 .. p.t2 + 3 /\ net.nodes[k].name = NodeName(k)
    <3>1. k \in 1 .. n /\ net.nodes[k].tier = "tier2"
      BY <1>2
    <3>2. NodeTier(p, k) = "tier2"
      BY <1>2, <3>1
    <3> QED
      BY <1>1, <1>2, <1>4, <3>1, <3>2
  <2> HIDE DEF Tiered
  <2> QED
    BY <2>1, <2>2, <2>3
<1>6. ASSUME NEW k \in 1 .. n, k >= p.t2 + 4
      PROVE  k \in Tiered("tier3") /\ net.nodes[k].name = NodeName(k)
  <2>1. NodeTier(p, k) = "tier3"
    BY <1>1, <1>4, <1>6
  <2> QED
    BY <1>2, <2>1
<1> HIDE DEF Tiered
<1>7. ASSUME NEW g \in Tiered("gateway"), NEW k \in Tiered("cloud") \union Tiered("tier2")
      PROVE  Joins(g, k)
  <2>1. net.nodes[g].name = NodeName(3)
    BY <1>5
  <2>2. CASE k \in Tiered("cloud")
    <3>1. net.nodes[k].name = NodeName(2)
      BY <1>5, <2>2
    <3> QED
      BY <1>3, <2>1, <3>1 DEF Linked, L
  <2>3. CASE k \in Tiered("tier2")
    <3>1. k \in 4 .. p.t2 + 3 /\ net.nodes[k].name = NodeName(k)
      BY <1>5, <2>3
    <3>2. k - 3 \in 1 .. p.t2 /\ (k - 3) + 3 = k
      BY <1>1, <3>1
    <3>3. <<NodeName(3), NodeName(k)>> \in TierTwoLinks(p, k - 3)
      BY <3>2 DEF TierTwoLinks
    <3> QED
      BY <1>3, <2>1, <3>1, <3>2, <3>3 DEF Linked, L
  <2> QED
    BY <2>2, <2>3
<1>8. ASSUME NEW k \in Tiered("tier2")
      PROVE  \E x, y \in Tiered("tier3") : x # y /\ Joins(k, x) /\ Joins(k, y)
  <2> DEFINE l == k - 3
             x == p.t2 + 2 * l + 2
             y == p.t2 + 2 * l + 3
  <2>1. k \in 4 .. p.t2 + 3 /\ net.nodes[k].name = NodeName(k)
    BY <1>5
  <2>2. l \in 1 .. p.t2 /\ l + 3 = k
    BY <1>1, <2>1
  <2> HIDE DEF l
  <2>3. x \in 1 .. n /\ y \in 1 .. n /\ x >= p.t2 + 4 /\ y >= p.t2 + 4 /\ x # y
    BY <1>1, <2>2
  <2>4. /\ <<NodeName(k), NodeName(x)>> \in TierTwoLinks(p, l)
        /\ <<NodeName(k), NodeName(y)>> \in TierTwoLinks(p, l)
    BY <2>2 DEF TierTwoLinks
  <2> HIDE DEF x, y
  <2>5. /\ x \in Tiered("tier3") /\ net.nodes[x].name = NodeName(x)
        /\ y \in Tiered("tier3") /\ net.nodes[y].name = NodeName(y)
    BY <1>6, <2>3
  <2>6. Joins(k, x) /\ Joins(k, y)
    BY <1>3, <2>1, <2>2, <2>4, <2>5 DEF Linked, L
  <2> QED
    BY <2>3, <2>5, <2>6
<1> QED
  BY <1>7, <1>8 DEF Tiered

\* The network is wired as it should be.
LEMMA WiredWell ==
  ASSUME p \in Settings, LinksBuilt
  PROVE  Wired
<1> DEFINE Tiered(t) == {k \in DOMAIN net.nodes : net.nodes[k].tier = t}
           Ends(x) == Cardinality({i \in DOMAIN net.links : x \in Range(net.links[i])})
           Load(k) == Cardinality({c \in Range(net.consumers) : Linked(net.nodes[k].name, c)})
           Edge == Tiered("tier3")
<1>1. Range(net.consumers) = {Consumer(j) : j \in 0 .. p.consumers - 1}
  BY NamesBuilt DEF LinksBuilt
<1>2. net.links = LinkSection(p)
  BY DEF LinksBuilt
<1>3. ASSUME NEW i \in DOMAIN net.links, net.links[i][2] \in Range(net.consumers)
      PROVE  \E k \in Edge : net.nodes[k].name = net.links[i][1]
  <2>1. PICK j \in 0 .. p.consumers - 1 : net.links[i][2] = Consumer(j)
    BY <1>1, <1>3
  <2> DEFINE m == Inner(p)
             c == p.consumers
             n == Computes(p)
             L == LinkSection(p)
  <2>2. /\ m \in Nat /\ c \in Nat /\ n \in Nat
        /\ DOMAIN L = 1 .. m + c
        /\ \A x \in 1 .. m : Between(p, L[x])
        /\ \A x \in 1 .. c : L[m + x] = <<Above(p, x - 1), Consumer(x - 1)>>
    BY LinkPlaces, SettingFacts, NodeListLength
  <2>3. i \in DOMAIN L /\ L[i][2] = Consumer(j)
    BY <1>2, <1>3, <2>1
  <2> HIDE DEF m, c, n, L
  <2>4. ~ (i <= m)
    <3>1. SUFFICES ASSUME i <= m PROVE FALSE
      OBVIOUS
    <3>2. Between(p, L[i])
      BY <2>2, <2>3, <3>1
    <3>3. PICK a, b \in 1 .. n : L[i] = <<NodeName(a), NodeName(b)>>
      BY <3>2 DEF Between, n
    <3>4. b \in Nat
      BY <2>2
    <3> QED
      BY <2>3, <3>3, <3>4, NodeNamesDiffer
  <2> DEFINE x == i - m
             a == p.t2 + 4 + EdgeOf(p, x - 1)
  <2>5. x \in 1 .. c /\ x - 1 \in 0 .. c - 1 /\ m + x = i
    BY <2>2, <2>3, <2>4
  <2>6. L[m + x] = <<Above(p, x - 1), Consumer(x - 1)>>
    BY <2>2, <2>5
  <2> HIDE DEF x
  <2>7. /\ EdgeOf(p, x - 1) \in 0 .. p.t3 - 1
        /\ Above(p, x - 1) = NodeName(a) /\ a \in 3 .. n
    BY <2>5, AboveName DEF c, n
  <2>8. a \in 1 .. n /\ a >= p.t2 + 4
    <3>1. p.t2 \in Nat /\ p.t3 \in Nat
      BY SettingFacts
    <3> QED
      BY <2>2, <2>7, <3>1
  <2> HIDE DEF a
  <2>9. NodeTier(p, a) = "tier3"
    BY <2>8, TierOf DEF n
  <2>10. net.nodes[a].name = NodeName(a) /\ net.nodes[a].tier = NodeTier(p, a) /\ a \in DOMAIN net.nodes
    BY <2>8 DEF LinksBuilt, NodesBuilt, n
  <2>11. net.links[i][1] = NodeName(a)
    BY <1>2, <2>5, <2>6, <2>7 DEF L
  <2> QED
    BY <2>9, <2>10, <2>11
<1>4. ASSUME NEW x \in Range(net.consumers) PROVE Ends(x) = 1
  <2>1. PICK j \in 0 .. p.consumers - 1 : x = Consumer(j)
    BY <1>1
  <2> DEFINE i0 == Inner(p) + j + 1
  <2>2. /\ i0 \in DOMAIN net.links /\ net.links[i0] = <<Above(p, j), x>>
        /\ \A i \in DOMAIN net.links : x \in Range(net.links[i]) => i = i0
    BY <1>2, <2>1, ConsumerLink
  <2> HIDE DEF i0
  <2>3. x \in Range(net.links[i0])
    BY <2>2 DEF Range
  <2>4. {i \in DOMAIN net.links : x \in Range(net.links[i])} = {i0}
    BY <2>2, <2>3
  <2> QED
    BY <2>4, FS_Singleton
<1>5. ASSUME NEW k \in Edge, NEW m \in Edge PROVE Load(k) <= Load(m) + 1
  <2>1. Load(k) \in {Block(p), Block(p) + 1} /\ Load(m) \in {Block(p), Block(p) + 1}
    BY LoadIs
  <2>2. Block(p) \in Nat
    BY BlockFacts
  <2> HIDE DEF Load
  <2> QED
    BY <2>1, <2>2
<1>6. Beyond(Beyond({Home})) = Names
  BY Reached
<1> QED
  BY <1>3, <1>4, <1>5, <1>6, TiersJoined DEF Wired

-----------------------------------------------------------------------------
(* The inputs of a function.                                               *)

\* An input that is added is found, and so is what was found before.
LEMMA AddedInput ==
  ASSUME NEW list \in Seq(Nat), NEW a \in Nat
  PROVE  LET R == AddToInputList(list, a)
         IN  /\ R \in Seq(Nat) /\ Found(a, R)
             /\ \A b : Found(b, list) => Found(b, R)
<1>1. CASE Found(a, list)
  BY <1>1 DEF AddToInputList
<1>2. CASE ~ Found(a, list)
  <2> DEFINE R == Append(list, a)
  <2>1. R \in Seq(Nat) /\ Len(R) = Len(list) + 1 /\ R[Len(R)] = a /\ Len(list) \in Nat
        /\ \A i \in 1 .. Len(list) : R[i] = list[i]
    OBVIOUS
  <2>2. DOMAIN R = 1 .. Len(R) /\ DOMAIN list = 1 .. Len(list)
    BY <2>1
  <2>3. R = AddToInputList(list, a)
    BY <1>2 DEF AddToInputList
  <2> HIDE DEF R
  <2>4. Len(R) \in DOMAIN R /\ DOMAIN list \subseteq DOMAIN R /\ Begins(a, a)
    <3>1. Begins(a, a)
      BY DEF Begins
    <3> QED
      BY <2>1, <2>2, <3>1
  <2>5. Found(a, R)
    BY <2>1, <2>4 DEF Found
  <2>6. \A b : Found(b, list) => Found(b, R)
    BY <2>1, <2>2, <2>4 DEF Found
  <2> QED
    BY <2>1, <2>3, <2>5, <2>6
<1> QED
  BY <1>1, <1>2

\* Inputs are added one after the other.
LEMMA InputSteps ==
  ASSUME NEW list \in Seq(Nat), NEW lines \in Seq(Nat)
  PROVE  \E g \in [0 .. Len(lines) -> Seq(Nat)] :
           /\ g[0] = list
           /\ \A k \in 1 .. Len(lines) : g[k] = AddToInputList(g[k - 1], lines[k])
           /\ g[Len(lines)] = AfterLines(AddToInputList, list, lines)
<1> DEFINE n == Len(lines)
           X == Seq(Nat)
           op == [z \in X \X (1 .. n) |-> AddToInputList(z[1], lines[z[2]])]
           after[k \in 0 .. n] == IF k = 0 THEN list ELSE AddToInputList(after[k - 1], lines[k])
<1>1. n \in Nat /\ \A k \in 1 .. n : lines[k] \in Nat
  OBVIOUS
<1>2. op \in [X \X (1 .. n) -> X] /\ \A x \in X, k \in 1 .. n : op[<<x, k>>] = AddToInputList(x, lines[k])
  <2>1. \A z \in X \X (1 .. n) : AddToInputList(z[1], lines[z[2]]) \in X
    BY <1>1, AddedInput
  <2> QED
    BY <2>1
<1> HIDE DEF n, X, op
<1>3. PICK h : Steps(h, X, list, n, op)
  <2>1. list \in X /\ n \in Nat /\ op \in [X \X (1 .. n) -> X]
    BY <1>1, <1>2 DEF X
  <2> QED
    BY <2>1, StepsExist
<1>4. \A k \in 1 .. n : k - 1 \in 0 .. n /\ h[k] = AddToInputList(h[k - 1], lines[k])
  <2> TAKE k \in 1 .. n
  <2>1. k - 1 \in 0 .. n /\ h[k - 1] \in X /\ h[k] = op[<<h[k - 1], k>>]
    BY <1>1, <1>3 DEF Steps
  <2> QED
    BY <2>1, <1>2
<1>5. h = [k \in 0 .. n |-> IF k = 0 THEN list ELSE AddToInputList(h[k - 1], lines[k])]
  <2>1. \A k \in 0 .. n : k = 0 \/ k \in 1 .. n
    BY <1>1
  <2> QED
    BY <2>1, <1>3, <1>4 DEF Steps
<1>6. after = [k \in 0 .. n |-> IF k = 0 THEN list ELSE AddToInputList(after[k - 1], lines[k])]
  BY <1>5
<1>7. AfterLines(AddToInputList, list, lines) = after[n]
  BY DEF AfterLines, n
<1> HIDE DEF after
<1> DEFINE S == {k \in 0 .. n : after[k] = h[k]}
<1>8. 0 \in S
  BY <1>1, <1>3, <1>6 DEF Steps
<1>9. ASSUME NEW k \in 1 .. n, k - 1 \in S PROVE k \in S
  <2>1. k \in 0 .. n /\ k # 0 /\ after[k] = AddToInputList(after[k - 1], lines[k])
    BY <1>1, <1>6
  <2> QED
    BY <2>1, <1>4, <1>9
<1> HIDE DEF S
<1>10. 0 .. n \subseteq S
  BY <1>1, <1>8, <1>9, LineInduction
<1>11. after[n] = h[n]
  BY <1>1, <1>10 DEF S
<1> QED
  BY <1>3, <1>4, <1>7, <1>11 DEF Steps, n, X

\* Every operand is found among the inputs once it has been added.
LEMMA InputsAdded ==
  ASSUME NEW list \in Seq(Nat), NEW lines \in Seq(Nat)
  PROVE  LET R == AfterLines(AddToInputList, list, lines)
         IN  /\ R \in Seq(Nat)
             /\ \A b : Found(b, list) => Found(b, R)
             /\ \A i \in DOMAIN lines : Found(lines[i], R)
<1> DEFINE n == Len(lines)
           R == AfterLines(AddToInputList, list, lines)
<1>1. n \in Nat /\ DOMAIN lines = 1 .. n /\ \A k \in 1 .. n : lines[k] \in Nat
  OBVIOUS
<1>2. PICK g \in [0 .. n -> Seq(Nat)] :
        g[0] = list /\ (\A k \in 1 .. n : g[k] = AddToInputList(g[k - 1], lines[k])) /\ g[n] = R
  BY InputSteps
<1> HIDE DEF n, R
<1> DEFINE S == {k \in 0 .. n : /\ \A b : Found(b, list) => Found(b, g[k])
                                /\ \A i \in 1 .. k : Found(lines[i], g[k])}
<1>3. 0 \in S
  BY <1>1, <1>2
<1>4. ASSUME NEW k \in 1 .. n, k - 1 \in S PROVE k \in S
  <2>1. k - 1 \in 0 .. n /\ g[k - 1] \in Seq(Nat) /\ lines[k] \in Nat /\ k \in 0 .. n
    BY <1>1, <1>2
  <2>2. Found(lines[k], g[k]) /\ \A b : Found(b, g[k - 1]) => Found(b, g[k])
    BY <2>1, <1>2, AddedInput
  <2>3. \A i \in 1 .. k : i = k \/ i \in 1 .. k - 1
    BY <1>1
  <2> QED
    BY <1>4, <2>1, <2>2, <2>3
<1> HIDE DEF S
<1>5. n \in S
  <2>1. 0 .. n \subseteq S
    BY <1>1, <1>3, <1>4, LineInduction
  <2> QED
    BY <1>1, <2>1
<1> QED
  BY <1>1, <1>2, <1>5 DEF S, R

-----------------------------------------------------------------------------
(* The functions after the requests have been read.                        *)

FunctionRead == [name : Nat, params : Nat, inputs : Seq(Nat)]

\* A request line adds its inputs to its function, and takes none from any.
LEMMA RequestAdded ==
  ASSUME NEW m \in Nat, NEW fs \in [1 .. m -> FunctionRead], NEW line, line.inputs \in Seq(Nat)
  PROVE  LET R == ReadRequest(fs, line)
         IN  /\ R \in [1 .. m -> FunctionRead]
             /\ \A i \in 1 .. m :
                  /\ R[i].name = fs[i].name /\ R[i].params = fs[i].params
                  /\ \A b : Found(b, fs[i].inputs) => Found(b, R[i].inputs)
                  /\ fs[i].name = line.func =>
                       \A k \in DOMAIN line.inputs : Found(line.inputs[k], R[i].inputs)
<1> DEFINE Of(i) == AfterLines(AddToInputList, fs[i].inputs, line.inputs)
           R == ReadRequest(fs, line)
<1>1. R = [i \in 1 .. m |-> IF fs[i].name # line.func THEN fs[i]
                            ELSE [fs[i] EXCEPT !.inputs = Of(i)]]
  BY DEF ReadRequest
<1>2. ASSUME NEW i \in 1 .. m
      PROVE  /\ Of(i) \in Seq(Nat)
             /\ \A b : Found(b, fs[i].inputs) => Found(b, Of(i))
             /\ \A k \in DOMAIN line.inputs : Found(line.inputs[k], Of(i))
  <2>1. fs[i].inputs \in Seq(Nat)
    BY DEF FunctionRead
  <2> QED
    BY <2>1, InputsAdded
<1> HIDE DEF Of, R
<1>3. ASSUME NEW i \in 1 .. m
      PROVE  /\ R[i] \in FunctionRead /\ R[i].name = fs[i].name /\ R[i].params = fs[i].params
             /\ R[i].inputs = IF fs[i].name # line.func THEN fs[i].inputs ELSE Of(i)
  <2>1. fs[i] \in FunctionRead
    OBVIOUS
  <2>2. R[i] = IF fs[i].name # line.func THEN fs[i] ELSE [fs[i] EXCEPT !.inputs = Of(i)]
    BY <1>1
  <2> QED
    BY <2>1, <2>2, <1>2 DEF FunctionRead
<1>4. R \in [1 .. m -> FunctionRead]
  BY <1>1, <1>3
<1> QED
  BY <1>2, <1>3, <1>4 DEF R

\* The lines of the consumer section are read one after the other.
LEMMA RequestSteps ==
  ASSUME NEW m \in Nat, NEW fs \in [1 .. m -> FunctionRead],
         NEW lines, IsSeq(lines), \A k \in DOMAIN lines : lines[k].inputs \in Seq(Nat)
  PROVE  \E g \in [0 .. Len(lines) -> [1 .. m -> FunctionRead]] :
           /\ g[0] = fs
           /\ \A k \in 1 .. Len(lines) : g[k] = ReadRequest(g[k - 1], lines[k])
           /\ g[Len(lines)] = RequestsRead(fs, lines)
<1> DEFINE n == Len(lines)
           X == [1 .. m -> FunctionRead]
           op == [z \in X \X (1 .. n) |-> ReadRequest(z[1], lines[z[2]])]
           after[k \in 0 .. n] == IF k = 0 THEN fs ELSE ReadRequest(after[k - 1], lines[k])
<1>1. n \in Nat /\ \A k \in 1 .. n : lines[k].inputs \in Seq(Nat)
  BY DEF IsSeq
<1>2. op \in [X \X (1 .. n) -> X] /\ \A x \in X, k \in 1 .. n : op[<<x, k>>] = ReadRequest(x, lines[k])
  <2>1. \A x \in X, k \in 1 .. n : ReadRequest(x, lines[k]) \in X
    BY <1>1, RequestAdded
  <2> HIDE DEF X, n
  <2> QED
    BY <2>1
<1> HIDE DEF n, X, op
<1>3. PICK h : Steps(h, X, fs, n, op)
  <2>1. fs \in X /\ n \in Nat /\ op \in [X \X (1 .. n) -> X]
    BY <1>1, <1>2 DEF X
  <2> QED
    BY <2>1, StepsExist
<1>4. \A k \in 1 .. n : k - 1 \in 0 .. n /\ h[k] = ReadRequest(h[k - 1], lines[k])
  <2> TAKE k \in 1 .. n
  <2>1. k - 1 \in 0 .. n /\ h[k - 1] \in X /\ h[k] = op[<<h[k - 1], k>>]
    BY <1>1, <1>3 DEF Steps
  <2> QED
    BY <2>1, <1>2
<1>5. h = [k \in 0 .. n |-> IF k = 0 THEN fs ELSE ReadRequest(h[k - 1], lines[k])]
  <2>1. \A k \in 0 .. n : k = 0 \/ k \in 1 .. n
    BY <1>1
  <2> QED
    BY <2>1, <1>3, <1>4 DEF Steps
<1>6. after = [k \in 0 .. n |-> IF k = 0 THEN fs ELSE ReadRequest(after[k - 1], lines[k])]
  BY <1>5
<1>7. RequestsRead(fs, lines) = after[n]
  BY DEF RequestsRead, AfterLines, n
<1> HIDE DEF after
<1> DEFINE S == {k \in 0 .. n : after[k] = h[k]}
<1>8. 0 \in S
  BY <1>1, <1>3, <1>6 DEF Steps
<1>9. ASSUME NEW k \in 1 .. n, k - 1 \in S PROVE k \in S
  <2>1. k \in 0 .. n /\ k # 0 /\ after[k] = ReadRequest(after[k - 1], lines[k])
    BY <1>1, <1>6
  <2> QED
    BY <2>1, <1>4, <1>9
<1> HIDE DEF S
<1>10. 0 .. n \subseteq S
  BY <1>1, <1>8, <1>9, LineInduction
<1>11. after[n] = h[n]
  BY <1>1, <1>10 DEF S
<1> QED
  BY <1>3, <1>4, <1>7, <1>11 DEF Steps, n, X

\* Afterwards every function lists what any line asks it to be computed from.
LEMMA RequestsAdded ==
  ASSUME NEW m \in Nat, NEW fs \in [1 .. m -> FunctionRead],
         NEW lines, IsSeq(lines), \A k \in DOMAIN lines : lines[k].inputs \in Seq(Nat)
  PROVE  LET R == RequestsRead(fs, lines)
         IN  /\ R \in [1 .. m -> FunctionRead]
             /\ \A i \in 1 .. m :
                  /\ R[i].name = fs[i].name /\ R[i].params = fs[i].params
                  /\ \A l \in DOMAIN lines : fs[i].name = lines[l].func =>
                       \A k \in DOMAIN lines[l].inputs : Found(lines[l].inputs[k], R[i].inputs)
<1> DEFINE n == Len(lines)
           X == [1 .. m -> FunctionRead]
           R == RequestsRead(fs, lines)
<1>1. n \in Nat /\ DOMAIN lines = 1 .. n /\ \A k \in 1 .. n : lines[k].inputs \in Seq(Nat)
  BY DEF IsSeq
<1>2. PICK g \in [0 .. n -> X] :
        g[0] = fs /\ (\A k \in 1 .. n : g[k] = ReadRequest(g[k - 1], lines[k])) /\ g[n] = R
  BY RequestSteps
<1>3. ASSUME NEW k \in 1 .. n
      PROVE  /\ k - 1 \in 0 .. n /\ g[k - 1] \in X
             /\ \A i \in 1 .. m :
                  /\ g[k][i].name = g[k - 1][i].name /\ g[k][i].params = g[k - 1][i].params
                  /\ \A b : Found(b, g[k - 1][i].inputs) => Found(b, g[k][i].inputs)
                  /\ g[k - 1][i].name = lines[k].func =>
                       \A j \in DOMAIN lines[k].inputs : Found(lines[k].inputs[j], g[k][i].inputs)
  <2>1. k - 1 \in 0 .. n /\ g[k - 1] \in X /\ g[k] = ReadRequest(g[k - 1], lines[k])
        /\ lines[k].inputs \in Seq(Nat)
    <3> HIDE DEF n, X
    <3> QED
      BY <1>1, <1>2
  <2> DEFINE f == g[k - 1]
             line == lines[k]
             r == ReadRequest(f, line)
  <2>2. f \in X /\ line.inputs \in Seq(Nat) /\ g[k] = r
    BY <2>1
  <2> HIDE DEF n, f, line
  <2>3. \A i \in 1 .. m :
                  /\ r[i].name = f[i].name /\ r[i].params = f[i].params
                  /\ \A b : Found(b, f[i].inputs) => Found(b, r[i].inputs)
                  /\ f[i].name = line.func =>
                       \A j \in DOMAIN line.inputs : Found(line.inputs[j], r[i].inputs)
    BY <2>2, RequestAdded
  <2> HIDE DEF r
  <2> QED
    BY <2>1, <2>2, <2>3 DEF f, line
<1> HIDE DEF n, X, R
<1> DEFINE So(k, i) ==
             /\ g[k][i].name = fs[i].name /\ g[k][i].params = fs[i].params
             /\ \A l \in 1 .. k : fs[i].name = lines[l].func =>
                  \A j \in DOMAIN lines[l].inputs : Found(lines[l].inputs[j], g[k][i].inputs)
           S == {k \in 0 .. n : \A i \in 1 .. m : So(k, i)}
<1>4. 0 \in S
  BY <1>1, <1>2
<1>5. ASSUME NEW k \in 1 .. n, k - 1 \in S PROVE k \in S
  <2>1. k \in 0 .. n /\ \A l \in 1 .. k : l = k \/ l \in 1 .. k - 1
    BY <1>1
  <2>2. ASSUME NEW i \in 1 .. m PROVE So(k, i)
    <3>1. So(k - 1, i)
      BY <1>5
    <3>2. g[k][i].name = fs[i].name /\ g[k][i].params = fs[i].params
      BY <3>1, <1>3
    <3>3. ASSUME NEW l \in 1 .. k, fs[i].name = lines[l].func, NEW j \in DOMAIN lines[l].inputs
          PROVE  Found(lines[l].inputs[j], g[k][i].inputs)
      <4>1. CASE l = k
        BY <3>1, <3>3, <4>1, <1>3
      <4>2. CASE l \in 1 .. k - 1
        BY <3>1, <3>3, <4>2, <1>3
      <4> QED
        BY <2>1, <4>1, <4>2
    <3> QED
      BY <3>2, <3>3
  <2> QED
    BY <2>1, <2>2
<1> HIDE DEF S
<1>6. n \in S
  <2>1. 0 .. n \subseteq S
    BY <1>1, <1>4, <1>5, LineInduction
  <2> QED
    BY <1>1, <2>1
<1>7. R \in X
  BY <1>1, <1>2
<1> QED
  BY <1>1, <1>2, <1>6, <1>7 DEF S, R, X

-----------------------------------------------------------------------------
(* What is known of the consumers.                                         *)

KnownConsumer(W, RP, DP) == [name : W, requests : Seq(RP), provides : Seq(DP)]

\* One entry for each consumer.
OneEach(known) == \A i, j \in DOMAIN known : known[i].name = known[j].name => i = j

\* A consumer the parser meets is listed, once, and the others stay.
LEMMA SeenOnce ==
  ASSUME NEW W, NEW RP, NEW DP, NEW known \in Seq(KnownConsumer(W, RP, DP)),
         NEW line, line.who \in W
  PROVE  LET R == Seen(known, line)
         IN  /\ R \in Seq(KnownConsumer(W, RP, DP))
             /\ OneEach(known) => OneEach(R)
             /\ \E i \in DOMAIN R : R[i].name = line.who
             /\ \A i \in DOMAIN known : i \in DOMAIN R /\ R[i] = known[i]
             /\ \A i \in DOMAIN R : i \in DOMAIN known \/ R[i].provides = <<>>
<1> DEFINE E == KnownConsumer(W, RP, DP)
           new == [name |-> line.who, requests |-> <<>>, provides |-> <<>>]
           R == Append(known, new)
<1>1. CASE \E i \in DOMAIN known : known[i].name = line.who
  BY <1>1 DEF Seen
<1>2. CASE ~ \E i \in DOMAIN known : known[i].name = line.who
  <2>1. new \in E /\ new.name = line.who /\ new.provides = <<>>
    BY DEF KnownConsumer
  <2> HIDE DEF E, new
  <2>2. /\ R \in Seq(E) /\ Len(R) = Len(known) + 1 /\ Len(known) \in Nat
        /\ R[Len(R)] = new /\ \A i \in 1 .. Len(known) : R[i] = known[i]
    BY <2>1 DEF E
  <2>3. DOMAIN R = 1 .. Len(R) /\ DOMAIN known = 1 .. Len(known)
    BY <2>2 DEF E
  <2>4. Seen(known, line) = R
    BY <1>2 DEF Seen, new
  <2> HIDE DEF R
  <2>5. Len(R) \in DOMAIN R /\ \A i \in DOMAIN R : i = Len(R) \/ i \in DOMAIN known
    BY <2>2, <2>3
  <2>6. OneEach(known) => OneEach(R)
    BY <1>2, <2>1, <2>2, <2>3, <2>5 DEF OneEach
  <2>7. \A i \in DOMAIN known : i \in DOMAIN R /\ R[i] = known[i]
    BY <2>2, <2>3
  <2> QED
    BY <2>1, <2>2, <2>4, <2>5, <2>6, <2>7 DEF E
<1> QED
  BY <1>1, <1>2

\* A request line leaves one entry for each consumer.
LEMMA RequestKnown ==
  ASSUME NEW W, NEW RP, NEW DP, NEW known \in Seq(KnownConsumer(W, RP, DP)),
         NEW line, line.who \in W, RequestPrefix(line) \in RP
  PROVE  LET R == UpdateRequest(known, line)
         IN  /\ R \in Seq(KnownConsumer(W, RP, DP))
             /\ OneEach(known) => OneEach(R)
             /\ (\A i \in DOMAIN known : known[i].provides = <<>>)
                  => \A i \in DOMAIN R : R[i].provides = <<>>
<1> DEFINE E == KnownConsumer(W, RP, DP)
           seen == Seen(known, line)
           r == RequestPrefix(line)
           R == [i \in DOMAIN seen |->
                   IF seen[i].name # line.who THEN seen[i]
                   ELSE [seen[i] EXCEPT !.requests = Append(@, r)]]
<1>1. UpdateRequest(known, line) = R
  BY DEF UpdateRequest
<1>2. /\ seen \in Seq(E)
      /\ OneEach(known) => OneEach(seen)
      /\ (\A i \in DOMAIN known : known[i].provides = <<>>)
           => \A i \in DOMAIN seen : seen[i].provides = <<>>
  BY SeenOnce
<1> HIDE DEF seen, r, E
<1>3. DOMAIN seen = 1 .. Len(seen) /\ Len(seen) \in Nat /\ \A i \in DOMAIN seen : seen[i] \in E
  BY <1>2
<1>4. ASSUME NEW i \in DOMAIN seen
      PROVE  R[i] \in E /\ R[i].name = seen[i].name /\ R[i].provides = seen[i].provides
  <2>1. seen[i] \in E /\ r \in RP
    BY <1>3 DEF r
  <2>2. Append(seen[i].requests, r) \in Seq(RP)
    BY <2>1 DEF KnownConsumer, E
  <2> QED
    BY <2>1, <2>2 DEF KnownConsumer, E
<1>5. DOMAIN R = DOMAIN seen /\ R \in Seq(E)
  <2>1. R = [i \in 1 .. Len(seen) |-> R[i]]
    BY <1>3
  <2> HIDE DEF R
  <2> QED
    BY <1>3, <1>4, <2>1
<1> HIDE DEF R
<1>6. OneEach(seen) => OneEach(R)
  BY <1>4, <1>5 DEF OneEach
<1> QED
  BY <1>1, <1>2, <1>4, <1>5, <1>6 DEF E

\* What a consumer is known to provide is what the first k lines say it provides.
Provided(known, lines, k) ==
  /\ OneEach(known)
  /\ \A i \in DOMAIN known : \A x \in DOMAIN known[i].provides :
       \E y \in 1 .. k : /\ lines[y].who = known[i].name
                         /\ known[i].provides[x] = DataPrefix(lines[y].data)
  /\ \A y \in 1 .. k : \E i \in DOMAIN known :
       /\ known[i].name = lines[y].who
       /\ \E x \in DOMAIN known[i].provides : known[i].provides[x] = DataPrefix(lines[y].data)

\* A data line is remembered at its consumer, and earlier ones are kept.
LEMMA DataKnown ==
  ASSUME NEW W, NEW RP, NEW DP, NEW known \in Seq(KnownConsumer(W, RP, DP)),
         NEW line, line.who \in W, DataPrefix(line.data) \in DP
  PROVE  LET R == UpdateData(known, line)
         IN  /\ R \in Seq(KnownConsumer(W, RP, DP))
             /\ \A lines : \A k \in Nat :
                  Provided(known, lines, k) /\ lines[k + 1] = line => Provided(R, lines, k + 1)
<1> DEFINE E == KnownConsumer(W, RP, DP)
           seen == Seen(known, line)
           d == DataPrefix(line.data)
           R == [i \in DOMAIN seen |->
                   IF seen[i].name # line.who THEN seen[i]
                   ELSE [seen[i] EXCEPT !.provides = Append(@, d)]]
<1>1. UpdateData(known, line) = R
  BY DEF UpdateData
<1>2. /\ seen \in Seq(E)
      /\ OneEach(known) => OneEach(seen)
      /\ \E i \in DOMAIN seen : seen[i].name = line.who
      /\ \A i \in DOMAIN known : i \in DOMAIN seen /\ seen[i] = known[i]
      /\ \A i \in DOMAIN seen : i \in DOMAIN known \/ seen[i].provides = <<>>
  <2> HIDE DEF R, d
  <2>1. /\ seen \in Seq(E)
        /\ OneEach(known) => OneEach(seen)
    BY SeenOnce
  <2>2. \E i \in DOMAIN seen : seen[i].name = line.who
    BY SeenOnce
  <2>3. /\ \A i \in DOMAIN known : i \in DOMAIN seen /\ seen[i] = known[i]
        /\ \A i \in DOMAIN seen : i \in DOMAIN known \/ seen[i].provides = <<>>
    BY SeenOnce
  <2> QED
    BY <2>1, <2>2, <2>3
<1>3. d \in DP
  OBVIOUS
<1> HIDE DEF seen, E
<1>4. DOMAIN seen = 1 .. Len(seen) /\ Len(seen) \in Nat /\ \A i \in DOMAIN seen : seen[i] \in E
  BY <1>2
<1> DEFINE P(i) == R[i].provides
           Q(i) == seen[i].provides
<1> HIDE DEF d
<1>5. ASSUME NEW i \in DOMAIN seen
      PROVE  /\ R[i] \in E /\ R[i].name = seen[i].name
             /\ DOMAIN Q(i) = 1 .. Len(Q(i)) /\ Len(Q(i)) \in Nat
             /\ \A x \in DOMAIN Q(i) : x \in DOMAIN P(i) /\ P(i)[x] = Q(i)[x]
             /\ seen[i].name # line.who => P(i) = Q(i)
             /\ seen[i].name = line.who =>
                  /\ \E x \in DOMAIN P(i) : P(i)[x] = d
                  /\ \A x \in DOMAIN P(i) : x \in DOMAIN Q(i) \/ P(i)[x] = d
  <2>1. seen[i] \in E /\ seen[i].provides \in Seq(DP)
    BY <1>4 DEF KnownConsumer, E
  <2> DEFINE q == Q(i)
             a == Append(q, d)
  <2>2. /\ a \in Seq(DP) /\ Len(a) = Len(q) + 1 /\ Len(q) \in Nat /\ a[Len(a)] = d
        /\ \A x \in 1 .. Len(q) : a[x] = q[x]
    BY <1>3, <2>1
  <2>3. DOMAIN a = 1 .. Len(a) /\ DOMAIN q = 1 .. Len(q)
    BY <2>1, <2>2
  <2>4. R[i] = IF seen[i].name # line.who THEN seen[i] ELSE [seen[i] EXCEPT !.provides = a]
    OBVIOUS
  <2> HIDE DEF a, R
  <2>5. /\ R[i] \in E /\ R[i].name = seen[i].name
        /\ P(i) = IF seen[i].name # line.who THEN q ELSE a
    BY <2>1, <2>2, <2>4 DEF KnownConsumer, E
  <2> HIDE DEF P, q
  <2>6. /\ \E x \in DOMAIN a : a[x] = d
        /\ \A x \in DOMAIN a : x \in DOMAIN q \/ a[x] = d
        /\ \A x \in DOMAIN q : x \in DOMAIN a /\ a[x] = q[x]
    BY <2>2, <2>3
  <2> QED
    BY <2>2, <2>3, <2>5, <2>6 DEF q
<1>6. DOMAIN R = DOMAIN seen /\ R \in Seq(E)
  <2> HIDE DEF P, Q
  <2>1. R = [i \in 1 .. Len(seen) |-> R[i]]
    BY <1>4
  <2> HIDE DEF R
  <2> QED
    BY <1>4, <1>5, <2>1
<1> HIDE DEF R
<1>7. ASSUME NEW lines, NEW k \in Nat, Provided(known, lines, k), lines[k + 1] = line
      PROVE  Provided(R, lines, k + 1)
  <2>1. k + 1 \in 1 .. k + 1 /\ \A y \in 1 .. k : y \in 1 .. k + 1
    OBVIOUS
  <2>2. \A y \in 1 .. k + 1 : y = k + 1 \/ y \in 1 .. k
    OBVIOUS
  <2>3. OneEach(R)
    <3>1. OneEach(seen)
      BY <1>2, <1>7 DEF Provided
    <3> QED
      BY <3>1, <1>5, <1>6 DEF OneEach
  <2>4. ASSUME NEW i \in DOMAIN R, NEW x \in DOMAIN R[i].provides
        PROVE  \E y \in 1 .. k + 1 : /\ lines[y].who = R[i].name
                                     /\ R[i].provides[x] = DataPrefix(lines[y].data)
    <3>1. i \in DOMAIN seen /\ R[i].name = seen[i].name
      BY <1>5, <1>6
    <3>2. CASE R[i].provides[x] = d /\ seen[i].name = line.who
      BY <3>1, <3>2, <1>7, <2>1 DEF d
    <3>3. CASE x \in DOMAIN seen[i].provides
      <4>1. R[i].provides[x] = seen[i].provides[x]
        BY <3>1, <3>3, <1>5
      <4>2. i \in DOMAIN known
        BY <3>1, <3>3, <1>2
      <4>3. seen[i] = known[i]
        BY <4>2, <1>2
      <4>4. PICK y \in 1 .. k : /\ lines[y].who = known[i].name
                                /\ known[i].provides[x] = DataPrefix(lines[y].data)
        BY <3>3, <4>2, <4>3, <1>7 DEF Provided
      <4> QED
        BY <3>1, <4>1, <4>3, <4>4, <2>1
    <3> QED
      BY <3>1, <3>2, <3>3, <1>5
  <2>5. ASSUME NEW y \in 1 .. k + 1
        PROVE  \E i \in DOMAIN R :
                 /\ R[i].name = lines[y].who
                 /\ \E x \in DOMAIN R[i].provides : R[i].provides[x] = DataPrefix(lines[y].data)
    <3>1. CASE y = k + 1
      <4>1. PICK i \in DOMAIN seen : seen[i].name = line.who
        BY <1>2
      <4>2. \E x \in DOMAIN R[i].provides : R[i].provides[x] = d
        BY <4>1, <1>5
      <4> QED
        BY <3>1, <4>1, <4>2, <1>5, <1>6, <1>7 DEF d
    <3>2. CASE y \in 1 .. k
      <4>1. PICK i \in DOMAIN known : /\ known[i].name = lines[y].who
                                       /\ \E x \in DOMAIN known[i].provides :
                                            known[i].provides[x] = DataPrefix(lines[y].data)
        BY <3>2, <1>7 DEF Provided
      <4>2. i \in DOMAIN seen /\ seen[i] = known[i]
        BY <4>1, <1>2
      <4>3. \A x \in DOMAIN known[i].provides :
              x \in DOMAIN R[i].provides /\ R[i].provides[x] = known[i].provides[x]
        BY <4>2, <1>5
      <4>4. R[i].name = lines[y].who /\ i \in DOMAIN R
        BY <4>1, <4>2, <1>5, <1>6
      <4> QED
        BY <4>1, <4>3, <4>4
    <3> QED
      BY <3>1, <3>2, <2>2
  <2> QED
    BY <2>3, <2>4, <2>5 DEF Provided
<1> QED
  BY <1>1, <1>6, <1>7 DEF E

AskSteps(g, X, start, lines) ==
  /\ g \in [0 .. Len(lines) -> X] /\ g[0] = start
  /\ \A k \in 1 .. Len(lines) : g[k] = UpdateRequest(g[k - 1], lines[k])
  /\ g[Len(lines)] = AfterLines(UpdateRequest, start, lines)

\* The parser reads the consumer section line by line.
LEMMA RequestInfoSteps ==
  ASSUME NEW W, NEW RP, NEW DP, NEW start \in Seq(KnownConsumer(W, RP, DP)),
         NEW lines, IsSeq(lines), \A k \in DOMAIN lines : lines[k].who \in W /\ RequestPrefix(lines[k]) \in RP
  PROVE  \E g : AskSteps(g, Seq(KnownConsumer(W, RP, DP)), start, lines)
<1> DEFINE n == Len(lines)
           X == Seq(KnownConsumer(W, RP, DP))
           op == [z \in X \X (1 .. n) |-> UpdateRequest(z[1], lines[z[2]])]
           after[k \in 0 .. n] == IF k = 0 THEN start ELSE UpdateRequest(after[k - 1], lines[k])
<1>1. n \in Nat /\ \A k \in 1 .. n : lines[k].who \in W /\ RequestPrefix(lines[k]) \in RP
  BY DEF IsSeq
<1>2. op \in [X \X (1 .. n) -> X] /\ \A x \in X, k \in 1 .. n : op[<<x, k>>] = UpdateRequest(x, lines[k])
  <2>1. \A x \in X, k \in 1 .. n : UpdateRequest(x, lines[k]) \in X
    BY <1>1, RequestKnown
  <2> HIDE DEF X, n
  <2> QED
    BY <2>1
<1> HIDE DEF n, X, op
<1>3. PICK h : Steps(h, X, start, n, op)
  <2>1. start \in X /\ n \in Nat /\ op \in [X \X (1 .. n) -> X]
    BY <1>1, <1>2 DEF X
  <2> QED
    BY <2>1, StepsExist
<1>4. \A k \in 1 .. n : k - 1 \in 0 .. n /\ h[k] = UpdateRequest(h[k - 1], lines[k])
  <2> TAKE k \in 1 .. n
  <2>1. k - 1 \in 0 .. n /\ h[k - 1] \in X /\ h[k] = op[<<h[k - 1], k>>]
    BY <1>1, <1>3 DEF Steps
  <2> QED
    BY <2>1, <1>2
<1>5. h = [k \in 0 .. n |-> IF k = 0 THEN start ELSE UpdateRequest(h[k - 1], lines[k])]
  <2>1. \A k \in 0 .. n : k = 0 \/ k \in 1 .. n
    BY <1>1
  <2> QED
    BY <2>1, <1>3, <1>4 DEF Steps
<1>6. after = [k \in 0 .. n |-> IF k = 0 THEN start ELSE UpdateRequest(after[k - 1], lines[k])]
  BY <1>5
<1>7. AfterLines(UpdateRequest, start, lines) = after[n]
  BY DEF AfterLines, n
<1> HIDE DEF after
<1> DEFINE S == {k \in 0 .. n : after[k] = h[k]}
<1>8. 0 \in S
  BY <1>1, <1>3, <1>6 DEF Steps
<1>9. ASSUME NEW k \in 1 .. n, k - 1 \in S PROVE k \in S
  <2>1. k \in 0 .. n /\ k # 0 /\ after[k] = UpdateRequest(after[k - 1], lines[k])
    BY <1>1, <1>6
  <2> QED
    BY <2>1, <1>4, <1>9
<1> HIDE DEF S
<1>10. 0 .. n \subseteq S
  BY <1>1, <1>8, <1>9, LineInduction
<1>11. after[n] = h[n]
  BY <1>1, <1>10 DEF S
<1> QED
  BY <1>3, <1>4, <1>7, <1>11 DEF Steps, AskSteps, n, X

ProvideSteps(g, X, start, lines) ==
  /\ g \in [0 .. Len(lines) -> X] /\ g[0] = start
  /\ \A k \in 1 .. Len(lines) : g[k] = UpdateData(g[k - 1], lines[k])
  /\ g[Len(lines)] = AfterLines(UpdateData, start, lines)

\* The parser reads the data section line by line.
LEMMA DataInfoSteps ==
  ASSUME NEW W, NEW RP, NEW DP, NEW start \in Seq(KnownConsumer(W, RP, DP)),
         NEW lines, IsSeq(lines), \A k \in DOMAIN lines : lines[k].who \in W /\ DataPrefix(lines[k].data) \in DP
  PROVE  \E g : ProvideSteps(g, Seq(KnownConsumer(W, RP, DP)), start, lines)
<1> DEFINE n == Len(lines)
           X == Seq(KnownConsumer(W, RP, DP))
           op == [z \in X \X (1 .. n) |-> UpdateData(z[1], lines[z[2]])]
           after[k \in 0 .. n] == IF k = 0 THEN start ELSE UpdateData(after[k - 1], lines[k])
<1>1. n \in Nat /\ \A k \in 1 .. n : lines[k].who \in W /\ DataPrefix(lines[k].data) \in DP
  BY DEF IsSeq
<1>2. op \in [X \X (1 .. n) -> X] /\ \A x \in X, k \in 1 .. n : op[<<x, k>>] = UpdateData(x, lines[k])
  <2>1. \A x \in X, k \in 1 .. n : UpdateData(x, lines[k]) \in X
    BY <1>1, DataKnown
  <2> HIDE DEF X, n
  <2> QED
    BY <2>1
<1> HIDE DEF n, X, op
<1>3. PICK h : Steps(h, X, start, n, op)
  <2>1. start \in X /\ n \in Nat /\ op \in [X \X (1 .. n) -> X]
    BY <1>1, <1>2 DEF X
  <2> QED
    BY <2>1, StepsExist
<1>4. \A k \in 1 .. n : k - 1 \in 0 .. n /\ h[k] = UpdateData(h[k - 1], lines[k])
  <2> TAKE k \in 1 .. n
  <2>1. k - 1 \in 0 .. n /\ h[k - 1] \in X /\ h[k] = op[<<h[k - 1], k>>]
    BY <1>1, <1>3 DEF Steps
  <2> QED
    BY <2>1, <1>2
<1>5. h = [k \in 0 .. n |-> IF k = 0 THEN start ELSE UpdateData(h[k - 1], lines[k])]
  <2>1. \A k \in 0 .. n : k = 0 \/ k \in 1 .. n
    BY <1>1
  <2> QED
    BY <2>1, <1>3, <1>4 DEF Steps
<1>6. after = [k \in 0 .. n |-> IF k = 0 THEN start ELSE UpdateData(after[k - 1], lines[k])]
  BY <1>5
<1>7. AfterLines(UpdateData, start, lines) = after[n]
  BY DEF AfterLines, n
<1> HIDE DEF after
<1> DEFINE S == {k \in 0 .. n : after[k] = h[k]}
<1>8. 0 \in S
  BY <1>1, <1>3, <1>6 DEF Steps
<1>9. ASSUME NEW k \in 1 .. n, k - 1 \in S PROVE k \in S
  <2>1. k \in 0 .. n /\ k # 0 /\ after[k] = UpdateData(after[k - 1], lines[k])
    BY <1>1, <1>6
  <2> QED
    BY <2>1, <1>4, <1>9
<1> HIDE DEF S
<1>10. 0 .. n \subseteq S
  BY <1>1, <1>8, <1>9, LineInduction
<1>11. after[n] = h[n]
  BY <1>1, <1>10 DEF S
<1> QED
  BY <1>3, <1>4, <1>7, <1>11 DEF Steps, ProvideSteps, n, X

\* Afterwards there is one entry for each consumer that asks or provides, with
\* what the lines say it asks and provides.
LEMMA ConsumersKnown ==
  ASSUME NEW W, NEW RP, NEW DP,
         NEW requests, IsSeq(requests), NEW data, IsSeq(data),
         \A k \in DOMAIN requests : requests[k].who \in W /\ RequestPrefix(requests[k]) \in RP,
         \A k \in DOMAIN data : data[k].who \in W /\ DataPrefix(data[k].data) \in DP
  PROVE  LET R == UpdateConsumerInfo(requests, data)
         IN  R \in Seq(KnownConsumer(W, RP, DP)) /\ Provided(R, data, Len(data))
<1> DEFINE X == Seq(KnownConsumer(W, RP, DP))
           asking == AfterLines(UpdateRequest, <<>>, requests)
           R == AfterLines(UpdateData, asking, data)
           n == Len(requests)
           m == Len(data)
<1>1. n \in Nat /\ m \in Nat /\ DOMAIN requests = 1 .. n /\ DOMAIN data = 1 .. m
  BY DEF IsSeq
<1>2. UpdateConsumerInfo(requests, data) = R
  BY DEF UpdateConsumerInfo
<1>3. <<>> \in X
  OBVIOUS
<1>4. PICK g : AskSteps(g, X, <<>>, requests)
  BY <1>3, RequestInfoSteps
<1>4a. /\ g \in [0 .. n -> X] /\ g[0] = <<>> /\ g[n] = asking
       /\ \A k \in 1 .. n : g[k] = UpdateRequest(g[k - 1], requests[k])
  BY <1>4 DEF AskSteps
<1>5. asking \in X
  BY <1>1, <1>4a
<1> DEFINE Clear(known) == OneEach(known) /\ \A i \in DOMAIN known : known[i].provides = <<>>
           S == {k \in 0 .. n : Clear(g[k])}
<1> HIDE DEF asking, n, m, R
<1>6. 0 \in S
  BY <1>1, <1>4a DEF OneEach
<1>7. ASSUME NEW k \in 1 .. n, k - 1 \in S PROVE k \in S
  <2> DEFINE known == g[k - 1]
             line == requests[k]
             new == UpdateRequest(known, line)
  <2>1. known \in X /\ line.who \in W /\ RequestPrefix(line) \in RP /\ g[k] = new
        /\ Clear(known) /\ k \in 0 .. n
    <3>1. k - 1 \in 0 .. n /\ k \in DOMAIN requests
      BY <1>1
    <3> HIDE DEF X, Clear
    <3> QED
      BY <3>1, <1>4a, <1>7
  <2> HIDE DEF known, line
  <2>2. Clear(new)
    BY <2>1, RequestKnown
  <2> QED
    BY <2>1, <2>2
<1> HIDE DEF S
<1>8. Clear(asking)
  <2>1. 0 .. n \subseteq S
    BY <1>1, <1>6, <1>7, LineInduction
  <2>2. n \in S
    BY <1>1, <2>1
  <2> QED
    BY <2>2, <1>4a DEF S
<1>9. Provided(asking, data, 0)
  BY <1>8 DEF Provided
<1>10a. PICK h : ProvideSteps(h, X, asking, data)
  BY <1>5, DataInfoSteps
<1>10. /\ h \in [0 .. m -> X] /\ h[0] = asking /\ h[m] = R
       /\ \A k \in 1 .. m : h[k] = UpdateData(h[k - 1], data[k])
  BY <1>10a DEF ProvideSteps, m, R
<1> DEFINE T == {k \in 0 .. m : Provided(h[k], data, k)}
<1>11. 0 \in T
  BY <1>1, <1>9, <1>10
<1>12. ASSUME NEW k \in 1 .. m, k - 1 \in T PROVE k \in T
  <2> DEFINE known == h[k - 1]
             line == data[k]
             new == UpdateData(known, line)
             l == k - 1
  <2>1. /\ known \in X /\ line.who \in W /\ DataPrefix(line.data) \in DP /\ h[k] = new
        /\ Provided(known, data, l) /\ k \in 0 .. m /\ l \in Nat /\ l + 1 = k
    <3>1. k - 1 \in 0 .. m /\ k \in DOMAIN data
      BY <1>1
    <3> HIDE DEF X
    <3> QED
      BY <3>1, <1>1, <1>10, <1>12
  <2>2. data[l + 1] = line
    BY <2>1
  <2> HIDE DEF known, line, l
  <2>2a. Provided(known, data, l) /\ data[l + 1] = line => Provided(new, data, l + 1)
    BY <2>1, DataKnown
  <2>3. Provided(new, data, l + 1)
    BY <2>1, <2>2, <2>2a
  <2> QED
    BY <2>1, <2>3
<1> HIDE DEF T
<1>13. Provided(R, data, m)
  <2>1. 0 .. m \subseteq T
    BY <1>1, <1>11, <1>12, LineInduction
  <2>2. m \in T
    BY <1>1, <2>1
  <2> QED
    BY <2>2, <1>10 DEF T
<1>14. R \in X
  BY <1>1, <1>10
<1> QED
  BY <1>2, <1>13, <1>14 DEF m

\* There are no more entries than consumers.
LEMMA NoMoreThanAll ==
  ASSUME NEW c \in Nat, NEW RP, NEW DP,
         NEW known \in Seq(KnownConsumer({Consumer(j) : j \in 0 .. c - 1}, RP, DP)), OneEach(known)
  PROVE  Len(known) <= c /\ Len(known) \in Nat
<1> DEFINE n == Len(known)
           f == [i \in 1 .. n |-> known[i].name[2]]
<1>1. n \in Nat /\ DOMAIN known = 1 .. n
  OBVIOUS
<1>2. \A i \in 1 .. n : f[i] \in 0 .. c - 1 /\ known[i].name = Consumer(f[i])
  <2> TAKE i \in 1 .. n
  <2>1. known[i].name \in {Consumer(j) : j \in 0 .. c - 1}
    <3>1. known[i] \in KnownConsumer({Consumer(j) : j \in 0 .. c - 1}, RP, DP)
      BY <1>1
    <3> QED
      BY <3>1 DEF KnownConsumer
  <2>2. PICK j \in 0 .. c - 1 : known[i].name = Consumer(j)
    BY <2>1
  <2>3. Consumer(j)[2] = j
    BY DEF Consumer
  <2> QED
    BY <2>2, <2>3
<1>3. f \in [1 .. n -> 0 .. c - 1]
  <2>1. f = [i \in 1 .. n |-> f[i]]
    OBVIOUS
  <2> HIDE DEF f
  <2> QED
    BY <1>2, <2>1
<1> HIDE DEF f, n
<1>4. f \in Injection(1 .. n, 0 .. c - 1)
  BY <1>1, <1>2, <1>3 DEF OneEach, Injection, IsInjective
<1>5. IsFiniteSet(0 .. c - 1) /\ Cardinality(0 .. c - 1) = c
  <2>1. 0 \in Int /\ c - 1 \in Int /\ (IF 0 > c - 1 THEN 0 ELSE c - 1 - 0 + 1) = c
    OBVIOUS
  <2> QED
    BY <2>1, FS_Interval
<1>6. Cardinality(1 .. n) = n
  BY <1>1, FS_Interval
<1>7. Cardinality(1 .. n) <= Cardinality(0 .. c - 1)
  BY <1>4, <1>5, FS_Injection
<1> QED
  BY <1>1, <1>5, <1>6, <1>7 DEF n

-----------------------------------------------------------------------------
(* What holds at which stage.                                              *)

\* The stages before the functions, the file, the nodes, the links, the functions,
\* the requests are done with, before the parser is, and before the functions are
\* set up.
Drawing         == {"routers", "links", "functions"}
Writing         == Drawing \union {"bursts", "others", "data"}
NodesToRead     == Writing \union {"readNodes"}
LinksToRead     == NodesToRead \union {"readLinks"}
FunctionsToRead == LinksToRead \union {"readFunctions"}
RequestsToRead  == FunctionsToRead \union {"readRequests"}
Reading         == RequestsToRead \union {"parse"}
SettingUp       == Reading \union {"setUp"}
AllStages       == SettingUp \union {"bootstrap", "consumers", "producers", "dataProducers",
                                     "polls", "origins", "run"}

\* A line of the consumer section is one that may be drawn.
RequestOK(line) ==
  /\ \E j \in 0 .. p.consumers - 1 : line.who = Consumer(j)
  /\ line.func \in 0 .. p.funcs - 1
  /\ line.inputs \in InputLists(drawn.inputs[line.func + 1], p.data)

FileInv ==
  /\ p \in Settings /\ stage \in AllStages
  /\ DOMAIN drawn = {"inputs", "provided", "bursts"}
  /\ DOMAIN file = {"routers", "links", "functions", "status", "requests", "data"}
  /\ IF stage \in Writing \ {"others", "data"}
     THEN drawn.bursts \in 0 .. 2 ELSE drawn.bursts = 3
  /\ stage # "routers" => file.routers = RouterSection(p)
  /\ stage \notin {"routers", "links"} => file.links = LinkSection(p)
  /\ IF stage \in Drawing
     THEN file.requests = <<>>
     ELSE /\ drawn.inputs \in FuncLists(p) /\ drawn.provided \in ProvidedData(p)
          /\ file.functions = FunctionSection(drawn.inputs)
          /\ file.status = StatusSection(drawn.inputs)
          /\ IsSeq(file.requests) /\ \A k \in DOMAIN file.requests : RequestOK(file.requests[k])
  /\ stage \notin Writing => file.data = DataSection(p, drawn.provided)

\* The functions of the nodes, as read: their names and inputs, and where they are.
FunctionsBuilt ==
  /\ net.functions \in [1 .. p.funcs -> FunctionRead]
  /\ \A i \in 1 .. p.funcs :
       net.functions[i].name = i - 1 /\ net.functions[i].params = drawn.inputs[i]
  /\ DOMAIN net.status = {ComputeNode(0)}
  /\ IsSeq(net.status[ComputeNode(0)]) /\ DOMAIN net.status[ComputeNode(0)] = 1 .. p.funcs
  /\ \A k \in 1 .. p.funcs : net.status[ComputeNode(0)][k] = k - 1

\* Every copy of a function lists the inputs that are asked for.
CopiesBuilt ==
  /\ \A i \in 1 .. p.funcs : \A l \in DOMAIN file.requests :
       file.requests[l].func = i - 1 =>
         \A k \in DOMAIN file.requests[l].inputs :
           Found(file.requests[l].inputs[k], net.functions[i].inputs)
  /\ net.nodes[1].functions = <<>>
  /\ \A i \in 2 .. Computes(p) : net.nodes[i].functions = net.functions

NetInv ==
  /\ DOMAIN net = {"nodes", "consumers", "links", "functions", "status"}
  /\ IF stage \in NodesToRead
     THEN net.nodes = <<>> /\ net.consumers = <<>>
     ELSE /\ NodesBuilt /\ IsSeq(net.nodes) /\ Len(net.nodes) = Computes(p)
          /\ \A i \in 1 .. Computes(p) :
               DOMAIN net.nodes[i] = {"name", "tier", "functions", "enabled"}
          /\ stage \in RequestsToRead => \A i \in 1 .. Computes(p) : net.nodes[i].functions = <<>>
          /\ \A i \in 1 .. Computes(p) :
               net.nodes[i].enabled = IF i = 2 /\ stage \notin SettingUp THEN 0 .. p.funcs - 1 ELSE {}
  /\ stage \notin LinksToRead => net.links = LinkSection(p)
  /\ stage \notin FunctionsToRead => FunctionsBuilt
  /\ stage \notin RequestsToRead => CopiesBuilt

\* What the parser knows.
ComputesKnown ==
  /\ DOMAIN info.compute = 1 .. Computes(p) /\ Len(info.compute) = Computes(p)
  /\ \A i \in 1 .. Computes(p) :
       /\ DOMAIN info.compute[i] = {"name", "prefix", "functions"}
       /\ info.compute[i].prefix = NodePrefix(NodeName(i))
       /\ i = 1 \/ stage \in SettingUp => info.compute[i].functions = <<>>

Known == KnownConsumer({Consumer(j) : j \in 0 .. p.consumers - 1},
                       {RequestPrefix(file.requests[l]) : l \in DOMAIN file.requests},
                       {DataPrefix(a) : a \in 0 .. p.data})

AllConsumersKnown ==
  /\ info.consumers \in Seq(Known) /\ DOMAIN info.consumers = 1 .. p.consumers
  /\ Provided(info.consumers, file.data, Len(file.data))

\* What is served on a node: with the first entry for any function, then the
\* functions that start there.
ServedFunctions(i, list) ==
  /\ IsSeq(list) /\ DOMAIN list = IF i = 2 THEN 1 .. p.funcs + 1 ELSE 1 .. 1
  /\ list[1] = LambdaPrefix
  /\ i = 2 => \A k \in 1 .. p.funcs : list[k + 1] = FunctionPrefix(k - 1)

InfoInv ==
  /\ DOMAIN info = {"compute", "consumers"}
  /\ IF stage \in Reading
     THEN info.compute = <<>> /\ info.consumers = <<>>
     ELSE ComputesKnown /\ AllConsumersKnown
  /\ stage \notin SettingUp =>
       \A i \in 2 .. Computes(p) : ServedFunctions(i, info.compute[i].functions)

\* What an application on node n is for.
AppOK(n, a) ==
  /\ a.type = "consumer" => \E l \in DOMAIN file.requests : a.prefix = RequestPrefix(file.requests[l])
  /\ a.type \in {"bootstrap", "poll"} =>
       /\ n = Orchestrator /\ p.orch
       /\ \E i \in 3 .. Computes(p) : a.prefix = NodePrefix(NodeName(i))
  /\ a.type = "bootstrap" => a.at = 1
  /\ a.type = "poll" => a.at = 10
  /\ a.type = "management" => a.at = 12

Among(list, type, prefix) == \E j \in DOMAIN list : list[j].type = type /\ list[j].prefix = prefix

Installed(n, type, prefix) == Among(apps[n], type, prefix)

\* The applications a node needs that obeys the orchestrator.
Obeying(i) ==
  /\ Installed(NodeName(i), "node", NodePrefix(NodeName(i)))
  /\ Installed(Orchestrator, "bootstrap", NodePrefix(NodeName(i)))

AppsInv ==
  /\ IF stage \in RequestsToRead THEN apps = <<>>
     ELSE /\ DOMAIN apps = AllNames(p)
          /\ \A n \in AllNames(p) : IsSeq(apps[n]) /\ \A j \in DOMAIN apps[n] : AppOK(n, apps[n][j])
  /\ p.orch /\ stage \notin SettingUp \union {"bootstrap"} => \A i \in 3 .. Computes(p) : Obeying(i)
  /\ stage \in {"dataProducers", "polls", "origins", "run"} =>
       /\ \A f \in 0 .. p.funcs - 1 : Installed(NodeName(2), "nfnProducer", FunctionPrefix(f))
       /\ \A i \in 2 .. Computes(p) : Installed(NodeName(i), "nfnProducer", LambdaPrefix)
  /\ stage \in {"polls", "origins", "run"} =>
       \A t \in 1 .. p.consumers : \A x \in DOMAIN info.consumers[t].provides :
         Installed(Consumer(t - 1), "dataProducer", info.consumers[t].provides[x])

OriginsInv ==
  stage = "run" => origins = NodeOrigins \union FunctionOrigins \union DataOrigins

ScenarioInv == FileInv /\ NetInv /\ InfoInv /\ AppsInv /\ OriginsInv

-----------------------------------------------------------------------------
(* The file is written.                                                    *)

\* On the command line nothing is written, read or installed.
LEMMA InitInv ==
  Init => ScenarioInv
<1> SUFFICES ASSUME Init PROVE ScenarioInv
  OBVIOUS
<1>1. /\ p \in Settings /\ stage = "routers" /\ file = EmptyFile /\ net = EmptyNet /\ apps = <<>>
      /\ drawn = [inputs |-> <<>>, provided |-> <<>>, bursts |-> 0]
      /\ info = [compute |-> <<>>, consumers |-> <<>>]
  BY DEF Init
<1>2. FileInv
  BY <1>1 DEF FileInv, EmptyFile, Drawing, Writing, AllStages, SettingUp, Reading, RequestsToRead,
     FunctionsToRead, LinksToRead, NodesToRead
<1>3. NetInv
  BY <1>1 DEF NetInv, EmptyNet, Drawing, Writing, SettingUp, Reading, RequestsToRead,
     FunctionsToRead, LinksToRead, NodesToRead
<1>4. InfoInv
  BY <1>1 DEF InfoInv, Drawing, Writing, SettingUp, Reading, RequestsToRead,
     FunctionsToRead, LinksToRead, NodesToRead
<1>5. AppsInv /\ OriginsInv
  BY <1>1 DEF AppsInv, OriginsInv, Drawing, Writing, SettingUp, Reading, RequestsToRead,
     FunctionsToRead, LinksToRead, NodesToRead
<1> QED
  BY <1>2, <1>3, <1>4, <1>5 DEF ScenarioInv

\* While the file is written nothing is read of it.
LEMMA NothingRead ==
  ASSUME ScenarioInv, stage \in Writing, stage' \in NodesToRead, UNCHANGED <<net, info, apps>>
  PROVE  NetInv' /\ InfoInv' /\ AppsInv' /\ OriginsInv'
<1>1. /\ stage \in NodesToRead
      /\ \A S \in {NodesToRead, LinksToRead, FunctionsToRead, RequestsToRead, Reading, SettingUp} :
           stage \in S /\ stage' \in S
      /\ stage' \notin {"bootstrap", "consumers", "producers", "dataProducers", "polls", "origins", "run"}
  BY DEF SettingUp, Reading, RequestsToRead, FunctionsToRead, LinksToRead, NodesToRead, Writing, Drawing
<1>2. NetInv'
  BY <1>1 DEF ScenarioInv, NetInv
<1>3. InfoInv'
  BY <1>1 DEF ScenarioInv, InfoInv
<1>4. AppsInv' /\ OriginsInv'
  BY <1>1 DEF ScenarioInv, AppsInv, OriginsInv
<1> QED
  BY <1>2, <1>3, <1>4

\* The generator writes the nodes and the links.
LEMMA RoutersLinksWritten ==
  ASSUME ScenarioInv, WriteRouters \/ WriteLinks
  PROVE  ScenarioInv'
<1>1. FileInv'
  <2>1. CASE WriteRouters
    BY <2>1 DEF ScenarioInv, FileInv, WriteRouters, At, Then, Drawing, Writing, AllStages, SettingUp,
       Reading, RequestsToRead, FunctionsToRead, LinksToRead, NodesToRead
  <2>2. CASE WriteLinks
    BY <2>2 DEF ScenarioInv, FileInv, WriteLinks, At, Then, Drawing, Writing, AllStages, SettingUp,
       Reading, RequestsToRead, FunctionsToRead, LinksToRead, NodesToRead
  <2> QED
    BY <2>1, <2>2
<1>2. stage \in Writing /\ stage' \in NodesToRead /\ UNCHANGED <<net, info, apps>>
  BY DEF WriteRouters, WriteLinks, At, Then, NodesToRead, Writing, Drawing
<1> QED
  BY <1>1, <1>2, NothingRead DEF ScenarioInv

\* The generator draws the inputs of the functions and what is provided.
LEMMA FunctionsWritten ==
  ASSUME ScenarioInv, WriteFunctions
  PROVE  ScenarioInv'
<1>1. PICK list \in FuncLists(p), provided \in ProvidedData(p) :
        /\ drawn' = [drawn EXCEPT !.inputs = list, !.provided = provided]
        /\ file' = [file EXCEPT !.functions = FunctionSection(list), !.status = StatusSection(list)]
  BY DEF WriteFunctions
<1>2. /\ drawn'.inputs = list /\ drawn'.provided = provided /\ drawn'.bursts = drawn.bursts
      /\ file'.functions = FunctionSection(list) /\ file'.status = StatusSection(list)
      /\ file'.requests = <<>> /\ file'.routers = file.routers /\ file'.links = file.links
      /\ DOMAIN drawn' = DOMAIN drawn /\ DOMAIN file' = DOMAIN file
  BY <1>1 DEF ScenarioInv, FileInv, WriteFunctions, At, Drawing
<1>3. p' = p /\ stage = "functions" /\ stage' = "bursts"
  BY DEF WriteFunctions, At, Then
<1>4. IsSeq(<<>>) /\ \A k \in DOMAIN <<>> : RequestOK(<<>>[k])'
  BY DEF IsSeq
<1>5. FileInv'
  BY <1>2, <1>3, <1>4 DEF ScenarioInv, FileInv, Drawing, Writing, AllStages, SettingUp,
     Reading, RequestsToRead, FunctionsToRead, LinksToRead, NodesToRead
<1>6. stage \in Writing /\ stage' \in NodesToRead /\ UNCHANGED <<net, info, apps>>
  BY DEF WriteFunctions, At, Then, NodesToRead, Writing, Drawing
<1> QED
  BY <1>5, <1>6, NothingRead DEF ScenarioInv

LinesOK == IsSeq(file.requests) /\ \A k \in DOMAIN file.requests : RequestOK(file.requests[k])

\* Whoever asks, what is written are lines that may be drawn.
LEMMA LinesWritten ==
  ASSUME FileInv, stage \notin Drawing, NEW who, IsSeq(who),
         \A i \in DOMAIN who : who[i] \in 0 .. p.consumers - 1,
         AskBy(who), p' = p, drawn'.inputs = drawn.inputs
  PROVE  /\ DOMAIN file' = DOMAIN file
         /\ \A x \in DOMAIN file : x # "requests" => file'[x] = file[x]
         /\ LinesOK'
<1>1. PICK d \in [DOMAIN who -> Drawable] :
        file' = [file EXCEPT !.requests =
                   @ \o [i \in DOMAIN who |-> RequestLine(who[i], d[i].func, d[i].inputs)]]
  BY DEF AskBy
<1> DEFINE more == [i \in DOMAIN who |-> RequestLine(who[i], d[i].func, d[i].inputs)]
           old == file.requests
           R == old \o more
<1>2. Len(who) \in Nat /\ DOMAIN who = 1 .. Len(who)
  BY DEF IsSeq
<1>3. IsSeq(more) /\ Len(more) = Len(who) /\ DOMAIN more = 1 .. Len(who)
  <2>1. more = [i \in 1 .. Len(who) |-> more[i]]
    BY <1>2
  <2> HIDE DEF more
  <2> QED
    BY <1>2, <2>1, FunctionIsSeq
<1>4. \A i \in 1 .. Len(who) : RequestOK(more[i])
  <2> TAKE i \in 1 .. Len(who)
  <2>1. /\ who[i] \in 0 .. p.consumers - 1 /\ d[i] \in Drawable
        /\ more[i] = RequestLine(who[i], d[i].func, d[i].inputs)
    BY <1>2
  <2>2. /\ d[i].func < p.funcs /\ d[i].inputs \in InputLists(drawn.inputs[d[i].func + 1], p.data)
        /\ d[i] \in Draws
    BY <2>1 DEF Drawable
  <2>3. d[i].func \in Nat
    BY <2>2, DrawsAssumption
  <2>4. d[i].func \in 0 .. p.funcs - 1
    BY <2>2, <2>3, SettingFacts DEF FileInv
  <2> QED
    BY <2>1, <2>2, <2>4 DEF RequestLine, RequestOK
<1>5. IsSeq(old) /\ \A k \in DOMAIN old : RequestOK(old[k])
  BY DEF FileInv
<1>6. file' = [file EXCEPT !.requests = R] /\ "requests" \in DOMAIN file
  BY <1>1 DEF FileInv
<1> HIDE DEF more, old
<1>7a. Joined(old, more, R) /\ Len(old) \in Nat
  BY <1>3, <1>5, Concat
<1>7. Joined(old, more, R) /\ Len(old) \in Nat /\ DOMAIN old = 1 .. Len(old)
  BY <1>5, <1>7a DEF IsSeq
<1> HIDE DEF R
<1>8. \A k \in DOMAIN R : RequestOK(R[k])
  <2> TAKE k \in DOMAIN R
  <2>1. k \in 1 .. Len(R) /\ (k \in 1 .. Len(old) \/ k > Len(old))
    BY <1>7 DEF Joined
  <2>2. CASE k \in 1 .. Len(old)
    BY <2>2, <1>5, <1>7 DEF Joined
  <2>3. CASE k > Len(old)
    BY <2>1, <2>3, <1>3, <1>4, <1>7 DEF Joined
  <2> QED
    BY <2>1, <2>2, <2>3
<1>10. file'.requests = R /\ IsSeq(R)
  BY <1>6, <1>7 DEF Joined
<1>11. LinesOK'
  BY <1>8, <1>10 DEF LinesOK, RequestOK
<1> QED
  BY <1>6, <1>11

\* The consumers of a burst are consumers.
LEMMA BurstTyped ==
  ASSUME NEW s \in Settings, NEW load \in LoadIndexes(s)
  PROVE  LET W == BurstConsumers(s, load)
         IN  IsSeq(W) /\ \A i \in DOMAIN W : W[i] \in 0 .. s.consumers - 1
<1> DEFINE j(i) == IF s.load THEN (i % Block(s)) + load * Block(s) ELSE i
           half == s.consumers \div 2
           list == [i \in 1 .. half |-> j(i - 1)]
           S == {i \in 1 .. half : j(i - 1) < s.consumers}
           W == BurstConsumers(s, load)
<1>1. W = Chosen(list, S)
  BY DEF BurstConsumers
<1>2. half \in Nat /\ s.consumers \in Nat
  BY SettingFacts, DivBounds
<1>3. load \in Nat
  BY <1>2, LoadUnitAssumption, DivBounds DEF LoadIndexes
<1>4. \A i \in 1 .. half : j(i - 1) \in Nat
  <2> TAKE i \in 1 .. half
  <2>1. i - 1 \in Nat /\ Block(s) \in Nat /\ Block(s) > 0
    BY <1>2, BlockFacts
  <2>2. (i - 1) % Block(s) \in Nat /\ load * Block(s) \in Nat
    BY <2>1, <1>3, MulMono
  <2> QED
    BY <2>1, <2>2
<1>5. \A i \in S : list[i] \in 0 .. s.consumers - 1
  BY <1>2, <1>4
<1> HIDE DEF list, W, half, j
<1>6. S \in SUBSET (1 .. half)
  OBVIOUS
<1> HIDE DEF S
<1>7. IsSeq(Chosen(list, S)) /\ From(Chosen(list, S), list, S)
  BY <1>2, <1>6, ChosenPlaces
<1> QED
  BY <1>1, <1>5, <1>7 DEF W, From

\* Each consumer asks for functions with inputs it may draw.
LEMMA RequestsWritten ==
  ASSUME ScenarioInv, WriteBurst \/ WriteOthers
  PROVE  ScenarioInv'
<1>1. p \in Settings /\ p.consumers \in Nat
  BY SettingFacts DEF ScenarioInv, FileInv
<1>2. PICK who : IsSeq(who) /\ (\A i \in DOMAIN who : who[i] \in 0 .. p.consumers - 1) /\ AskBy(who)
  <2>1. CASE WriteBurst
    BY <2>1, <1>1, BurstTyped DEF WriteBurst
  <2>2. CASE WriteOthers
    <3> DEFINE all == [i \in 1 .. p.consumers |-> i - 1]
               W == OtherConsumers(p)
    <3>1. IsSeq(all) /\ \A i \in DOMAIN all : all[i] \in 0 .. p.consumers - 1
      <4>1. all = [i \in 1 .. p.consumers |-> all[i]] /\ \A i \in DOMAIN all : all[i] \in 0 .. p.consumers - 1
        BY <1>1
      <4> HIDE DEF all
      <4> QED
        BY <4>1, <1>1, FunctionIsSeq
    <3>2. IsSeq(<<>>) /\ \A i \in DOMAIN <<>> : <<>>[i] \in 0 .. p.consumers - 1
      BY DEF IsSeq
    <3>3. W = all \/ W = <<>>
      BY DEF OtherConsumers
    <3>4. AskBy(W)
      BY <2>2 DEF WriteOthers
    <3> HIDE DEF all, W
    <3>5. IsSeq(W) /\ \A i \in DOMAIN W : W[i] \in 0 .. p.consumers - 1
      BY <3>1, <3>2, <3>3
    <3> QED
      BY <3>4, <3>5
  <2> QED
    BY <2>1, <2>2
<1>3. /\ p' = p /\ UNCHANGED <<net, info, apps>> /\ stage \in {"bursts", "others"}
      /\ stage' \in {"bursts", "others", "data"}
      /\ DOMAIN drawn' = DOMAIN drawn /\ drawn'.inputs = drawn.inputs /\ drawn'.provided = drawn.provided
      /\ IF stage' = "bursts" THEN drawn'.bursts \in 0 .. 2 ELSE drawn'.bursts = 3
  <2>1. CASE WriteBurst
    <3>1. /\ stage = "bursts" /\ drawn' = [drawn EXCEPT !.bursts = @ + 1]
          /\ stage' = IF drawn.bursts = 2 THEN "others" ELSE "bursts"
          /\ UNCHANGED <<p, net, info, apps>>
      BY <2>1 DEF WriteBurst, At, Then
    <3>2. drawn.bursts \in 0 .. 2 /\ DOMAIN drawn = {"inputs", "provided", "bursts"}
      BY <3>1 DEF ScenarioInv, FileInv, Writing, Drawing
    <3> QED
      BY <3>1, <3>2
  <2>2. CASE WriteOthers
    BY <2>2 DEF ScenarioInv, FileInv, WriteOthers, At, Then, Writing, Drawing
  <2> QED
    BY <2>1, <2>2
<1>4. /\ DOMAIN file' = DOMAIN file
      /\ \A x \in DOMAIN file : x # "requests" => file'[x] = file[x]
      /\ LinesOK'
  BY <1>2, <1>3, LinesWritten DEF ScenarioInv, Drawing
<1>5. FileInv'
  <2>1. /\ stage \in Writing \ Drawing /\ stage' \in Writing \ Drawing /\ stage' \in AllStages
        /\ stage \notin {"routers", "links"} /\ stage' \notin {"routers", "links"}
        /\ (stage' \in Writing \ {"others", "data"} <=> stage' = "bursts")
    BY <1>3 DEF Drawing, Writing, AllStages, SettingUp,
       Reading, RequestsToRead, FunctionsToRead, LinksToRead, NodesToRead
  <2>2. /\ file'.routers = file.routers /\ file'.links = file.links
        /\ file'.functions = file.functions /\ file'.status = file.status
    BY <1>4 DEF ScenarioInv, FileInv
  <2> QED
    BY <1>3, <1>4, <2>1, <2>2 DEF ScenarioInv, FileInv, LinesOK
<1>6. stage \in Writing /\ stage' \in NodesToRead
  BY <1>3 DEF NodesToRead, Writing, Drawing
<1> QED
  BY <1>3, <1>5, <1>6, NothingRead DEF ScenarioInv

\* The generator writes who provides what.
LEMMA DataWritten ==
  ASSUME ScenarioInv, WriteData
  PROVE  ScenarioInv'
<1>1. /\ stage = "data" /\ stage' = "readNodes" /\ UNCHANGED <<p, drawn, net, info, apps>>
      /\ file' = [file EXCEPT !.data = DataSection(p, drawn.provided)]
  BY DEF WriteData, At, Then
<1>2. /\ DOMAIN file' = DOMAIN file /\ file'.data = DataSection(p, drawn.provided)
      /\ \A x \in DOMAIN file : x # "data" => file'[x] = file[x]
  BY <1>1 DEF ScenarioInv, FileInv
<1>3. /\ file'.routers = file.routers /\ file'.links = file.links /\ file'.requests = file.requests
      /\ file'.functions = file.functions /\ file'.status = file.status
  BY <1>2 DEF ScenarioInv, FileInv
<1>4. file.requests' = file.requests /\ UNCHANGED <<p, drawn>>
  BY <1>1, <1>3
<1>5. FileInv'
  <2>1. /\ stage \notin Drawing /\ stage' \notin Writing /\ stage' \in AllStages /\ stage' \notin Drawing
        /\ stage \notin {"routers", "links"} /\ stage' \notin {"routers", "links"}
        /\ stage \notin Writing \ {"others", "data"}
    BY <1>1 DEF Drawing, Writing, AllStages, SettingUp,
       Reading, RequestsToRead, FunctionsToRead, LinksToRead, NodesToRead
  <2> QED
    BY <1>1, <1>2, <1>3, <1>4, <2>1 DEF ScenarioInv, FileInv, RequestOK
<1>6. stage \in Writing /\ stage' \in NodesToRead
  BY <1>1 DEF NodesToRead, Writing, Drawing
<1> QED
  BY <1>1, <1>5, <1>6, NothingRead DEF ScenarioInv

-----------------------------------------------------------------------------
(* The file is read.                                                       *)

\* Once it is written the file stays.
LEMMA FileKept ==
  ASSUME FileInv, stage \notin Writing, UNCHANGED <<p, drawn, file>>,
         stage' \in AllStages, stage' \notin Writing
  PROVE  FileInv'
<1>1. /\ stage \notin Drawing /\ stage' \notin Drawing
      /\ stage \notin {"routers", "links"} /\ stage' \notin {"routers", "links"}
      /\ stage \notin Writing \ {"others", "data"} /\ stage' \notin Writing \ {"others", "data"}
  BY DEF Drawing, Writing
<1> QED
  BY <1>1 DEF FileInv, RequestOK

\* The reader creates the nodes: the network has those of the section, in order.
LEMMA NodesRead ==
  ASSUME ScenarioInv, ReadNodes
  PROVE  ScenarioInv'
<1> DEFINE lines == ComputeLines(file.routers)
           nodes == [i \in DOMAIN lines |-> CreateIncComputeNode(lines[i])]
           names == NamesOf(ConsumerLines(file.routers))
<1>1. /\ stage = "readNodes" /\ stage' = "readLinks" /\ UNCHANGED <<p, drawn, file, info, apps, origins>>
      /\ net' = [net EXCEPT !.nodes = nodes, !.consumers = names]
  BY DEF ReadNodes, At, Then
<1>2. /\ stage \notin Writing /\ stage' \notin Writing /\ stage' \in AllStages
      /\ stage \in NodesToRead /\ stage' \notin NodesToRead
      /\ \A S \in {LinksToRead, FunctionsToRead, RequestsToRead, Reading, SettingUp} :
           stage \in S /\ stage' \in S
      /\ stage' \notin {"bootstrap", "consumers", "producers", "dataProducers", "polls", "origins", "run"}
  BY <1>1 DEF AllStages, SettingUp, Reading, RequestsToRead, FunctionsToRead, LinksToRead, NodesToRead,
     Writing, Drawing
<1>3. p \in Settings /\ file.routers = RouterSection(p)
  BY <1>1 DEF ScenarioInv, FileInv
<1>4. /\ DOMAIN lines = 1 .. Computes(p)
      /\ \A i \in 1 .. Computes(p) : lines[i].name = NodeName(i) /\ lines[i].tier = NodeTier(p, i)
      /\ names = ConsumerNames(p)
  BY <1>3, RoutersRead
<1> HIDE DEF lines, names
<1>5. /\ DOMAIN nodes = 1 .. Computes(p)
      /\ \A i \in 1 .. Computes(p) :
           /\ nodes[i].name = NodeName(i) /\ nodes[i].tier = NodeTier(p, i)
           /\ nodes[i].functions = <<>> /\ nodes[i].enabled = {}
           /\ DOMAIN nodes[i] = {"name", "tier", "functions", "enabled"}
  BY <1>4 DEF CreateIncComputeNode
<1>6. Computes(p) \in Nat
  BY <1>3, NodeListLength
<1>7. nodes = [i \in 1 .. Computes(p) |-> nodes[i]]
  BY <1>4
<1> HIDE DEF nodes
<1>8. IsSeq(nodes) /\ Len(nodes) = Computes(p)
  BY <1>6, <1>7, FunctionIsSeq
<1>9. DOMAIN net' = DOMAIN net /\ net'.nodes = nodes /\ net'.consumers = names
  BY <1>1 DEF ScenarioInv, NetInv
<1>10. NetInv'
  <2>1. NodesBuilt'
    BY <1>1, <1>4, <1>5, <1>9 DEF NodesBuilt
  <2> QED
    BY <1>1, <1>2, <1>5, <1>8, <1>9, <2>1 DEF ScenarioInv, NetInv
<1>11. FileInv'
  BY <1>1, <1>2, FileKept DEF ScenarioInv
<1>12. InfoInv' /\ AppsInv' /\ OriginsInv'
  BY <1>1, <1>2 DEF ScenarioInv, InfoInv, AppsInv, OriginsInv
<1> QED
  BY <1>10, <1>11, <1>12 DEF ScenarioInv

\* The reader installs the links: none is read twice, none is left out.
LEMMA LinksReadBuilt ==
  ASSUME ScenarioInv, ReadLinks
  PROVE  ScenarioInv'
<1>1. /\ stage = "readLinks" /\ stage' = "readFunctions" /\ UNCHANGED <<p, drawn, file, info, apps, origins>>
      /\ net' = [net EXCEPT !.links = LinksRead(file.links)]
  BY DEF ReadLinks, At, Then
<1>2. /\ stage \notin Writing /\ stage' \notin Writing /\ stage' \in AllStages
      /\ stage \notin NodesToRead /\ stage' \notin NodesToRead
      /\ stage \in LinksToRead /\ stage' \notin LinksToRead
      /\ \A S \in {FunctionsToRead, RequestsToRead, Reading, SettingUp} :
           stage \in S /\ stage' \in S
      /\ stage' \notin {"bootstrap", "consumers", "producers", "dataProducers", "polls", "origins", "run"}
  BY <1>1 DEF AllStages, SettingUp, Reading, RequestsToRead, FunctionsToRead, LinksToRead, NodesToRead,
     Writing, Drawing
<1>3. p \in Settings /\ file.links = LinkSection(p)
  BY <1>1 DEF ScenarioInv, FileInv
<1>4. LinksRead(file.links) = LinkSection(p)
  BY <1>3, AllLinksRead
<1>5. /\ DOMAIN net' = DOMAIN net /\ net'.links = LinkSection(p)
      /\ net'.nodes = net.nodes /\ net'.consumers = net.consumers
  BY <1>1, <1>4 DEF ScenarioInv, NetInv
<1>6. NodesBuilt'
  BY <1>1, <1>2, <1>5 DEF ScenarioInv, NetInv, NodesBuilt
<1>7. NetInv'
  BY <1>1, <1>2, <1>5, <1>6 DEF ScenarioInv, NetInv
<1>8. FileInv'
  BY <1>1, <1>2, FileKept DEF ScenarioInv
<1>9. InfoInv' /\ AppsInv' /\ OriginsInv'
  BY <1>1, <1>2 DEF ScenarioInv, InfoInv, AppsInv, OriginsInv
<1> QED
  BY <1>7, <1>8, <1>9 DEF ScenarioInv

\* The functions and where they start, as they are read from the lines.
LEMMA FunctionsAreRead ==
  ASSUME NEW s \in Settings, NEW list \in FuncLists(s)
  PROVE  LET lines == FunctionSection(list)
             functions == [i \in DOMAIN lines |-> ReadFunction(lines[i])]
         IN  /\ functions \in [1 .. s.funcs -> FunctionRead]
             /\ \A i \in 1 .. s.funcs : functions[i].name = i - 1 /\ functions[i].params = list[i]
<1> DEFINE lines == FunctionSection(list)
           functions == [i \in DOMAIN lines |-> ReadFunction(lines[i])]
<1>1. s.funcs \in Nat /\ DOMAIN list = 1 .. s.funcs /\ \A i \in 1 .. s.funcs : list[i] \in Nat
  BY SettingFacts DEF FuncLists
<1>2. DOMAIN lines = 1 .. s.funcs
  BY <1>1 DEF FunctionSection
<1>3. ASSUME NEW i \in 1 .. s.funcs
      PROVE  lines[i].name = i - 1 /\ Len(lines[i].signature) = list[i]
  <2> DEFINE sig == [j \in 1 .. list[i] |-> j % 2]
  <2>1. lines[i] = [name |-> i - 1, signature |-> sig]
    BY <1>1 DEF FunctionSection
  <2>2. sig = [j \in 1 .. list[i] |-> sig[j]] /\ list[i] \in Nat
    BY <1>1
  <2> HIDE DEF sig
  <2>3. Len(sig) = list[i]
    BY <2>2, FunctionIsSeq
  <2> QED
    BY <2>1, <2>3
<1> HIDE DEF lines
<1>4. ASSUME NEW i \in 1 .. s.funcs
      PROVE  /\ functions[i] \in FunctionRead
             /\ functions[i].name = i - 1 /\ functions[i].params = list[i]
  <2>1. functions[i] = [name |-> lines[i].name, params |-> Len(lines[i].signature), inputs |-> <<>>]
    BY <1>2 DEF ReadFunction
  <2>2. <<>> \in Seq(Nat) /\ i - 1 \in Nat /\ list[i] \in Nat
    BY <1>1
  <2>3. functions[i] = [name |-> i - 1, params |-> list[i], inputs |-> <<>>]
    BY <1>3, <2>1
  <2> HIDE DEF functions
  <2> QED
    BY <2>2, <2>3 DEF FunctionRead
<1> QED
  BY <1>2, <1>4 DEF lines

\* The status section is about the cloud node, and lists all functions.
LEMMA StatusIsRead ==
  ASSUME NEW s \in Settings, NEW list \in FuncLists(s)
  PROVE  LET R == ReadStatus(StatusSection(list))
         IN  /\ DOMAIN R = {ComputeNode(0)}
             /\ IsSeq(R[ComputeNode(0)]) /\ DOMAIN R[ComputeNode(0)] = 1 .. s.funcs
             /\ \A k \in 1 .. s.funcs : R[ComputeNode(0)][k] = k - 1
<1> DEFINE cloud == ComputeNode(0)
           lines == StatusSection(list)
           Of(n) == Chosen(lines, {i \in DOMAIN lines : lines[i].node = n})
           Row(n) == [i \in DOMAIN Of(n) |-> Of(n)[i].name]
           R == ReadStatus(StatusSection(list))
<1>1. R = [n \in {lines[i].node : i \in DOMAIN lines} |-> Row(n)]
  BY DEF ReadStatus
<1>2. s.funcs \in Nat /\ s.funcs > 0 /\ DOMAIN list = 1 .. s.funcs
  BY SettingFacts DEF FuncLists
<1>3. /\ DOMAIN lines = 1 .. s.funcs
      /\ \A i \in 1 .. s.funcs : lines[i].node = cloud /\ lines[i].name = i - 1
  <2>1. DOMAIN lines = 1 .. s.funcs
    BY <1>2 DEF StatusSection
  <2>2. ASSUME NEW i \in 1 .. s.funcs PROVE lines[i].node = cloud /\ lines[i].name = i - 1
    <3>1. lines[i] = [node |-> cloud, name |-> i - 1]
      BY <1>2 DEF StatusSection
    <3> HIDE DEF lines, cloud
    <3> QED
      BY <3>1
  <2> HIDE DEF lines
  <2> QED
    BY <2>1, <2>2
<1> HIDE DEF lines, cloud
<1>4. {lines[i].node : i \in DOMAIN lines} = {cloud}
  <2>1. 1 \in 1 .. s.funcs /\ \A i \in 1 .. s.funcs : lines[i].node = cloud
    BY <1>2, <1>3
  <2> QED
    BY <1>3, <2>1
<1>5. {i \in DOMAIN lines : lines[i].node = cloud} = 1 .. s.funcs
  BY <1>3
<1>6. Of(cloud) = [k \in 1 .. s.funcs |-> lines[k]]
  <2>1. 1 .. s.funcs = (0 + 1) .. (0 + s.funcs) /\ \A k \in 1 .. s.funcs : 0 + k = k
    BY <1>2
  <2>2. Chosen(lines, (0 + 1) .. (0 + s.funcs)) = [k \in 1 .. s.funcs |-> lines[0 + k]]
    BY <1>2, ChosenRow
  <2>3. [k \in 1 .. s.funcs |-> lines[0 + k]] = [k \in 1 .. s.funcs |-> lines[k]]
    BY <2>1
  <2> QED
    BY <1>5, <2>1, <2>2, <2>3
<1> HIDE DEF Of
<1>7. Row(cloud) = [k \in 1 .. s.funcs |-> k - 1]
  <2>1. DOMAIN Of(cloud) = 1 .. s.funcs /\ \A k \in 1 .. s.funcs : Of(cloud)[k].name = k - 1
    BY <1>3, <1>6
  <2> QED
    BY <2>1
<1> HIDE DEF Row, R
<1> DEFINE row == [k \in 1 .. s.funcs |-> k - 1]
<1>8. row = [k \in 1 .. s.funcs |-> row[k]] /\ \A k \in 1 .. s.funcs : row[k] = k - 1
  OBVIOUS
<1>9. DOMAIN R = {cloud} /\ R[cloud] = row
  BY <1>1, <1>4, <1>7
<1> HIDE DEF row
<1>10. IsSeq(row) /\ DOMAIN row = 1 .. s.funcs
  BY <1>2, <1>8, FunctionIsSeq
<1> QED
  BY <1>8, <1>9, <1>10 DEF R, cloud

\* The reader creates the functions, none enabled.
LEMMA FunctionsReadBuilt ==
  ASSUME ScenarioInv, ReadFunctions
  PROVE  ScenarioInv'
<1> DEFINE functions == [i \in DOMAIN file.functions |-> ReadFunction(file.functions[i])]
           status == ReadStatus(file.status)
<1>1. /\ stage = "readFunctions" /\ stage' = "readRequests"
      /\ UNCHANGED <<p, drawn, file, info, apps, origins>>
      /\ net' = [net EXCEPT !.functions = functions, !.status = status]
  BY DEF ReadFunctions, At, Then
<1>2. /\ stage \notin Writing /\ stage' \notin Writing /\ stage' \in AllStages
      /\ stage \notin NodesToRead /\ stage' \notin NodesToRead
      /\ stage \notin LinksToRead /\ stage' \notin LinksToRead
      /\ stage \in FunctionsToRead /\ stage' \notin FunctionsToRead
      /\ \A S \in {RequestsToRead, Reading, SettingUp} : stage \in S /\ stage' \in S
      /\ stage' \notin {"bootstrap", "consumers", "producers", "dataProducers", "polls", "origins", "run"}
  BY <1>1 DEF AllStages, SettingUp, Reading, RequestsToRead, FunctionsToRead, LinksToRead, NodesToRead,
     Writing, Drawing
<1>3. /\ p \in Settings /\ drawn.inputs \in FuncLists(p)
      /\ file.functions = FunctionSection(drawn.inputs) /\ file.status = StatusSection(drawn.inputs)
  BY <1>2 DEF ScenarioInv, FileInv, Writing
<1>4. /\ functions \in [1 .. p.funcs -> FunctionRead]
      /\ \A i \in 1 .. p.funcs : functions[i].name = i - 1 /\ functions[i].params = drawn.inputs[i]
  BY <1>3, FunctionsAreRead
<1>5. /\ DOMAIN status = {ComputeNode(0)}
      /\ IsSeq(status[ComputeNode(0)]) /\ DOMAIN status[ComputeNode(0)] = 1 .. p.funcs
      /\ \A k \in 1 .. p.funcs : status[ComputeNode(0)][k] = k - 1
  BY <1>3, StatusIsRead
<1> HIDE DEF functions, status
<1>6. /\ DOMAIN net' = DOMAIN net /\ net'.functions = functions /\ net'.status = status
      /\ net'.nodes = net.nodes /\ net'.consumers = net.consumers /\ net'.links = net.links
  BY <1>1 DEF ScenarioInv, NetInv
<1>7. NodesBuilt' /\ FunctionsBuilt'
  BY <1>1, <1>2, <1>4, <1>5, <1>6 DEF ScenarioInv, NetInv, NodesBuilt, FunctionsBuilt
<1>8. NetInv'
  BY <1>1, <1>2, <1>6, <1>7 DEF ScenarioInv, NetInv
<1>9. FileInv'
  BY <1>1, <1>2, FileKept DEF ScenarioInv
<1>10. InfoInv' /\ AppsInv' /\ OriginsInv'
  BY <1>1, <1>2 DEF ScenarioInv, InfoInv, AppsInv, OriginsInv
<1> QED
  BY <1>8, <1>9, <1>10 DEF ScenarioInv

\* The inputs of a line are numbers, as many as its function has.
LEMMA LineTyped ==
  ASSUME FileInv, stage \notin Drawing, NEW l \in DOMAIN file.requests
  PROVE  LET line == file.requests[l]
         IN  /\ line.func \in 0 .. p.funcs - 1 /\ line.inputs \in Seq(0 .. p.data)
             /\ line.inputs \in Seq(Nat) /\ Len(line.inputs) = drawn.inputs[line.func + 1]
<1> DEFINE line == file.requests[l]
           f == line.func
           m == drawn.inputs[f + 1]
<1>1. f \in 0 .. p.funcs - 1 /\ line.inputs \in InputLists(m, p.data)
  BY DEF FileInv, RequestOK
<1>2. drawn.inputs \in FuncLists(p) /\ p.funcs \in Nat /\ p.inputs \in Nat /\ p.data \in Nat
  BY SettingFacts DEF FileInv
<1> HIDE DEF f
<1>3. f + 1 \in 1 .. p.funcs
  BY <1>1, <1>2
<1>4. m \in Nat
  BY <1>2, <1>3 DEF FuncLists
<1> HIDE DEF m
<1>5. line.inputs \in [1 .. m -> 0 .. p.data]
  BY <1>1 DEF InputLists
<1> HIDE DEF line
<1>6. line.inputs \in Seq(0 .. p.data) /\ line.inputs \in Seq(Nat) /\ Len(line.inputs) = m
  BY <1>2, <1>4, <1>5
<1> QED
  BY <1>1, <1>6 DEF f, line, m

\* The reader adds the inputs that are asked for, and every node gets a copy of
\* every function.
LEMMA RequestsReadBuilt ==
  ASSUME ScenarioInv, ReadRequests
  PROVE  ScenarioInv'
<1> DEFINE functions == RequestsRead(net.functions, file.requests)
           nodes == AddNewFunctions(net.nodes, functions)
<1>1. /\ stage = "readRequests" /\ stage' = "parse" /\ UNCHANGED <<p, drawn, file, info, origins>>
      /\ net' = [net EXCEPT !.functions = functions, !.nodes = nodes]
      /\ apps' = [n \in Names |-> <<>>]
  BY DEF ReadRequests, At, Then
<1>2. /\ stage \notin Writing /\ stage' \notin Writing /\ stage' \in AllStages /\ stage \notin Drawing
      /\ stage \notin NodesToRead /\ stage' \notin NodesToRead
      /\ stage \notin LinksToRead /\ stage' \notin LinksToRead
      /\ stage \notin FunctionsToRead /\ stage' \notin FunctionsToRead
      /\ stage \in RequestsToRead /\ stage' \notin RequestsToRead
      /\ \A S \in {Reading, SettingUp} : stage \in S /\ stage' \in S
      /\ stage' \notin {"bootstrap", "consumers", "producers", "dataProducers", "polls", "origins", "run"}
  BY <1>1 DEF AllStages, SettingUp, Reading, RequestsToRead, FunctionsToRead, LinksToRead, NodesToRead,
     Writing, Drawing
<1>3. /\ p \in Settings /\ IsSeq(file.requests) /\ FunctionsBuilt /\ NodesBuilt
      /\ IsSeq(net.nodes) /\ Len(net.nodes) = Computes(p)
  BY <1>2 DEF ScenarioInv, FileInv, NetInv
<1>4. /\ p.funcs \in Nat /\ Computes(p) \in Nat /\ Computes(p) > 3
      /\ \A l \in DOMAIN file.requests : file.requests[l].inputs \in Seq(Nat)
  BY <1>2, <1>3, SettingFacts, NodeListLength, LineTyped DEF ScenarioInv
<1>5. /\ functions \in [1 .. p.funcs -> FunctionRead]
      /\ \A i \in 1 .. p.funcs :
           /\ functions[i].name = net.functions[i].name /\ functions[i].params = net.functions[i].params
           /\ \A l \in DOMAIN file.requests : net.functions[i].name = file.requests[l].func =>
                \A k \in DOMAIN file.requests[l].inputs :
                  Found(file.requests[l].inputs[k], functions[i].inputs)
  <2>1. net.functions \in [1 .. p.funcs -> FunctionRead]
    BY <1>3 DEF FunctionsBuilt
  <2> QED
    BY <1>3, <1>4, <2>1, RequestsAdded
<1> HIDE DEF functions
<1>6. /\ DOMAIN nodes = 1 .. Computes(p) /\ nodes = [i \in 1 .. Computes(p) |-> nodes[i]]
      /\ \A i \in 1 .. Computes(p) :
           nodes[i] = IF i = 1 THEN net.nodes[i] ELSE [net.nodes[i] EXCEPT !.functions = functions]
  BY <1>3 DEF AddNewFunctions, NodesBuilt
<1> HIDE DEF nodes
<1>7. IsSeq(nodes) /\ Len(nodes) = Computes(p)
  BY <1>4, <1>6, FunctionIsSeq
<1>8. \A i \in 1 .. Computes(p) :
        /\ DOMAIN nodes[i] = {"name", "tier", "functions", "enabled"}
        /\ nodes[i].name = net.nodes[i].name /\ nodes[i].tier = net.nodes[i].tier
        /\ nodes[i].enabled = net.nodes[i].enabled
        /\ nodes[i].functions = IF i = 1 THEN <<>> ELSE functions
  <2> TAKE i \in 1 .. Computes(p)
  <2>1. DOMAIN net.nodes[i] = {"name", "tier", "functions", "enabled"} /\ net.nodes[i].functions = <<>>
    BY <1>2 DEF ScenarioInv, NetInv
  <2> QED
    BY <1>6, <2>1
<1>9. /\ DOMAIN net' = DOMAIN net /\ net'.functions = functions /\ net'.status = net.status
      /\ net'.nodes = nodes /\ net'.consumers = net.consumers /\ net'.links = net.links
  BY <1>1 DEF ScenarioInv, NetInv
<1>10. NodesBuilt'
  BY <1>1, <1>3, <1>6, <1>8, <1>9 DEF NodesBuilt
<1>11. FunctionsBuilt'
  BY <1>1, <1>3, <1>5, <1>9 DEF FunctionsBuilt
<1>12. CopiesBuilt'
  <2>1. \A i \in 1 .. p.funcs : net.functions[i].name = i - 1
    BY <1>3 DEF FunctionsBuilt
  <2>2. \A i \in 1 .. p.funcs : \A l \in DOMAIN file.requests :
          file.requests[l].func = i - 1 =>
            \A k \in DOMAIN file.requests[l].inputs :
              Found(file.requests[l].inputs[k], functions[i].inputs)
    BY <1>5, <2>1
  <2>3. nodes[1].functions = <<>> /\ \A i \in 2 .. Computes(p) : nodes[i].functions = functions
    BY <1>4, <1>8
  <2> QED
    BY <1>1, <1>9, <2>2, <2>3 DEF CopiesBuilt
<1>13. NetInv'
  BY <1>1, <1>2, <1>7, <1>8, <1>9, <1>10, <1>11, <1>12 DEF ScenarioInv, NetInv
<1>14. FileInv'
  BY <1>1, <1>2, FileKept DEF ScenarioInv
<1>15. AppsInv'
  <2>1. Names = AllNames(p)
    BY <1>3, NamesBuilt
  <2>2. DOMAIN apps' = AllNames(p) /\ \A n \in AllNames(p) : apps'[n] = <<>>
    BY <1>1, <2>1
  <2>3. IsSeq(<<>>) /\ DOMAIN <<>> = {}
    BY DEF IsSeq
  <2> QED
    BY <1>1, <1>2, <2>2, <2>3 DEF ScenarioInv, AppsInv, AllNames
<1>16. InfoInv' /\ OriginsInv'
  BY <1>1, <1>2 DEF ScenarioInv, InfoInv, OriginsInv
<1> QED
  BY <1>13, <1>14, <1>15, <1>16 DEF ScenarioInv

\* The lines of the data section.
LEMMA DataLines ==
  ASSUME NEW s \in Settings, NEW provided \in ProvidedData(s)
  PROVE  LET D == DataSection(s, provided)
         IN  /\ IsSeq(D) /\ DOMAIN D = 1 .. s.consumers /\ Len(D) = s.consumers
             /\ DOMAIN provided = 1 .. s.consumers
             /\ \A i \in 1 .. s.consumers :
                  /\ D[i].who = Consumer(i - 1) /\ D[i].data = provided[i]
                  /\ provided[i] \in 0 .. s.data
<1> DEFINE D == DataSection(s, provided)
<1>1. s.consumers \in Nat /\ s.data = s.consumers
  BY SettingFacts
<1>2. provided \in [1 .. s.consumers -> 0 .. s.data]
  BY <1>1 DEF ProvidedData
<1>3. D = [i \in 1 .. s.consumers |-> [who |-> Consumer((i - 1) % s.consumers), data |-> provided[i]]]
  BY <1>2 DEF DataSection
<1>4. \A i \in 1 .. s.consumers : (i - 1) % s.consumers = i - 1
  BY <1>1
<1> HIDE DEF D
<1>5. \A i \in 1 .. s.consumers : D[i].who = Consumer(i - 1) /\ D[i].data = provided[i]
  <2> TAKE i \in 1 .. s.consumers
  <2>1. D[i] = [who |-> Consumer((i - 1) % s.consumers), data |-> provided[i]]
    BY <1>3
  <2> QED
    BY <2>1, <1>4
<1>6. D = [i \in 1 .. s.consumers |-> D[i]]
  BY <1>3
<1>7. IsSeq(D) /\ DOMAIN D = 1 .. s.consumers /\ Len(D) = s.consumers
  BY <1>1, <1>6, FunctionIsSeq
<1> QED
  BY <1>2, <1>5, <1>7 DEF D

\* Every consumer provides something, so all are known.
LEMMA AllAreKnown ==
  ASSUME NEW c \in Nat, NEW RP, NEW DP, NEW data,
         NEW known \in Seq(KnownConsumer({Consumer(j) : j \in 0 .. c - 1}, RP, DP)),
         \A y \in 1 .. c : data[y].who = Consumer(y - 1), Provided(known, data, c)
  PROVE  Len(known) = c
<1> DEFINE n == Len(known)
<1>1. n \in Nat /\ DOMAIN known = 1 .. n /\ n <= c
  BY NoMoreThanAll DEF Provided
<1> HIDE DEF n
<1>2. \A y \in 1 .. c : \E i \in 1 .. n : known[i].name = Consumer(y - 1)
  <2> TAKE y \in 1 .. c
  <2>1. \E i \in DOMAIN known : known[i].name = data[y].who
    BY DEF Provided
  <2> QED
    BY <1>1, <2>1
<1> DEFINE f == [y \in 1 .. c |-> CHOOSE i \in 1 .. n : known[i].name = Consumer(y - 1)]
<1>3. \A y \in 1 .. c : f[y] \in 1 .. n /\ known[f[y]].name = Consumer(y - 1)
  BY <1>2
<1>4. f = [y \in 1 .. c |-> f[y]]
  OBVIOUS
<1> HIDE DEF f
<1>5. f \in [1 .. c -> 1 .. n]
  BY <1>3, <1>4
<1>6. \A y, z \in 1 .. c : f[y] = f[z] => y = z
  <2> SUFFICES ASSUME NEW y \in 1 .. c, NEW z \in 1 .. c, f[y] = f[z] PROVE y = z
    OBVIOUS
  <2>1. Consumer(y - 1) = Consumer(z - 1)
    BY <1>3
  <2>2. y - 1 = z - 1
    BY <2>1, NamesDiffer
  <2> QED
    BY <2>2
<1>7. f \in Injection(1 .. c, 1 .. n)
  BY <1>5, <1>6 DEF Injection, IsInjective
<1>8. IsFiniteSet(1 .. n) /\ Cardinality(1 .. n) = n /\ Cardinality(1 .. c) = c
  BY <1>1, FS_Interval
<1>9. c <= n
  BY <1>7, <1>8, FS_Injection
<1>10. n = c
  BY <1>1, <1>9
<1> QED
  BY <1>10 DEF n

\* The parser finds in the file every consumer the reader has created, and the
\* data each provides.
LEMMA NodeInfoParsed ==
  ASSUME ScenarioInv, ParseNodeInfo
  PROVE  ScenarioInv'
<1> DEFINE compute == UpdateComputeInfo(net.nodes)
           consumers == UpdateConsumerInfo(file.requests, file.data)
<1>1. /\ stage = "parse" /\ stage' = "setUp" /\ UNCHANGED <<p, drawn, file, net, apps, origins>>
      /\ info' = [compute |-> compute, consumers |-> consumers]
  BY DEF ParseNodeInfo, At, Then
<1>2. /\ stage \notin Writing /\ stage' \notin Writing /\ stage' \in AllStages /\ stage \notin Drawing
      /\ \A S \in {NodesToRead, LinksToRead, FunctionsToRead, RequestsToRead} :
           stage \notin S /\ stage' \notin S
      /\ stage' \notin Reading /\ stage \in SettingUp /\ stage' \in SettingUp
      /\ stage' \notin {"bootstrap", "consumers", "producers", "dataProducers", "polls", "origins", "run"}
  BY <1>1 DEF AllStages, SettingUp, Reading, RequestsToRead, FunctionsToRead, LinksToRead, NodesToRead,
     Writing, Drawing
<1>3. /\ p \in Settings /\ IsSeq(file.requests) /\ NodesBuilt /\ drawn.provided \in ProvidedData(p)
      /\ file.data = DataSection(p, drawn.provided)
      /\ \A l \in DOMAIN file.requests : RequestOK(file.requests[l])
  BY <1>2 DEF ScenarioInv, FileInv, NetInv
<1>4. Computes(p) \in Nat /\ p.consumers \in Nat
  BY <1>3, SettingFacts, NodeListLength
<1>5. /\ DOMAIN compute = 1 .. Computes(p) /\ compute = [i \in 1 .. Computes(p) |-> compute[i]]
      /\ \A i \in 1 .. Computes(p) :
           compute[i] = [name |-> net.nodes[i].name, prefix |-> NodePrefix(net.nodes[i].name),
                         functions |-> <<>>]
  BY <1>3 DEF UpdateComputeInfo, NodesBuilt
<1> HIDE DEF compute
<1>6. Len(compute) = Computes(p)
  BY <1>4, <1>5, FunctionIsSeq
<1>7. \A i \in 1 .. Computes(p) :
        /\ DOMAIN compute[i] = {"name", "prefix", "functions"}
        /\ compute[i].prefix = NodePrefix(NodeName(i)) /\ compute[i].functions = <<>>
  <2> TAKE i \in 1 .. Computes(p)
  <2>1. net.nodes[i].name = NodeName(i)
    BY <1>3 DEF NodesBuilt
  <2> QED
    BY <1>5, <2>1
<1>8. /\ IsSeq(file.data) /\ DOMAIN file.data = 1 .. p.consumers /\ Len(file.data) = p.consumers
      /\ \A i \in 1 .. p.consumers :
           /\ file.data[i].who = Consumer(i - 1) /\ file.data[i].data = drawn.provided[i]
           /\ drawn.provided[i] \in 0 .. p.data
  BY <1>3, DataLines
<1> DEFINE W == {Consumer(j) : j \in 0 .. p.consumers - 1}
           RP == {RequestPrefix(file.requests[l]) : l \in DOMAIN file.requests}
           DP == {DataPrefix(a) : a \in 0 .. p.data}
<1>9. /\ \A k \in DOMAIN file.requests :
           file.requests[k].who \in W /\ RequestPrefix(file.requests[k]) \in RP
      /\ \A k \in DOMAIN file.data : file.data[k].who \in W /\ DataPrefix(file.data[k].data) \in DP
  <2>1. \A k \in DOMAIN file.requests : file.requests[k].who \in W
    BY <1>3 DEF RequestOK
  <2>2. \A k \in 1 .. p.consumers : k - 1 \in 0 .. p.consumers - 1
    BY <1>4
  <2> QED
    BY <1>8, <2>1, <2>2
<1> HIDE DEF W, RP, DP
<1>10. consumers \in Seq(KnownConsumer(W, RP, DP)) /\ Provided(consumers, file.data, Len(file.data))
  BY <1>3, <1>8, <1>9, ConsumersKnown
<1> HIDE DEF consumers
<1>11. Len(consumers) = p.consumers
  <2>1. Provided(consumers, file.data, p.consumers)
    BY <1>8, <1>10
  <2> QED
    BY <1>4, <1>8, <1>10, <2>1, AllAreKnown DEF W
<1>12. DOMAIN consumers = 1 .. p.consumers
  BY <1>10, <1>11
<1>13. InfoInv'
  <2>1. info'.compute = compute /\ info'.consumers = consumers /\ DOMAIN info' = {"compute", "consumers"}
    BY <1>1
  <2>2. ComputesKnown'
    BY <1>1, <1>2, <1>5, <1>6, <1>7, <2>1 DEF ComputesKnown
  <2>3. Known' = KnownConsumer(W, RP, DP)
    BY <1>1 DEF Known, W, RP, DP
  <2>4. AllConsumersKnown'
    BY <1>1, <1>10, <1>12, <2>1, <2>3 DEF AllConsumersKnown
  <2> QED
    BY <1>1, <1>2, <2>1, <2>2, <2>4 DEF InfoInv
<1>14. FileInv'
  BY <1>1, <1>2, FileKept DEF ScenarioInv
<1>15. NetInv'
  BY <1>1, <1>2 DEF ScenarioInv, NetInv, NodesBuilt, FunctionsBuilt, CopiesBuilt
<1>16. AppsInv' /\ OriginsInv'
  BY <1>1, <1>2 DEF ScenarioInv, AppsInv, OriginsInv, AppOK
<1> QED
  BY <1>13, <1>14, <1>15, <1>16 DEF ScenarioInv

-----------------------------------------------------------------------------
(* The functions are set up.                                               *)

\* Functions start on the cloud only.
LEMMA StartOnCloud ==
  ASSUME ScenarioInv, stage \notin FunctionsToRead, stage \notin NodesToRead, NEW i \in 1 .. Computes(p)
  PROVE  LET F == InitialFunctions(i)
         IN  IF i = 2
             THEN /\ IsSeq(F) /\ DOMAIN F = 1 .. p.funcs /\ \A k \in 1 .. p.funcs : F[k] = k - 1
                  /\ Range(F) = 0 .. p.funcs - 1
             ELSE F = <<>>
<1>1. NodesBuilt /\ FunctionsBuilt /\ p \in Settings
  BY DEF ScenarioInv, NetInv, FileInv
<1>2. net.nodes[i].name = NodeName(i) /\ Computes(p) \in Nat /\ p.funcs \in Nat
  BY <1>1, NodeListLength, SettingFacts DEF NodesBuilt
<1>3. NodeName(2) = ComputeNode(0)
  BY DEF NodeName
<1>4. CASE i = 2
  <2> DEFINE F == InitialFunctions(i)
  <2>1. F = net.status[ComputeNode(0)]
    BY <1>1, <1>2, <1>3, <1>4 DEF InitialFunctions, FunctionsBuilt
  <2> HIDE DEF F
  <2>2. IsSeq(F) /\ DOMAIN F = 1 .. p.funcs /\ \A k \in 1 .. p.funcs : F[k] = k - 1
    BY <1>1, <2>1 DEF FunctionsBuilt
  <2>3. Range(F) = 0 .. p.funcs - 1
    <3>1. \A x \in 0 .. p.funcs - 1 : x + 1 \in 1 .. p.funcs /\ F[x + 1] = x
      BY <1>2, <2>2
    <3>2. \A k \in 1 .. p.funcs : F[k] \in 0 .. p.funcs - 1
      BY <1>2, <2>2
    <3> QED
      BY <2>2, <3>1, <3>2 DEF Range
  <2> QED
    BY <1>4, <2>2, <2>3 DEF F
<1>5. CASE i # 2
  <2>1. i > 1 => NodeName(i) # NodeName(2)
    BY <1>2, <1>5, NodeNamesDiffer
  <2>2. net.status = net.status /\ DOMAIN net.status = {NodeName(2)}
    BY <1>1, <1>3 DEF FunctionsBuilt
  <2> QED
    BY <1>2, <1>5, <2>1, <2>2 DEF InitialFunctions
<1> QED
  BY <1>4, <1>5

\* The cloud node starts all functions, the others none.
LEMMA FunctionsSetUp ==
  ASSUME ScenarioInv, SetUpFunctions
  PROVE  ScenarioInv'
<1> DEFINE Has(node) == {node.functions[k].name : k \in DOMAIN node.functions}
           SetUp(i, node) == [node EXCEPT !.enabled = Range(InitialFunctions(i)) \intersect Has(node)]
           More(i) == [k \in DOMAIN InitialFunctions(i) |-> FunctionPrefix(InitialFunctions(i)[k])]
           List(i) == <<LambdaPrefix>> \o More(i)
           nodes == [i \in DOMAIN net.nodes |-> SetUp(i, net.nodes[i])]
           compute == [i \in DOMAIN info.compute |->
                         IF i = 1 THEN info.compute[i]
                         ELSE [info.compute[i] EXCEPT !.functions = List(i)]]
<1>1. /\ stage = "setUp" /\ stage' = "bootstrap" /\ UNCHANGED <<p, drawn, file, apps, origins>>
      /\ net' = [net EXCEPT !.nodes = nodes] /\ info' = [info EXCEPT !.compute = compute]
  BY DEF SetUpFunctions, At, Then
<1>2. /\ stage \notin Writing /\ stage' \notin Writing /\ stage' \in AllStages /\ stage \notin Drawing
      /\ \A S \in {NodesToRead, LinksToRead, FunctionsToRead, RequestsToRead, Reading} :
           stage \notin S /\ stage' \notin S
      /\ stage \in SettingUp /\ stage' \notin SettingUp
      /\ stage' \notin {"consumers", "producers", "dataProducers", "polls", "origins", "run"}
  BY <1>1 DEF AllStages, SettingUp, Reading, RequestsToRead, FunctionsToRead, LinksToRead, NodesToRead,
     Writing, Drawing
<1>3. /\ p \in Settings /\ NodesBuilt /\ FunctionsBuilt /\ CopiesBuilt /\ ComputesKnown
      /\ DOMAIN net = {"nodes", "consumers", "links", "functions", "status"}
      /\ DOMAIN info = {"compute", "consumers"}
  BY <1>2 DEF ScenarioInv, FileInv, NetInv, InfoInv
<1>4. Computes(p) \in Nat /\ Computes(p) > 3 /\ p.funcs \in Nat
  BY <1>3, SettingFacts, NodeListLength
<1>5. ASSUME NEW i \in 1 .. Computes(p)
      PROVE  IF i = 2
             THEN /\ IsSeq(InitialFunctions(i)) /\ DOMAIN InitialFunctions(i) = 1 .. p.funcs
                  /\ \A k \in 1 .. p.funcs : InitialFunctions(i)[k] = k - 1
                  /\ Range(InitialFunctions(i)) = 0 .. p.funcs - 1
             ELSE InitialFunctions(i) = <<>>
  BY <1>2, StartOnCloud
<1>6. ASSUME NEW i \in 1 .. Computes(p)
      PROVE  /\ DOMAIN nodes[i] = {"name", "tier", "functions", "enabled"}
             /\ nodes[i].name = net.nodes[i].name /\ nodes[i].tier = net.nodes[i].tier
             /\ nodes[i].functions = net.nodes[i].functions
             /\ nodes[i].enabled = IF i = 2 THEN 0 .. p.funcs - 1 ELSE {}
  <2> DEFINE E == Range(InitialFunctions(i)) \intersect Has(net.nodes[i])
  <2>1. DOMAIN net.nodes[i] = {"name", "tier", "functions", "enabled"}
    BY <1>2 DEF ScenarioInv, NetInv
  <2>2. nodes[i] = [net.nodes[i] EXCEPT !.enabled = E]
    BY <1>3 DEF NodesBuilt
  <2>3. E = IF i = 2 THEN 0 .. p.funcs - 1 ELSE {}
    <3>1. CASE i = 2
      <4>1. net.nodes[i].functions = net.functions
        BY <1>3, <1>4, <3>1 DEF CopiesBuilt
      <4>2. DOMAIN net.functions = 1 .. p.funcs /\ \A k \in 1 .. p.funcs : net.functions[k].name = k - 1
        BY <1>3 DEF FunctionsBuilt
      <4>3. Has(net.nodes[i]) = {k - 1 : k \in 1 .. p.funcs}
        BY <4>1, <4>2
      <4>4. {k - 1 : k \in 1 .. p.funcs} = 0 .. p.funcs - 1
        <5>1. \A x \in 0 .. p.funcs - 1 : x + 1 \in 1 .. p.funcs /\ x = (x + 1) - 1
          BY <1>4
        <5>2. \A k \in 1 .. p.funcs : k - 1 \in 0 .. p.funcs - 1
          BY <1>4
        <5> QED
          BY <5>1, <5>2
      <4> QED
        BY <1>5, <3>1, <4>3, <4>4
    <3>2. CASE i # 2
      BY <1>5, <3>2 DEF Range
    <3> QED
      BY <3>1, <3>2
  <2> HIDE DEF E, nodes
  <2> QED
    BY <2>1, <2>2, <2>3
<1>7. DOMAIN nodes = 1 .. Computes(p) /\ nodes = [i \in 1 .. Computes(p) |-> nodes[i]]
  BY <1>3 DEF NodesBuilt
<1> HIDE DEF nodes
<1>8. IsSeq(nodes) /\ Len(nodes) = Computes(p)
  BY <1>4, <1>7, FunctionIsSeq
<1>9. /\ DOMAIN net' = DOMAIN net /\ net'.functions = net.functions /\ net'.status = net.status
      /\ net'.nodes = nodes /\ net'.consumers = net.consumers /\ net'.links = net.links
  BY <1>1, <1>3
<1>10. NetInv'
  <2>1. NodesBuilt'
    BY <1>1, <1>3, <1>6, <1>7, <1>9 DEF NodesBuilt
  <2>2. FunctionsBuilt'
    BY <1>1, <1>3, <1>9 DEF FunctionsBuilt
  <2>3. CopiesBuilt'
    BY <1>1, <1>3, <1>4, <1>6, <1>9 DEF CopiesBuilt
  <2>4. net'.links = LinkSection(p)
    BY <1>2, <1>9 DEF ScenarioInv, NetInv
  <2> QED
    BY <1>1, <1>2, <1>3, <1>6, <1>8, <1>9, <2>1, <2>2, <2>3, <2>4 DEF NetInv
<1>11. ASSUME NEW i \in 2 .. Computes(p) PROVE ServedFunctions(i, List(i))
  <2> DEFINE one == <<LambdaPrefix>>
             M == More(i)
             m == IF i = 2 THEN p.funcs ELSE 0
             R == one \o M
  <2>1. DOMAIN M = 1 .. m /\ m \in Nat /\ (i = 2 => \A k \in 1 .. p.funcs : M[k] = FunctionPrefix(k - 1))
    BY <1>4, <1>5
  <2>2. M = [k \in 1 .. m |-> M[k]]
    BY <2>1
  <2> HIDE DEF M
  <2>3. IsSeq(M) /\ Len(M) = m
    BY <2>1, <2>2, FunctionIsSeq
  <2>4. IsSeq(one) /\ Len(one) = 1 /\ one[1] = LambdaPrefix
    BY DEF IsSeq
  <2> HIDE DEF one
  <2>5. Joined(one, M, R)
    BY <2>3, <2>4, Concat
  <2> HIDE DEF R
  <2>6. IsSeq(R) /\ Len(R) = 1 + m /\ DOMAIN R = 1 .. 1 + m /\ R[1] = LambdaPrefix
    BY <2>3, <2>4, <2>5 DEF Joined
  <2>7. \A k \in 1 .. m : R[k + 1] = M[k]
    <3>1. \A k \in 1 .. m : 1 + k = k + 1
      BY <2>1
    <3> QED
      BY <2>3, <2>4, <2>5, <3>1 DEF Joined
  <2>8. ServedFunctions(i, R)
    <3>1. m = IF i = 2 THEN p.funcs ELSE 0
      OBVIOUS
    <3> HIDE DEF m
    <3>2. CASE i = 2
      <4>1. m = p.funcs /\ 1 + m = p.funcs + 1
        BY <1>4, <3>1, <3>2
      <4>2. \A k \in 1 .. p.funcs : R[k + 1] = FunctionPrefix(k - 1)
        BY <2>1, <2>7, <3>2, <4>1
      <4> QED
        BY <2>6, <3>2, <4>1, <4>2 DEF ServedFunctions
    <3>3. CASE i # 2
      <4>1. 1 + m = 1
        BY <3>1, <3>3
      <4> QED
        BY <2>6, <3>3, <4>1 DEF ServedFunctions
    <3> QED
      BY <3>2, <3>3
  <2> QED
    BY <2>8 DEF R, one, M
<1> HIDE DEF List
<1>12. ASSUME NEW i \in 1 .. Computes(p)
       PROVE  /\ DOMAIN compute[i] = {"name", "prefix", "functions"}
              /\ compute[i].prefix = NodePrefix(NodeName(i))
              /\ compute[i].functions = IF i = 1 THEN <<>> ELSE List(i)
  <2>1. /\ DOMAIN info.compute[i] = {"name", "prefix", "functions"}
        /\ info.compute[i].prefix = NodePrefix(NodeName(i)) /\ info.compute[i].functions = <<>>
        /\ i \in DOMAIN info.compute
    BY <1>2, <1>3 DEF ComputesKnown
  <2>2. compute[i] = IF i = 1 THEN info.compute[i] ELSE [info.compute[i] EXCEPT !.functions = List(i)]
    BY <2>1
  <2> HIDE DEF compute
  <2> QED
    BY <2>1, <2>2
<1>13. DOMAIN compute = 1 .. Computes(p) /\ compute = [i \in 1 .. Computes(p) |-> compute[i]]
  BY <1>3 DEF ComputesKnown
<1> HIDE DEF compute
<1>14. Len(compute) = Computes(p)
  BY <1>4, <1>13, FunctionIsSeq
<1>15. InfoInv'
  <2>1. info'.compute = compute /\ info'.consumers = info.consumers /\ DOMAIN info' = DOMAIN info
    BY <1>1, <1>3
  <2>2. ComputesKnown'
    BY <1>1, <1>2, <1>12, <1>13, <1>14, <2>1 DEF ComputesKnown
  <2>3. AllConsumersKnown
    BY <1>2 DEF ScenarioInv, InfoInv
  <2>4. AllConsumersKnown'
    BY <1>1, <2>1, <2>3 DEF AllConsumersKnown, Known
  <2>5. \A i \in 2 .. Computes(p) : ServedFunctions(i, compute[i].functions)
    BY <1>4, <1>11, <1>12
  <2> QED
    BY <1>1, <1>2, <1>3, <2>1, <2>2, <2>4, <2>5 DEF InfoInv, ServedFunctions
<1>16. FileInv'
  BY <1>1, <1>2, FileKept DEF ScenarioInv
<1>17. AppsInv' /\ OriginsInv'
  BY <1>1, <1>2 DEF ScenarioInv, AppsInv, OriginsInv, AppOK
<1> QED
  BY <1>10, <1>15, <1>16, <1>17 DEF ScenarioInv

-----------------------------------------------------------------------------
(* The applications are installed.                                         *)

Installing == {"bootstrap", "consumers", "producers", "dataProducers", "polls", "origins"}

\* The file, the network and what is known of it stay.
LEMMA BuiltKept ==
  ASSUME ScenarioInv, UNCHANGED <<p, drawn, file, net, info>>,
         stage \in Installing, stage' \in Installing \union {"run"}
  PROVE  FileInv' /\ NetInv' /\ InfoInv'
<1>1. /\ \A S \in {Drawing, Writing, NodesToRead, LinksToRead, FunctionsToRead, RequestsToRead, Reading,
                   SettingUp} : stage \notin S /\ stage' \notin S
      /\ stage' \in AllStages
  BY DEF Installing, AllStages, SettingUp, Reading, RequestsToRead, FunctionsToRead, LinksToRead,
     NodesToRead, Writing, Drawing
<1>2. FileInv'
  BY <1>1, FileKept DEF ScenarioInv
<1>3. NetInv'
  BY <1>1 DEF ScenarioInv, NetInv, NodesBuilt, FunctionsBuilt, CopiesBuilt
<1>4. InfoInv'
  BY <1>1 DEF ScenarioInv, InfoInv, ComputesKnown, AllConsumersKnown, Known, ServedFunctions
<1> QED
  BY <1>2, <1>3, <1>4

AppsSound ==
  /\ DOMAIN apps = AllNames(p)
  /\ \A n \in AllNames(p) : IsSeq(apps[n]) /\ \A j \in DOMAIN apps[n] : AppOK(n, apps[n][j])

\* What is installed comes after what is there.
LEMMA InstallKeeps ==
  ASSUME AppsSound, NEW more, Install(more), UNCHANGED <<p, file>>,
         \A n \in DOMAIN more : /\ n \in AllNames(p) /\ IsSeq(more[n])
                                /\ \A j \in DOMAIN more[n] : AppOK(n, more[n][j])
  PROVE  /\ AppsSound'
         /\ \A n \in AllNames(p) : \A type, prefix :
              Among(apps[n], type, prefix) => Among(apps'[n], type, prefix)
         /\ \A n \in DOMAIN more : \A k \in DOMAIN more[n] :
              Among(apps'[n], more[n][k].type, more[n][k].prefix)
<1>1. /\ DOMAIN apps = AllNames(p)
      /\ apps' = [n \in DOMAIN apps |-> IF n \in DOMAIN more THEN apps[n] \o more[n] ELSE apps[n]]
  BY DEF AppsSound, Install
<1>2. ASSUME NEW n \in AllNames(p)
      PROVE  /\ IsSeq(apps'[n]) /\ \A j \in DOMAIN apps'[n] : AppOK(n, apps'[n][j])
             /\ \A j \in DOMAIN apps[n] : j \in DOMAIN apps'[n] /\ apps'[n][j] = apps[n][j]
             /\ n \in DOMAIN more => \A k \in DOMAIN more[n] :
                  \E j \in DOMAIN apps'[n] : apps'[n][j] = more[n][k]
  <2> DEFINE O == apps[n]
             F == more[n]
             R == O \o F
  <2>1. IsSeq(O) /\ \A j \in DOMAIN O : AppOK(n, O[j])
    BY DEF AppsSound
  <2>2. CASE n \in DOMAIN more
    <3>1. apps'[n] = R
      BY <1>1, <2>2
    <3>2. IsSeq(F) /\ \A j \in DOMAIN F : AppOK(n, F[j])
      BY <2>2
    <3> HIDE DEF O, F
    <3>3. Joined(O, F, R)
      BY <2>1, <3>2, Concat
    <3>4. DOMAIN O = 1 .. Len(O) /\ DOMAIN F = 1 .. Len(F) /\ Len(O) \in Nat /\ Len(F) \in Nat
      BY <2>1, <3>2 DEF IsSeq
    <3> HIDE DEF R
    <3>5. \A j \in DOMAIN O : j \in DOMAIN R /\ R[j] = O[j]
      BY <3>3, <3>4 DEF Joined
    <3>6. \A k \in DOMAIN F : Len(O) + k \in DOMAIN R /\ R[Len(O) + k] = F[k]
      BY <3>3, <3>4 DEF Joined
    <3>7. \A j \in DOMAIN R : j \in 1 .. Len(R) /\ (j \in DOMAIN O \/ j > Len(O))
      BY <3>3, <3>4 DEF Joined
    <3>8. \A j \in DOMAIN R : j \in DOMAIN O \/ (j - Len(O) \in DOMAIN F /\ R[j] = F[j - Len(O)])
      BY <3>3, <3>4, <3>7 DEF Joined
    <3>9. \A j \in DOMAIN R : AppOK(n, R[j])
      BY <2>1, <3>2, <3>5, <3>8
    <3>10. IsSeq(R)
      BY <3>3 DEF Joined
    <3> QED
      BY <3>1, <3>5, <3>6, <3>9, <3>10 DEF O, F
  <2>3. CASE n \notin DOMAIN more
    BY <1>1, <2>1, <2>3
  <2> QED
    BY <2>2, <2>3
<1>3. AppsSound'
  <2>1. DOMAIN apps' = AllNames(p)
    BY <1>1
  <2> QED
    BY <1>2, <2>1 DEF AppsSound, AppOK
<1>4. \A n \in AllNames(p) : \A type, prefix :
        Among(apps[n], type, prefix) => Among(apps'[n], type, prefix)
  BY <1>2 DEF Among
<1>5. \A n \in DOMAIN more : \A k \in DOMAIN more[n] :
        Among(apps'[n], more[n][k].type, more[n][k].prefix)
  BY <1>2 DEF Among
<1> QED
  BY <1>3, <1>4, <1>5

\* What the orchestrator asks the nodes it looks after.
LEMMA AskingIs ==
  ASSUME ScenarioInv, stage \in Installing, NEW kind, NEW at
  PROVE  LET A == Asking(kind, at)
         IN  /\ Computes(p) \in Nat /\ Computes(p) > 3
             /\ Managed = 3 .. Computes(p) /\ Home = Orchestrator
             /\ IsSeq(A) /\ DOMAIN A = 1 .. Computes(p) - 2
             /\ \A k \in 1 .. Computes(p) - 2 : A[k] = App(kind, NodePrefix(NodeName(k + 2)), at)
<1> DEFINE A == Asking(kind, at)
<1>1. stage \notin NodesToRead /\ stage \notin Reading
  BY DEF Installing, Reading, RequestsToRead, FunctionsToRead, LinksToRead, NodesToRead, Writing, Drawing
<1>2. p \in Settings /\ NodesBuilt /\ Len(net.nodes) = Computes(p) /\ ComputesKnown
  BY <1>1 DEF ScenarioInv, FileInv, NetInv, InfoInv
<1>3. Computes(p) \in Nat /\ Computes(p) > 3
  BY <1>2, NodeListLength
<1>4. Managed = 3 .. Computes(p)
  BY <1>2 DEF Managed
<1>5. Cardinality(Managed) = Computes(p) - 2
  <2>1. 3 \in Int /\ Computes(p) \in Int /\ ~ (3 > Computes(p)) /\ Computes(p) - 3 + 1 = Computes(p) - 2
    BY <1>3
  <2> QED
    BY <1>4, <2>1, FS_Interval
<1>6. A = [k \in 1 .. Computes(p) - 2 |-> App(kind, info.compute[k + 2].prefix, at)]
  BY <1>5 DEF Asking
<1>7. \A k \in 1 .. Computes(p) - 2 : info.compute[k + 2].prefix = NodePrefix(NodeName(k + 2))
  <2> TAKE k \in 1 .. Computes(p) - 2
  <2>1. k + 2 \in 1 .. Computes(p)
    BY <1>3
  <2> QED
    BY <1>2, <2>1 DEF ComputesKnown
<1> HIDE DEF A
<1>8. A = [k \in 1 .. Computes(p) - 2 |-> A[k]]
  BY <1>6
<1>9. IsSeq(A) /\ DOMAIN A = 1 .. Computes(p) - 2
  <2>1. Computes(p) - 2 \in Nat
    BY <1>3
  <2> QED
    BY <1>8, <2>1, FunctionIsSeq
<1>10. Home = Orchestrator
  BY <1>2, NamesBuilt DEF NodeName
<1> QED
  BY <1>3, <1>4, <1>6, <1>7, <1>9, <1>10 DEF A

\* The orchestrator asks every node that obeys it.
LEMMA BootstrapInstalled ==
  ASSUME ScenarioInv, InstallBootstrap
  PROVE  ScenarioInv'
<1>1. /\ stage = "bootstrap" /\ stage' = "consumers" /\ UNCHANGED <<p, drawn, file, net, info, origins>>
  BY DEF InstallBootstrap, At, Then
<1>2. stage \in Installing /\ stage' \in Installing
      /\ stage \notin NodesToRead /\ stage \notin RequestsToRead /\ stage \notin Reading
      /\ stage' \notin RequestsToRead
      /\ stage' \notin {"dataProducers", "polls", "origins", "run"}
  BY <1>1 DEF Installing, Reading, RequestsToRead, FunctionsToRead, LinksToRead, NodesToRead,
     Writing, Drawing
<1>3. FileInv' /\ NetInv' /\ InfoInv' /\ OriginsInv'
  BY <1>1, <1>2, BuiltKept DEF OriginsInv
<1>4. AppsSound /\ NodesBuilt /\ p \in Settings /\ ComputesKnown
  BY <1>2 DEF ScenarioInv, AppsInv, NetInv, FileInv, AppsSound, InfoInv
<1>5. CASE ~ p.orch
  <2>1. UNCHANGED apps
    BY <1>5 DEF InstallBootstrap
  <2> QED
    BY <1>1, <1>2, <1>3, <1>4, <1>5, <2>1 DEF ScenarioInv, AppsInv, AppsSound, AppOK
<1>6. CASE p.orch
  <2> DEFINE asking == Asking("bootstrap", 1)
             place(n) == CHOOSE i \in Managed : net.nodes[i].name = n
             node(n) == <<App("node", info.compute[place(n)].prefix, 0)>>
             more == [n \in {net.nodes[i].name : i \in Managed} \union {Home} |->
                        IF n = Home THEN asking ELSE node(n)]
  <2>1. Install(more)
    BY <1>6 DEF InstallBootstrap
  <2>2. /\ Computes(p) \in Nat /\ Computes(p) > 3
        /\ Managed = 3 .. Computes(p) /\ Home = Orchestrator
        /\ IsSeq(asking) /\ DOMAIN asking = 1 .. Computes(p) - 2
        /\ \A k \in 1 .. Computes(p) - 2 :
             asking[k] = App("bootstrap", NodePrefix(NodeName(k + 2)), 1)
    BY <1>2, AskingIs
  <2> HIDE DEF asking
  <2>3. \A k \in DOMAIN asking : AppOK(Orchestrator, asking[k])
    <3> TAKE k \in DOMAIN asking
    <3>1. asking[k] = App("bootstrap", NodePrefix(NodeName(k + 2)), 1) /\ k + 2 \in 3 .. Computes(p)
      BY <2>2
    <3> DEFINE a == asking[k]
    <3>2. a.type = "bootstrap" /\ a.prefix = NodePrefix(NodeName(k + 2)) /\ a.at = 1
      BY <3>1 DEF App
    <3> HIDE DEF a
    <3>3. AppOK(Orchestrator, a)
      BY <1>6, <3>1, <3>2 DEF AppOK
    <3> QED
      BY <3>3 DEF a
  <2>4. \A i \in Managed : i \in 1 .. Computes(p) /\ net.nodes[i].name = NodeName(i)
        /\ NodeName(i) # Orchestrator /\ NodeName(i) \in AllNames(p)
        /\ info.compute[i].prefix = NodePrefix(NodeName(i))
    <3> TAKE i \in Managed
    <3>1. i \in 1 .. Computes(p) /\ i > 1 /\ i \in Nat
      BY <2>2
    <3>2. NodeName(i) # NodeName(1) /\ NodeName(1) = Orchestrator
      BY <3>1, NodeNamesDiffer DEF NodeName
    <3> QED
      BY <1>4, <3>1, <3>2 DEF NodesBuilt, AllNames, ComputesKnown
  <2>5. ASSUME NEW i \in Managed
        PROVE  node(NodeName(i)) = <<App("node", NodePrefix(NodeName(i)), 0)>>
    <3>1. \E k \in Managed : net.nodes[k].name = NodeName(i)
      BY <2>4
    <3>2. place(NodeName(i)) \in Managed /\ net.nodes[place(NodeName(i))].name = NodeName(i)
      BY <3>1
    <3> HIDE DEF place
    <3>3. NodeName(place(NodeName(i))) = NodeName(i)
      BY <2>4, <3>2
    <3>4. i \in Nat /\ place(NodeName(i)) \in Nat /\ i > 0 /\ place(NodeName(i)) > 0
      BY <2>2, <3>2
    <3>5. place(NodeName(i)) = i
      BY <3>3, <3>4, NodeNamesDiffer
    <3>6. info.compute[i].prefix = NodePrefix(NodeName(i))
      BY <2>4
    <3> QED
      BY <3>5, <3>6
  <2> HIDE DEF node
  <2>6. DOMAIN more = {NodeName(i) : i \in Managed} \union {Orchestrator}
    BY <2>2, <2>4
  <2>7. /\ more[Orchestrator] = asking
        /\ \A i \in Managed : more[NodeName(i)] = <<App("node", NodePrefix(NodeName(i)), 0)>>
    BY <2>2, <2>4, <2>5
  <2> HIDE DEF more
  <2>8. \A n \in DOMAIN more : /\ n \in AllNames(p) /\ IsSeq(more[n])
                               /\ \A j \in DOMAIN more[n] : AppOK(n, more[n][j])
    <3> TAKE n \in DOMAIN more
    <3>1. CASE n = Orchestrator
      <4>1. 1 \in 1 .. Computes(p) /\ Orchestrator = NodeName(1)
        BY <2>2 DEF NodeName
      <4>2. Orchestrator \in AllNames(p)
        BY <4>1 DEF AllNames
      <4> QED
        BY <2>2, <2>3, <2>7, <3>1, <4>2
    <3>2. ASSUME NEW i \in Managed, n = NodeName(i)
          PROVE  IsSeq(more[n]) /\ (\A j \in DOMAIN more[n] : AppOK(n, more[n][j])) /\ n \in AllNames(p)
      <4> DEFINE a == App("node", NodePrefix(NodeName(i)), 0)
      <4>1. a.type = "node"
        BY DEF App
      <4> HIDE DEF a
      <4>2. AppOK(n, a)
        BY <4>1 DEF AppOK
      <4>3. IsSeq(<<a>>) /\ \A j \in DOMAIN <<a>> : <<a>>[j] = a
        BY DEF IsSeq
      <4>4. more[n] = <<a>>
        BY <2>7, <3>2 DEF a
      <4> QED
        BY <2>4, <3>2, <4>2, <4>3, <4>4
    <3> QED
      BY <2>6, <3>1, <3>2
  <2>9. /\ AppsSound'
        /\ \A n \in DOMAIN more : \A k \in DOMAIN more[n] :
              Among(apps'[n], more[n][k].type, more[n][k].prefix)
    BY <1>1, <1>4, <2>1, <2>8, InstallKeeps
  <2>10. \A i \in 3 .. Computes(p) : Obeying(i)'
    <3> TAKE i \in 3 .. Computes(p)
    <3>1. Installed(NodeName(i), "node", NodePrefix(NodeName(i)))'
      <4> DEFINE n == NodeName(i)
                 a == App("node", NodePrefix(NodeName(i)), 0)
      <4>1. n \in DOMAIN more /\ more[n] = <<a>>
        BY <2>2, <2>6, <2>7
      <4>2. 1 \in DOMAIN more[n] /\ more[n][1] = a
        BY <4>1
      <4>3. a.type = "node" /\ a.prefix = NodePrefix(NodeName(i))
        BY DEF App
      <4> HIDE DEF a, n
      <4>4. Among(apps'[n], a.type, a.prefix)
        BY <2>9, <4>1, <4>2
      <4> QED
        BY <4>3, <4>4 DEF n, Installed
    <3>2. Installed(Orchestrator, "bootstrap", NodePrefix(NodeName(i)))'
      <4> DEFINE n == Orchestrator
                 a == App("bootstrap", NodePrefix(NodeName(i)), 1)
      <4>1. n \in DOMAIN more /\ more[n] = asking
        BY <2>6, <2>7
      <4>2. i - 2 \in DOMAIN asking /\ i - 2 \in 1 .. Computes(p) - 2 /\ (i - 2) + 2 = i
        BY <2>2
      <4>3. more[n][i - 2] = a
        BY <2>2, <4>1, <4>2
      <4>4. a.type = "bootstrap" /\ a.prefix = NodePrefix(NodeName(i))
        BY DEF App
      <4> HIDE DEF a, n
      <4>5. Among(apps'[n], a.type, a.prefix)
        BY <2>9, <4>1, <4>2, <4>3
      <4> QED
        BY <4>4, <4>5 DEF n, Installed
    <3> QED
      BY <3>1, <3>2 DEF Obeying
  <2>11. AppsInv'
    BY <1>1, <1>2, <2>9, <2>10 DEF AppsInv, AppsSound
  <2> QED
    BY <1>3, <2>11 DEF ScenarioInv
<1> QED
  BY <1>5, <1>6

\* The cloud serves the functions by their names, every node but the orchestrator's
\* any request of a consumer.
NodesServe ==
  /\ \A f \in 0 .. p.funcs - 1 : Installed(NodeName(2), "nfnProducer", FunctionPrefix(f))
  /\ \A i \in 2 .. Computes(p) : Installed(NodeName(i), "nfnProducer", LambdaPrefix)

DataServed ==
  \A t \in 1 .. p.consumers : \A x \in DOMAIN info.consumers[t].provides :
    Installed(Consumer(t - 1), "dataProducer", info.consumers[t].provides[x])

\* What is there stays, so that only what is new is to be seen to.
LEMMA MoreInstalled ==
  ASSUME ScenarioInv, UNCHANGED <<p, drawn, file, net, info, origins>>, NEW more, Install(more),
         \A n \in DOMAIN more : /\ n \in AllNames(p) /\ IsSeq(more[n])
                                /\ \A j \in DOMAIN more[n] : AppOK(n, more[n][j]),
         \/ stage = "consumers" /\ stage' = "producers"
         \/ stage = "producers" /\ stage' = "dataProducers" /\ NodesServe'
         \/ stage = "dataProducers" /\ stage' = "polls" /\ DataServed'
         \/ stage = "polls" /\ stage' = "origins"
  PROVE  ScenarioInv'
<1>1. stage \in Installing /\ stage' \in Installing /\ stage # "bootstrap" /\ stage' # "run"
      /\ stage \notin RequestsToRead /\ stage' \notin RequestsToRead
      /\ stage \notin SettingUp /\ stage \notin SettingUp \union {"bootstrap"}
  BY DEF Installing, SettingUp, Reading, RequestsToRead, FunctionsToRead, LinksToRead, NodesToRead,
     Writing, Drawing
<1>2. FileInv' /\ NetInv' /\ InfoInv' /\ OriginsInv'
  BY <1>1, BuiltKept DEF OriginsInv
<1>3. AppsSound /\ p \in Settings /\ p' = p
  BY <1>1 DEF ScenarioInv, AppsInv, FileInv, AppsSound
<1>4. /\ AppsSound'
      /\ \A n \in AllNames(p) : \A type, prefix :
           Among(apps[n], type, prefix) => Among(apps'[n], type, prefix)
  BY <1>3, InstallKeeps
<1>5. Computes(p) \in Nat /\ Computes(p) > 3 /\ p.consumers \in Nat
  BY <1>3, NodeListLength, SettingFacts
<1>6. /\ \A i \in 1 .. Computes(p) : NodeName(i) \in AllNames(p)
      /\ \A t \in 1 .. p.consumers : Consumer(t - 1) \in AllNames(p)
  <2>1. \A t \in 1 .. p.consumers : t - 1 \in 0 .. p.consumers - 1
    BY <1>5
  <2> QED
    BY <2>1 DEF AllNames
<1>7. Orchestrator \in AllNames(p)
  <2>1. Orchestrator = NodeName(1) /\ 1 \in 1 .. Computes(p)
    BY <1>5 DEF NodeName
  <2> QED
    BY <1>6, <2>1
<1>8. ASSUME p.orch, NEW i \in 3 .. Computes(p) PROVE Obeying(i)'
  <2>1. Obeying(i)
    BY <1>1, <1>8 DEF ScenarioInv, AppsInv
  <2>2. i \in 1 .. Computes(p)
    BY <1>5
  <2> QED
    BY <1>4, <1>6, <1>7, <2>1, <2>2 DEF Obeying, Installed
<1>9. NodesServe => NodesServe'
  <2>1. 2 \in 1 .. Computes(p) /\ \A i \in 2 .. Computes(p) : i \in 1 .. Computes(p)
    BY <1>5
  <2> QED
    BY <1>3, <1>4, <1>6, <2>1 DEF NodesServe, Installed
<1>10. DataServed => DataServed'
  BY <1>3, <1>4, <1>6 DEF DataServed, Installed
<1>11. /\ stage \in {"dataProducers", "polls"} => NodesServe
       /\ stage = "polls" => DataServed
  BY DEF ScenarioInv, AppsInv, NodesServe, DataServed
<1>12. /\ stage' \in {"dataProducers", "polls", "origins", "run"} => NodesServe'
       /\ stage' \in {"polls", "origins", "run"} => DataServed'
  BY <1>9, <1>10, <1>11
<1>13. AppsInv'
  BY <1>1, <1>3, <1>4, <1>8, <1>12 DEF AppsInv, AppsSound, NodesServe, DataServed
<1> QED
  BY <1>2, <1>13 DEF ScenarioInv

\* The t-th consumer of the container is the only one of its name.
LEMMA HereIs ==
  ASSUME ScenarioInv, stage \in Installing
  PROVE  /\ p.consumers \in Nat /\ DOMAIN info.consumers = 1 .. p.consumers
         /\ Range(net.consumers) = {Consumer(j) : j \in 0 .. p.consumers - 1}
         /\ \A n \in Range(net.consumers) : n \in AllNames(p)
         /\ \A t \in 1 .. p.consumers :
              /\ net.consumers[t] = Consumer(t - 1) /\ net.consumers[t] \in Range(net.consumers)
              /\ {u \in DOMAIN info.consumers : net.consumers[u] = Consumer(t - 1)} = {t}
              /\ info.consumers[t] \in Known
         /\ \A n \in Range(net.consumers) : \E t \in 1 .. p.consumers : n = Consumer(t - 1)
<1>1. stage \notin NodesToRead /\ stage \notin Reading
  BY DEF Installing, Reading, RequestsToRead, FunctionsToRead, LinksToRead, NodesToRead, Writing, Drawing
<1>2. p \in Settings /\ NodesBuilt /\ AllConsumersKnown
  BY <1>1 DEF ScenarioInv, FileInv, NetInv, InfoInv
<1>3. p.consumers \in Nat /\ DOMAIN info.consumers = 1 .. p.consumers /\ info.consumers \in Seq(Known)
  BY <1>2, SettingFacts DEF AllConsumersKnown
<1>4. \A t \in 1 .. p.consumers : net.consumers[t] = Consumer(t - 1) /\ DOMAIN net.consumers = 1 .. p.consumers
  BY <1>2 DEF NodesBuilt, ConsumerNames
<1>5. Range(net.consumers) = {Consumer(j) : j \in 0 .. p.consumers - 1}
  BY <1>2, NamesBuilt
<1>6. \A t, u \in 1 .. p.consumers : Consumer(t - 1) = Consumer(u - 1) => t = u
  <2> SUFFICES ASSUME NEW t \in 1 .. p.consumers, NEW u \in 1 .. p.consumers,
                      Consumer(t - 1) = Consumer(u - 1)
               PROVE  t = u
    OBVIOUS
  <2>1. t - 1 = u - 1
    BY NamesDiffer
  <2> QED
    BY <2>1
<1>7. \A t \in 1 .. p.consumers :
        {u \in DOMAIN info.consumers : net.consumers[u] = Consumer(t - 1)} = {t}
  BY <1>3, <1>4, <1>6
<1>8. \A t \in 1 .. p.consumers : t - 1 \in 0 .. p.consumers - 1
  BY <1>3
<1>9. \A j \in 0 .. p.consumers - 1 : j + 1 \in 1 .. p.consumers /\ (j + 1) - 1 = j
  BY <1>3
<1>10. \A n \in Range(net.consumers) : \E t \in 1 .. p.consumers : n = Consumer(t - 1)
  BY <1>5, <1>9
<1>11. \A t \in 1 .. p.consumers : info.consumers[t] \in Known
  <2> HIDE DEF Known
  <2> QED
    BY <1>3
<1> QED
  BY <1>3, <1>4, <1>5, <1>7, <1>8, <1>10, <1>11 DEF AllNames

\* The consumers ask for what their lines say.
LEMMA ConsumersInstalled ==
  ASSUME ScenarioInv, InstallConsumers
  PROVE  ScenarioInv'
<1> DEFINE Here(n) == {t \in DOMAIN info.consumers : net.consumers[t] = n}
           Of(t) == [k \in DOMAIN info.consumers[t].requests |->
                       App("consumer", info.consumers[t].requests[k], 0)]
           more == [n \in Range(net.consumers) |->
                      IF Here(n) = {} THEN <<>> ELSE Of(CHOOSE t \in Here(n) : TRUE)]
<1>1. /\ stage = "consumers" /\ stage' = "producers" /\ UNCHANGED <<p, drawn, file, net, info, origins>>
      /\ Install(more)
  BY DEF InstallConsumers, At, Then
<1>2. stage \in Installing
  BY <1>1 DEF Installing
<1>3. \A n \in Range(net.consumers) : \E t \in 1 .. p.consumers :
        n = Consumer(t - 1) /\ Here(n) = {t}
  BY <1>2, HereIs
<1>4. ASSUME NEW t \in 1 .. p.consumers
      PROVE  IsSeq(Of(t)) /\ \A n : \A k \in DOMAIN Of(t) : AppOK(n, Of(t)[k])
  <2> DEFINE q == info.consumers[t].requests
             F == Of(t)
  <2>1. info.consumers[t] \in Known
    BY <1>2, HereIs
  <2>2. q \in Seq({RequestPrefix(file.requests[l]) : l \in DOMAIN file.requests})
    BY <2>1 DEF Known, KnownConsumer
  <2> HIDE DEF q
  <2>3. DOMAIN q = 1 .. Len(q) /\ Len(q) \in Nat
        /\ \A k \in DOMAIN q : q[k] \in {RequestPrefix(file.requests[l]) : l \in DOMAIN file.requests}
    BY <2>2
  <2>4. F = [k \in DOMAIN q |-> App("consumer", q[k], 0)]
    BY DEF q
  <2> HIDE DEF F
  <2>5. F = [k \in 1 .. Len(q) |-> F[k]]
    BY <2>3, <2>4
  <2>6. IsSeq(F) /\ DOMAIN F = 1 .. Len(q)
    BY <2>3, <2>5, FunctionIsSeq
  <2>7. ASSUME NEW n, NEW k \in DOMAIN F PROVE AppOK(n, F[k])
    <3>1. F[k] = App("consumer", q[k], 0) /\ k \in DOMAIN q
      BY <2>3, <2>4, <2>6
    <3>2. F[k].type = "consumer" /\ F[k].prefix = q[k]
      BY <3>1 DEF App
    <3> QED
      BY <2>3, <3>1, <3>2 DEF AppOK
  <2> QED
    BY <2>6, <2>7 DEF F
<1> HIDE DEF Of
<1>5. \A n \in DOMAIN more : /\ n \in AllNames(p) /\ IsSeq(more[n])
                             /\ \A j \in DOMAIN more[n] : AppOK(n, more[n][j])
  <2> TAKE n \in DOMAIN more
  <2>1. PICK t \in 1 .. p.consumers : n = Consumer(t - 1) /\ Here(n) = {t}
    BY <1>3
  <2>2. more[n] = Of(t)
    <3>1. more[n] = IF Here(n) = {} THEN <<>> ELSE Of(CHOOSE u \in Here(n) : TRUE)
      OBVIOUS
    <3> HIDE DEF Here, more
    <3> QED
      BY <2>1, <3>1
  <2>3. n \in AllNames(p)
    BY <1>2, HereIs
  <2> QED
    BY <1>4, <2>2, <2>3
<1> HIDE DEF more
<1> QED
  BY <1>1, <1>5, MoreInstalled

\* The consumers that provide data get a producer for each.
LEMMA DataProducersInstalled ==
  ASSUME ScenarioInv, InstallDataProducers
  PROVE  ScenarioInv'
<1> DEFINE Here(n) == {t \in DOMAIN info.consumers : net.consumers[t] = n}
           Of(t) == [k \in DOMAIN info.consumers[t].provides |->
                       App("dataProducer", info.consumers[t].provides[k], 0)]
           more == [n \in Range(net.consumers) |->
                      IF Here(n) = {} THEN <<>> ELSE Of(CHOOSE t \in Here(n) : TRUE)]
<1>1. /\ stage = "dataProducers" /\ stage' = "polls" /\ UNCHANGED <<p, drawn, file, net, info, origins>>
      /\ Install(more)
  BY DEF InstallDataProducers, At, Then
<1>2. stage \in Installing /\ stage \notin RequestsToRead
  BY <1>1 DEF Installing, RequestsToRead, FunctionsToRead, LinksToRead, NodesToRead, Writing, Drawing
<1>3. \A n \in Range(net.consumers) : \E t \in 1 .. p.consumers :
        n = Consumer(t - 1) /\ Here(n) = {t}
  BY <1>2, HereIs
<1>4. ASSUME NEW t \in 1 .. p.consumers
      PROVE  /\ IsSeq(Of(t)) /\ \A n : \A k \in DOMAIN Of(t) : AppOK(n, Of(t)[k])
             /\ \A k \in DOMAIN info.consumers[t].provides :
                  /\ k \in DOMAIN Of(t) /\ Of(t)[k].type = "dataProducer"
                  /\ Of(t)[k].prefix = info.consumers[t].provides[k]
  <2> DEFINE q == info.consumers[t].provides
             F == Of(t)
  <2>1. info.consumers[t] \in Known
    BY <1>2, HereIs
  <2>2. q \in Seq({DataPrefix(a) : a \in 0 .. p.data})
    BY <2>1 DEF Known, KnownConsumer
  <2> HIDE DEF q
  <2>3. DOMAIN q = 1 .. Len(q) /\ Len(q) \in Nat
    BY <2>2
  <2>4. F = [k \in DOMAIN q |-> App("dataProducer", q[k], 0)]
    BY DEF q
  <2> HIDE DEF F
  <2>5. F = [k \in 1 .. Len(q) |-> F[k]]
    BY <2>3, <2>4
  <2>6. IsSeq(F) /\ DOMAIN F = 1 .. Len(q)
    BY <2>3, <2>5, FunctionIsSeq
  <2>7. ASSUME NEW k \in DOMAIN q
        PROVE  k \in DOMAIN F /\ F[k].type = "dataProducer" /\ F[k].prefix = q[k]
    BY <2>3, <2>4, <2>6 DEF App
  <2>8. \A n : \A k \in DOMAIN F : AppOK(n, F[k])
    BY <2>3, <2>6, <2>7 DEF AppOK
  <2> QED
    BY <2>6, <2>7, <2>8 DEF F, q
<1> HIDE DEF Of
<1>5. ASSUME NEW t \in 1 .. p.consumers
      PROVE  /\ Consumer(t - 1) \in DOMAIN more /\ Consumer(t - 1) \in AllNames(p)
             /\ more[Consumer(t - 1)] = Of(t)
  <2> DEFINE n == Consumer(t - 1)
  <2>1. n \in Range(net.consumers) /\ Here(n) = {t} /\ n \in AllNames(p)
    BY <1>2, HereIs
  <2>2. n \in DOMAIN more /\ more[n] = IF Here(n) = {} THEN <<>> ELSE Of(CHOOSE u \in Here(n) : TRUE)
    BY <2>1
  <2> HIDE DEF Here, more, n
  <2>3. more[n] = Of(t)
    BY <2>1, <2>2
  <2> QED
    BY <2>1, <2>2, <2>3 DEF n
<1>6. \A n \in DOMAIN more : \E t \in 1 .. p.consumers : n = Consumer(t - 1)
  BY <1>3
<1> HIDE DEF more
<1>7. \A n \in DOMAIN more : /\ n \in AllNames(p) /\ IsSeq(more[n])
                             /\ \A j \in DOMAIN more[n] : AppOK(n, more[n][j])
  BY <1>4, <1>5, <1>6
<1>8. DataServed'
  <2>1. AppsSound
    BY <1>2 DEF ScenarioInv, AppsInv, AppsSound
  <2>2. \A n \in DOMAIN more : \A k \in DOMAIN more[n] :
          Among(apps'[n], more[n][k].type, more[n][k].prefix)
    BY <1>1, <1>7, <2>1, InstallKeeps
  <2>3. ASSUME NEW t \in 1 .. p.consumers, NEW x \in DOMAIN info.consumers[t].provides
        PROVE  Among(apps'[Consumer(t - 1)], "dataProducer", info.consumers[t].provides[x])
    <3> DEFINE n == Consumer(t - 1)
    <3>1. n \in DOMAIN more /\ more[n] = Of(t)
      BY <1>5
    <3>2. /\ x \in DOMAIN Of(t) /\ Of(t)[x].type = "dataProducer"
          /\ Of(t)[x].prefix = info.consumers[t].provides[x]
      BY <1>4
    <3> HIDE DEF n
    <3>3. Among(apps'[n], more[n][x].type, more[n][x].prefix)
      BY <2>2, <3>1, <3>2
    <3> QED
      BY <3>1, <3>2, <3>3 DEF n
  <2> QED
    BY <1>1, <2>3 DEF DataServed, Installed
<1> QED
  BY <1>1, <1>7, <1>8, MoreInstalled

\* Every node gets a producer for each function it serves.
LEMMA ProducersInstalled ==
  ASSUME ScenarioInv, InstallProducers
  PROVE  ScenarioInv'
<1> DEFINE Of(i) == [k \in DOMAIN info.compute[i].functions |->
                       App("nfnProducer", info.compute[i].functions[k], 0)]
           Orchestrate == <<App("nfnProducer", [to |-> "orchestrate", of |-> "any"], 0)>>
           place(n) == CHOOSE i \in DOMAIN net.nodes : net.nodes[i].name = n
           more == [n \in {net.nodes[i].name : i \in DOMAIN net.nodes} |->
                      IF n = Home /\ p.orch THEN Orchestrate ELSE Of(place(n))]
<1>1. /\ stage = "producers" /\ stage' = "dataProducers"
      /\ UNCHANGED <<p, drawn, file, net, info, origins>> /\ Install(more)
  BY DEF InstallProducers, At, Then
<1>2. /\ stage \in Installing
      /\ stage \notin NodesToRead /\ stage \notin RequestsToRead /\ stage \notin Reading
      /\ stage \notin SettingUp
  BY <1>1 DEF Installing, SettingUp, Reading, RequestsToRead, FunctionsToRead, LinksToRead, NodesToRead,
     Writing, Drawing
<1>3. /\ AppsSound /\ NodesBuilt /\ p \in Settings /\ ComputesKnown
      /\ \A i \in 2 .. Computes(p) : ServedFunctions(i, info.compute[i].functions)
  BY <1>2 DEF ScenarioInv, AppsInv, NetInv, FileInv, AppsSound, InfoInv
<1>4. Computes(p) \in Nat /\ Computes(p) > 3 /\ p.funcs \in Nat
  BY <1>3, NodeListLength, SettingFacts
<1>5. Home = NodeName(1) /\ \A i \in 1 .. Computes(p) : net.nodes[i].name = NodeName(i)
  BY <1>3, NamesBuilt DEF NodesBuilt
<1>6. DOMAIN net.nodes = 1 .. Computes(p)
  BY <1>3 DEF NodesBuilt
<1>7. \A i \in 1 .. Computes(p) : place(NodeName(i)) = i
  <2> TAKE i \in 1 .. Computes(p)
  <2>1. \E k \in DOMAIN net.nodes : net.nodes[k].name = NodeName(i)
    BY <1>5, <1>6
  <2>2. place(NodeName(i)) \in DOMAIN net.nodes /\ net.nodes[place(NodeName(i))].name = NodeName(i)
    BY <2>1
  <2> HIDE DEF place
  <2>3. NodeName(place(NodeName(i))) = NodeName(i)
    BY <1>5, <1>6, <2>2
  <2>4. i \in Nat /\ place(NodeName(i)) \in Nat /\ i > 0 /\ place(NodeName(i)) > 0
    BY <1>4, <1>6, <2>2
  <2> QED
    BY <2>3, <2>4, NodeNamesDiffer
<1>8. ASSUME NEW i \in 1 .. Computes(p)
      PROVE  /\ IsSeq(Of(i)) /\ \A n : \A k \in DOMAIN Of(i) : AppOK(n, Of(i)[k])
             /\ i = 2 => \A f \in 0 .. p.funcs - 1 :
                  \E k \in DOMAIN Of(i) :
                    Of(i)[k].type = "nfnProducer" /\ Of(i)[k].prefix = FunctionPrefix(f)
             /\ i # 1 => \E k \in DOMAIN Of(i) :
                  Of(i)[k].type = "nfnProducer" /\ Of(i)[k].prefix = LambdaPrefix
  <2> DEFINE q == info.compute[i].functions
             F == Of(i)
  <2>1. \E m \in Nat : DOMAIN q = 1 .. m
    <3>1. CASE i = 1
      <4>1. q = <<>>
        BY <1>3, <1>4, <3>1 DEF ComputesKnown
      <4>2. DOMAIN q = 1 .. 0
        BY <4>1
      <4> QED
        BY <4>2
    <3>2. CASE i # 1
      <4>1. ServedFunctions(i, q)
        BY <1>3, <1>4, <3>2
      <4> HIDE DEF q
      <4>2. DOMAIN q = 1 .. p.funcs + 1 \/ DOMAIN q = 1 .. 1
        BY <4>1 DEF ServedFunctions
      <4>3. p.funcs + 1 \in Nat /\ 1 \in Nat
        BY <1>4
      <4> QED
        BY <4>2, <4>3
    <3> QED
      BY <3>1, <3>2
  <2>2. F = [k \in DOMAIN q |-> App("nfnProducer", q[k], 0)]
    OBVIOUS
  <2>3. i = 2 => /\ DOMAIN q = 1 .. p.funcs + 1
                 /\ \A k \in 1 .. p.funcs : q[k + 1] = FunctionPrefix(k - 1)
    <3>1. i = 2 => ServedFunctions(i, q)
      BY <1>3, <1>4
    <3> HIDE DEF q, F
    <3> QED
      BY <3>1 DEF ServedFunctions
  <2> HIDE DEF q, F
  <2>4. PICK m \in Nat : DOMAIN q = 1 .. m
    BY <2>1
  <2>5. F = [k \in 1 .. m |-> F[k]]
    BY <2>2, <2>4
  <2>6. IsSeq(F) /\ DOMAIN F = DOMAIN q
    BY <2>4, <2>5, FunctionIsSeq
  <2>7. \A k \in DOMAIN F : F[k].type = "nfnProducer" /\ F[k].prefix = q[k]
    BY <2>2, <2>6 DEF App
  <2>8. \A n : \A k \in DOMAIN F : AppOK(n, F[k])
    BY <2>7 DEF AppOK
  <2>9. ASSUME i = 2, NEW f \in 0 .. p.funcs - 1
        PROVE  \E k \in DOMAIN F : F[k].type = "nfnProducer" /\ F[k].prefix = FunctionPrefix(f)
    <3>1. f + 1 \in 1 .. p.funcs /\ (f + 1) + 1 \in 1 .. p.funcs + 1 /\ (f + 1) - 1 = f
      BY <1>4
    <3>2. (f + 1) + 1 \in DOMAIN F /\ q[(f + 1) + 1] = FunctionPrefix(f)
      BY <2>3, <2>6, <2>9, <3>1
    <3> QED
      BY <2>7, <3>2
  <2>10. ASSUME i # 1
         PROVE  \E k \in DOMAIN F : F[k].type = "nfnProducer" /\ F[k].prefix = LambdaPrefix
    <3>1. ServedFunctions(i, q)
      BY <1>3, <1>4, <2>10 DEF q
    <3>2. 1 \in DOMAIN q /\ q[1] = LambdaPrefix
      BY <1>4, <3>1 DEF ServedFunctions
    <3> QED
      BY <2>6, <2>7, <3>2
  <2> QED
    BY <2>6, <2>8, <2>9, <2>10 DEF F
<1> DEFINE O == Orchestrate
<1>9. IsSeq(O) /\ \A n : \A k \in DOMAIN O : AppOK(n, O[k])
  <2> DEFINE a == App("nfnProducer", [to |-> "orchestrate", of |-> "any"], 0)
  <2>1. a.type = "nfnProducer" /\ O = <<a>>
    BY DEF App
  <2> HIDE DEF a, O
  <2>2. IsSeq(<<a>>) /\ \A k \in DOMAIN <<a>> : <<a>>[k] = a
    BY DEF IsSeq
  <2>3. \A n : AppOK(n, a)
    BY <2>1 DEF AppOK
  <2> QED
    BY <2>1, <2>2, <2>3
<1> HIDE DEF Orchestrate, Of, place
<1>10. DOMAIN more = {NodeName(i) : i \in 1 .. Computes(p)}
  BY <1>5, <1>6
<1>11. \A i \in 1 .. Computes(p) :
         more[NodeName(i)] = IF NodeName(i) = NodeName(1) /\ p.orch THEN Orchestrate ELSE Of(i)
  <2> TAKE i \in 1 .. Computes(p)
  <2>1. NodeName(i) \in {net.nodes[k].name : k \in DOMAIN net.nodes}
    BY <1>5, <1>6
  <2> QED
    BY <1>5, <1>7, <2>1
<1> HIDE DEF more
<1>12. \A n \in DOMAIN more : /\ n \in AllNames(p) /\ IsSeq(more[n])
                              /\ \A j \in DOMAIN more[n] : AppOK(n, more[n][j])
  <2> TAKE n \in DOMAIN more
  <2>1. PICK i \in 1 .. Computes(p) : n = NodeName(i)
    BY <1>10
  <2>2. n \in AllNames(p)
    BY <2>1 DEF AllNames
  <2>3. more[n] = Orchestrate \/ more[n] = Of(i)
    BY <1>11, <2>1
  <2> QED
    BY <1>8, <1>9, <2>2, <2>3
<1>13. NodesServe'
  <2>1. \A n \in DOMAIN more : \A k \in DOMAIN more[n] :
          Among(apps'[n], more[n][k].type, more[n][k].prefix)
    BY <1>1, <1>3, <1>12, InstallKeeps
  <2>2. 2 \in 1 .. Computes(p) /\ NodeName(2) # NodeName(1)
    BY <1>4, NodeNamesDiffer
  <2> DEFINE n == NodeName(2)
             F == Of(2)
  <2>3. n \in DOMAIN more /\ more[n] = F
    BY <1>10, <1>11, <2>2
  <2>4. ASSUME NEW f \in 0 .. p.funcs - 1
        PROVE  Among(apps'[n], "nfnProducer", FunctionPrefix(f))
    <3>1. PICK k \in DOMAIN F : F[k].type = "nfnProducer" /\ F[k].prefix = FunctionPrefix(f)
      BY <1>8, <2>2
    <3> HIDE DEF n, F
    <3> QED
      BY <2>1, <2>3, <3>1
  <2>5. ASSUME NEW i \in 2 .. Computes(p)
        PROVE  Among(apps'[NodeName(i)], "nfnProducer", LambdaPrefix)
    <3> HIDE DEF n, F
    <3>1. i \in 1 .. Computes(p) /\ i \in Nat /\ i > 0 /\ i # 1
      BY <1>4
    <3>2. NodeName(i) # NodeName(1)
      BY <3>1, NodeNamesDiffer
    <3>3. NodeName(i) \in DOMAIN more /\ more[NodeName(i)] = Of(i)
      BY <1>10, <1>11, <3>1, <3>2
    <3>4. PICK k \in DOMAIN Of(i) : Of(i)[k].type = "nfnProducer" /\ Of(i)[k].prefix = LambdaPrefix
      BY <1>8, <3>1
    <3> QED
      BY <2>1, <3>3, <3>4
  <2> QED
    BY <1>1, <2>4, <2>5 DEF NodesServe, Installed
<1> QED
  BY <1>1, <1>12, <1>13, MoreInstalled

\* The orchestrator polls every node that obeys it, and manages them.
LEMMA PollsInstalled ==
  ASSUME ScenarioInv, InstallPolls
  PROVE  ScenarioInv'
<1>1. /\ stage = "polls" /\ stage' = "origins" /\ UNCHANGED <<p, drawn, file, net, info, origins>>
  BY DEF InstallPolls, At, Then
<1>2. stage \in Installing /\ stage' \in Installing
      /\ stage \notin RequestsToRead /\ stage' \notin RequestsToRead /\ stage \notin SettingUp
      /\ stage' \notin SettingUp
  BY <1>1 DEF Installing, SettingUp, Reading, RequestsToRead, FunctionsToRead, LinksToRead, NodesToRead,
     Writing, Drawing
<1>3. CASE ~ p.orch
  <2>1. UNCHANGED apps
    BY <1>3 DEF InstallPolls
  <2>2. FileInv' /\ NetInv' /\ InfoInv' /\ OriginsInv'
    BY <1>1, <1>2, BuiltKept DEF OriginsInv
  <2>3. AppsInv
    BY DEF ScenarioInv
  <2>4. AppsInv'
    BY <1>1, <1>2, <1>3, <2>1, <2>3 DEF AppsInv, AppOK, Installed
  <2> QED
    BY <2>2, <2>4 DEF ScenarioInv
<1>4. CASE p.orch
  <2> DEFINE asking == Asking("poll", 10)
             a == App("management", [to |-> "none", of |-> "any"], 12)
             one == <<a>>
             R == asking \o one
             more == [n \in {Home} |-> R]
  <2>1. Install(more)
    BY <1>4 DEF InstallPolls
  <2>2. /\ Computes(p) \in Nat /\ Computes(p) > 3 /\ Home = Orchestrator
        /\ IsSeq(asking) /\ DOMAIN asking = 1 .. Computes(p) - 2
        /\ \A k \in 1 .. Computes(p) - 2 :
             asking[k] = App("poll", NodePrefix(NodeName(k + 2)), 10)
    BY <1>2, AskingIs
  <2> HIDE DEF asking
  <2>3. \A k \in DOMAIN asking : AppOK(Orchestrator, asking[k])
    <3> TAKE k \in DOMAIN asking
    <3>1. asking[k] = App("poll", NodePrefix(NodeName(k + 2)), 10) /\ k + 2 \in 3 .. Computes(p)
      BY <2>2
    <3> DEFINE b == asking[k]
    <3>2. b.type = "poll" /\ b.prefix = NodePrefix(NodeName(k + 2)) /\ b.at = 10
      BY <3>1 DEF App
    <3> HIDE DEF b
    <3>3. AppOK(Orchestrator, b)
      BY <1>4, <3>1, <3>2 DEF AppOK
    <3> QED
      BY <3>3 DEF b
  <2>4. a.type = "management" /\ a.at = 12
    BY DEF App
  <2> HIDE DEF a
  <2>5. AppOK(Orchestrator, a)
    BY <2>4 DEF AppOK
  <2>6. IsSeq(one) /\ Len(one) = 1 /\ one[1] = a
    BY DEF IsSeq
  <2> HIDE DEF one
  <2>7. Joined(asking, one, R) /\ DOMAIN asking = 1 .. Len(asking) /\ Len(asking) \in Nat
    <3>1. Joined(asking, one, R) /\ Len(asking) \in Nat
      BY <2>2, <2>6, Concat
    <3> QED
      BY <2>2, <3>1 DEF IsSeq
  <2> HIDE DEF R
  <2>8. IsSeq(R) /\ \A j \in DOMAIN R : AppOK(Orchestrator, R[j])
    <3>1. ASSUME NEW j \in DOMAIN R PROVE AppOK(Orchestrator, R[j])
      <4>1. j \in 1 .. Len(R) /\ (j \in 1 .. Len(asking) \/ j > Len(asking))
        BY <2>7 DEF Joined
      <4>2. CASE j \in 1 .. Len(asking)
        BY <2>3, <2>7, <4>2 DEF Joined
      <4>3. CASE j > Len(asking)
        <5>1. j - Len(asking) = 1 /\ R[j] = one[j - Len(asking)]
          BY <2>6, <2>7, <4>1, <4>3 DEF Joined
        <5> QED
          BY <2>5, <2>6, <5>1
      <4> QED
        BY <4>1, <4>2, <4>3
    <3> QED
      BY <2>7, <3>1 DEF Joined
  <2>9. Orchestrator \in AllNames(p)
    <3>1. Orchestrator = NodeName(1) /\ 1 \in 1 .. Computes(p)
      BY <2>2 DEF NodeName
    <3> QED
      BY <3>1 DEF AllNames
  <2>10. \A n \in DOMAIN more : n = Orchestrator /\ more[n] = R
    BY <2>2
  <2> HIDE DEF more
  <2>11. \A n \in DOMAIN more : /\ n \in AllNames(p) /\ IsSeq(more[n])
                                /\ \A j \in DOMAIN more[n] : AppOK(n, more[n][j])
    BY <2>8, <2>9, <2>10
  <2> QED
    BY <1>1, <2>1, <2>11, MoreInstalled
<1> QED
  BY <1>3, <1>4

\* The routes are announced; the invariant asks only that they are these.
LEMMA OriginsAdded ==
  ASSUME ScenarioInv, AddOrigins
  PROVE  ScenarioInv'
<1>1. /\ stage = "origins" /\ stage' = "run" /\ UNCHANGED <<p, drawn, file, net, info, apps>>
      /\ origins' = NodeOrigins \union FunctionOrigins \union DataOrigins
  BY DEF AddOrigins, At, Then
<1>2. stage \in Installing /\ stage' \in Installing \union {"run"}
      /\ stage \notin RequestsToRead /\ stage' \notin RequestsToRead /\ stage \notin SettingUp
      /\ stage' \notin SettingUp
  BY <1>1 DEF Installing, SettingUp, Reading, RequestsToRead, FunctionsToRead, LinksToRead, NodesToRead,
     Writing, Drawing
<1>3. FileInv' /\ NetInv' /\ InfoInv'
  BY <1>1, <1>2, BuiltKept
<1>4. AppsInv'
  <2>1. AppsInv
    BY DEF ScenarioInv
  <2> QED
    BY <1>1, <1>2, <2>1 DEF AppsInv, AppOK, Obeying, Installed
<1>5. OriginsInv'
  BY <1>1 DEF OriginsInv, NodeOrigins, FunctionOrigins, DataOrigins
<1> QED
  BY <1>3, <1>4, <1>5 DEF ScenarioInv

\* A step that changes nothing.
LEMMA NothingHappens ==
  ASSUME ScenarioInv, UNCHANGED vars
  PROVE  ScenarioInv'
<1>1. UNCHANGED <<p, stage, drawn, file, net, info, apps, origins>>
  BY DEF vars
<1>2. FileInv'
  BY <1>1 DEF ScenarioInv, FileInv, RequestOK
<1>3. NetInv'
  BY <1>1 DEF ScenarioInv, NetInv, NodesBuilt, FunctionsBuilt, CopiesBuilt
<1>4. InfoInv'
  BY <1>1 DEF ScenarioInv, InfoInv, ComputesKnown, AllConsumersKnown, Known, ServedFunctions
<1>5. AppsInv'
  <2>1. AppsInv
    BY DEF ScenarioInv
  <2> QED
    BY <1>1, <2>1 DEF AppsInv, AppOK, Obeying, Installed
<1>6. OriginsInv'
  BY <1>1 DEF ScenarioInv, OriginsInv, NodeOrigins, FunctionOrigins, DataOrigins
<1> QED
  BY <1>2, <1>3, <1>4, <1>5, <1>6 DEF ScenarioInv

\* The stages of main build on one another as it means: at each stage the file,
\* the network, what was parsed, the applications and the routes are what the
\* stages before have made them, for every command line and every draw.
THEOREM ScenarioInvariance == Spec => []ScenarioInv
<1>1. ScenarioInv /\ [Next]_vars => ScenarioInv'
  <2> SUFFICES ASSUME ScenarioInv, [Next]_vars PROVE ScenarioInv'
    OBVIOUS
  <2>1. CASE WriteRouters \/ WriteLinks
    BY <2>1, RoutersLinksWritten
  <2>2. CASE WriteFunctions
    BY <2>2, FunctionsWritten
  <2>3. CASE WriteBurst \/ WriteOthers
    BY <2>3, RequestsWritten
  <2>4. CASE WriteData
    BY <2>4, DataWritten
  <2>5. CASE ReadNodes
    BY <2>5, NodesRead
  <2>6. CASE ReadLinks
    BY <2>6, LinksReadBuilt
  <2>7. CASE ReadFunctions
    BY <2>7, FunctionsReadBuilt
  <2>8. CASE ReadRequests
    BY <2>8, RequestsReadBuilt
  <2>9. CASE ParseNodeInfo
    BY <2>9, NodeInfoParsed
  <2>10. CASE SetUpFunctions
    BY <2>10, FunctionsSetUp
  <2>11. CASE InstallBootstrap
    BY <2>11, BootstrapInstalled
  <2>12. CASE InstallConsumers
    BY <2>12, ConsumersInstalled
  <2>13. CASE InstallProducers
    BY <2>13, ProducersInstalled
  <2>14. CASE InstallDataProducers
    BY <2>14, DataProducersInstalled
  <2>15. CASE InstallPolls
    BY <2>15, PollsInstalled
  <2>16. CASE AddOrigins
    BY <2>16, OriginsAdded
  <2>17. CASE Run
    BY <2>17, NothingHappens DEF Run
  <2>18. CASE UNCHANGED vars
    BY <2>18, NothingHappens
  <2> QED
    BY <2>1, <2>2, <2>3, <2>4, <2>5, <2>6, <2>7, <2>8, <2>9, <2>10, <2>11, <2>12, <2>13, <2>14,
       <2>15, <2>16, <2>17, <2>18 DEF Next
<1> QED
  BY <1>1, InitInv, PTL DEF Spec

\* The stages of the invariant are those of the program.
LEMMA StagesListed ==
  AllStages \subseteq Range(Stages)
<1>1. DOMAIN Stages = 1 .. 19
  BY DEF Stages
<1>2. /\ Stages[1] = "routers" /\ Stages[2] = "links" /\ Stages[3] = "functions"
      /\ Stages[4] = "bursts" /\ Stages[5] = "others" /\ Stages[6] = "data"
      /\ Stages[7] = "readNodes" /\ Stages[8] = "readLinks" /\ Stages[9] = "readFunctions"
      /\ Stages[10] = "readRequests" /\ Stages[11] = "parse" /\ Stages[12] = "setUp"
      /\ Stages[13] = "bootstrap" /\ Stages[14] = "consumers" /\ Stages[15] = "producers"
      /\ Stages[16] = "dataProducers" /\ Stages[17] = "polls" /\ Stages[18] = "origins"
      /\ Stages[19] = "run"
  BY DEF Stages
<1> DEFINE R == Range(Stages)
<1>3. \A i \in 1 .. 19 : Stages[i] \in R
  BY <1>1 DEF Range
<1>4. /\ Stages[1] \in R /\ Stages[2] \in R /\ Stages[3] \in R /\ Stages[4] \in R /\ Stages[5] \in R
      /\ Stages[6] \in R /\ Stages[7] \in R /\ Stages[8] \in R /\ Stages[9] \in R /\ Stages[10] \in R
      /\ Stages[11] \in R /\ Stages[12] \in R /\ Stages[13] \in R /\ Stages[14] \in R /\ Stages[15] \in R
      /\ Stages[16] \in R /\ Stages[17] \in R /\ Stages[18] \in R /\ Stages[19] \in R
  <2> HIDE DEF R
  <2> QED
    BY <1>3
<1> HIDE DEF R
<1>5. AllStages \subseteq R
  BY <1>2, <1>4 DEF AllStages, SettingUp, Reading, RequestsToRead, FunctionsToRead, LinksToRead,
     NodesToRead, Writing, Drawing
<1> QED
  BY <1>5 DEF R

\* The types follow from what the sections hold.
LEMMA InvImpliesTypeOK ==
  ScenarioInv => TypeOK
<1> SUFFICES ASSUME ScenarioInv PROVE TypeOK
  OBVIOUS
<1>1. FileInv /\ NetInv /\ InfoInv /\ AppsInv
  BY DEF ScenarioInv
<1>2. p \in Settings /\ stage \in AllStages /\ drawn.bursts \in 0 .. 3
  BY <1>1 DEF FileInv
<1>3. stage \in Range(Stages)
  BY <1>2, StagesListed
<1>4. \A i \in DOMAIN file.requests : file.requests[i].inputs \in Seq(0 .. p.data)
  <2>1. CASE stage \in Drawing
    BY <1>1, <2>1 DEF FileInv
  <2>2. CASE stage \notin Drawing
    BY <1>1, <2>2, LineTyped
  <2> QED
    BY <2>1, <2>2
<1>5. Computes(p) \in Nat /\ Computes(p) > 3 /\ p.consumers \in Nat /\ p.funcs \in Nat
  BY <1>2, SettingFacts, NodeListLength
<1>6. stage \in NodesToRead => stage \in Reading /\ stage \in RequestsToRead
  BY DEF Reading, RequestsToRead, FunctionsToRead, LinksToRead
<1>7. \A i \in DOMAIN net.nodes : net.nodes[i].enabled \subseteq 0 .. p.funcs - 1
  <2>1. CASE stage \in NodesToRead
    BY <1>1, <2>1 DEF NetInv
  <2>2. CASE stage \notin NodesToRead
    <3>1. DOMAIN net.nodes = 1 .. Computes(p)
      BY <1>1, <2>2 DEF NetInv, NodesBuilt
    <3>2. \A i \in 1 .. Computes(p) :
            net.nodes[i].enabled = IF i = 2 /\ stage \notin SettingUp THEN 0 .. p.funcs - 1 ELSE {}
      BY <1>1, <2>2 DEF NetInv
    <3> QED
      BY <3>1, <3>2
  <2> QED
    BY <2>1, <2>2
<1>8. /\ Len(info.consumers) <= p.consumers
      /\ Len(info.compute) = IF info.compute = <<>> THEN 0 ELSE Len(net.nodes)
  <2>1. CASE stage \in Reading
    BY <1>1, <1>5, <2>1 DEF InfoInv
  <2>2. CASE stage \notin Reading
    <3>1. /\ DOMAIN info.compute = 1 .. Computes(p) /\ Len(info.compute) = Computes(p)
          /\ info.consumers \in Seq(Known) /\ DOMAIN info.consumers = 1 .. p.consumers
      BY <1>1, <2>2 DEF InfoInv, ComputesKnown, AllConsumersKnown
    <3>2. Len(net.nodes) = Computes(p)
      BY <1>1, <1>6, <2>2 DEF NetInv
    <3>3. Len(info.consumers) = p.consumers
      <4> HIDE DEF Known
      <4> QED
        BY <1>5, <3>1
    <3>4. info.compute # <<>>
      BY <1>5, <3>1
    <3> QED
      BY <1>5, <3>1, <3>2, <3>3, <3>4
  <2> QED
    BY <2>1, <2>2
<1>9. DOMAIN apps \in {{}, Names}
  <2>1. CASE stage \in RequestsToRead
    BY <1>1, <2>1 DEF AppsInv
  <2>2. CASE stage \notin RequestsToRead
    <3>1. NodesBuilt
      BY <1>1, <1>6, <2>2 DEF NetInv
    <3> QED
      BY <1>1, <1>2, <2>2, <3>1, NamesBuilt DEF AppsInv
  <2> QED
    BY <2>1, <2>2
<1> QED
  BY <1>2, <1>3, <1>4, <1>7, <1>8, <1>9 DEF TypeOK

\* The network is the one the command line means as soon as the links are read.
LEMMA InvImpliesWired ==
  ScenarioInv => Wired
<1> SUFFICES ASSUME ScenarioInv PROVE Wired
  OBVIOUS
<1>1. CASE stage # "readFunctions"
  BY <1>1 DEF Wired, At
<1>2. CASE stage = "readFunctions"
  <2>1. stage \notin NodesToRead /\ stage \notin LinksToRead
    BY <1>2 DEF LinksToRead, NodesToRead, Writing, Drawing
  <2>2. p \in Settings /\ LinksBuilt
    BY <2>1 DEF ScenarioInv, FileInv, NetInv, LinksBuilt
  <2> QED
    BY <2>2, WiredWell
<1> QED
  BY <1>1, <1>2

-----------------------------------------------------------------------------
(* When the simulation starts.                                             *)

AtRun == ScenarioInv /\ stage = "run"

\* What holds when the simulation starts.
LEMMA RunFacts ==
  ASSUME AtRun
  PROVE  /\ p \in Settings /\ NodesBuilt /\ FunctionsBuilt /\ CopiesBuilt /\ ComputesKnown
         /\ AllConsumersKnown /\ Names = AllNames(p) /\ Home = NodeName(1) /\ AppsSound
         /\ Len(net.nodes) = Computes(p) /\ Computes(p) \in Nat /\ Computes(p) > 3
         /\ \A i \in 2 .. Computes(p) : ServedFunctions(i, info.compute[i].functions)
         /\ net.nodes[2].enabled = 0 .. p.funcs - 1
         /\ NodesServe /\ DataServed
         /\ p.orch => \A i \in 3 .. Computes(p) : Obeying(i)
         /\ origins = NodeOrigins \union FunctionOrigins \union DataOrigins
         /\ p.funcs \in Nat /\ p.consumers \in Nat /\ p.data = p.consumers
         /\ drawn.provided \in ProvidedData(p) /\ file.data = DataSection(p, drawn.provided)
         /\ stage \notin Drawing /\ FileInv
<1>1. \A S \in {Drawing, Writing, NodesToRead, LinksToRead, FunctionsToRead, RequestsToRead, Reading,
                SettingUp} : stage \notin S
  BY DEF AtRun, SettingUp, Reading, RequestsToRead, FunctionsToRead, LinksToRead,
     NodesToRead, Writing, Drawing
<1>2. /\ p \in Settings /\ drawn.provided \in ProvidedData(p)
      /\ file.data = DataSection(p, drawn.provided) /\ FileInv
  BY <1>1 DEF AtRun, ScenarioInv, FileInv
<1>3. /\ NodesBuilt /\ FunctionsBuilt /\ CopiesBuilt /\ Len(net.nodes) = Computes(p)
      /\ \A i \in 1 .. Computes(p) : net.nodes[i].enabled = IF i = 2 THEN 0 .. p.funcs - 1 ELSE {}
  BY <1>1 DEF AtRun, ScenarioInv, NetInv
<1>4. /\ ComputesKnown /\ AllConsumersKnown
      /\ \A i \in 2 .. Computes(p) : ServedFunctions(i, info.compute[i].functions)
  BY <1>1 DEF AtRun, ScenarioInv, InfoInv
<1>5. /\ AppsSound /\ NodesServe /\ DataServed
      /\ p.orch => \A i \in 3 .. Computes(p) : Obeying(i)
  <2>1. AppsInv /\ stage = "run" /\ stage \notin SettingUp \union {"bootstrap"}
    BY <1>1 DEF AtRun, ScenarioInv
  <2> QED
    BY <1>1, <2>1 DEF AppsInv, AppsSound, NodesServe, DataServed
<1>6. origins = NodeOrigins \union FunctionOrigins \union DataOrigins
  BY DEF AtRun, ScenarioInv, OriginsInv
<1>7. Computes(p) \in Nat /\ Computes(p) > 3 /\ p.funcs \in Nat /\ p.consumers \in Nat /\ p.data = p.consumers
  BY <1>2, SettingFacts, NodeListLength
<1>8. Names = AllNames(p) /\ Home = NodeName(1)
  BY <1>2, <1>3, NamesBuilt
<1>9. net.nodes[2].enabled = 0 .. p.funcs - 1
  BY <1>3, <1>7
<1> QED
  BY <1>1, <1>2, <1>3, <1>4, <1>5, <1>6, <1>7, <1>8, <1>9

\* What is announced, by what it leads to.
LEMMA Announced ==
  ASSUME AtRun, NEW prefix, NEW m
  PROVE  /\ prefix.to = "node" =>
              (<<prefix, m>> \in origins <=> <<prefix, m>> \in NodeOrigins)
         /\ prefix.to \in {"function", "lambda"} =>
              (<<prefix, m>> \in origins <=> <<prefix, m>> \in FunctionOrigins)
         /\ prefix.to = "data" =>
              (<<prefix, m>> \in origins <=> <<prefix, m>> \in DataOrigins)
<1>1. <<prefix, m>> \in NodeOrigins => prefix.to = "node"
  <2> SUFFICES ASSUME <<prefix, m>> \in NodeOrigins PROVE prefix.to = "node"
    OBVIOUS
  <2>1. PICK i \in DOMAIN net.nodes : <<prefix, m>> = <<info.compute[i].prefix, net.nodes[i].name>>
    BY DEF NodeOrigins
  <2>2. info.compute[i].prefix = NodePrefix(NodeName(i))
    BY RunFacts DEF NodesBuilt, ComputesKnown
  <2> QED
    BY <2>1, <2>2 DEF NodePrefix
<1>2. <<prefix, m>> \in FunctionOrigins => prefix.to \in {"function", "lambda"}
  <2> SUFFICES ASSUME <<prefix, m>> \in FunctionOrigins PROVE prefix.to \in {"function", "lambda"}
    OBVIOUS
  <2>1. PICK i \in 2 .. Computes(p) :
          <<prefix, m>> \in {<<f, net.nodes[i].name>> : f \in Range(info.compute[i].functions)}
    BY RunFacts DEF FunctionOrigins
  <2>2. prefix \in Range(info.compute[i].functions)
    BY <2>1
  <2> DEFINE q == info.compute[i].functions
  <2>3. ServedFunctions(i, q) /\ p.funcs \in Nat
    BY RunFacts
  <2>4. PICK k \in DOMAIN q : prefix = q[k]
    BY <2>2 DEF Range
  <2> HIDE DEF q
  <2>5. CASE k = 1
    BY <2>3, <2>4, <2>5 DEF ServedFunctions, LambdaPrefix
  <2>6. CASE k # 1
    <3>1. i = 2 /\ k - 1 \in 1 .. p.funcs /\ (k - 1) + 1 = k
      BY <2>3, <2>4, <2>6 DEF ServedFunctions
    <3>2. q[k] = FunctionPrefix((k - 1) - 1)
      BY <2>3, <3>1 DEF ServedFunctions
    <3> QED
      BY <2>4, <3>2 DEF FunctionPrefix
  <2> QED
    BY <2>5, <2>6
<1>3. <<prefix, m>> \in DataOrigins => prefix.to = "data"
  <2> SUFFICES ASSUME <<prefix, m>> \in DataOrigins PROVE prefix.to = "data"
    OBVIOUS
  <2>1. PICK t \in 1 .. p.consumers :
          <<prefix, m>> \in {<<d, net.consumers[t]>> : d \in Range(info.consumers[t].provides)}
    BY DEF DataOrigins
  <2>2. prefix \in Range(info.consumers[t].provides)
    BY <2>1
  <2>3. info.consumers[t] \in Known
    <3> HIDE DEF Known
    <3> QED
      BY RunFacts DEF AllConsumersKnown
  <2>4. info.consumers[t].provides \in Seq({DataPrefix(a) : a \in 0 .. p.data})
    BY <2>3 DEF Known, KnownConsumer
  <2>5. prefix \in {DataPrefix(a) : a \in 0 .. p.data}
    BY <2>2, <2>4 DEF Range
  <2> QED
    BY <2>5 DEF DataPrefix
<1>4. origins = NodeOrigins \union FunctionOrigins \union DataOrigins
  BY RunFacts
<1> QED
  BY <1>1, <1>2, <1>3, <1>4

\* A question to a node's orchestration application is answered there.
LEMMA NodeServed ==
  ASSUME AtRun, p.orch, NEW i \in 3 .. Computes(p)
  PROVE  Served("node", NodePrefix(NodeName(i)))
<1> DEFINE n == NodeName(i)
           prefix == NodePrefix(n)
<1>1. i \in 1 .. Computes(p) /\ i \in Nat /\ i > 0 /\ Names = AllNames(p) /\ Computes(p) \in Nat
  BY RunFacts
<1>2. n \in Names
  BY <1>1 DEF AllNames
<1>3. Runs(n, "node", prefix)
  BY RunFacts DEF Obeying, Installed, Among, Runs
<1>4. ASSUME NEW m PROVE <<prefix, m>> \in origins <=> m = n
  <2>1. prefix.to = "node"
    BY DEF NodePrefix
  <2>2. <<prefix, m>> \in origins <=> <<prefix, m>> \in NodeOrigins
    <3> HIDE DEF prefix
    <3> QED
      BY <2>1, Announced
  <2>3. \A k \in 1 .. Computes(p) :
          info.compute[k].prefix = NodePrefix(NodeName(k)) /\ net.nodes[k].name = NodeName(k)
    BY RunFacts DEF NodesBuilt, ComputesKnown
  <2>4. NodeOrigins = {<<info.compute[k].prefix, net.nodes[k].name>> : k \in 1 .. Computes(p)}
    BY RunFacts DEF NodeOrigins, NodesBuilt
  <2>5. \A k \in 1 .. Computes(p) : NodePrefix(NodeName(k)) = prefix => k = i
    <3> SUFFICES ASSUME NEW k \in 1 .. Computes(p), NodePrefix(NodeName(k)) = NodePrefix(NodeName(i))
                 PROVE  k = i
      OBVIOUS
    <3>1. NodeName(k) = NodeName(i)
      BY DEF NodePrefix
    <3>2. k \in Nat /\ k > 0
      BY <1>1
    <3> QED
      BY <1>1, <3>1, <3>2, NodeNamesDiffer
  <2> HIDE DEF prefix
  <2>6. <<prefix, m>> \in NodeOrigins => m = n
    <3> SUFFICES ASSUME <<prefix, m>> \in NodeOrigins PROVE m = n
      OBVIOUS
    <3>1. PICK k \in 1 .. Computes(p) : <<prefix, m>> = <<info.compute[k].prefix, net.nodes[k].name>>
      BY <2>4
    <3>2. prefix = info.compute[k].prefix /\ m = net.nodes[k].name
      BY <3>1
    <3> QED
      BY <2>3, <2>5, <3>2
  <2>7. <<prefix, n>> \in NodeOrigins
    <3>1. info.compute[i].prefix = prefix /\ net.nodes[i].name = n
      BY <1>1, <2>3 DEF prefix
    <3> QED
      BY <1>1, <2>4, <3>1
  <2> QED
    BY <2>2, <2>6, <2>7
<1>5. {m \in Names : <<prefix, m>> \in origins} = {n}
  BY <1>2, <1>4
<1> QED
  BY <1>2, <1>3, <1>5 DEF Served

\* A function is served by the cloud node, which has it enabled.
LEMMA FunctionServed ==
  ASSUME AtRun, NEW f \in 0 .. p.funcs - 1
  PROVE  /\ Served("nfnProducer", FunctionPrefix(f))
         /\ f \in net.nodes[2].enabled /\ 2 \in DOMAIN net.nodes
         /\ Runs(net.nodes[2].name, "nfnProducer", FunctionPrefix(f))
<1> DEFINE n == NodeName(2)
           prefix == FunctionPrefix(f)
<1>1. 2 \in 1 .. Computes(p) /\ 2 \in 2 .. Computes(p) /\ Names = AllNames(p) /\ p.funcs \in Nat
      /\ Computes(p) \in Nat
  BY RunFacts
<1>2. n \in Names
  BY <1>1 DEF AllNames
<1>3. Runs(n, "nfnProducer", prefix)
  BY RunFacts DEF NodesServe, Installed, Among, Runs
<1>4. ASSUME NEW m PROVE <<prefix, m>> \in origins <=> m = n
  <2>1. prefix.to = "function" /\ prefix.of = f /\ prefix # LambdaPrefix
    BY DEF FunctionPrefix, LambdaPrefix
  <2>2. <<prefix, m>> \in origins <=> <<prefix, m>> \in FunctionOrigins
    <3> HIDE DEF prefix
    <3> QED
      BY <2>1, Announced
  <2>3. net.nodes[2].name = n
    BY <1>1, RunFacts DEF NodesBuilt
  <2>4. \A k \in 2 .. Computes(p) : ServedFunctions(k, info.compute[k].functions)
    BY RunFacts
  <2>5. FunctionOrigins = UNION {{<<g, net.nodes[k].name>> : g \in Range(info.compute[k].functions)}
                                   : k \in 2 .. Computes(p)}
    BY RunFacts DEF FunctionOrigins
  <2>6. prefix \in Range(info.compute[2].functions)
    <3> DEFINE q == info.compute[2].functions
    <3>1. ServedFunctions(2, q)
      BY <1>1, <2>4
    <3> HIDE DEF q
    <3>2. f + 1 \in 1 .. p.funcs /\ (f + 1) + 1 \in 1 .. p.funcs + 1 /\ (f + 1) - 1 = f
      BY <1>1
    <3>3. (f + 1) + 1 \in DOMAIN q /\ q[(f + 1) + 1] = prefix
      BY <3>1, <3>2 DEF ServedFunctions
    <3>4. prefix \in Range(q)
      BY <3>3 DEF Range
    <3> QED
      BY <3>4 DEF q
  <2>7. ASSUME NEW k \in 2 .. Computes(p), prefix \in Range(info.compute[k].functions)
        PROVE  k = 2
    <3> DEFINE q == info.compute[k].functions
    <3>1. ServedFunctions(k, q)
      BY <2>4
    <3> HIDE DEF prefix
    <3>2. PICK x \in DOMAIN q : prefix = q[x]
      BY <2>7 DEF Range
    <3> HIDE DEF q
    <3> SUFFICES ASSUME k # 2 PROVE FALSE
      OBVIOUS
    <3>3. x = 1 /\ q[1] = LambdaPrefix
      BY <3>1, <3>2 DEF ServedFunctions
    <3> QED
      BY <2>1, <3>2, <3>3
  <2> HIDE DEF prefix
  <2>8. <<prefix, m>> \in FunctionOrigins => m = n
    <3> SUFFICES ASSUME <<prefix, m>> \in FunctionOrigins PROVE m = n
      OBVIOUS
    <3>1. PICK k \in 2 .. Computes(p) :
            <<prefix, m>> \in {<<g, net.nodes[k].name>> : g \in Range(info.compute[k].functions)}
      BY <2>5
    <3>2. prefix \in Range(info.compute[k].functions) /\ m = net.nodes[k].name
      BY <3>1
    <3> QED
      BY <2>3, <2>7, <3>2
  <2>9. <<prefix, n>> \in FunctionOrigins
    <3>1. <<prefix, n>> \in {<<g, net.nodes[2].name>> : g \in Range(info.compute[2].functions)}
      BY <2>3, <2>6
    <3> QED
      BY <1>1, <2>5, <3>1
  <2> QED
    BY <2>2, <2>8, <2>9
<1>5. {m \in Names : <<prefix, m>> \in origins} = {n}
  BY <1>2, <1>4
<1>6. Served("nfnProducer", prefix)
  BY <1>2, <1>3, <1>5 DEF Served
<1>7. net.nodes[2].name = n /\ 2 \in DOMAIN net.nodes /\ f \in net.nodes[2].enabled
  BY <1>1, RunFacts DEF NodesBuilt
<1> QED
  BY <1>3, <1>6, <1>7

\* A consumer's request is led to every node but the orchestrator's, and served there.
LEMMA LambdaServed ==
  ASSUME AtRun
  PROVE  /\ {i \in DOMAIN net.nodes : net.nodes[i].name \in RequestOrigins} = 2 .. Computes(p)
         /\ RequestOrigins = {net.nodes[i].name : i \in 2 .. Computes(p)}
         /\ \A i \in 2 .. Computes(p) : Runs(net.nodes[i].name, "nfnProducer", LambdaPrefix)
<1>1. Names = AllNames(p) /\ Computes(p) \in Nat /\ Computes(p) > 3
      /\ \A k \in 2 .. Computes(p) : ServedFunctions(k, info.compute[k].functions)
  BY RunFacts
<1>2. DOMAIN net.nodes = 1 .. Computes(p) /\ \A i \in 1 .. Computes(p) : net.nodes[i].name = NodeName(i)
  BY RunFacts DEF NodesBuilt
<1>3. \A i \in 2 .. Computes(p) : i \in 1 .. Computes(p) /\ i \in Nat /\ i > 0 /\ i # 1
  BY <1>1
<1>4. \A m : <<LambdaPrefix, m>> \in origins <=> \E i \in 2 .. Computes(p) : m = NodeName(i)
  <2> TAKE m
  <2>1. LambdaPrefix.to = "lambda"
    BY DEF LambdaPrefix
  <2>2. <<LambdaPrefix, m>> \in origins <=> <<LambdaPrefix, m>> \in FunctionOrigins
    BY <2>1, Announced
  <2>3. FunctionOrigins = UNION {{<<g, net.nodes[k].name>> : g \in Range(info.compute[k].functions)}
                                   : k \in 2 .. Computes(p)}
    BY RunFacts DEF FunctionOrigins
  <2>4. ASSUME <<LambdaPrefix, m>> \in FunctionOrigins
        PROVE  \E i \in 2 .. Computes(p) : m = NodeName(i)
    <3>1. PICK k \in 2 .. Computes(p) :
            <<LambdaPrefix, m>> \in {<<g, net.nodes[k].name>> : g \in Range(info.compute[k].functions)}
      BY <2>3, <2>4
    <3>2. m = net.nodes[k].name
      BY <3>1
    <3> QED
      BY <1>2, <1>3, <3>2
  <2>5. ASSUME NEW k \in 2 .. Computes(p), m = NodeName(k)
        PROVE  <<LambdaPrefix, m>> \in FunctionOrigins
    <3> DEFINE q == info.compute[k].functions
    <3>1. ServedFunctions(k, q) /\ p.funcs \in Nat
      BY <1>1, RunFacts
    <3>2. LambdaPrefix \in Range(q)
      <4> HIDE DEF q
      <4>1. 1 \in DOMAIN q /\ q[1] = LambdaPrefix
        BY <3>1 DEF ServedFunctions
      <4> QED
        BY <4>1 DEF Range
    <3>3. <<LambdaPrefix, m>> \in {<<g, net.nodes[k].name>> : g \in Range(q)}
      BY <1>2, <1>3, <2>5, <3>2
    <3> QED
      BY <2>3, <3>3
  <2> QED
    BY <2>2, <2>4, <2>5
<1>5. RequestOrigins = {NodeName(i) : i \in 2 .. Computes(p)}
  <2>1. \A i \in 2 .. Computes(p) : NodeName(i) \in Names
    BY <1>1, <1>3 DEF AllNames
  <2> QED
    BY <1>4, <2>1 DEF RequestOrigins
<1>6. RequestOrigins = {net.nodes[i].name : i \in 2 .. Computes(p)}
  BY <1>2, <1>3, <1>5
<1>7. {i \in DOMAIN net.nodes : net.nodes[i].name \in RequestOrigins} = 2 .. Computes(p)
  <2>1. ASSUME NEW i \in 1 .. Computes(p), NodeName(i) \in RequestOrigins PROVE i \in 2 .. Computes(p)
    <3>1. PICK k \in 2 .. Computes(p) : NodeName(i) = NodeName(k)
      BY <1>5, <2>1
    <3>2. i \in Nat /\ i > 0
      BY <1>1
    <3>3. i = k
      BY <1>3, <3>1, <3>2, NodeNamesDiffer
    <3> QED
      BY <3>3
  <2> QED
    BY <1>2, <1>3, <1>5, <2>1
<1>8. \A i \in 2 .. Computes(p) : Runs(net.nodes[i].name, "nfnProducer", LambdaPrefix)
  BY <1>2, <1>3, RunFacts DEF NodesServe, Installed, Among, Runs
<1> QED
  BY <1>6, <1>7, <1>8

\* What a consumer provides is served where it is announced.
LEMMA DataIsServed ==
  ASSUME AtRun, NEW a \in Range(drawn.provided)
  PROVE  Served("dataProducer", DataPrefix(a))
<1> DEFINE c == p.consumers
           K == info.consumers
           prefix == DataPrefix(a)
<1>1. /\ c \in Nat /\ p \in Settings /\ drawn.provided \in ProvidedData(p) /\ Names = AllNames(p)
      /\ file.data = DataSection(p, drawn.provided)
  BY RunFacts
<1>2. /\ DOMAIN file.data = 1 .. c /\ Len(file.data) = c /\ DOMAIN drawn.provided = 1 .. c
      /\ \A y \in 1 .. c : file.data[y].who = Consumer(y - 1) /\ file.data[y].data = drawn.provided[y]
  BY <1>1, DataLines
<1>3. DOMAIN K = 1 .. c /\ Provided(K, file.data, c) /\ K \in Seq(Known)
  <2> HIDE DEF Known
  <2> QED
    BY <1>2, RunFacts DEF AllConsumersKnown
<1>4. \A x, y \in 1 .. c : drawn.provided[x] = drawn.provided[y] => x = y
  BY <1>1, <1>2 DEF ProvidedData, IsInjective
<1>5. \A t \in 1 .. c : net.consumers[t] = Consumer(t - 1)
  BY RunFacts DEF NodesBuilt, ConsumerNames
<1>6. PICK y \in 1 .. c : drawn.provided[y] = a
  BY <1>2 DEF Range
<1>7. PICK i \in 1 .. c : /\ K[i].name = file.data[y].who
                          /\ \E x \in DOMAIN K[i].provides :
                               K[i].provides[x] = DataPrefix(file.data[y].data)
  BY <1>3 DEF Provided
<1>8. PICK x \in DOMAIN K[i].provides : K[i].provides[x] = prefix
  BY <1>2, <1>6, <1>7
<1> DEFINE n == Consumer(i - 1)
<1>9. n \in Names /\ net.consumers[i] = n
  <2>1. i - 1 \in 0 .. c - 1
    BY <1>1
  <2> QED
    BY <1>1, <1>5, <2>1 DEF AllNames
<1>10. Runs(n, "dataProducer", prefix)
  <2>1. Installed(n, "dataProducer", K[i].provides[x])
    BY RunFacts DEF DataServed
  <2> QED
    BY <1>8, <2>1 DEF Installed, Among, Runs
<1>11. ASSUME NEW t \in 1 .. c, prefix \in Range(K[t].provides) PROVE t = i
  <2>1. PICK u \in DOMAIN K[t].provides : K[t].provides[u] = prefix
    BY <1>11 DEF Range
  <2>2. PICK z \in 1 .. c : /\ file.data[z].who = K[t].name
                            /\ K[t].provides[u] = DataPrefix(file.data[z].data)
    <3>1. t \in DOMAIN K /\ Provided(K, file.data, c)
      BY <1>3
    <3> HIDE DEF K, c
    <3> QED
      BY <3>1 DEF Provided
  <2>3. DataPrefix(drawn.provided[z]) = DataPrefix(a)
    BY <1>2, <2>1, <2>2
  <2>4. drawn.provided[z] = a
    BY <2>3 DEF DataPrefix
  <2>5. z = y
    BY <1>4, <1>6, <2>4
  <2>6. K[t].name = K[i].name
    BY <1>7, <2>2, <2>5
  <2>7. OneEach(K)
    BY <1>3 DEF Provided
  <2> QED
    BY <1>3, <2>6, <2>7 DEF OneEach
<1>12. ASSUME NEW m PROVE <<prefix, m>> \in origins <=> m = n
  <2>1. prefix.to = "data"
    BY DEF DataPrefix
  <2> HIDE DEF prefix
  <2>2. <<prefix, m>> \in origins <=> <<prefix, m>> \in DataOrigins
    BY <2>1, Announced
  <2>3. DataOrigins = UNION {{<<d, net.consumers[t]>> : d \in Range(K[t].provides)} : t \in 1 .. c}
    BY DEF DataOrigins
  <2> HIDE DEF K, c, n
  <2>4. <<prefix, m>> \in DataOrigins => m = n
    <3> SUFFICES ASSUME <<prefix, m>> \in DataOrigins PROVE m = n
      OBVIOUS
    <3>1. PICK t \in 1 .. c : <<prefix, m>> \in {<<d, net.consumers[t]>> : d \in Range(K[t].provides)}
      BY <2>3
    <3>2. prefix \in Range(K[t].provides) /\ m = net.consumers[t]
      BY <3>1
    <3> QED
      BY <1>9, <1>11, <3>2
  <2>5. <<prefix, n>> \in DataOrigins
    <3>1. prefix \in Range(K[i].provides)
      BY <1>8 DEF Range
    <3>2. <<prefix, n>> \in {<<d, net.consumers[i]>> : d \in Range(K[i].provides)}
      BY <1>9, <3>1
    <3> QED
      BY <2>3, <3>2
  <2> QED
    BY <2>2, <2>4, <2>5
<1>13. {m \in Names : <<prefix, m>> \in origins} = {n}
  BY <1>9, <1>12
<1> QED
  BY <1>9, <1>10, <1>13 DEF Served

\* One name of the data is provided by nobody.
LEMMA OneUnprovided ==
  ASSUME AtRun
  PROVE  Cardinality((0 .. p.data) \ Range(drawn.provided)) = 1
<1> DEFINE c == p.consumers
           f == drawn.provided
           A == 0 .. c
<1>1. c \in Nat /\ p.data = c /\ f \in ProvidedData(p)
  BY RunFacts
<1>2. f \in [1 .. c -> A] /\ IsInjective(f)
  BY <1>1 DEF ProvidedData
<1> HIDE DEF f, c
<1>3. IsFiniteSet(A) /\ Cardinality(A) = c + 1
  <2>1. 0 \in Int /\ c \in Int /\ (IF 0 > c THEN 0 ELSE c - 0 + 1) = c + 1
    BY <1>1
  <2> QED
    BY <2>1, FS_Interval
<1>4. IsFiniteSet(1 .. c) /\ Cardinality(1 .. c) = c
  BY <1>1, FS_Interval
<1>5. f \in Injection(1 .. c, Range(f)) /\ f \in Surjection(1 .. c, Range(f))
  <2>1. f \in [1 .. c -> Range(f)]
    BY <1>2 DEF Range
  <2> QED
    BY <1>2, <2>1 DEF Injection, Surjection, Range
<1>6. IsFiniteSet(Range(f)) /\ Cardinality(Range(f)) = c
  BY <1>4, <1>5, FS_Surjection
<1>7. Range(f) \subseteq A
  BY <1>2 DEF Range
<1>8. Cardinality(A \ Range(f)) = Cardinality(A) - Cardinality(A \intersect Range(f))
  BY <1>3, FS_Difference
<1>9. A \intersect Range(f) = Range(f)
  BY <1>7
<1> HIDE DEF A
<1>10. Cardinality(A \ Range(f)) = 1
  BY <1>1, <1>3, <1>6, <1>8, <1>9
<1> QED
  BY <1>1, <1>10 DEF f, c, A

\* A request's function and inputs are served.
LEMMA RequestServed ==
  ASSUME AtRun, NEW l \in DOMAIN file.requests
  PROVE  RequestIsServed(RequestPrefix(file.requests[l]))
<1> DEFINE line == file.requests[l]
           request == RequestPrefix(line)
           f == request.of.func
           inputs == request.of.inputs
<1>1. f = line.func /\ inputs = line.inputs
  BY DEF RequestPrefix
<1>2. /\ f \in 0 .. p.funcs - 1 /\ inputs \in Seq(0 .. p.data)
      /\ Len(inputs) = drawn.inputs[f + 1]
  BY <1>1, RunFacts, LineTyped
<1>3. p.funcs \in Nat /\ FunctionsBuilt /\ CopiesBuilt /\ Len(net.nodes) = Computes(p)
  BY RunFacts
<1> DEFINE Copies(i) == {copy \in Range(net.nodes[i].functions) : copy.name = f}
           Nodes == {i \in DOMAIN net.nodes : net.nodes[i].name \in RequestOrigins}
<1>4. ASSUME NEW i \in 2 .. Computes(p), NEW copy \in Copies(i)
      PROVE  /\ copy.params = Len(inputs)
             /\ \A a \in Range(inputs) : ListsOrHides(copy, a)
  <2>1. net.nodes[i].functions = net.functions
    BY <1>3 DEF CopiesBuilt
  <2>2. DOMAIN net.functions = 1 .. p.funcs
    BY <1>3 DEF FunctionsBuilt
  <2>3. PICK k \in 1 .. p.funcs : copy = net.functions[k]
    BY <2>1, <2>2 DEF Range
  <2>4. net.functions[k].name = k - 1 /\ net.functions[k].params = drawn.inputs[k]
    BY <1>3 DEF FunctionsBuilt
  <2>5. f = k - 1
    BY <2>3, <2>4
  <2>6. f + 1 = k
    BY <1>3, <2>5
  <2>7. line.func = k - 1
    BY <1>1, <2>5
  <2>8. \A j \in DOMAIN line.inputs : Found(line.inputs[j], net.functions[k].inputs)
    BY <1>3, <2>7 DEF CopiesBuilt
  <2>9. ASSUME NEW a \in Range(inputs) PROVE ListsOrHides(copy, a)
    <3>1. PICK j \in DOMAIN inputs : a = inputs[j]
      BY DEF Range
    <3>2. Found(a, copy.inputs)
      BY <1>1, <2>3, <2>8, <3>1
    <3> QED
      BY <3>2 DEF Found, ListsOrHides, Range
  <2> HIDE DEF f, inputs
  <2> QED
    BY <1>2, <2>3, <2>4, <2>6, <2>9
<1>5. ASSUME NEW i \in 2 .. Computes(p) PROVE Copies(i) # {}
  <2>1. f + 1 \in 1 .. p.funcs /\ (f + 1) - 1 = f
    BY <1>2, <1>3
  <2>2. f + 1 \in DOMAIN net.functions /\ net.functions[f + 1].name = f
    BY <1>3, <2>1 DEF FunctionsBuilt
  <2>3. net.nodes[i].functions = net.functions
    BY <1>3 DEF CopiesBuilt
  <2> HIDE DEF f
  <2> QED
    BY <2>2, <2>3 DEF Range
<1>6. Nodes = 2 .. Len(net.nodes) /\ RequestOrigins = {net.nodes[i].name : i \in Nodes}
      /\ Nodes = 2 .. Computes(p) /\ 2 \in Nodes
  BY <1>3, LambdaServed, RunFacts
<1>7. \A i \in Nodes : Runs(net.nodes[i].name, "nfnProducer", LambdaPrefix)
  BY <1>6, LambdaServed
<1>8. /\ Served("nfnProducer", FunctionPrefix(f))
      /\ \E i \in Nodes :
           /\ f \in net.nodes[i].enabled
           /\ Runs(net.nodes[i].name, "nfnProducer", FunctionPrefix(f))
  <2> HIDE DEF f, Nodes
  <2> QED
    BY <1>2, <1>6, FunctionServed
<1>9. \A a \in Range(inputs) : a \in Range(drawn.provided) => Served("dataProducer", DataPrefix(a))
  BY DataIsServed
<1>10. \A i \in Nodes :
         /\ Runs(net.nodes[i].name, "nfnProducer", LambdaPrefix)
         /\ Copies(i) # {}
         /\ \A copy \in Copies(i) :
              /\ copy.params = Len(inputs)
              /\ \A a \in Range(inputs) : ListsOrHides(copy, a)
  <2> HIDE DEF f, inputs, Nodes, Copies
  <2> QED
    BY <1>4, <1>5, <1>6, <1>7
<1> HIDE DEF request
<1>11. RequestIsServed(request)
  BY <1>6, <1>8, <1>9, <1>10 DEF RequestIsServed
<1> QED
  BY <1>11 DEF request

\* Whatever an application asks when the simulation starts is served.
LEMMA InvImpliesAskedIsServed ==
  ScenarioInv => AskedIsServed
<1> SUFFICES ASSUME ScenarioInv, stage = "run"
             PROVE  /\ \A n \in Names : \A i \in DOMAIN apps[n] :
                         LET a == apps[n][i]
                         IN  /\ a.type = "consumer" => RequestIsServed(a.prefix)
                             /\ a.type \in {"bootstrap", "poll"} => Served("node", a.prefix)
                             /\ a.type = "poll" =>
                                  \E j \in DOMAIN apps[n] : /\ apps[n][j].type = "bootstrap"
                                                            /\ apps[n][j].prefix = a.prefix
                                                            /\ apps[n][j].at < a.at
                             /\ a.type = "management" =>
                                  \A j \in DOMAIN apps[n] : apps[n][j].type = "poll" => apps[n][j].at < a.at
                    /\ Cardinality((0 .. p.data) \ Range(drawn.provided)) = 1
  BY DEF AskedIsServed
<1>1. AtRun
  BY DEF AtRun
<1>2. ASSUME NEW n \in Names, NEW i \in DOMAIN apps[n]
      PROVE  LET a == apps[n][i]
             IN  /\ a.type = "consumer" => RequestIsServed(a.prefix)
                 /\ a.type \in {"bootstrap", "poll"} => Served("node", a.prefix)
                 /\ a.type = "poll" =>
                      \E j \in DOMAIN apps[n] : /\ apps[n][j].type = "bootstrap"
                                                /\ apps[n][j].prefix = a.prefix
                                                /\ apps[n][j].at < a.at
                 /\ a.type = "management" =>
                      \A j \in DOMAIN apps[n] : apps[n][j].type = "poll" => apps[n][j].at < a.at
  <2> DEFINE a == apps[n][i]
  <2>1. \A j \in DOMAIN apps[n] : AppOK(n, apps[n][j])
    BY <1>1, RunFacts DEF AppsSound
  <2>2. AppOK(n, a)
    BY <2>1
  <2> HIDE DEF a
  <2>3. a.type = "consumer" => RequestIsServed(a.prefix)
    BY <1>1, <2>2, RequestServed DEF AppOK
  <2>4. ASSUME a.type \in {"bootstrap", "poll"}
        PROVE  /\ Served("node", a.prefix) /\ n = Orchestrator
               /\ Among(apps[n], "bootstrap", a.prefix)
    <3>1. p.orch /\ n = Orchestrator
      BY <2>2, <2>4 DEF AppOK
    <3>2. PICK k \in 3 .. Computes(p) : a.prefix = NodePrefix(NodeName(k))
      BY <2>2, <2>4 DEF AppOK
    <3>3. Served("node", a.prefix)
      BY <1>1, <3>1, <3>2, NodeServed
    <3>4. Obeying(k)
      BY <1>1, <3>1, RunFacts
    <3> QED
      BY <3>1, <3>2, <3>3, <3>4 DEF Obeying, Installed
  <2>5. ASSUME a.type = "poll"
        PROVE  \E j \in DOMAIN apps[n] : /\ apps[n][j].type = "bootstrap"
                                         /\ apps[n][j].prefix = a.prefix
                                         /\ apps[n][j].at < a.at
    <3>1. PICK j \in DOMAIN apps[n] : apps[n][j].type = "bootstrap" /\ apps[n][j].prefix = a.prefix
      BY <2>4, <2>5 DEF Among
    <3>2. apps[n][j].at = 1 /\ a.at = 10
      BY <2>1, <2>2, <2>5, <3>1 DEF AppOK
    <3> QED
      BY <3>1, <3>2
  <2>6. ASSUME a.type = "management", NEW j \in DOMAIN apps[n], apps[n][j].type = "poll"
        PROVE  apps[n][j].at < a.at
    <3>1. apps[n][j].at = 10 /\ a.at = 12
      BY <2>1, <2>2, <2>6 DEF AppOK
    <3> QED
      BY <3>1
  <2> QED
    BY <2>3, <2>4, <2>5, <2>6 DEF a
<1> QED
  BY <1>1, <1>2, OneUnprovided

\* Every variable keeps its type, for every command line the generator accepts and
\* every draw: inputs are drawn among the data, a node enables functions that
\* exist, and the parser finds as many nodes as were created and no more
\* consumers (generate_data, ReadTopology, update_consumer_info).
THEOREM ScenarioTypeCorrect == Spec => []TypeOK
  BY ScenarioInvariance, InvImpliesTypeOK, PTL

\* Once the links are read, everything is within two links of the orchestrator, the
\* gateway is linked to the cloud and to tier 2, each node of tier 2 to two of
\* tier 3, each consumer hangs by one link on a node of tier 3, and the consumers
\* are spread evenly over that tier (generate_data, ReadTopology).
THEOREM AlwaysWired == Spec => []Wired
  BY ScenarioInvariance, InvImpliesWired, PTL

\* When the simulation starts, a consumer's request is led by its lambda prefix to
\* every compute node but the orchestrator's; a producer takes it there, whose node
\* has the function, with as many inputs as the request.  One of those nodes has it
\* enabled and serves it alone by its own name, and what the request needs is
\* produced where the routes lead, but for the one name that nobody provides.  A
\* node the orchestrator asks answers where the routes lead, and is introduced
\* before it is polled and polled before the first decision (the installations and
\* the AddOrigins calls of main).  That a copy lists every input is not stated:
\* AddToInputList hides one that another of the list begins with.
THEOREM AlwaysServed == Spec => []AskedIsServed
  BY ScenarioInvariance, InvImpliesAskedIsServed, PTL
=============================================================================
