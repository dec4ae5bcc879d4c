--------------------------- MODULE Tracers_proofs ---------------------------
(***************************************************************************)
(* What is proved of the tracers for every network, every choice of        *)
(* applications, every order of installing, reporting and destroying.      *)
(***************************************************************************)
EXTENDS Tracers, FiniteSetTheorems, WellFoundedInduction, TLAPS

Sources == UNION {SourcesOf[a] : a \in AppTypes}

Events == [node : Nodes, app : Nat, src : Sources, cost : Costs]

Executing == "ExecutingFunctionTrace"

Requests == [file : Files, nodes : NodeLists, since : Nat, had : Seq(SUBSET Nat)]

-----------------------------------------------------------------------------
(* What a tracer should have heard of a log.                               *)

HeardIn(L, a, i, s) ==
  {e \in (a.since + 1) .. Len(L) :
     L[e].src = s /\ L[e].node = a.nodes[i] /\ L[e].app \in a.had[i]}

CostIn(L, a, i, s, r, e) == IF e \in HeardIn(L, a, i, s) THEN L[e].cost[r] ELSE 0

\* g is the running total, event by event, of what they cost of r.
IsTotal(g, L, a, i, s, r) ==
  g = [e \in a.since .. Len(L) |->
         IF e = a.since THEN 0 ELSE g[e - 1] + CostIn(L, a, i, s, r, e)]

\* The tracer stands for the i-th node of the request a.
Stands(c, a, i, t) ==
  /\ t \in Tracer(c)
  /\ t.node = a.nodes[i]
  /\ t.apps = IF c = "orchNode" THEN {1} ELSE a.had[i]
  /\ \A s \in Connected[c] : Len(t.names[s]) = t.count[s]

\* It has counted what it should have heard.
Counted(L, c, a, i, t) ==
  /\ \A s \in Connected[c] :
       /\ t.count[s] = Cardinality(HeardIn(L, a, i, s))
       /\ Lists(t.names[s], HeardIn(L, a, i, s))
  /\ \A s \in Connected[c] : s = Executing =>
       \A r \in Resources : \E g : /\ g \in [a.since .. Len(L) -> Nat]
                                   /\ IsTotal(g, L, a, i, s, r)
                                   /\ t.used[r] = g[Len(L)]

(* One more event is heard or it is not.                                   *)
LEMMA HeardStep ==
  ASSUME NEW L \in Seq(Events), NEW e \in Events, NEW a, a.since \in Nat,
         a.since <= Len(L), NEW i, NEW s
  PROVE  HeardIn(Append(L, e), a, i, s) =
           IF e.src = s /\ e.node = a.nodes[i] /\ e.app \in a.had[i]
           THEN HeardIn(L, a, i, s) \union {Len(L) + 1} ELSE HeardIn(L, a, i, s)
<1> DEFINE K == Append(L, e)
           n == Len(L)
           Is(f) == f.src = s /\ f.node = a.nodes[i] /\ f.app \in a.had[i]
<1>1. n \in Nat /\ Len(K) = n + 1 /\ K[n + 1] = e /\ \A m \in 1 .. n : K[m] = L[m]
  OBVIOUS
<1>2. HeardIn(K, a, i, s) = {m \in (a.since + 1) .. Len(K) : Is(K[m])}
  BY DEF HeardIn
<1>3. HeardIn(L, a, i, s) = {m \in (a.since + 1) .. n : Is(L[m])}
  BY DEF HeardIn
<1> HIDE DEF K, n, Is
<1>4. \A m : m \in (a.since + 1) .. Len(K)
        <=> (m \in (a.since + 1) .. n \/ m = n + 1)
  BY <1>1 DEF n
<1>5. \A m \in (a.since + 1) .. n : Is(K[m]) <=> Is(L[m])
  <2> TAKE m \in (a.since + 1) .. n
  <2>1. m \in 1 .. n
    BY <1>1
  <2> QED
    BY <2>1, <1>1
<1>6. \A m : m \in HeardIn(K, a, i, s)
        <=> (m \in HeardIn(L, a, i, s) \/ (m = n + 1 /\ Is(e)))
  BY <1>1, <1>2, <1>3, <1>4, <1>5
<1>7. HeardIn(K, a, i, s) =
        IF Is(e) THEN HeardIn(L, a, i, s) \union {n + 1} ELSE HeardIn(L, a, i, s)
  BY <1>6
<1> QED
  BY <1>7 DEF K, n, Is

(* What was heard are events of the log, finitely many.                    *)
LEMMA HeardBounds ==
  ASSUME NEW L \in Seq(Events), NEW a, a.since \in Nat, NEW i, NEW s
  PROVE  /\ HeardIn(L, a, i, s) \subseteq 1 .. Len(L)
         /\ IsFiniteSet(HeardIn(L, a, i, s))
         /\ Cardinality(HeardIn(L, a, i, s)) \in Nat
         /\ Len(L) + 1 \notin HeardIn(L, a, i, s)
<1>1. Len(L) \in Nat
  OBVIOUS
<1>2. HeardIn(L, a, i, s) \subseteq 1 .. Len(L)
  BY <1>1 DEF HeardIn
<1>3. IsFiniteSet(1 .. Len(L))
  BY <1>1, FS_Interval
<1>4. IsFiniteSet(HeardIn(L, a, i, s))
  BY <1>2, <1>3, FS_Subset
<1> QED
  BY <1>1, <1>2, <1>4, FS_CardinalityType

(* Nothing has been heard since now.                                       *)
LEMMA HeardNothing ==
  ASSUME NEW L \in Seq(Events), NEW a, a.since = Len(L), NEW i, NEW s
  PROVE  HeardIn(L, a, i, s) = {}
BY DEF HeardIn

(* A list of what happened before n, and then n.                           *)
LEMMA ListsStep ==
  ASSUME NEW n \in Nat, NEW list \in Seq(Nat), NEW S \in SUBSET (1 .. n), Lists(list, S)
  PROVE  Lists(Append(list, n + 1), S \union {n + 1})
<1> DEFINE more == Append(list, n + 1)
           l == Len(list)
<1>1. /\ l \in Nat /\ DOMAIN list = 1 .. l /\ DOMAIN more = 1 .. (l + 1)
      /\ more[l + 1] = n + 1 /\ \A j \in 1 .. l : more[j] = list[j]
  OBVIOUS
<1>2. /\ {list[j] : j \in 1 .. l} = S
      /\ \A j, k \in 1 .. l : j < k => list[j] < list[k]
  BY <1>1 DEF Lists
<1> HIDE DEF more, l
<1>3. \A j \in 1 .. (l + 1) : j = l + 1 \/ j \in 1 .. l
  BY <1>1
<1>4. {more[j] : j \in 1 .. (l + 1)} = S \union {n + 1}
  <2>1. ASSUME NEW x \in S \union {n + 1} PROVE \E j \in 1 .. (l + 1) : more[j] = x
    <3>1. CASE x = n + 1
      BY <1>1, <3>1
    <3>2. CASE x \in S
      <4>1. PICK j \in 1 .. l : list[j] = x
        BY <1>2, <3>2
      <4>2. j \in 1 .. (l + 1)
        BY <1>1
      <4> QED
        BY <4>1, <4>2, <1>1
    <3> QED
      BY <3>1, <3>2
  <2>2. ASSUME NEW j \in 1 .. (l + 1) PROVE more[j] \in S \union {n + 1}
    BY <1>1, <1>2, <1>3
  <2> QED
    BY <2>1, <2>2
<1>5. ASSUME NEW j \in 1 .. (l + 1), NEW k \in 1 .. (l + 1), j < k
      PROVE  more[j] < more[k]
  <2>1. j \in 1 .. l
    BY <1>1, <1>5
  <2>2. more[j] = list[j] /\ list[j] \in 1 .. n
    BY <2>1, <1>1, <1>2
  <2>3. CASE k = l + 1
    BY <2>2, <2>3, <1>1
  <2>4. CASE k \in 1 .. l
    BY <2>1, <2>4, <1>1, <1>2, <1>5
  <2> QED
    BY <2>3, <2>4, <1>3
<1> QED
  BY <1>1, <1>4, <1>5 DEF Lists, more

(* The running total goes on by one event.                                 *)
LEMMA TotalStep ==
  ASSUME NEW L \in Seq(Events), NEW e \in Events, NEW a, a.since \in Nat,
         a.since <= Len(L), NEW i, NEW s, NEW r \in Resources,
         NEW g \in [a.since .. Len(L) -> Nat], IsTotal(g, L, a, i, s, r)
  PROVE  \E h \in [a.since .. (Len(L) + 1) -> Nat] :
           /\ IsTotal(h, Append(L, e), a, i, s, r)
           /\ h[Len(L) + 1] = g[Len(L)] + CostIn(Append(L, e), a, i, s, r, Len(L) + 1)
<1> DEFINE K == Append(L, e)
           n == Len(L)
           Adds(M, m) == CostIn(M, a, i, s, r, m)
           h == [m \in a.since .. (n + 1) |-> IF m = n + 1 THEN g[n] + Adds(K, n + 1) ELSE g[m]]
<1>1. n \in Nat /\ K \in Seq(Events) /\ Len(K) = n + 1 /\ K[n + 1] = e
      /\ \A m \in 1 .. n : K[m] = L[m]
  OBVIOUS
<1>2. e.cost[r] \in Nat /\ g[n] \in Nat
  <2>1. e.cost \in [Resources -> Nat]
    BY InstanceAssumption DEF Events
  <2>2. n \in a.since .. n
    BY <1>1 DEF n
  <2> QED
    BY <2>1, <2>2
<1>3. Adds(K, n + 1) \in Nat
  BY <1>1, <1>2 DEF CostIn
<1>4. \A m \in (a.since + 1) .. n : Adds(K, m) = Adds(L, m)
  <2> TAKE m \in (a.since + 1) .. n
  <2>1. m \in 1 .. n /\ m # n + 1
    BY <1>1
  <2>2. m \in HeardIn(K, a, i, s) <=> m \in HeardIn(L, a, i, s)
    BY <2>1, HeardStep
  <2> QED
    BY <2>1, <2>2, <1>1 DEF CostIn
<1>5. g = [m \in a.since .. n |-> IF m = a.since THEN 0 ELSE g[m - 1] + Adds(L, m)]
  BY DEF IsTotal
<1>6. h[n + 1] = g[n] + Adds(K, n + 1)
  BY <1>1
<1>7. h \in [a.since .. (n + 1) -> Nat]
  <2>1. ASSUME NEW m \in a.since .. (n + 1) PROVE h[m] \in Nat
    <3>1. m = n + 1 \/ m \in a.since .. n
      BY <1>1
    <3> QED
      BY <3>1, <1>2, <1>3, <1>1
  <2> QED
    BY <2>1
<1>8. \A m \in a.since .. (n + 1) :
        h[m] = IF m = a.since THEN 0 ELSE h[m - 1] + Adds(K, m)
  <2> TAKE m \in a.since .. (n + 1)
  <2> HIDE DEF Adds, K
  <2>1. CASE m = a.since
    <3>1. m \in a.since .. n /\ m # n + 1
      BY <2>1, <1>1
    <3>2. g[m] = 0
      BY <3>1, <2>1, <1>5
    <3> QED
      BY <2>1, <3>1, <3>2
  <2>2. CASE m = n + 1
    <3>1. m # a.since /\ m - 1 = n /\ n \in a.since .. (n + 1) /\ n # n + 1
      BY <2>2, <1>1
    <3>2. h[n] = g[n]
      BY <3>1
    <3> QED
      BY <2>2, <3>1, <3>2, <1>6
  <2>3. CASE m # a.since /\ m # n + 1
    <3>1. /\ m \in a.since .. n /\ m \in (a.since + 1) .. n
          /\ m - 1 \in a.since .. (n + 1) /\ m - 1 # n + 1
      BY <2>3, <1>1
    <3>2. h[m] = g[m] /\ h[m - 1] = g[m - 1]
      BY <3>1, <2>3
    <3>3. g[m] = g[m - 1] + Adds(L, m)
      BY <3>1, <2>3, <1>5
    <3> QED
      BY <3>1, <3>2, <3>3, <2>3, <1>4
  <2> QED
    BY <2>1, <2>2, <2>3
<1>9. h = [m \in a.since .. (n + 1) |-> IF m = a.since THEN 0 ELSE h[m - 1] + Adds(K, m)]
  <2>1. h = [m \in a.since .. (n + 1) |-> h[m]]
    OBVIOUS
  <2> HIDE DEF h, Adds
  <2> QED
    BY <2>1, <1>8
<1>10. IsTotal(h, K, a, i, s, r)
  <2> HIDE DEF h, K
  <2> QED
    BY <1>9, <1>1 DEF IsTotal
<1> HIDE DEF h
<1> QED
  BY <1>6, <1>7, <1>10, <1>1

(* A set of numbers has a smallest member.                                 *)
LEMMA LeastExists ==
  ASSUME NEW S \in SUBSET Nat, S # {}
  PROVE  \E x \in S : \A y \in S : x <= y
<1> DEFINE R == OpToRel(<, Nat)
<1>1. IsWellFoundedOn(R, Nat)
  BY NatLessThanWellFounded
<1> HIDE DEF R
<1>2. PICK x \in S : \A y \in S : ~ (<<y, x>> \in R)
  BY <1>1, WFMin
<1>3. ASSUME NEW y \in S PROVE x <= y
  <2>1. <<y, x>> \notin R /\ y \in Nat /\ x \in Nat
    BY <1>2
  <2>2. ~ (y < x)
    BY <2>1 DEF R, OpToRel
  <2> QED
    BY <2>1, <2>2
<1> QED
  BY <1>3

(* The running total ends in the sum that SumOf defines: at the first event *)
(* where the two differed, they would agree on the event before.           *)
LEMMA TotalIsSum ==
  ASSUME log \in Seq(Events), NEW a, a.since \in Nat, a.since <= Len(log),
         NEW i, NEW s, NEW r, NEW g, IsTotal(g, log, a, i, s, r)
  PROVE  SumOf(a, i, s, r) = g[Len(log)]
<1> DEFINE Dom == a.since .. Len(log)
           Adds(m) == IF m \in HeardOf(a, i, s) THEN log[m].cost[r] ELSE 0
           Totals(f) == f = [m \in Dom |-> IF m = a.since THEN 0 ELSE f[m - 1] + Adds(m)]
           total == CHOOSE f : Totals(f)
           Differ == {m \in Dom : total[m] # g[m]}
<1>1. Totals(g)
  BY DEF IsTotal, CostIn, HeardIn, HeardOf
<1>2. SumOf(a, i, s, r) = total[Len(log)]
  BY DEF SumOf
<1>3. Totals(total)
  BY <1>1
<1>4. Len(log) \in Dom /\ Dom \subseteq Nat
  OBVIOUS
<1> HIDE DEF total, Adds
<1>5. Differ = {}
  <2> SUFFICES ASSUME Differ # {} PROVE FALSE
    OBVIOUS
  <2>1. PICK m \in Differ : \A k \in Differ : m <= k
    BY <1>4, LeastExists
  <2>2. m \in Dom /\ total[m] # g[m] /\ m \in Nat
    BY <1>4
  <2>3. m # a.since
    BY <1>1, <1>3, <2>2
  <2>4. total[m] = total[m - 1] + Adds(m) /\ g[m] = g[m - 1] + Adds(m)
    BY <1>1, <1>3, <2>2, <2>3
  <2>5. m - 1 \in Dom /\ ~ (m <= m - 1)
    BY <2>2, <2>3
  <2>6. m - 1 \in Differ
    BY <2>2, <2>4, <2>5
  <2> QED
    BY <2>1, <2>5, <2>6
<1> QED
  BY <1>2, <1>4, <1>5

-----------------------------------------------------------------------------
(* A tracer.                                                               *)

(* A new tracer stands for its node and has counted nothing, rightly.      *)
LEMMA NewTracer ==
  ASSUME NEW c \in Classes, apps \in [Nodes -> Seq(AppTypes)], log \in Seq(Events),
         NEW a, a.since = Len(log), NEW i, a.nodes[i] \in Nodes,
         a.had[i] = DOMAIN apps[a.nodes[i]]
  PROVE  /\ Stands(c, a, i, New(c, a.nodes[i]))
         /\ Counted(log, c, a, i, New(c, a.nodes[i]))
<1> DEFINE t == New(c, a.nodes[i])
<1>1. DOMAIN apps[a.nodes[i]] \subseteq Nat
  <2>1. apps[a.nodes[i]] \in Seq(AppTypes)
    OBVIOUS
  <2> QED
    BY <2>1
<1>2. /\ t.node = a.nodes[i] /\ t.apps = Watched(c, a.nodes[i])
      /\ t.count = [s \in Connected[c] |-> 0] /\ t.used = [r \in Resources |-> 0]
      /\ t.names = [s \in Connected[c] |-> <<>>]
  BY DEF New
<1>3. t \in Tracer(c)
  <2>1. <<>> \in Seq(Nat) /\ {1} \subseteq Nat
    OBVIOUS
  <2>2. Watched(c, a.nodes[i]) \in SUBSET Nat
    BY <1>1, <2>1 DEF Watched
  <2> QED
    BY <2>1, <2>2 DEF New, Tracer
<1>4. Stands(c, a, i, t)
  <2> HIDE DEF t
  <2> QED
    BY <1>2, <1>3 DEF Stands, Watched
<1>5. Counted(log, c, a, i, t)
  <2> HIDE DEF t
  <2>1. ASSUME NEW s \in Connected[c]
        PROVE  /\ t.count[s] = Cardinality(HeardIn(log, a, i, s))
               /\ Lists(t.names[s], HeardIn(log, a, i, s))
    <3>1. HeardIn(log, a, i, s) = {} /\ Cardinality({}) = 0
      BY HeardNothing, FS_EmptySet
    <3>2. t.count[s] = 0 /\ t.names[s] = <<>>
      BY <1>2
    <3>3. Lists(<<>>, {})
      BY DEF Lists
    <3> QED
      BY <3>1, <3>2, <3>3
  <2>2. ASSUME NEW s \in Connected[c], NEW r \in Resources
        PROVE  \E g : /\ g \in [a.since .. Len(log) -> Nat]
                      /\ IsTotal(g, log, a, i, s, r)
                      /\ t.used[r] = g[Len(log)]
    <3> DEFINE g == [m \in a.since .. Len(log) |-> 0]
    <3>1. Len(log) \in Nat /\ a.since .. Len(log) = {Len(log)}
      OBVIOUS
    <3>2. g \in [a.since .. Len(log) -> Nat] /\ g[Len(log)] = 0
      BY <3>1
    <3>3. IsTotal(g, log, a, i, s, r)
      BY <3>1 DEF IsTotal
    <3>4. t.used[r] = 0
      BY <1>2
    <3> HIDE DEF g
    <3> QED
      BY <3>2, <3>3, <3>4
  <2> QED
    BY <2>1, <2>2 DEF Counted
<1> QED
  BY <1>4, <1>5

(* A tracer hears what it should: the tracer of the application that obeys *)
(* commands connects to the first application only, and only that one fires *)
(* the sources of this class.                                              *)
LEMMA HearsItsOwn ==
  ASSUME NEW c \in Classes, NEW a, NEW i, NEW t, Stands(c, a, i, t), NEW e \in Events,
         e.src \in OrchNodeConnect => e.app = 1, c = "orchNode" => 1 \in a.had[i]
  PROVE  Hears(c, t, e) <=>
           e.src \in Connected[c] /\ e.node = a.nodes[i] /\ e.app \in a.had[i]
BY DEF Hears, Stands, Connected

(* A callback keeps the tracer's type, its place and a name per count.     *)
LEMMA CallbackStands ==
  ASSUME NEW c \in Classes, NEW a, NEW i, NEW t, Stands(c, a, i, t),
         NEW e \in Events, e.src \in Connected[c], log \in Seq(Events)
  PROVE  Stands(c, a, i, Callback(t, e))
<1> DEFINE u == Callback(t, e)
           n == Len(log) + 1
<1>1. n \in Nat /\ e.cost \in [Resources -> Nat]
  BY InstanceAssumption DEF Events
<1>2. /\ t.node \in Nodes /\ t.apps \in SUBSET Nat /\ t.count \in [Connected[c] -> Nat]
      /\ t.used \in [Resources -> Nat] /\ t.names \in [Connected[c] -> Seq(Nat)]
      /\ t = [node |-> t.node, apps |-> t.apps, count |-> t.count,
              used |-> t.used, names |-> t.names]
  BY DEF Stands, Tracer
<1> DEFINE more == [t.count EXCEPT ![e.src] = @ + 1]
           sums == IF e.src = "ExecutingFunctionTrace"
                   THEN [r \in Resources |-> t.used[r] + e.cost[r]] ELSE t.used
           list == [t.names EXCEPT ![e.src] = Append(@, n)]
<1>3. u = [node |-> t.node, apps |-> t.apps, count |-> more, used |-> sums, names |-> list]
  <2>1. u = [t EXCEPT !.count = more, !.names = list, !.used = sums]
    BY <1>2 DEF Callback
  <2> HIDE DEF u, more, sums, list
  <2> QED
    BY <1>2, <2>1
<1>4. u \in Tracer(c)
  <2>1. [t.count EXCEPT ![e.src] = @ + 1] \in [Connected[c] -> Nat]
    BY <1>2
  <2>2. [r \in Resources |-> t.used[r] + e.cost[r]] \in [Resources -> Nat]
    BY <1>1, <1>2
  <2>3. [t.names EXCEPT ![e.src] = Append(@, n)] \in [Connected[c] -> Seq(Nat)]
    BY <1>1, <1>2
  <2> QED
    BY <1>2, <1>3, <2>1, <2>2, <2>3 DEF Tracer
<1>5. u.node = t.node /\ u.apps = t.apps
  BY <1>3
<1>6. ASSUME NEW s \in Connected[c] PROVE Len(u.names[s]) = u.count[s]
  <2>1. t.names[s] \in Seq(Nat) /\ Len(t.names[s]) = t.count[s]
    BY <1>2 DEF Stands
  <2>2. CASE s = e.src
    <3>1. u.names[s] = Append(t.names[s], n) /\ u.count[s] = t.count[s] + 1
      BY <1>2, <1>3, <2>2
    <3> QED
      BY <2>1, <3>1
  <2>3. CASE s # e.src
    <3>1. u.names[s] = t.names[s] /\ u.count[s] = t.count[s]
      BY <1>2, <1>3, <2>3
    <3> QED
      BY <2>1, <3>1
  <2> QED
    BY <2>2, <2>3
<1> HIDE DEF u
<1>7. Stands(c, a, i, u)
  BY <1>4, <1>5, <1>6 DEF Stands
<1> QED
  BY <1>7 DEF u

(* What a tracer is after an event, told of it if it hears it, it has      *)
(* counted rightly.                                                        *)
LEMMA CallbackCounts ==
  ASSUME NEW c \in Classes, log \in Seq(Events), NEW e \in Events,
         NEW a, a.since \in Nat, a.since <= Len(log), NEW i, NEW t,
         Stands(c, a, i, t), Counted(log, c, a, i, t),
         e.src \in OrchNodeConnect => e.app = 1, c = "orchNode" => 1 \in a.had[i]
  PROVE  Counted(Append(log, e), c, a, i, IF Hears(c, t, e) THEN Callback(t, e) ELSE t)
<1> DEFINE u == IF Hears(c, t, e) THEN Callback(t, e) ELSE t
           n == Len(log) + 1
           Now(s) == HeardIn(Append(log, e), a, i, s)
           Before(s) == HeardIn(log, a, i, s)
           Told1(s) == Hears(c, t, e) /\ e.src = s
<1>1. n \in Nat /\ e.cost \in [Resources -> Nat]
  BY InstanceAssumption DEF Events
<1>2. /\ t.count \in [Connected[c] -> Nat]
      /\ t.used \in [Resources -> Nat] /\ t.names \in [Connected[c] -> Seq(Nat)]
      /\ t = [node |-> t.node, apps |-> t.apps, count |-> t.count,
              used |-> t.used, names |-> t.names]
  BY DEF Stands, Tracer
<1>3. \A s \in Connected[c] :
        Told1(s) <=> e.src = s /\ e.node = a.nodes[i] /\ e.app \in a.had[i]
  BY HearsItsOwn
<1>4. \A s \in Connected[c] : Now(s) = IF Told1(s) THEN Before(s) \union {n} ELSE Before(s)
  BY <1>3, HeardStep
<1>5. \A s \in Connected[c] :
        /\ u.count[s] = IF Told1(s) THEN t.count[s] + 1 ELSE t.count[s]
        /\ u.names[s] = IF Told1(s) THEN Append(t.names[s], n) ELSE t.names[s]
  <2> TAKE s \in Connected[c]
  <2>1. CASE Hears(c, t, e)
    <3>1. /\ u.count = [t.count EXCEPT ![e.src] = @ + 1]
          /\ u.names = [t.names EXCEPT ![e.src] = Append(@, n)]
      BY <1>2, <2>1 DEF Callback
    <3> QED
      BY <1>2, <2>1, <3>1
  <2>2. CASE ~ Hears(c, t, e)
    BY <2>2
  <2> QED
    BY <2>1, <2>2
<1>6. \A r \in Resources :
        u.used[r] = IF Told1(Executing) THEN t.used[r] + e.cost[r] ELSE t.used[r]
  <2>1. CASE Hears(c, t, e)
    <3>1. u.used = IF e.src = "ExecutingFunctionTrace"
                   THEN [r \in Resources |-> t.used[r] + e.cost[r]] ELSE t.used
      BY <1>2, <2>1 DEF Callback
    <3> QED
      BY <2>1, <3>1 DEF Executing
  <2>2. CASE ~ Hears(c, t, e)
    BY <2>2
  <2> QED
    BY <2>1, <2>2
<1> HIDE DEF u, Told1
<1>7. ASSUME NEW s \in Connected[c]
      PROVE  u.count[s] = Cardinality(Now(s)) /\ Lists(u.names[s], Now(s))
  <2>1. /\ Before(s) \subseteq 1 .. Len(log) /\ IsFiniteSet(Before(s)) /\ n \notin Before(s)
    BY HeardBounds
  <2>2. /\ t.count[s] = Cardinality(Before(s)) /\ Lists(t.names[s], Before(s))
        /\ t.names[s] \in Seq(Nat)
    BY <1>2 DEF Counted
  <2>3. CASE Told1(s)
    <3>1. Now(s) = Before(s) \union {n} /\ u.count[s] = t.count[s] + 1
          /\ u.names[s] = Append(t.names[s], n)
      BY <1>4, <1>5, <2>3
    <3>2. Cardinality(Before(s) \union {n}) = Cardinality(Before(s)) + 1
      BY <2>1, FS_AddElement
    <3>3. Lists(Append(t.names[s], n), Before(s) \union {n})
      <4>1. Len(log) \in Nat
        OBVIOUS
      <4> HIDE DEF Before
      <4> QED
        BY <2>1, <2>2, <4>1, ListsStep
    <3> QED
      BY <2>2, <3>1, <3>2, <3>3
  <2>4. CASE ~ Told1(s)
    BY <1>4, <1>5, <2>2, <2>4
  <2> QED
    BY <2>3, <2>4
<1>8. ASSUME NEW s \in Connected[c], s = Executing, NEW r \in Resources
      PROVE  \E g : /\ g \in [a.since .. Len(Append(log, e)) -> Nat]
                    /\ IsTotal(g, Append(log, e), a, i, s, r)
                    /\ u.used[r] = g[Len(Append(log, e))]
  <2>1. PICK g : /\ g \in [a.since .. Len(log) -> Nat] /\ IsTotal(g, log, a, i, s, r)
                 /\ t.used[r] = g[Len(log)]
    BY <1>8 DEF Counted
  <2>2. PICK h \in [a.since .. (Len(log) + 1) -> Nat] :
          /\ IsTotal(h, Append(log, e), a, i, s, r)
          /\ h[Len(log) + 1]
               = g[Len(log)] + CostIn(Append(log, e), a, i, s, r, Len(log) + 1)
    BY <2>1, TotalStep
  <2>3. n \in Now(s) <=> Told1(s)
    BY <1>4, HeardBounds
  <2>4. u.used[r] = h[n]
    <3>1. t.used[r] \in Nat /\ Append(log, e)[n] = e
      BY <1>2
    <3>2. CostIn(Append(log, e), a, i, s, r, n) = IF Told1(Executing) THEN e.cost[r] ELSE 0
      BY <1>8, <2>3, <3>1 DEF CostIn
    <3> QED
      BY <1>6, <2>1, <2>2, <3>1, <3>2
  <2>5. Len(Append(log, e)) = n
    OBVIOUS
  <2> QED
    BY <2>2, <2>4, <2>5
<1>9. Counted(Append(log, e), c, a, i, u)
  BY <1>7, <1>8 DEF Counted
<1> QED
  BY <1>9 DEF u

-----------------------------------------------------------------------------
(* A row.                                                                  *)

(* Every class prints, column by column, what its header announces, from   *)
(* a source it connects to; only executions are summed up.                 *)
LEMMA ColumnsAnnounced ==
  ASSUME NEW c \in Classes, NEW j \in DOMAIN Columns[c]
  PROVE  /\ j \in Nat \ {0}
         /\ Columns[c][j] = Headings[c][j]
         /\ Columns[c][j].what \in {"count", "sum", "names"}
         /\ Columns[c][j].src \in Connected[c]
         /\ Columns[c][j].what = "sum" =>
              Columns[c][j].src = Executing /\ Columns[c][j].of \in Resources
<1>1. CASE c = "compute"
  <2>1. Columns[c] = ComputeHeader /\ Headings[c] = ComputeHeader
        /\ Connected[c] = ComputeConnect
    BY <1>1 DEF Columns, Headings, Connected, ComputeRow
  <2>2. DOMAIN ComputeHeader = 1 .. 14
    BY DEF ComputeHeader
  <2>3. \A m \in 1 .. 14 : /\ ComputeHeader[m].what \in {"count", "names"}
                           /\ ComputeHeader[m].src \in ComputeConnect
    BY DEF ComputeHeader, ComputeConnect, C, N
  <2> QED
    BY <2>1, <2>2, <2>3
<1>2. CASE c = "computeNode"
  <2>1. Columns[c] = ComputeNodeRow /\ Headings[c] = ComputeNodeHeader
        /\ Connected[c] = {Executing}
    BY <1>2 DEF Columns, Headings, Connected, ComputeNodeConnect, Executing
  <2>2. Len(ComputeNodeHeader) = 7
    BY DEF ComputeNodeHeader
  <2>3. ComputeNodeRow = [m \in 1 .. 6 |-> ComputeNodeHeader[m]]
    BY <2>2 DEF ComputeNodeRow, Front, SubSeq
  <2>4. \A m \in 1 .. 6 : LET k == ComputeNodeHeader[m]
                          IN  /\ k.what \in {"count", "sum", "names"} /\ k.src = Executing
                              /\ k.what = "sum" => k.of \in Resources
    BY DEF ComputeNodeHeader, C, N, U, Executing, Resources
  <2> QED
    BY <2>1, <2>3, <2>4
<1>3. CASE c = "consumer"
  <2>1. Columns[c] = ConsumerRow /\ Headings[c] = ConsumerRow /\ Connected[c] = ConsumerConnect
    BY <1>3 DEF Columns, Headings, Connected
  <2> QED
    BY <2>1 DEF ConsumerRow, ConsumerConnect, C, N
<1>4. CASE c = "orch"
  <2>1. Columns[c] = OrchRow /\ Headings[c] = OrchRow /\ Connected[c] = OrchConnect
    BY <1>4 DEF Columns, Headings, Connected
  <2> QED
    BY <2>1 DEF OrchRow, OrchConnect, C, N
<1>5. CASE c = "orchUdp"
  <2>1. Columns[c] = OrchUdpRow /\ Headings[c] = OrchUdpRow /\ Connected[c] = OrchUdpConnect
    BY <1>5 DEF Columns, Headings, Connected
  <2> QED
    BY <2>1 DEF OrchUdpRow, OrchUdpConnect, C, N
<1>6. CASE c = "orchNode"
  <2>1. Columns[c] = OrchNodeRow /\ Headings[c] = OrchNodeRow /\ Connected[c] = OrchNodeConnect
    BY <1>6 DEF Columns, Headings, Connected
  <2> QED
    BY <2>1 DEF OrchNodeRow, OrchNodeConnect, C, N
<1>7. CASE c = "delay"
  <2>1. Columns[c] = <<>>
    BY <1>7 DEF Columns
  <2> QED
    BY <2>1
<1> QED
  BY <1>1, <1>2, <1>3, <1>4, <1>5, <1>6, <1>7 DEF Classes

(* The columns are numbered from one.                                      *)
LEMMA ColumnsFromFirst ==
  ASSUME NEW c \in Classes, NEW j \in DOMAIN Columns[c]
  PROVE  1 .. j \subseteq DOMAIN Columns[c]
<1>1. PICK n \in Nat : DOMAIN Columns[c] = 1 .. n
  <2>1. DOMAIN ComputeNodeRow = 1 .. 6
    <3>1. Len(ComputeNodeHeader) = 7
      BY DEF ComputeNodeHeader
    <3> QED
      BY <3>1 DEF ComputeNodeRow, Front, SubSeq
  <2>2. DOMAIN ComputeRow = 1 .. 14
    BY DEF ComputeRow, ComputeHeader
  <2>3. /\ DOMAIN ConsumerRow = 1 .. 3 /\ DOMAIN OrchRow = 1 .. 5
        /\ DOMAIN OrchUdpRow = 1 .. 5 /\ DOMAIN OrchNodeRow = 1 .. 4
    BY DEF ConsumerRow, OrchRow, OrchUdpRow, OrchNodeRow
  <2>4. DOMAIN <<>> = 1 .. 0
    OBVIOUS
  <2>5. Columns[c] \in {ComputeRow, ComputeNodeRow, ConsumerRow, OrchRow, OrchUdpRow,
                        OrchNodeRow, <<>>}
    BY DEF Columns, Classes
  <2>6. DOMAIN Columns[c] \in {1 .. m : m \in {0, 3, 4, 5, 6, 14}}
    BY <2>1, <2>2, <2>3, <2>4, <2>5
  <2> QED
    BY <2>6
<1> QED
  BY <1>1

(* The columns with a cell are those printed, all but the last of the      *)
(* execution tracer.                                                       *)
LEMMA ColumnsWithCell ==
  ASSUME NEW c \in Classes
  PROVE  DOMAIN Columns[c] = {j \in DOMAIN Headings[c] : HasCell(c, j)}
<1>1. CASE c = "computeNode"
  <2>1. Columns[c] = ComputeNodeRow /\ Headings[c] = ComputeNodeHeader
    BY <1>1 DEF Columns, Headings
  <2>2. Len(ComputeNodeHeader) = 7 /\ DOMAIN ComputeNodeHeader = 1 .. 7
    BY DEF ComputeNodeHeader
  <2>3. DOMAIN ComputeNodeRow = 1 .. 6
    BY <2>2 DEF ComputeNodeRow, Front, SubSeq
  <2>4. \A j \in 1 .. 7 : HasCell(c, j) <=> j # 7
    BY <1>1, <2>1, <2>2 DEF HasCell
  <2> QED
    BY <2>1, <2>2, <2>3, <2>4
<1>2. CASE c # "computeNode"
  <2>1. Columns[c] = Headings[c]
    BY <1>2 DEF Columns, Headings, Classes, ComputeRow
  <2>2. \A j \in DOMAIN Headings[c] : HasCell(c, j)
    BY <1>2 DEF HasCell
  <2> QED
    BY <2>1, <2>2
<1> QED
  BY <1>1, <1>2

\* The names columns of class c up to the j-th.
NamesUpTo(c, j) == {k \in 1 .. j : Headings[c][k].what = "names"}

\* Tells and RowIsExact, of the log L.
TellsIn(L, c, a, i, j, cell) ==
  LET h == Headings[c][j]
  IN  \/ h.what = "count" /\ cell = Cardinality(HeardIn(L, a, i, h.src))
      \/ h.what = "sum" /\ \E g : IsTotal(g, L, a, i, h.src, h.of) /\ cell = g[Len(L)]
      \/ /\ h.what = "names"
         /\ DOMAIN cell = NamesUpTo(c, j)
         /\ \A k \in NamesUpTo(c, j) : Lists(cell[k], HeardIn(L, a, i, Headings[c][k].src))

RowIn(L, c, a, i, cells) ==
  /\ DOMAIN cells = {j \in DOMAIN Headings[c] : HasCell(c, j)}
  /\ \A j \in DOMAIN cells : TellsIn(L, c, a, i, j, cells[j])

(* The row of a tracer that has counted rightly is exact.                  *)
LEMMA CountedRow ==
  ASSUME NEW c \in Classes, NEW L, NEW a, NEW i, NEW t, Counted(L, c, a, i, t)
  PROVE  RowIn(L, c, a, i, PrintSum(c, t))
<1> DEFINE cells == PrintSum(c, t)
<1>1. DOMAIN cells = DOMAIN Columns[c]
  BY DEF PrintSum
<1>2. ASSUME NEW j \in DOMAIN Columns[c]
      PROVE  TellsIn(L, c, a, i, j, cells[j])
  <2> DEFINE k == Columns[c][j]
  <2>1. /\ j \in Nat \ {0} /\ k = Headings[c][j] /\ k.what \in {"count", "sum", "names"}
        /\ k.src \in Connected[c]
        /\ k.what = "sum" => k.src = Executing /\ k.of \in Resources
    BY ColumnsAnnounced
  <2>2. CASE k.what = "count"
    <3>1. cells[j] = t.count[k.src]
      BY <2>2 DEF PrintSum
    <3>2. t.count[k.src] = Cardinality(HeardIn(L, a, i, k.src))
      BY <2>1 DEF Counted
    <3> QED
      BY <2>1, <2>2, <3>1, <3>2 DEF TellsIn
  <2>3. CASE k.what = "sum"
    <3>1. cells[j] = t.used[k.of]
      BY <2>3 DEF PrintSum
    <3>2. \E g : IsTotal(g, L, a, i, k.src, k.of) /\ t.used[k.of] = g[Len(L)]
      BY <2>1, <2>3 DEF Counted
    <3> QED
      BY <2>1, <2>3, <3>1, <3>2 DEF TellsIn
  <2>4. CASE k.what = "names"
    <3>1. cells[j] = NamesCell(c, t, j)
      BY <2>4 DEF PrintSum
    <3>2. 1 .. j \subseteq DOMAIN Columns[c]
      BY <2>1, ColumnsFromFirst
    <3>3. \A m \in 1 .. j : Columns[c][m] = Headings[c][m] /\ Columns[c][m].src \in Connected[c]
      BY <3>2, ColumnsAnnounced
    <3>4. {m \in 1 .. j : Columns[c][m].what = "names"} = NamesUpTo(c, j)
      BY <3>3 DEF NamesUpTo
    <3>5. cells[j] = [m \in NamesUpTo(c, j) |-> t.names[Columns[c][m].src]]
      BY <3>1, <3>4 DEF NamesCell
    <3>6. ASSUME NEW m \in NamesUpTo(c, j)
          PROVE  Lists(cells[j][m], HeardIn(L, a, i, Headings[c][m].src))
      <4>1. m \in 1 .. j
        BY DEF NamesUpTo
      <4>2. cells[j][m] = t.names[Headings[c][m].src] /\ Headings[c][m].src \in Connected[c]
        BY <3>3, <3>5, <4>1
      <4> QED
        BY <4>2 DEF Counted
    <3>7. DOMAIN cells[j] = NamesUpTo(c, j)
      BY <3>5
    <3> HIDE DEF cells
    <3> QED
      BY <2>1, <2>4, <3>6, <3>7 DEF TellsIn
  <2> QED
    BY <2>1, <2>2, <2>3, <2>4
<1> HIDE DEF cells
<1>3. RowIn(L, c, a, i, cells)
  BY <1>1, <1>2, ColumnsWithCell DEF RowIn
<1> QED
  BY <1>3 DEF cells

(* RowIn says of the log what RowIsExact says.                             *)
LEMMA RowInLog ==
  ASSUME NEW c, log \in Seq(Events), NEW a, a.since \in Nat, a.since <= Len(log),
         NEW i, NEW cells, RowIn(log, c, a, i, cells)
  PROVE  RowIsExact(c, a, i, cells)
<1>1. ASSUME NEW j \in DOMAIN cells
      PROVE  Tells(c, a, i, j, cells[j])
  <2> DEFINE h == Headings[c][j]
  <2>1. \A s : HeardOf(a, i, s) = HeardIn(log, a, i, s)
    BY DEF HeardOf, HeardIn
  <2>2. TellsIn(log, c, a, i, j, cells[j])
    BY DEF RowIn
  <2>3. CASE h.what = "count"
    <3>1. cells[j] = Cardinality(HeardIn(log, a, i, h.src))
      BY <2>2, <2>3 DEF TellsIn
    <3> QED
      BY <2>1, <2>3, <3>1 DEF Tells
  <2>4. CASE h.what = "sum"
    <3>1. PICK g : IsTotal(g, log, a, i, h.src, h.of) /\ cells[j] = g[Len(log)]
      BY <2>2, <2>4 DEF TellsIn
    <3>2. SumOf(a, i, h.src, h.of) = g[Len(log)]
      BY <3>1, TotalIsSum
    <3> QED
      BY <2>4, <3>1, <3>2 DEF Tells
  <2>5. CASE h.what = "names"
    <3>1. /\ DOMAIN cells[j] = NamesUpTo(c, j)
          /\ \A k \in NamesUpTo(c, j) :
               Lists(cells[j][k], HeardIn(log, a, i, Headings[c][k].src))
      BY <2>2, <2>5 DEF TellsIn
    <3> QED
      BY <2>1, <2>5, <3>1 DEF Tells, NamesUpTo
  <2>6. h.what \in {"count", "sum", "names"}
    BY <2>2 DEF TellsIn
  <2> QED
    BY <2>3, <2>4, <2>5, <2>6
<1> QED
  BY <1>1 DEF RowIn, RowIsExact

-----------------------------------------------------------------------------
(* The files.                                                              *)

IsSeq(s) == s \in Seq({s[w] : w \in DOMAIN s})

\* P is O and more.
Longer(O, P) ==
  IsSeq(O) /\ IsSeq(P) /\ Len(O) <= Len(P) /\ \A w \in 1 .. Len(O) : P[w] = O[w]

(* A sequence over some set is one over its own members.                   *)
LEMMA SeqOfItsOwn ==
  ASSUME NEW S, NEW s \in Seq(S)
  PROVE  IsSeq(s)
BY DEF IsSeq

(* One write more.                                                         *)
LEMMA AppendWrite ==
  ASSUME NEW O, IsSeq(O), NEW x
  PROVE  /\ Longer(O, Append(O, x))
         /\ Len(Append(O, x)) = Len(O) + 1 /\ Append(O, x)[Len(O) + 1] = x
<1> DEFINE S == {O[w] : w \in DOMAIN O} \union {x}
<1>1. O \in Seq(S)
  BY DEF IsSeq
<1>2. x \in S
  OBVIOUS
<1> HIDE DEF S
<1>3. Append(O, x) \in Seq(S)
  BY <1>1, <1>2
<1>4. IsSeq(Append(O, x))
  BY <1>3, SeqOfItsOwn
<1> QED
  BY <1>1, <1>4 DEF Longer

(* Several writes more.                                                    *)
LEMMA ConcatWrites ==
  ASSUME NEW O, IsSeq(O), NEW F, IsSeq(F)
  PROVE  /\ Longer(O, O \o F)
         /\ Len(O \o F) = Len(O) + Len(F)
         /\ \A k \in 1 .. Len(F) : (O \o F)[Len(O) + k] = F[k]
<1> DEFINE S == {O[w] : w \in DOMAIN O} \union {F[w] : w \in DOMAIN F}
<1>1. O \in Seq(S) /\ F \in Seq(S)
  BY DEF IsSeq
<1> HIDE DEF S
<1>2. O \o F \in Seq(S)
  BY <1>1
<1>3. IsSeq(O \o F)
  BY <1>2, SeqOfItsOwn
<1> QED
  BY <1>1, <1>3 DEF Longer

(* A function of the numbers to n is a sequence.                           *)
LEMMA FunctionIsSeq ==
  ASSUME NEW n \in Nat, NEW F, F = [k \in 1 .. n |-> F[k]]
  PROVE  IsSeq(F) /\ Len(F) = n
<1>1. F \in Seq({F[k] : k \in 1 .. n}) /\ Len(F) = n
  OBVIOUS
<1> QED
  BY <1>1, SeqOfItsOwn

\* The writes after the b-th are the rows of class c, one for each request in A, and
\* say what is true of the log.
PrintedIn(L, O, A, c, b) ==
  /\ {w \in DOMAIN O : O[w].class = c /\ O[w].kind = "rows"} = (b + 1) .. (b + Len(A))
  /\ \A w \in (b + 1) .. Len(O) : O[w].class = c => O[w].kind = "rows"
  /\ \A k \in DOMAIN A :
       /\ O[b + k].file = A[k].file
       /\ DOMAIN O[b + k].lines = DOMAIN A[k].nodes
       /\ \A i \in DOMAIN A[k].nodes :
            /\ O[b + k].lines[i].node = A[k].nodes[i]
            /\ RowIn(L, c, A[k], i, O[b + k].lines[i].cells)

FirstAnswer == "FirstInterestDataDelayInc"

\* The part of DelaysPrinted about the place b, of the log L, the writes O and the requests A.
DelaysAt(L, O, A, e, b) ==
  /\ \A k \in DOMAIN A : \A i \in DOMAIN A[k].nodes : e \in HeardIn(L, A[k], i, FirstAnswer) =>
       /\ b + k \in DOMAIN O /\ O[b + k].kind = "delays" /\ O[b + k].file = A[k].file
       /\ i \in DOMAIN O[b + k].lines
       /\ O[b + k].lines[i] = [node |-> A[k].nodes[i], event |-> e]
  /\ \A w \in DOMAIN O : O[w].kind = "delays" => \A i \in DOMAIN O[w].lines :
       O[w].lines[i].event = e =>
         \E k \in DOMAIN A : /\ w = b + k /\ i \in DOMAIN A[k].nodes
                             /\ e \in HeardIn(L, A[k], i, FirstAnswer)

DelaysIn(L, O, A, e) == \E b \in 0 .. Len(O) : DelaysAt(L, O, A, e, b)

(* DelaysIn says of the state what DelaysPrinted says.                     *)
LEMMA DelaysInState ==
  ASSUME NEW e
  PROVE  DelaysIn(log, out, asked["delay"], e) => DelaysPrinted(e)
<1> SUFFICES ASSUME NEW b \in 0 .. Len(out), DelaysAt(log, out, asked["delay"], e, b)
             PROVE  DelaysPrinted(e)
  BY DEF DelaysIn
<1>1. \A k, i : HeardOf(asked["delay"][k], i, FirstAnswer)
                  = HeardIn(log, asked["delay"][k], i, FirstAnswer)
  BY DEF HeardOf, HeardIn
<1> DEFINE Asked    == asked["delay"]
           Heard(k) == {i \in DOMAIN Asked[k].nodes : e \in HeardOf(Asked[k], i, FirstAnswer)}
           Delays   == {w \in DOMAIN out : out[w].kind = "delays"}
<1>2. ASSUME NEW k \in DOMAIN Asked, NEW i \in Heard(k)
      PROVE  /\ b + k \in Delays /\ out[b + k].file = Asked[k].file
             /\ i \in DOMAIN out[b + k].lines
             /\ out[b + k].lines[i] = [node |-> Asked[k].nodes[i], event |-> e]
  <2>1. i \in DOMAIN Asked[k].nodes /\ e \in HeardIn(log, Asked[k], i, FirstAnswer)
    BY <1>1
  <2> QED
    BY <2>1 DEF DelaysAt
<1>3. ASSUME NEW w \in Delays, NEW i \in DOMAIN out[w].lines, out[w].lines[i].event = e
      PROVE  \E k \in DOMAIN Asked : w = b + k /\ i \in Heard(k)
  <2>1. PICK k \in DOMAIN Asked : /\ w = b + k /\ i \in DOMAIN Asked[k].nodes
                                  /\ e \in HeardIn(log, Asked[k], i, FirstAnswer)
    BY <1>3 DEF DelaysAt
  <2> QED
    BY <2>1, <1>1
<1>4. /\ \A k \in DOMAIN Asked : \A i \in Heard(k) :
           /\ b + k \in Delays /\ out[b + k].file = Asked[k].file
           /\ i \in DOMAIN out[b + k].lines
           /\ out[b + k].lines[i] = [node |-> Asked[k].nodes[i], event |-> e]
      /\ \A w \in Delays : \A i \in DOMAIN out[w].lines :
           out[w].lines[i].event = e => \E k \in DOMAIN Asked : w = b + k /\ i \in Heard(k)
  <2> HIDE DEF Asked, Heard, Delays
  <2> QED
    BY <1>2, <1>3
<1> QED
  BY <1>4, Zenon DEF DelaysPrinted, FirstAnswer

(* Writes of other classes leave the rows where they are.                  *)
LEMMA PrintedStays ==
  ASSUME NEW L, NEW O, NEW P, Longer(O, P), NEW A, Len(A) \in Nat, DOMAIN A = 1 .. Len(A),
         NEW c, NEW b \in 0 .. Len(O), PrintedIn(L, O, A, c, b),
         \A w \in (Len(O) + 1) .. Len(P) : P[w].class # c
  PROVE  b \in 0 .. Len(P) /\ PrintedIn(L, P, A, c, b)
<1>1. /\ Len(O) \in Nat /\ Len(P) \in Nat /\ Len(O) <= Len(P)
      /\ DOMAIN O = 1 .. Len(O) /\ DOMAIN P = 1 .. Len(P)
      /\ \A w \in 1 .. Len(O) : P[w] = O[w]
  BY DEF Longer, IsSeq
<1>2. \A w \in DOMAIN P : w \in DOMAIN O \/ (w \in (Len(O) + 1) .. Len(P) /\ P[w].class # c)
  BY <1>1
<1>3. {w \in DOMAIN O : O[w].class = c /\ O[w].kind = "rows"} = (b + 1) .. (b + Len(A))
  BY DEF PrintedIn
<1>4. DOMAIN O \subseteq DOMAIN P
  BY <1>1
<1>5. {w \in DOMAIN P : P[w].class = c /\ P[w].kind = "rows"} = (b + 1) .. (b + Len(A))
  BY <1>1, <1>2, <1>3, <1>4
<1>6. ASSUME NEW w \in (b + 1) .. Len(P), P[w].class = c PROVE P[w].kind = "rows"
  <2>1. w \in DOMAIN P
    BY <1>1
  <2>2. w \in DOMAIN O
    BY <2>1, <1>2, <1>6
  <2>3. w \in (b + 1) .. Len(O) /\ P[w] = O[w]
    BY <2>2, <1>1
  <2> QED
    BY <2>3, <1>6 DEF PrintedIn
<1>7. ASSUME NEW k \in DOMAIN A PROVE P[b + k] = O[b + k]
  <2>1. b + k \in (b + 1) .. (b + Len(A))
    OBVIOUS
  <2>2. b + k \in DOMAIN O
    BY <2>1, <1>3
  <2> QED
    BY <2>2, <1>1
<1>8. b \in 0 .. Len(P)
  BY <1>1
<1> QED
  BY <1>5, <1>6, <1>7, <1>8 DEF PrintedIn

(* Writes about other events leave the delays where they are; requests that *)
(* came after the event have nothing to do with it.                        *)
LEMMA DelaysStay ==
  ASSUME NEW L, NEW M, NEW O, NEW P, Longer(O, P), NEW A, NEW B, NEW e,
         DelaysIn(L, O, A, e), DOMAIN A \subseteq DOMAIN B,
         \A k \in DOMAIN A : B[k] = A[k],
         \A k \in DOMAIN A : \A i : e \in HeardIn(M, A[k], i, FirstAnswer)
                                      <=> e \in HeardIn(L, A[k], i, FirstAnswer),
         \A k \in DOMAIN B \ DOMAIN A : \A i : e \notin HeardIn(M, B[k], i, FirstAnswer),
         \A w \in (Len(O) + 1) .. Len(P) : P[w].kind = "delays" =>
           \A i \in DOMAIN P[w].lines : P[w].lines[i].event # e
  PROVE  DelaysIn(M, P, B, e)
<1>1. /\ Len(O) \in Nat /\ Len(P) \in Nat /\ Len(O) <= Len(P)
      /\ DOMAIN O = 1 .. Len(O) /\ DOMAIN P = 1 .. Len(P)
      /\ \A w \in 1 .. Len(O) : P[w] = O[w]
  BY DEF Longer, IsSeq
<1>2. \A w \in DOMAIN P : w \in DOMAIN O \/ w \in (Len(O) + 1) .. Len(P)
  BY <1>1
<1>3. PICK b \in 0 .. Len(O) : DelaysAt(L, O, A, e, b)
  BY DEF DelaysIn
<1>4. DOMAIN O \subseteq DOMAIN P /\ b \in 0 .. Len(P)
  BY <1>1
<1>5. ASSUME NEW k \in DOMAIN B, NEW i \in DOMAIN B[k].nodes,
             e \in HeardIn(M, B[k], i, FirstAnswer)
      PROVE  /\ b + k \in DOMAIN P /\ P[b + k].kind = "delays" /\ P[b + k].file = B[k].file
             /\ i \in DOMAIN P[b + k].lines
             /\ P[b + k].lines[i] = [node |-> B[k].nodes[i], event |-> e]
  <2>1. k \in DOMAIN A /\ B[k] = A[k]
    BY <1>5
  <2>2. e \in HeardIn(L, A[k], i, FirstAnswer) /\ i \in DOMAIN A[k].nodes
    BY <2>1, <1>5
  <2>3. /\ b + k \in DOMAIN O /\ O[b + k].kind = "delays" /\ O[b + k].file = A[k].file
        /\ i \in DOMAIN O[b + k].lines
        /\ O[b + k].lines[i] = [node |-> A[k].nodes[i], event |-> e]
    BY <2>1, <2>2, <1>3 DEF DelaysAt
  <2>4. b + k \in DOMAIN P /\ P[b + k] = O[b + k]
    BY <2>3, <1>1, <1>4
  <2> QED
    BY <2>1, <2>3, <2>4
<1>6. ASSUME NEW w \in DOMAIN P, P[w].kind = "delays", NEW i \in DOMAIN P[w].lines,
             P[w].lines[i].event = e
      PROVE  \E k \in DOMAIN B : /\ w = b + k /\ i \in DOMAIN B[k].nodes
                                 /\ e \in HeardIn(M, B[k], i, FirstAnswer)
  <2>1. w \in DOMAIN O /\ P[w] = O[w]
    BY <1>1, <1>2, <1>6
  <2>2. PICK k \in DOMAIN A : /\ w = b + k /\ i \in DOMAIN A[k].nodes
                              /\ e \in HeardIn(L, A[k], i, FirstAnswer)
    BY <2>1, <1>3, <1>6 DEF DelaysAt
  <2> QED
    BY <2>2
<1>7. DelaysAt(M, P, B, e, b)
  BY <1>5, <1>6 DEF DelaysAt
<1> QED
  BY <1>4, <1>7 DEF DelaysIn

-----------------------------------------------------------------------------
(* The inductive invariant, in parts.  That rows are exact at the end needs*)
(* that tracers have counted rightly all along, that the groups of a class *)
(* are its requests in order until they are destroyed, all at once and     *)
(* after the last event, and that no row was written before.               *)

AppsInv ==
  /\ apps \in [Nodes -> Seq(AppTypes)]
  /\ \A n \in Nodes : \A i \in DOMAIN apps[n] : apps[n][i] = "ndnNode" => i = 1

\* A request of class c that opened one of the files F, before the log became L.
RequestOf(L, F, c, a) ==
  /\ a.since <= Len(L) /\ Len(a.had) = Len(a.nodes) /\ a.file \in F \union {"-"}
  /\ c = "orchNode" => \A i \in DOMAIN a.nodes : 1 \in a.had[i]

HistoryInv ==
  /\ log \in Seq(Events)
  /\ opened \subseteq Files \ ({"-"} \union CannotOpen)
  /\ ended \in BOOLEAN
  /\ asked \in [Classes -> Seq(Requests)]
  /\ \A c \in Classes : \A k \in DOMAIN asked[c] : RequestOf(log, opened, c, asked[c][k])

\* The group of tracers that stands for the request a.
GroupOf(L, c, a, g) ==
  /\ g.file = a.file /\ Len(g.members) = Len(a.nodes)
  /\ \A i \in DOMAIN g.members :
       /\ Stands(c, a, i, g.members[i])
       /\ c # "delay" => Counted(L, c, a, i, g.members[i])

GroupsOf(L, c, A, G, over) ==
  /\ G \in Seq([file : Files, members : Seq(Tracer(c))])
  /\ G = <<>> /\ A # <<>> => over
  /\ G # <<>> => Len(G) = Len(A)
  /\ \A k \in DOMAIN G : GroupOf(L, c, A[k], G[k])

GroupsInv ==
  /\ DOMAIN groups = Classes
  /\ \A c \in Classes : GroupsOf(log, c, asked[c], groups[c], ended)

WriteOf(L, F, w) ==
  /\ w.file \in F \union {"-"} /\ w.class \in Classes
  /\ w.kind \in {"header", "rows", "delays"}
  /\ w.kind = "delays" => /\ w.class = "delay"
                          /\ \A i \in DOMAIN w.lines : w.lines[i].event \in 1 .. Len(L)

WritesInv == IsSeq(out) /\ \A w \in 1 .. Len(out) : WriteOf(log, opened, out[w])

HeadersInv ==
  \A c \in Classes \ {"delay"} : \A k \in DOMAIN asked[c] : asked[c][k].nodes # <<>> =>
    \E w \in 1 .. Len(out) : out[w] = HeaderOf(asked[c][k].file, c)

OnlyHeaders(O, c) == \A w \in 1 .. Len(O) : O[w].class = c => O[w].kind = "header"

RowsInv ==
  \A c \in Classes \ {"delay"} :
    IF ended /\ groups[c] = <<>>
    THEN \E b \in 0 .. Len(out) : PrintedIn(log, out, asked[c], c, b)
    ELSE OnlyHeaders(out, c)

DelaysInv == \A e \in 1 .. Len(log) : DelaysIn(log, out, asked["delay"], e)

TracersInv ==
  AppsInv /\ HistoryInv /\ GroupsInv /\ WritesInv /\ HeadersInv /\ RowsInv /\ DelaysInv

(* The invariant gives the types.                                          *)
LEMMA InvTypes ==
  ASSUME TracersInv
  PROVE  TypeOK
<1> USE DEF TracersInv
<1>1. apps \in [Nodes -> Seq(AppTypes)] /\ DOMAIN groups = Classes
  BY DEF AppsInv, GroupsInv
<1>2. ASSUME NEW c \in Classes
      PROVE  /\ groups[c] \in Seq([file : Files, members : Seq(Tracer(c))])
             /\ \A k \in DOMAIN groups[c] : \A i \in DOMAIN groups[c][k].members :
                  LET t == groups[c][k].members[i]
                  IN  \A s \in Connected[c] : Len(t.names[s]) = t.count[s]
  <2>1. GroupsOf(log, c, asked[c], groups[c], ended)
    BY DEF GroupsInv
  <2> QED
    BY <2>1 DEF GroupsOf, GroupOf, Stands
<1>3. /\ opened \subseteq Files \ ({"-"} \union CannotOpen) /\ ended \in BOOLEAN
      /\ asked \in [Classes -> Seq([file : Files, nodes : NodeLists, since : Nat,
                                    had : Seq(SUBSET Nat)])]
  BY DEF HistoryInv, Requests
<1>4. \A b \in 1 .. Len(out) : out[b].file \in opened \union {"-"} /\ out[b].class \in Classes
  BY DEF WritesInv, WriteOf
<1>5. \A e \in 1 .. Len(log) : log[e].node \in Nodes /\ log[e].cost \in Costs
  <2>1. \A e \in 1 .. Len(log) : log[e] \in Events
    BY DEF HistoryInv
  <2> QED
    BY <2>1 DEF Events
<1> QED
  BY <1>1, <1>2, <1>3, <1>4, <1>5 DEF TypeOK

(* The requests of a class, one by one.                                    *)
LEMMA RequestTypes ==
  ASSUME HistoryInv, NEW c \in Classes
  PROVE  /\ asked[c] \in Seq(Requests)
         /\ DOMAIN asked[c] = 1 .. Len(asked[c]) /\ Len(asked[c]) \in Nat
         /\ \A k \in DOMAIN asked[c] :
              /\ asked[c][k] \in Requests
              /\ asked[c][k].since \in Nat /\ asked[c][k].since <= Len(log)
              /\ asked[c][k].nodes \in Seq(Nodes) /\ asked[c][k].had \in Seq(SUBSET Nat)
              /\ RequestOf(log, opened, c, asked[c][k])
<1>1. asked[c] \in Seq(Requests) /\ \A k \in DOMAIN asked[c] : RequestOf(log, opened, c, asked[c][k])
  BY DEF HistoryInv
<1>2. \A k \in DOMAIN asked[c] : asked[c][k] \in Requests
  BY <1>1
<1> QED
  BY <1>1, <1>2, InstanceAssumption DEF Requests, RequestOf

(* The invariant gives that the rows are exact.                            *)
LEMMA InvRows ==
  ASSUME TracersInv
  PROVE  RowsAreExact
<1> USE DEF TracersInv
<1>1. log \in Seq(Events)
  BY DEF HistoryInv
<1>2. ASSUME NEW c \in Classes \ {"delay"}, NEW k \in DOMAIN groups[c],
             NEW i \in DOMAIN groups[c][k].members
      PROVE  RowIsExact(c, asked[c][k], i, PrintSum(c, groups[c][k].members[i]))
  <2>1. /\ groups[c] \in Seq([file : Files, members : Seq(Tracer(c))])
        /\ Len(groups[c]) = Len(asked[c])
        /\ Counted(log, c, asked[c][k], i, groups[c][k].members[i])
    <3>1. GroupsOf(log, c, asked[c], groups[c], ended)
      BY DEF GroupsInv
    <3>2. GroupOf(log, c, asked[c][k], groups[c][k])
      BY <3>1 DEF GroupsOf
    <3>3. groups[c] # <<>>
      BY <3>1 DEF GroupsOf
    <3> QED
      BY <3>1, <3>2, <3>3 DEF GroupsOf, GroupOf
  <2>2. k \in DOMAIN asked[c]
    BY <2>1, RequestTypes
  <2>3. RowIn(log, c, asked[c][k], i, PrintSum(c, groups[c][k].members[i]))
    BY <2>1, CountedRow
  <2> QED
    BY <1>1, <2>2, <2>3, RequestTypes, RowInLog
<1>3. ASSUME NEW c \in Classes \ {"delay"}, NEW b \in 0 .. Len(out),
             groups[c] = <<>>, PrintedAfter(c, b),
             NEW k \in DOMAIN asked[c], NEW i \in DOMAIN out[b + k].lines
      PROVE  RowIsExact(c, asked[c][k], i, out[b + k].lines[i].cells)
  <2>1. ended /\ Len(asked[c]) \in Nat \ {0} /\ k \in 1 .. Len(asked[c]) /\ Len(out) \in Nat
    <3>1. k \in 1 .. Len(asked[c]) /\ Len(asked[c]) \in Nat /\ asked[c] # <<>>
      BY RequestTypes
    <3>2. ended
      BY <3>1, <1>3 DEF GroupsInv, GroupsOf
    <3>3. Len(out) \in Nat
      BY DEF WritesInv, IsSeq
    <3>4. Len(asked[c]) # 0
      BY <3>1
    <3> QED
      BY <3>1, <3>2, <3>3, <3>4
  <2>2. PICK p \in 0 .. Len(out) : PrintedIn(log, out, asked[c], c, p)
    BY <2>1, <1>3 DEF RowsInv
  <2>3. (b + 1) .. (b + Len(asked[c])) = (p + 1) .. (p + Len(asked[c]))
    BY <2>2, <1>3 DEF PrintedIn, PrintedAfter
  <2>4. b = p
    <3>1. /\ b + 1 \in (p + 1) .. (p + Len(asked[c]))
          /\ p + 1 \in (b + 1) .. (b + Len(asked[c]))
      BY <2>1, <2>3
    <3> QED
      BY <3>1
  <2>5. RowIn(log, c, asked[c][k], i, out[b + k].lines[i].cells)
    BY <2>2, <2>4 DEF PrintedIn
  <2> QED
    BY <1>1, <2>5, RequestTypes, RowInLog
<1>4. ASSUME NEW e \in 1 .. Len(log) PROVE DelaysPrinted(e)
  BY DelaysInState DEF DelaysInv
<1> QED
  BY <1>2, <1>3, <1>4 DEF RowsAreExact

(* The invariant gives that each row appears once, in its place.           *)
LEMMA InvOneRow ==
  ASSUME TracersInv
  PROVE  OneRowEach
<1> USE DEF TracersInv
<1> SUFFICES ASSUME NEW c \in Classes \ {"delay"}
             PROVE  /\ \A k \in DOMAIN asked[c] : asked[c][k].nodes # <<>> =>
                         \E w \in DOMAIN out : out[w] = HeaderOf(asked[c][k].file, c)
                    /\ IF groups[c] # <<>>
                       THEN \A w \in DOMAIN out : out[w].class = c => out[w].kind = "header"
                       ELSE \E b \in 0 .. Len(out) :
                              /\ PrintedAfter(c, b)
                              /\ \A w \in (b + 1) .. Len(out) :
                                   out[w].class = c => out[w].kind = "rows"
                              /\ \A k \in DOMAIN asked[c] :
                                   /\ out[b + k].file = asked[c][k].file
                                   /\ DOMAIN out[b + k].lines = DOMAIN asked[c][k].nodes
                                   /\ \A i \in DOMAIN asked[c][k].nodes :
                                        out[b + k].lines[i].node = asked[c][k].nodes[i]
  BY DEF OneRowEach
<1>1. DOMAIN out = 1 .. Len(out) /\ Len(out) \in Nat
  BY DEF WritesInv, IsSeq
<1>2. \A k \in DOMAIN asked[c] : asked[c][k].nodes # <<>> =>
        \E w \in DOMAIN out : out[w] = HeaderOf(asked[c][k].file, c)
  BY <1>1 DEF HeadersInv
<1>3. CASE groups[c] # <<>>
  BY <1>1, <1>2, <1>3 DEF RowsInv, OnlyHeaders
<1>4. CASE groups[c] = <<>> /\ ended
  <2>1. PICK b \in 0 .. Len(out) : PrintedIn(log, out, asked[c], c, b)
    BY <1>4 DEF RowsInv
  <2> QED
    BY <1>2, <1>4, <2>1 DEF PrintedIn, PrintedAfter
<1>5. CASE groups[c] = <<>> /\ ~ ended
  <2>1. asked[c] = <<>>
    BY <1>5 DEF GroupsInv, GroupsOf
  <2>2. \A w \in DOMAIN out : out[w].class = c => out[w].kind = "header"
    BY <1>1, <1>5 DEF RowsInv, OnlyHeaders
  <2>3. PrintedAfter(c, Len(out))
    BY <1>1, <2>1, <2>2 DEF PrintedAfter
  <2>4. Len(out) \in 0 .. Len(out) /\ (Len(out) + 1) .. Len(out) = {} /\ DOMAIN asked[c] = {}
    BY <1>1, <2>1
  <2> QED
    BY <1>2, <1>5, <2>3, <2>4
<1> QED
  BY <1>3, <1>4, <1>5

-----------------------------------------------------------------------------
(* The initial state and the steps.                                        *)

(* Before anything is installed nothing has been heard or written.         *)
LEMMA InvInit ==
  ASSUME Init
  PROVE  TracersInv
<1> USE DEF Init
<1>1. AppsInv
  BY AppsAssumption, NodeAppAssumption DEF AppsInv
<1>2. \A c \in Classes : asked[c] = <<>> /\ groups[c] = <<>>
  OBVIOUS
<1>3. HistoryInv
  <2>1. asked \in [Classes -> Seq(Requests)]
    OBVIOUS
  <2>2. log \in Seq(Events)
    OBVIOUS
  <2>3. opened \subseteq Files \ ({"-"} \union CannotOpen) /\ ended \in BOOLEAN
    OBVIOUS
  <2>4. \A c \in Classes : DOMAIN asked[c] = {}
    BY <1>2
  <2> QED
    BY <2>1, <2>2, <2>3, <2>4, Zenon DEF HistoryInv
<1>4. GroupsInv
  <2>1. \A c \in Classes : GroupsOf(log, c, asked[c], groups[c], ended)
    BY <1>2 DEF GroupsOf
  <2> QED
    BY <2>1 DEF GroupsInv
<1>5. IsSeq(out) /\ Len(out) = 0 /\ 1 .. Len(out) = {} /\ 1 .. Len(log) = {}
  BY DEF IsSeq
<1>6. WritesInv
  BY <1>5 DEF WritesInv
<1>7. HeadersInv
  BY <1>2 DEF HeadersInv
<1>8. RowsInv
  BY <1>5 DEF RowsInv, OnlyHeaders
<1>9. DelaysInv
  BY <1>5 DEF DelaysInv
<1> QED
  BY <1>1, <1>3, <1>4, <1>6, <1>7, <1>8, <1>9 DEF TracersInv

(* What the tracers have does not depend on the applications there are now. *)
LEMMA InvAddApplication ==
  ASSUME TracersInv, AddApplication
  PROVE  TracersInv'
<1> USE DEF TracersInv
<1>1. PICK n \in Nodes, a \in LateApps : apps' = [apps EXCEPT ![n] = Append(@, a)]
  BY DEF AddApplication
<1>2. UNCHANGED <<groups, opened, out, log, asked, ended>>
  BY DEF AddApplication
<1>3. AppsInv'
  <2>1. a \in AppTypes /\ a # "ndnNode"
    BY AppsAssumption, NodeAppAssumption
  <2>2. apps' \in [Nodes -> Seq(AppTypes)]
    BY <1>1, <2>1 DEF AppsInv
  <2>3. ASSUME NEW m \in Nodes, NEW i \in DOMAIN apps'[m], apps'[m][i] = "ndnNode"
        PROVE  i = 1
    <3>1. apps[m] \in Seq(AppTypes)
      BY DEF AppsInv
    <3>2. CASE m = n
      <4>1. apps'[m] = Append(apps[m], a)
        BY <1>1, <3>2 DEF AppsInv
      <4>2. i \in DOMAIN apps[m] /\ apps[m][i] = "ndnNode"
        BY <2>1, <2>3, <3>1, <4>1
      <4> QED
        BY <4>2 DEF AppsInv
    <3>3. CASE m # n
      <4>1. apps'[m] = apps[m]
        BY <1>1, <3>3 DEF AppsInv
      <4> QED
        BY <2>3, <4>1 DEF AppsInv
    <3> QED
      BY <3>2, <3>3
  <2> QED
    BY <2>2, <2>3 DEF AppsInv
<1>4. HistoryInv'
  BY <1>2 DEF HistoryInv
<1>5. GroupsInv'
  BY <1>2 DEF GroupsInv
<1>6. WritesInv'
  BY <1>2 DEF WritesInv
<1>7. HeadersInv'
  BY <1>2 DEF HeadersInv
<1>8. RowsInv'
  BY <1>2 DEF RowsInv
<1>9. DelaysInv'
  BY <1>2 DEF DelaysInv
<1> QED
  BY <1>3, <1>4, <1>5, <1>6, <1>7, <1>8, <1>9

(* At the end of the run a class has tracers or has never been asked for.  *)
LEMMA InvEndSimulation ==
  ASSUME TracersInv, EndSimulation
  PROVE  TracersInv'
<1> USE DEF TracersInv
<1>1. ~ ended /\ ended' = TRUE /\ UNCHANGED <<apps, groups, opened, out, log, asked>>
  BY DEF EndSimulation
<1>2. AppsInv'
  BY <1>1 DEF AppsInv
<1>3. HistoryInv'
  BY <1>1 DEF HistoryInv
<1>4. GroupsInv'
  <2>1. ASSUME NEW c \in Classes PROVE GroupsOf(log, c, asked[c], groups[c], TRUE)
    <3>1. GroupsOf(log, c, asked[c], groups[c], ended)
      BY DEF GroupsInv
    <3> QED
      BY <3>1 DEF GroupsOf
  <2> QED
    BY <2>1, <1>1 DEF GroupsInv
<1>5. WritesInv'
  BY <1>1 DEF WritesInv
<1>6. HeadersInv'
  BY <1>1 DEF HeadersInv
<1>7. RowsInv'
  <2>1. ASSUME NEW c \in Classes \ {"delay"}
        PROVE  /\ groups[c] # <<>> => OnlyHeaders(out, c)
               /\ groups[c] = <<>> =>
                    \E b \in 0 .. Len(out) : PrintedIn(log, out, asked[c], c, b)
    <3>1. OnlyHeaders(out, c)
      BY <1>1 DEF RowsInv
    <3>2. DOMAIN out = 1 .. Len(out) /\ Len(out) \in Nat
      BY DEF WritesInv, IsSeq
    <3>3. ASSUME groups[c] = <<>> PROVE PrintedIn(log, out, asked[c], c, Len(out))
      <4>1. GroupsOf(log, c, asked[c], groups[c], ended)
        BY DEF GroupsInv
      <4>2. asked[c] = <<>> /\ DOMAIN asked[c] = {} /\ Len(asked[c]) = 0
        BY <1>1, <3>3, <4>1 DEF GroupsOf
      <4>3. {w \in DOMAIN out : out[w].class = c /\ out[w].kind = "rows"} = {}
        BY <3>1, <3>2 DEF OnlyHeaders
      <4>4. (Len(out) + 1) .. (Len(out) + 0) = {} /\ (Len(out) + 1) .. Len(out) = {}
        BY <3>2
      <4> QED
        BY <4>2, <4>3, <4>4 DEF PrintedIn
    <3>4. Len(out) \in 0 .. Len(out)
      BY <3>2
    <3> QED
      BY <3>1, <3>3, <3>4
  <2> QED
    BY <2>1, <1>1 DEF RowsInv
<1>8. DelaysInv'
  BY <1>1 DEF DelaysInv
<1> QED
  BY <1>2, <1>3, <1>4, <1>5, <1>6, <1>7, <1>8

(* The request an Install adds, and the group of tracers it puts in.       *)
Asking(ns, f) ==
  [file |-> f, nodes |-> ns, since |-> Len(log),
   had |-> [i \in DOMAIN ns |-> DOMAIN apps[ns[i]]]]

Putting(c, ns, f) == [file |-> f, members |-> [i \in DOMAIN ns |-> New(c, ns[i])]]

(* They belong to each other.                                              *)
LEMMA NewGroup ==
  ASSUME AppsInv, HistoryInv, NEW c \in Classes, NEW ns \in NodeLists, NEW f \in Files,
         c = "orchNode" => \A i \in DOMAIN ns : apps[ns[i]] # <<>>
  PROVE  /\ Asking(ns, f) \in Requests
         /\ RequestOf(log, {f}, c, Asking(ns, f))
         /\ Putting(c, ns, f) \in [file : Files, members : Seq(Tracer(c))]
         /\ GroupOf(log, c, Asking(ns, f), Putting(c, ns, f))
<1> DEFINE a == Asking(ns, f)
           g == Putting(c, ns, f)
<1>1. /\ ns \in Seq(Nodes) /\ Len(ns) \in Nat /\ DOMAIN ns = 1 .. Len(ns)
      /\ \A i \in DOMAIN ns : ns[i] \in Nodes
  BY InstanceAssumption
<1>2. apps \in [Nodes -> Seq(AppTypes)] /\ log \in Seq(Events) /\ Len(log) \in Nat
  BY DEF AppsInv, HistoryInv
<1>3. a.file = f /\ a.nodes = ns /\ a.since = Len(log)
      /\ a.had = [i \in 1 .. Len(ns) |-> DOMAIN apps[ns[i]]]
  BY <1>1 DEF Asking
<1>4. \A i \in DOMAIN ns : apps[ns[i]] \in Seq(AppTypes) /\ DOMAIN apps[ns[i]] \in SUBSET Nat
  BY <1>1, <1>2
<1>5. a.had \in Seq(SUBSET Nat) /\ Len(a.had) = Len(ns)
  BY <1>1, <1>3, <1>4
<1>6. a \in Requests
  BY <1>2, <1>3, <1>5 DEF Requests, Asking
<1>7. RequestOf(log, {f}, c, a)
  <2>1. c = "orchNode" => \A i \in DOMAIN ns : 1 \in a.had[i]
    BY <1>1, <1>3, <1>4
  <2> HIDE DEF a
  <2>2. a.since <= Len(log) /\ Len(a.had) = Len(a.nodes) /\ a.file = f /\ a.nodes = ns
    BY <1>2, <1>3, <1>5
  <2> QED
    BY <2>1, <2>2 DEF RequestOf
<1>8. g.file = f /\ g.members = [i \in 1 .. Len(ns) |-> New(c, ns[i])]
  BY <1>1 DEF Putting
<1>9. ASSUME NEW i \in 1 .. Len(ns)
      PROVE  Stands(c, a, i, g.members[i]) /\ Counted(log, c, a, i, g.members[i])
  <2>1. g.members[i] = New(c, a.nodes[i]) /\ a.nodes[i] \in Nodes
        /\ a.had[i] = DOMAIN apps[a.nodes[i]]
    BY <1>1, <1>3, <1>8
  <2> HIDE DEF a, g
  <2> QED
    BY <2>1, <1>2, <1>3, NewTracer
<1>10. g.members \in Seq(Tracer(c)) /\ Len(g.members) = Len(ns) /\ DOMAIN g.members = 1 .. Len(ns)
  <2>1. \A i \in 1 .. Len(ns) : New(c, ns[i]) \in Tracer(c)
    BY <1>8, <1>9 DEF Stands
  <2> QED
    BY <2>1, <1>1, <1>8
<1>11. g \in [file : Files, members : Seq(Tracer(c))]
  BY <1>10 DEF Putting
<1>12. GroupOf(log, c, a, g)
  <2> HIDE DEF a, g
  <2> QED
    BY <1>3, <1>8, <1>9, <1>10 DEF GroupOf
<1> QED
  BY <1>6, <1>7, <1>11, <1>12

(* A class that is asked again has kept its groups.                        *)
LEMMA InvInstall ==
  ASSUME TracersInv, NEW c \in Classes, NEW ns \in NodeLists, NEW f \in Files,
         Install(c, ns, f)
  PROVE  TracersInv'
<1> DEFINE a == Asking(ns, f)
           g == Putting(c, ns, f)
<1>1. /\ AppsInv /\ HistoryInv /\ GroupsInv /\ WritesInv /\ HeadersInv /\ RowsInv /\ DelaysInv
      /\ ~ ended /\ f \notin CannotOpen
      /\ c = "orchNode" => \A i \in DOMAIN ns : apps[ns[i]] # <<>>
  BY DEF TracersInv, Install
<1>2. /\ groups' = [groups EXCEPT ![c] = Append(@, g)]
      /\ opened' = opened \union ({f} \ {"-"})
      /\ out' = IF ns = <<>> THEN out ELSE Append(out, HeaderOf(f, c))
      /\ asked' = [asked EXCEPT ![c] = Append(@, a)]
      /\ apps' = apps /\ log' = log /\ ended' = ended
  BY DEF Install, Asking, Putting
<1>3. /\ a \in Requests /\ RequestOf(log, {f}, c, a)
      /\ g \in [file : Files, members : Seq(Tracer(c))] /\ GroupOf(log, c, a, g)
      /\ a.file = f /\ a.nodes = ns /\ a.since = Len(log)
  BY <1>1, NewGroup DEF Asking
<1> HIDE DEF a, g
<1>4. \A d \in Classes : asked[d] \in Seq(Requests) /\ Len(asked[d]) \in Nat
  BY <1>1, RequestTypes
<1>5. asked'[c] = Append(asked[c], a) /\ \A d \in Classes \ {c} : asked'[d] = asked[d]
  BY <1>1, <1>2 DEF HistoryInv
<1>6. groups'[c] = Append(groups[c], g) /\ \A d \in Classes \ {c} : groups'[d] = groups[d]
  BY <1>1, <1>2 DEF GroupsInv
<1>7. /\ asked'[c] \in Seq(Requests) /\ Len(asked'[c]) = Len(asked[c]) + 1
      /\ asked'[c] # <<>>
      /\ DOMAIN asked[c] \subseteq DOMAIN asked'[c]
      /\ \A k \in DOMAIN asked'[c] :
           \/ k \in DOMAIN asked[c] /\ asked'[c][k] = asked[c][k]
           \/ k = Len(asked[c]) + 1 /\ k \notin DOMAIN asked[c] /\ asked'[c][k] = a
  BY <1>3, <1>4, <1>5
<1>8. AppsInv'
  BY <1>1, <1>2 DEF AppsInv
<1>9. opened' \subseteq Files \ ({"-"} \union CannotOpen)
      /\ opened \subseteq opened' /\ f \in opened' \union {"-"}
  BY <1>1, <1>2 DEF HistoryInv
<1>10. HistoryInv'
  <2>1. asked' \in [Classes -> Seq(Requests)]
    BY <1>1, <1>2, <1>5, <1>7 DEF HistoryInv
  <2>2. ASSUME NEW d \in Classes, NEW k \in DOMAIN asked'[d]
        PROVE  RequestOf(log, opened', d, asked'[d][k])
    <3>1. CASE d = c /\ asked'[d][k] = a
      BY <3>1, <1>3, <1>9 DEF RequestOf
    <3>2. CASE k \in DOMAIN asked[d] /\ asked'[d][k] = asked[d][k]
      <4>1. RequestOf(log, opened, d, asked[d][k])
        BY <3>2, <1>1 DEF HistoryInv
      <4> QED
        BY <4>1, <3>2, <1>9 DEF RequestOf
    <3> QED
      BY <3>1, <3>2, <1>5, <1>7
  <2> QED
    BY <2>1, <2>2, <1>1, <1>2, <1>9 DEF HistoryInv
<1>11. GroupsInv'
  <2>1. ASSUME NEW d \in Classes PROVE GroupsOf(log, d, asked'[d], groups'[d], ended)
    <3>1. GroupsOf(log, d, asked[d], groups[d], ended)
      BY <1>1 DEF GroupsInv
    <3>2. CASE d # c
      BY <3>1, <3>2, <1>5, <1>6
    <3>3. CASE d = c
      <4>1. /\ groups[c] \in Seq([file : Files, members : Seq(Tracer(c))])
            /\ \A k \in DOMAIN groups[c] : GroupOf(log, c, asked[c][k], groups[c][k])
        BY <3>1, <3>3 DEF GroupsOf
      <4>2. Len(groups[c]) = Len(asked[c])
        <5>1. groups[c] = <<>> => asked[c] = <<>>
          BY <3>1, <3>3, <1>1 DEF GroupsOf
        <5>2. groups[c] # <<>> => Len(groups[c]) = Len(asked[c])
          BY <3>1, <3>3 DEF GroupsOf
        <5> QED
          BY <5>1, <5>2
      <4>3. /\ groups'[c] \in Seq([file : Files, members : Seq(Tracer(c))])
            /\ groups'[c] # <<>> /\ Len(groups'[c]) = Len(groups[c]) + 1
        <5> DEFINE S == [file : Files, members : Seq(Tracer(c))]
        <5>1. groups[c] \in Seq(S) /\ g \in S
          BY <4>1, <1>3
        <5> HIDE DEF S
        <5>2. groups'[c] \in Seq(S) /\ groups'[c] # <<>>
              /\ Len(groups'[c]) = Len(groups[c]) + 1
          BY <5>1, <1>6
        <5> QED
          BY <5>2 DEF S
      <4>4. ASSUME NEW k \in DOMAIN groups'[c]
            PROVE  GroupOf(log, c, asked'[c][k], groups'[c][k])
        <5>1. CASE k = Len(groups[c]) + 1
          <6>1. groups'[c][k] = g
            BY <5>1, <4>1, <1>6
          <6>2. asked'[c][k] = a
            BY <5>1, <4>2, <1>4, <1>5
          <6> QED
            BY <6>1, <6>2, <1>3
        <5>2. CASE k # Len(groups[c]) + 1
          <6>1. k \in DOMAIN groups[c] /\ groups'[c][k] = groups[c][k]
            BY <5>2, <4>1, <1>6
          <6>2. asked'[c][k] = asked[c][k]
            BY <6>1, <4>1, <4>2, <1>4, <1>5
          <6> QED
            BY <6>1, <6>2, <4>1
        <5> QED
          BY <5>1, <5>2
      <4>5. Len(groups'[c]) = Len(asked'[c])
        BY <4>2, <4>3, <1>7
      <4> QED
        BY <3>3, <4>3, <4>4, <4>5 DEF GroupsOf
    <3> QED
      BY <3>2, <3>3
  <2>2. DOMAIN groups' = Classes
    BY <1>1, <1>2 DEF GroupsInv
  <2> QED
    BY <2>1, <2>2, <1>2 DEF GroupsInv
<1>12. /\ Longer(out, out') /\ Len(out) \in Nat
       /\ \A w \in (Len(out) + 1) .. Len(out') : out'[w] = HeaderOf(f, c)
       /\ ns # <<>> => Len(out) + 1 \in 1 .. Len(out') /\ out'[Len(out) + 1] = HeaderOf(f, c)
  <2>1. IsSeq(out) /\ Len(out) \in Nat
    BY <1>1 DEF WritesInv, IsSeq
  <2>2. CASE ns = <<>>
    BY <2>1, <2>2, <1>2 DEF Longer
  <2>3. CASE ns # <<>>
    <3>1. out' = Append(out, HeaderOf(f, c))
      BY <2>3, <1>2
    <3>2. /\ Longer(out, out') /\ Len(out') = Len(out) + 1
          /\ out'[Len(out) + 1] = HeaderOf(f, c)
      BY <2>1, <3>1, AppendWrite
    <3> QED
      BY <2>1, <3>2
  <2> QED
    BY <2>2, <2>3
<1>13. /\ HeaderOf(f, c).file = f /\ HeaderOf(f, c).class = c /\ HeaderOf(f, c).kind = "header"
  BY DEF HeaderOf
<1>14. \A w \in 1 .. Len(out') : \/ w \in 1 .. Len(out) /\ out'[w] = out[w]
                                 \/ out'[w] = HeaderOf(f, c)
  BY <1>12 DEF Longer
<1>15. WritesInv'
  <2>1. ASSUME NEW w \in 1 .. Len(out') PROVE WriteOf(log, opened', out'[w])
    <3>1. CASE out'[w] = HeaderOf(f, c)
      BY <3>1, <1>9, <1>13 DEF WriteOf
    <3>2. CASE w \in 1 .. Len(out) /\ out'[w] = out[w]
      <4>1. WriteOf(log, opened, out[w])
        BY <3>2, <1>1 DEF WritesInv
      <4> QED
        BY <4>1, <3>2, <1>9 DEF WriteOf
    <3> QED
      BY <3>1, <3>2, <1>14
  <2> QED
    BY <2>1, <1>2, <1>12 DEF WritesInv, Longer
<1>16. HeadersInv'
  <2>1. ASSUME NEW d \in Classes \ {"delay"}, NEW k \in DOMAIN asked'[d],
               asked'[d][k].nodes # <<>>
        PROVE  \E w \in 1 .. Len(out') : out'[w] = HeaderOf(asked'[d][k].file, d)
    <3>1. CASE d = c /\ asked'[d][k] = a
      BY <2>1, <3>1, <1>3, <1>12
    <3>2. CASE k \in DOMAIN asked[d] /\ asked'[d][k] = asked[d][k]
      <4>1. PICK w \in 1 .. Len(out) : out[w] = HeaderOf(asked[d][k].file, d)
        BY <2>1, <3>2, <1>1 DEF HeadersInv
      <4>2. w \in 1 .. Len(out') /\ out'[w] = out[w]
        BY <1>12 DEF Longer, IsSeq
      <4> QED
        BY <4>1, <4>2, <3>2
    <3> QED
      BY <3>1, <3>2, <1>5, <1>7
  <2> QED
    BY <2>1 DEF HeadersInv
<1>17. RowsInv'
  <2>1. ASSUME NEW d \in Classes \ {"delay"} PROVE OnlyHeaders(out', d)
    <3>1. OnlyHeaders(out, d)
      BY <1>1 DEF RowsInv
    <3> QED
      BY <3>1, <1>13, <1>14 DEF OnlyHeaders
  <2> QED
    BY <2>1, <1>1, <1>2 DEF RowsInv
<1>18. DelaysInv'
  <2>1. ASSUME NEW e \in 1 .. Len(log) PROVE DelaysIn(log, out', asked'["delay"], e)
    <3> DEFINE A == asked["delay"]
               B == asked'["delay"]
    <3>1. "delay" \in Classes
      BY DEF Classes
    <3>2. /\ DOMAIN A \subseteq DOMAIN B
          /\ \A k \in DOMAIN A : B[k] = A[k]
          /\ \A k \in DOMAIN B \ DOMAIN A : B[k].since = Len(log)
      <4>1. CASE c = "delay"
        BY <4>1, <1>3, <1>4, <1>5, <1>7
      <4>2. CASE c # "delay"
        BY <4>2, <3>1, <1>5
      <4> QED
        BY <4>1, <4>2
    <3>3. \A k \in DOMAIN B \ DOMAIN A : \A i : e \notin HeardIn(log, B[k], i, FirstAnswer)
      BY <3>2, <1>1, HeardNothing DEF HistoryInv
    <3>4. DelaysIn(log, out, A, e)
      BY <1>1 DEF DelaysInv
    <3>5. \A w \in (Len(out) + 1) .. Len(out') : out'[w].kind # "delays"
      BY <1>12, <1>13
    <3> HIDE DEF A, B
    <3>6. DelaysIn(log, out', B, e)
      BY <3>2, <3>3, <3>4, <3>5, <1>12, DelaysStay
    <3> QED
      BY <3>6 DEF B
  <2> QED
    BY <2>1, <1>2 DEF DelaysInv
<1> QED
  BY <1>8, <1>10, <1>11, <1>15, <1>16, <1>17, <1>18 DEF TracersInv

(* The callbacks of an event keep a group and what it has counted.         *)
LEMMA ToldGroup ==
  ASSUME log \in Seq(Events), NEW e \in Events, e.src \in OrchNodeConnect => e.app = 1,
         NEW F, NEW c \in Classes \ {"delay"}, NEW a, a.since \in Nat,
         a.nodes \in Seq(Nodes), RequestOf(log, F, c, a),
         NEW g \in [file : Files, members : Seq(Tracer(c))], GroupOf(log, c, a, g)
  PROVE  /\ Told(c, g, e) \in [file : Files, members : Seq(Tracer(c))]
         /\ GroupOf(Append(log, e), c, a, Told(c, g, e))
<1> DEFINE h == Told(c, g, e)
           After(i) == IF Hears(c, g.members[i], e) THEN Callback(g.members[i], e)
                       ELSE g.members[i]
           n == Len(g.members)
<1>1. /\ g.file \in Files /\ g.members \in Seq(Tracer(c)) /\ n \in Nat
      /\ DOMAIN g.members = 1 .. n
      /\ g = [file |-> g.file, members |-> g.members]
  OBVIOUS
<1>2. /\ h.file = g.file /\ h.members = [i \in 1 .. n |-> After(i)]
      /\ h = [file |-> h.file, members |-> h.members]
  <2> DEFINE more == [i \in DOMAIN g.members |-> After(i)]
  <2>1. h = [g EXCEPT !.members = more]
    BY DEF Told
  <2>2. more = [i \in 1 .. n |-> After(i)]
    BY <1>1
  <2> HIDE DEF h, more, After, n
  <2>3. h = [file |-> g.file, members |-> more]
    BY <1>1, <2>1
  <2> QED
    BY <2>2, <2>3
<1>3. Len(a.nodes) = n /\ g.file = a.file
  BY DEF GroupOf
<1>4. a.since <= Len(log) /\ Len(a.nodes) = n
      /\ (c = "orchNode" => \A i \in DOMAIN a.nodes : 1 \in a.had[i])
  BY <1>3 DEF RequestOf
<1> HIDE DEF h
<1>5. ASSUME NEW i \in 1 .. n
      PROVE  Stands(c, a, i, After(i)) /\ Counted(Append(log, e), c, a, i, After(i))
  <2> DEFINE t == g.members[i]
  <2>1. Stands(c, a, i, t) /\ Counted(log, c, a, i, t)
    BY <1>1 DEF GroupOf
  <2>2. Stands(c, a, i, After(i))
    <3>1. CASE Hears(c, t, e)
      <4>1. e.src \in Connected[c]
        BY <3>1 DEF Hears
      <4> QED
        BY <2>1, <3>1, <4>1, CallbackStands
    <3>2. CASE ~ Hears(c, t, e)
      BY <2>1, <3>2
    <3> QED
      BY <3>1, <3>2
  <2>3. c = "orchNode" => 1 \in a.had[i]
    BY <1>4
  <2>4. Counted(Append(log, e), c, a, i, After(i))
    BY <2>1, <2>3, <1>4, CallbackCounts
  <2> QED
    BY <2>2, <2>4
<1> HIDE DEF After
<1>6. h.members \in Seq(Tracer(c)) /\ Len(h.members) = n /\ DOMAIN h.members = 1 .. n
      /\ \A i \in 1 .. n : h.members[i] = After(i)
  <2>1. \A i \in 1 .. n : After(i) \in Tracer(c)
    BY <1>5 DEF Stands
  <2> QED
    BY <2>1, <1>1, <1>2
<1>7. h \in [file : Files, members : Seq(Tracer(c))]
  BY <1>1, <1>2, <1>6
<1>8. GroupOf(Append(log, e), c, a, h)
  BY <1>2, <1>3, <1>5, <1>6 DEF GroupOf
<1> QED
  BY <1>7, <1>8 DEF h

(* Only the application that obeys commands fires what the tracer of this  *)
(* application listens to.                                                 *)
LEMMA NodeAppFires ==
  ASSUME NEW a \in AppTypes, NEW s \in SourcesOf[a], s \in OrchNodeConnect
  PROVE  a = "ndnNode"
<1>1. AppTypes = {"consumer", "producer", "ndnComm", "udpComm", "ndnNode", "udpNode"}
  BY DEF AppTypes, SourcesOf
<1>2. a # "consumer" /\ a # "ndnComm" /\ a # "udpComm" /\ a # "udpNode"
  BY DEF SourcesOf, ConsumerSources, CommunicationSources, UdpSources, OrchNodeConnect
<1>3. a # "producer"
  BY DEF SourcesOf, ProducerSources, OrchNodeConnect
<1> QED
  BY <1>1, <1>2, <1>3

(* The writes of the delay tracers about a new event are about this event, *)
(* one for each tracer that hears it.                                      *)
LEMMA NewDelays ==
  ASSUME HistoryInv, GroupsInv, ~ ended, IsSeq(out), NEW e \in Events,
         NEW F, F = [k \in DOMAIN groups["delay"] |-> DelaysOf(groups["delay"][k], e)],
         \A w \in 1 .. Len(out) : WriteOf(log, opened, out[w])
  PROVE  /\ IsSeq(F) /\ \A k \in 1 .. Len(F) : WriteOf(Append(log, e), opened, F[k])
         /\ \A k \in 1 .. Len(F) : /\ F[k].class = "delay"
                                   /\ \A i \in DOMAIN F[k].lines :
                                        F[k].lines[i].event = Len(log) + 1
         /\ DelaysIn(Append(log, e), out \o F, asked["delay"], Len(log) + 1)
<1> DEFINE A == asked["delay"]
           G == groups["delay"]
           n == Len(log) + 1
           M == Append(log, e)
           b == Len(out)
           Hear(k) == {i \in DOMAIN G[k].members : Hears("delay", G[k].members[i], e)}
<1>1. "delay" \in Classes
  BY DEF Classes
<1>2. /\ log \in Seq(Events) /\ Len(log) \in Nat /\ Len(M) = n /\ n \in 1 .. Len(M)
      /\ b \in Nat /\ DOMAIN out = 1 .. b
  BY DEF HistoryInv, IsSeq
<1>3. /\ G \in Seq([file : Files, members : Seq(Tracer("delay"))])
      /\ Len(G) = Len(A) /\ Len(G) \in Nat /\ DOMAIN G = 1 .. Len(G)
      /\ \A k \in DOMAIN G : GroupOf(log, "delay", A[k], G[k])
      /\ \A k \in DOMAIN G : G[k] \in [file : Files, members : Seq(Tracer("delay"))]
  <2>1. GroupsOf(log, "delay", A, G, ended)
    BY <1>1 DEF GroupsInv
  <2>2. G \in Seq([file : Files, members : Seq(Tracer("delay"))])
    BY <2>1 DEF GroupsOf
  <2>3. Len(G) = Len(A)
    <3>1. G = <<>> => A = <<>>
      BY <2>1 DEF GroupsOf
    <3>2. G # <<>> => Len(G) = Len(A)
      BY <2>1 DEF GroupsOf
    <3> QED
      BY <3>1, <3>2
  <2>4. \A k \in DOMAIN G : GroupOf(log, "delay", A[k], G[k])
    BY <2>1 DEF GroupsOf
  <2> DEFINE S == [file : Files, members : Seq(Tracer("delay"))]
  <2> HIDE DEF S
  <2>5. G \in Seq(S)
    BY <2>2 DEF S
  <2>6. Len(G) \in Nat /\ DOMAIN G = 1 .. Len(G) /\ \A k \in DOMAIN G : G[k] \in S
    BY <2>5
  <2> QED
    BY <2>2, <2>3, <2>4, <2>6 DEF S
<1>4. /\ DOMAIN A = 1 .. Len(G)
      /\ \A k \in DOMAIN A : /\ A[k].since \in Nat /\ A[k].since <= Len(log)
                             /\ A[k].nodes \in Seq(Nodes)
                             /\ A[k].file \in opened \union {"-"}
  <2>1. DOMAIN A = 1 .. Len(A)
    BY <1>1, RequestTypes
  <2> QED
    BY <2>1, <1>1, <1>3, RequestTypes DEF RequestOf
<1>5. \A k \in DOMAIN A : DOMAIN G[k].members = DOMAIN A[k].nodes
  <2> TAKE k \in DOMAIN A
  <2>1. G[k] \in [file : Files, members : Seq(Tracer("delay"))]
    BY <1>3, <1>4, Zenon
  <2>2. DOMAIN G[k].members = 1 .. Len(G[k].members)
    BY <2>1
  <2>3. Len(G[k].members) = Len(A[k].nodes)
    BY <1>3, <1>4 DEF GroupOf
  <2>4. DOMAIN A[k].nodes = 1 .. Len(A[k].nodes)
    BY <1>4
  <2> QED
    BY <2>2, <2>3, <2>4
<1>6. \A k \in DOMAIN A : \A i \in DOMAIN A[k].nodes :
        /\ G[k].members[i].node = A[k].nodes[i]
        /\ i \in Hear(k) <=> n \in HeardIn(M, A[k], i, FirstAnswer)
  <2> TAKE k \in DOMAIN A
  <2> TAKE i \in DOMAIN A[k].nodes
  <2> DEFINE t == G[k].members[i]
  <2>1. Stands("delay", A[k], i, t)
    BY <1>3, <1>4, <1>5 DEF GroupOf
  <2>2. t.node = A[k].nodes[i] /\ t.apps = A[k].had[i]
    BY <2>1 DEF Stands
  <2>3. Connected["delay"] = {FirstAnswer}
    BY DEF Connected, DelayConnect, FirstAnswer
  <2>4. i \in Hear(k) <=>
          e.src = FirstAnswer /\ e.node = A[k].nodes[i] /\ e.app \in A[k].had[i]
    BY <2>2, <2>3, <1>5 DEF Hears
  <2>5. n \in HeardIn(M, A[k], i, FirstAnswer) <=>
          e.src = FirstAnswer /\ e.node = A[k].nodes[i] /\ e.app \in A[k].had[i]
    <3>1. n \notin HeardIn(log, A[k], i, FirstAnswer)
      BY <1>2, <1>4, HeardBounds
    <3>2. HeardIn(M, A[k], i, FirstAnswer) =
            IF e.src = FirstAnswer /\ e.node = A[k].nodes[i] /\ e.app \in A[k].had[i]
            THEN HeardIn(log, A[k], i, FirstAnswer) \union {n}
            ELSE HeardIn(log, A[k], i, FirstAnswer)
      <4> DEFINE a == A[k]
      <4>1. log \in Seq(Events) /\ e \in Events /\ a.since \in Nat /\ a.since <= Len(log)
        BY <1>2, <1>4
      <4> HIDE DEF a
      <4>2. HeardIn(Append(log, e), a, i, FirstAnswer) =
              IF e.src = FirstAnswer /\ e.node = a.nodes[i] /\ e.app \in a.had[i]
              THEN HeardIn(log, a, i, FirstAnswer) \union {Len(log) + 1}
              ELSE HeardIn(log, a, i, FirstAnswer)
        BY <4>1, HeardStep
      <4> QED
        BY <4>2 DEF a
    <3> QED
      BY <3>1, <3>2
  <2> QED
    BY <2>2, <2>4, <2>5
<1>7. ASSUME NEW k \in DOMAIN G
      PROVE  /\ F[k].file = G[k].file /\ F[k].class = "delay" /\ F[k].kind = "delays"
             /\ DOMAIN F[k].lines = Hear(k)
             /\ \A i \in Hear(k) :
                  /\ F[k].lines[i] = [node |-> G[k].members[i].node, event |-> n]
                  /\ F[k].lines[i].event = n
  <2>1. F[k] = DelaysOf(G[k], e)
    OBVIOUS
  <2>2. F[k].lines = [i \in Hear(k) |-> [node |-> G[k].members[i].node, event |-> n]]
    BY <2>1 DEF DelaysOf
  <2>3. F[k].file = G[k].file /\ F[k].class = "delay" /\ F[k].kind = "delays"
    BY <2>1 DEF DelaysOf
  <2> DEFINE H == Hear(k)
             Place(i) == G[k].members[i].node
             lines == F[k].lines
  <2>4. lines = [i \in H |-> [node |-> Place(i), event |-> n]]
    BY <2>2
  <2> HIDE DEF H, Place, n, lines
  <2>5. DOMAIN lines = H
    BY <2>4
  <2>6. \A i \in H : lines[i] = [node |-> Place(i), event |-> n]
    BY <2>4
  <2>7. \A i \in H : lines[i].event = n
    <3> TAKE i \in H
    <3>1. [node |-> Place(i), event |-> n].event = n
      OBVIOUS
    <3> QED
      BY <3>1, <2>6, Zenon
  <2> QED
    BY <2>3, <2>5, <2>6, <2>7 DEF H, Place, lines
<1>8. F = [k \in 1 .. Len(G) |-> F[k]]
  BY <1>3
<1>9. IsSeq(F) /\ Len(F) = Len(G)
  BY <1>3, <1>8, FunctionIsSeq
<1> HIDE DEF Hear
<1>10. \A k \in DOMAIN G : G[k].file = A[k].file
  BY <1>3 DEF GroupOf
<1>11. ASSUME NEW k \in 1 .. Len(F) PROVE WriteOf(M, opened, F[k])
  <2>1. k \in DOMAIN G /\ k \in DOMAIN A
    BY <1>3, <1>4, <1>9
  <2>2. F[k].file \in opened \union {"-"} /\ F[k].class = "delay" /\ F[k].kind = "delays"
    BY <2>1, <1>4, <1>7, <1>10
  <2>3. \A i \in DOMAIN F[k].lines : F[k].lines[i].event = n
    BY <2>1, <1>7
  <2> HIDE DEF M, n
  <2> QED
    BY <2>2, <2>3, <1>1, <1>2 DEF WriteOf
<1>12. /\ Longer(out, out \o F) /\ Len(out \o F) = b + Len(G)
       /\ \A k \in DOMAIN G : (out \o F)[b + k] = F[k]
  BY <1>3, <1>9, ConcatWrites
<1>13. DOMAIN (out \o F) = 1 .. (b + Len(G))
  BY <1>12 DEF Longer, IsSeq
<1>14. \A w \in DOMAIN (out \o F) : \/ w \in 1 .. b /\ (out \o F)[w] = out[w]
                                    \/ \E k \in DOMAIN G : w = b + k
  <2> TAKE w \in DOMAIN (out \o F)
  <2>1. CASE w \in 1 .. b
    BY <2>1, <1>12 DEF Longer
  <2>2. CASE w \notin 1 .. b
    <3>1. w - b \in DOMAIN G /\ w = b + (w - b)
      BY <2>2, <1>2, <1>3, <1>13
    <3> QED
      BY <3>1
  <2> QED
    BY <2>1, <2>2
<1>15. \A k \in DOMAIN G : b + k \in DOMAIN (out \o F)
  BY <1>2, <1>3, <1>13
<1> HIDE DEF A, G, n, M, b
<1>16. ASSUME NEW k \in DOMAIN A, NEW i \in DOMAIN A[k].nodes,
              n \in HeardIn(M, A[k], i, FirstAnswer)
       PROVE  /\ b + k \in DOMAIN (out \o F) /\ (out \o F)[b + k].kind = "delays"
              /\ (out \o F)[b + k].file = A[k].file
              /\ i \in DOMAIN (out \o F)[b + k].lines
              /\ (out \o F)[b + k].lines[i] = [node |-> A[k].nodes[i], event |-> n]
  <2>1. k \in DOMAIN G /\ (out \o F)[b + k] = F[k] /\ i \in Hear(k)
    BY <1>3, <1>4, <1>6, <1>12, <1>16
  <2>2. b + k \in DOMAIN (out \o F) /\ G[k].file = A[k].file
    BY <2>1, <1>10, <1>15
  <2>3. /\ F[k].kind = "delays" /\ F[k].file = G[k].file /\ i \in DOMAIN F[k].lines
        /\ F[k].lines[i] = [node |-> G[k].members[i].node, event |-> n]
    BY <2>1, <1>7
  <2>4. G[k].members[i].node = A[k].nodes[i]
    BY <1>6
  <2> QED
    BY <2>1, <2>2, <2>3, <2>4
<1>17. ASSUME NEW w \in DOMAIN (out \o F), (out \o F)[w].kind = "delays",
              NEW i \in DOMAIN (out \o F)[w].lines, (out \o F)[w].lines[i].event = n
       PROVE  \E k \in DOMAIN A : /\ w = b + k /\ i \in DOMAIN A[k].nodes
                                  /\ n \in HeardIn(M, A[k], i, FirstAnswer)
  <2>1. ~ (w \in 1 .. b /\ (out \o F)[w] = out[w])
    <3> SUFFICES ASSUME w \in 1 .. b, (out \o F)[w] = out[w] PROVE FALSE
      OBVIOUS
    <3>1. out[w].lines[i].event \in 1 .. Len(log)
      BY <1>17 DEF WriteOf, b
    <3> QED
      BY <3>1, <1>2, <1>17 DEF n
  <2>2. PICK k \in DOMAIN G : w = b + k
    BY <2>1, <1>14
  <2>3. (out \o F)[w] = F[k] /\ DOMAIN F[k].lines = Hear(k)
    BY <2>2, <1>7, <1>12
  <2>4. i \in Hear(k) /\ k \in DOMAIN A
    BY <2>3, <1>3, <1>4, <1>17
  <2>5. i \in DOMAIN A[k].nodes
    BY <2>4, <1>5 DEF Hear
  <2> QED
    BY <2>2, <2>4, <2>5, <1>6
<1>18. DelaysAt(M, out \o F, A, n, b)
  BY <1>16, <1>17 DEF DelaysAt
<1>19. b \in 0 .. Len(out \o F)
  BY <1>2, <1>3, <1>12
<1>20. DelaysIn(M, out \o F, A, n)
  BY <1>18, <1>19 DEF DelaysIn
<1>21. \A k \in 1 .. Len(F) : /\ F[k].class = "delay"
                              /\ \A i \in DOMAIN F[k].lines : F[k].lines[i].event = n
  <2> TAKE k \in 1 .. Len(F)
  <2>1. k \in DOMAIN G
    BY <1>3, <1>9
  <2> QED
    BY <2>1, <1>7
<1> QED
  BY <1>9, <1>11, <1>20, <1>21 DEF A, M, n

(* An event is told to the tracers that are connected to its source.       *)
LEMMA InvFire ==
  ASSUME TracersInv, Fire
  PROVE  TracersInv'
<1>1. /\ AppsInv /\ HistoryInv /\ GroupsInv /\ WritesInv /\ HeadersInv /\ RowsInv /\ DelaysInv
      /\ ~ ended /\ UNCHANGED <<apps, opened, asked, ended>>
  BY DEF TracersInv, Fire
<1>2. PICK m \in Nodes : \E j \in DOMAIN apps[m] :
        \E s \in SourcesOf[apps[m][j]] \intersect Fired, cost \in Costs :
          Report([node |-> m, app |-> j, src |-> s, cost |-> cost])
  BY DEF Fire
<1> PICK j \in DOMAIN apps[m] :
      \E s \in SourcesOf[apps[m][j]] \intersect Fired, cost \in Costs :
        Report([node |-> m, app |-> j, src |-> s, cost |-> cost])
  BY <1>2
<1> PICK s \in SourcesOf[apps[m][j]] \intersect Fired, cost \in Costs :
      Report([node |-> m, app |-> j, src |-> s, cost |-> cost])
  OBVIOUS
<1> DEFINE e == [node |-> m, app |-> j, src |-> s, cost |-> cost]
<1>3. apps[m][j] \in AppTypes /\ j \in Nat /\ (apps[m][j] = "ndnNode" => j = 1)
  <2>1. apps[m] \in Seq(AppTypes)
    BY <1>1 DEF AppsInv
  <2> QED
    BY <2>1, <1>1 DEF AppsInv
<1>4. e \in Events
  BY <1>3 DEF Events, Sources
<1>5. e.src \in OrchNodeConnect => e.app = 1
  BY <1>3, NodeAppFires
<1>6. Report(e)
  OBVIOUS
<1> HIDE DEF e
<1> DEFINE F == [k \in DOMAIN groups["delay"] |-> DelaysOf(groups["delay"][k], e)]
           n == Len(log) + 1
           M == Append(log, e)
<1>7. /\ groups' = [c \in Classes |->
           IF c = "delay" THEN groups[c]
           ELSE [k \in DOMAIN groups[c] |-> Told(c, groups[c][k], e)]]
      /\ out' = out \o F /\ log' = M
  BY <1>6 DEF Report
<1>8. /\ IsSeq(F) /\ \A k \in 1 .. Len(F) : WriteOf(M, opened, F[k])
      /\ \A k \in 1 .. Len(F) : /\ F[k].class = "delay"
                                /\ \A i \in DOMAIN F[k].lines : F[k].lines[i].event = n
      /\ DelaysIn(M, out \o F, asked["delay"], n)
  BY <1>1, <1>4, NewDelays DEF WritesInv
<1> HIDE DEF F
<1>9. /\ log \in Seq(Events) /\ Len(log) \in Nat /\ n \in Nat
      /\ M \in Seq(Events) /\ Len(M) = n
  BY <1>1, <1>4 DEF HistoryInv
<1> HIDE DEF M
<1>10. AppsInv'
  BY <1>1 DEF AppsInv
<1>11. HistoryInv'
  <2>1. ASSUME NEW c \in Classes, NEW k \in DOMAIN asked[c]
        PROVE  RequestOf(M, opened, c, asked[c][k])
    <3>1. RequestOf(log, opened, c, asked[c][k]) /\ asked[c][k].since \in Nat
      BY <1>1, RequestTypes
    <3> QED
      BY <3>1, <1>9 DEF RequestOf
  <2> QED
    BY <2>1, <1>1, <1>7, <1>9 DEF HistoryInv
<1>12. GroupsInv'
  <2>1. ASSUME NEW c \in Classes PROVE GroupsOf(M, c, asked[c], groups'[c], ended)
    <3>1. GroupsOf(log, c, asked[c], groups[c], ended)
      BY <1>1 DEF GroupsInv
    <3> DEFINE S == [file : Files, members : Seq(Tracer(c))]
               K == Len(groups[c])
    <3>2. /\ groups[c] \in Seq(S) /\ (groups[c] = <<>> /\ asked[c] # <<>> => ended)
          /\ (groups[c] # <<>> => Len(groups[c]) = Len(asked[c]))
          /\ \A k \in DOMAIN groups[c] : GroupOf(log, c, asked[c][k], groups[c][k])
      BY <3>1 DEF GroupsOf
    <3> HIDE DEF S
    <3>3. K \in Nat /\ DOMAIN groups[c] = 1 .. K /\ \A k \in 1 .. K : groups[c][k] \in S
      BY <3>2
    <3>4. \A k \in 1 .. K : k \in DOMAIN asked[c]
      <4> TAKE k \in 1 .. K
      <4>1. groups[c] # <<>>
        BY <3>3
      <4>2. Len(asked[c]) = K /\ DOMAIN asked[c] = 1 .. Len(asked[c])
        BY <4>1, <3>2, <1>1, RequestTypes
      <4> QED
        BY <4>2
    <3>5. CASE c = "delay"
      <4>1. groups'[c] = groups[c]
        BY <3>5, <1>7
      <4>2. \A k \in DOMAIN groups[c] : GroupOf(M, c, asked[c][k], groups[c][k])
        BY <3>2, <3>5 DEF GroupOf
      <4> QED
        BY <3>2, <4>1, <4>2 DEF GroupsOf, S
    <3>6. CASE c # "delay"
      <4>1. groups'[c] = [k \in 1 .. K |-> Told(c, groups[c][k], e)]
        BY <3>3, <3>6, <1>7
      <4>2. ASSUME NEW k \in 1 .. K
            PROVE  /\ Told(c, groups[c][k], e) \in S
                   /\ GroupOf(M, c, asked[c][k], Told(c, groups[c][k], e))
        <5> DEFINE a == asked[c][k]
                   g == groups[c][k]
        <5>1. a.since \in Nat /\ a.nodes \in Seq(Nodes) /\ RequestOf(log, opened, c, a)
          BY <3>4, <1>1, RequestTypes
        <5>2. g \in S /\ GroupOf(log, c, a, g)
          BY <3>2, <3>3
        <5> HIDE DEF a, g
        <5>3. Told(c, g, e) \in S /\ GroupOf(M, c, a, Told(c, g, e))
          BY <5>1, <5>2, <3>6, <1>4, <1>5, <1>9, ToldGroup DEF S, M
        <5> QED
          BY <5>3 DEF a, g
      <4>3. groups'[c] \in Seq(S) /\ Len(groups'[c]) = K /\ DOMAIN groups'[c] = 1 .. K
        BY <4>1, <4>2, <3>3
      <4>4. groups'[c] = <<>> <=> groups[c] = <<>>
        BY <4>3, <3>2, <3>3
      <4>5. \A k \in DOMAIN groups'[c] : GroupOf(M, c, asked[c][k], groups'[c][k])
        BY <4>1, <4>2, <4>3
      <4> QED
        BY <3>2, <4>3, <4>4, <4>5 DEF GroupsOf, S
    <3> QED
      BY <3>5, <3>6
  <2> QED
    BY <2>1, <1>1, <1>7 DEF GroupsInv
<1>13. /\ Longer(out, out') /\ Len(out) \in Nat
       /\ \A w \in (Len(out) + 1) .. Len(out') : \E k \in 1 .. Len(F) : out'[w] = F[k]
  <2>1. IsSeq(out) /\ Len(out) \in Nat /\ Len(F) \in Nat
    BY <1>1, <1>8 DEF WritesInv, IsSeq
  <2>2. /\ Longer(out, out') /\ Len(out') = Len(out) + Len(F)
        /\ \A k \in 1 .. Len(F) : out'[Len(out) + k] = F[k]
    BY <2>1, <1>7, <1>8, ConcatWrites
  <2>3. ASSUME NEW w \in (Len(out) + 1) .. Len(out')
        PROVE  \E k \in 1 .. Len(F) : out'[w] = F[k]
    <3>1. w - Len(out) \in 1 .. Len(F) /\ Len(out) + (w - Len(out)) = w
      BY <2>1, <2>2
    <3> QED
      BY <3>1, <2>2
  <2> QED
    BY <2>1, <2>2, <2>3
<1>14. \A w \in 1 .. Len(out') : \/ w \in 1 .. Len(out) /\ out'[w] = out[w]
                                 \/ \E k \in 1 .. Len(F) : out'[w] = F[k]
  BY <1>13 DEF Longer, IsSeq
<1>15. WritesInv'
  <2>1. ASSUME NEW w \in 1 .. Len(out') PROVE WriteOf(M, opened, out'[w])
    <3>1. CASE w \in 1 .. Len(out) /\ out'[w] = out[w]
      <4>1. WriteOf(log, opened, out[w])
        BY <3>1, <1>1 DEF WritesInv
      <4>2. 1 .. Len(log) \subseteq 1 .. Len(M)
        BY <1>9
      <4> QED
        BY <4>1, <4>2, <3>1 DEF WriteOf
    <3>2. CASE \E k \in 1 .. Len(F) : out'[w] = F[k]
      BY <3>2, <1>8
    <3> QED
      BY <3>1, <3>2, <1>14
  <2> QED
    BY <2>1, <1>1, <1>7, <1>13 DEF WritesInv, Longer
<1>16. HeadersInv'
  <2>1. 1 .. Len(out) \subseteq 1 .. Len(out') /\ \A w \in 1 .. Len(out) : out'[w] = out[w]
    BY <1>13 DEF Longer, IsSeq
  <2> QED
    BY <2>1, <1>1 DEF HeadersInv
<1>17. RowsInv'
  <2>1. ASSUME NEW d \in Classes \ {"delay"} PROVE OnlyHeaders(out', d)
    <3>1. OnlyHeaders(out, d)
      BY <1>1 DEF RowsInv
    <3> QED
      BY <3>1, <1>8, <1>14 DEF OnlyHeaders
  <2> QED
    BY <2>1, <1>1 DEF RowsInv
<1>18. DelaysInv'
  <2>1. ASSUME NEW d \in 1 .. n PROVE DelaysIn(M, out', asked["delay"], d)
    <3>1. CASE d = n
      BY <3>1, <1>7, <1>8
    <3>2. CASE d # n
      <4> DEFINE A == asked["delay"]
      <4>1. d \in 1 .. Len(log)
        BY <3>2, <1>9
      <4>2. DelaysIn(log, out, A, d)
        BY <4>1, <1>1 DEF DelaysInv
      <4>3. \A k \in DOMAIN A : A[k].since \in Nat /\ A[k].since <= Len(log)
        <5>1. "delay" \in Classes
          BY DEF Classes
        <5> QED
          BY <5>1, <1>1, RequestTypes
      <4> HIDE DEF A
      <4>4. ASSUME NEW k \in DOMAIN A, NEW i
            PROVE  d \in HeardIn(M, A[k], i, FirstAnswer)
                     <=> d \in HeardIn(log, A[k], i, FirstAnswer)
        <5> DEFINE a == A[k]
        <5>1. a.since \in Nat /\ a.since <= Len(log)
          BY <4>3
        <5> HIDE DEF a
        <5>2. HeardIn(M, a, i, FirstAnswer) =
                IF e.src = FirstAnswer /\ e.node = a.nodes[i] /\ e.app \in a.had[i]
                THEN HeardIn(log, a, i, FirstAnswer) \union {Len(log) + 1}
                ELSE HeardIn(log, a, i, FirstAnswer)
          BY <5>1, <1>4, <1>9, HeardStep DEF M
        <5> QED
          BY <5>2, <3>2 DEF a
      <4>5. \A w \in (Len(out) + 1) .. Len(out') : out'[w].kind = "delays" =>
              \A i \in DOMAIN out'[w].lines : out'[w].lines[i].event # d
        BY <3>2, <1>8, <1>13
      <4>6. DelaysIn(M, out', A, d)
        BY <4>2, <4>4, <4>5, <1>13, DelaysStay
      <4> QED
        BY <4>6 DEF A
    <3> QED
      BY <3>1, <3>2
  <2> QED
    BY <2>1, <1>1, <1>7, <1>9 DEF DelaysInv
<1> QED
  BY <1>10, <1>11, <1>12, <1>15, <1>16, <1>17, <1>18 DEF TracersInv

(* The rows of a class that is destroyed are those of its requests, true,  *)
(* and the last it will ever write.                                        *)
LEMMA InvDestroy ==
  ASSUME TracersInv, NEW c \in Classes, Destroy(c)
  PROVE  TracersInv'
<1>1. /\ AppsInv /\ HistoryInv /\ GroupsInv /\ WritesInv /\ HeadersInv /\ RowsInv /\ DelaysInv
      /\ ended /\ groups[c] # <<>> /\ UNCHANGED <<apps, opened, log, asked, ended>>
  BY DEF TracersInv, Destroy
<1> DEFINE F == IF c = "delay" THEN <<>>
                ELSE [k \in DOMAIN groups[c] |-> RowsOf(c, groups[c][k])]
           A == asked[c]
           G == groups[c]
           b == Len(out)
<1>2. groups' = [groups EXCEPT ![c] = <<>>]
      /\ out' = IF c = "delay" THEN out ELSE out \o F
  BY DEF Destroy
<1>3. groups'[c] = <<>> /\ DOMAIN groups' = Classes
      /\ \A d \in Classes \ {c} : groups'[d] = groups[d]
  BY <1>1, <1>2 DEF GroupsInv
<1>4. /\ Len(G) = Len(A) /\ Len(G) \in Nat /\ DOMAIN G = 1 .. Len(G)
      /\ \A k \in DOMAIN G : /\ GroupOf(log, c, A[k], G[k])
                             /\ G[k] \in [file : Files, members : Seq(Tracer(c))]
  <2> DEFINE S == [file : Files, members : Seq(Tracer(c))]
  <2>1. GroupsOf(log, c, A, G, ended)
    BY <1>1 DEF GroupsInv
  <2>2. G \in Seq(S) /\ Len(G) = Len(A) /\ \A k \in DOMAIN G : GroupOf(log, c, A[k], G[k])
    BY <2>1, <1>1 DEF GroupsOf
  <2> HIDE DEF S, A, G
  <2>3. Len(G) \in Nat /\ DOMAIN G = 1 .. Len(G) /\ \A k \in DOMAIN G : G[k] \in S
    BY <2>2
  <2> QED
    BY <2>2, <2>3 DEF S
<1>5. /\ DOMAIN A = 1 .. Len(G)
      /\ \A k \in DOMAIN A : A[k].nodes \in Seq(Nodes) /\ A[k].file \in opened \union {"-"}
  <2>1. DOMAIN A = 1 .. Len(A)
    BY <1>1, RequestTypes
  <2> QED
    BY <2>1, <1>1, <1>4, RequestTypes DEF RequestOf
<1>6. IsSeq(out) /\ b \in Nat /\ DOMAIN out = 1 .. b
  BY <1>1 DEF WritesInv, IsSeq
<1>7. IsSeq(F) /\ Len(F) = IF c = "delay" THEN 0 ELSE Len(G)
  <2>1. CASE c = "delay"
    BY <2>1 DEF IsSeq
  <2>2. CASE c # "delay"
    <3>1. F = [k \in 1 .. Len(G) |-> F[k]]
      BY <2>2, <1>4
    <3> HIDE DEF F
    <3> QED
      BY <2>2, <3>1, <1>4, FunctionIsSeq
  <2> QED
    BY <2>1, <2>2
<1>8. /\ Longer(out, out') /\ Len(out') = b + Len(F) /\ DOMAIN out' = 1 .. (b + Len(F))
      /\ \A k \in 1 .. Len(F) : out'[b + k] = F[k]
  <2>1. CASE c = "delay"
    <3>1. out' = out /\ Len(F) = 0
      BY <2>1, <1>2, <1>7
    <3>2. Longer(out, out)
      BY <1>6 DEF Longer
    <3> HIDE DEF F
    <3>3. b + Len(F) = b /\ 1 .. Len(F) = {}
      BY <3>1, <1>6
    <3> QED
      BY <3>1, <3>2, <3>3, <1>6
  <2>2. CASE c # "delay"
    <3>1. out' = out \o F
      BY <2>2, <1>2
    <3> HIDE DEF F
    <3>2. /\ Longer(out, out \o F) /\ Len(out \o F) = Len(out) + Len(F)
          /\ \A k \in 1 .. Len(F) : (out \o F)[Len(out) + k] = F[k]
      <4>1. IsSeq(out) /\ IsSeq(F)
        BY <1>6, <1>7
      <4> QED
        BY <4>1, ConcatWrites
    <3>3. DOMAIN (out \o F) = 1 .. Len(out \o F)
      BY <3>2 DEF Longer, IsSeq
    <3> QED
      BY <3>1, <3>2, <3>3
  <2> QED
    BY <2>1, <2>2
<1>9. ASSUME c # "delay", NEW k \in 1 .. Len(G)
      PROVE  /\ F[k].file = A[k].file /\ F[k].class = c /\ F[k].kind = "rows"
             /\ DOMAIN F[k].lines = DOMAIN A[k].nodes
             /\ \A i \in DOMAIN A[k].nodes :
                  /\ F[k].lines[i].node = A[k].nodes[i]
                  /\ RowIn(log, c, A[k], i, F[k].lines[i].cells)
  <2> DEFINE g == G[k]
             a == A[k]
             w == F[k]
  <2>1. w = RowsOf(c, g)
    BY <1>4, <1>9
  <2>2. GroupOf(log, c, a, g) /\ a.nodes \in Seq(Nodes)
        /\ g \in [file : Files, members : Seq(Tracer(c))]
    BY <1>4, <1>5
  <2> HIDE DEF g, a, w
  <2>3. g.members \in Seq(Tracer(c)) /\ Len(g.members) = Len(a.nodes)
    BY <2>2 DEF GroupOf
  <2>4. DOMAIN g.members = DOMAIN a.nodes
    BY <2>2, <2>3
  <2>5. /\ w.file = g.file /\ w.class = c /\ w.kind = "rows"
        /\ w.lines = [i \in DOMAIN g.members |->
                        [node |-> g.members[i].node, cells |-> PrintSum(c, g.members[i])]]
    BY <2>1 DEF RowsOf
  <2>6. \A i \in DOMAIN a.nodes : /\ w.lines[i].node = g.members[i].node
                                 /\ w.lines[i].cells = PrintSum(c, g.members[i])
    BY <2>4, <2>5
  <2>7. \A i \in DOMAIN a.nodes : /\ g.members[i].node = a.nodes[i]
                                 /\ RowIn(log, c, a, i, PrintSum(c, g.members[i]))
    <3> TAKE i \in DOMAIN a.nodes
    <3>1. Stands(c, a, i, g.members[i]) /\ Counted(log, c, a, i, g.members[i])
      BY <2>2, <2>4, <1>9 DEF GroupOf
    <3>2. RowIn(log, c, a, i, PrintSum(c, g.members[i]))
      BY <3>1, CountedRow
    <3> QED
      BY <3>1, <3>2 DEF Stands
  <2>8. w.file = a.file /\ DOMAIN w.lines = DOMAIN a.nodes
    BY <2>2, <2>4, <2>5 DEF GroupOf
  <2>9. \A i \in DOMAIN a.nodes : /\ w.lines[i].node = a.nodes[i]
                                 /\ RowIn(log, c, a, i, w.lines[i].cells)
    BY <2>6, <2>7
  <2> QED
    BY <2>5, <2>8, <2>9 DEF a, w
<1> HIDE DEF F, A, G, b
<1>10. \A w \in 1 .. Len(out') : \/ w \in 1 .. b /\ out'[w] = out[w]
                                 \/ \E k \in 1 .. Len(F) : w = b + k /\ out'[w] = F[k]
  <2> TAKE w \in 1 .. Len(out')
  <2>1. CASE w \in 1 .. b
    BY <2>1, <1>8 DEF Longer, b
  <2>2. CASE w \notin 1 .. b
    <3>1. Len(F) \in Nat
      BY <1>4, <1>7
    <3>2. w - b \in 1 .. Len(F) /\ w = b + (w - b)
      BY <2>2, <3>1, <1>6, <1>8
    <3> QED
      BY <3>2, <1>8
  <2> QED
    BY <2>1, <2>2
<1>11. \A k \in 1 .. Len(F) : c # "delay" /\ k \in 1 .. Len(G)
  BY <1>7
<1>12. AppsInv'
  BY <1>1 DEF AppsInv
<1>13. HistoryInv'
  BY <1>1 DEF HistoryInv
<1>14. GroupsInv'
  <2>1. ASSUME NEW d \in Classes PROVE GroupsOf(log, d, asked[d], groups'[d], ended)
    <3>1. CASE d = c
      BY <3>1, <1>1, <1>3 DEF GroupsOf
    <3>2. CASE d # c
      BY <3>2, <1>1, <1>3 DEF GroupsInv
    <3> QED
      BY <3>1, <3>2
  <2> QED
    BY <2>1, <1>1, <1>3 DEF GroupsInv
<1>15. WritesInv'
  <2>1. ASSUME NEW w \in 1 .. Len(out') PROVE WriteOf(log, opened, out'[w])
    <3>1. CASE w \in 1 .. b /\ out'[w] = out[w]
      BY <3>1, <1>1 DEF WritesInv, b
    <3>2. CASE \E k \in 1 .. Len(F) : out'[w] = F[k]
      <4>1. PICK k \in 1 .. Len(F) : out'[w] = F[k]
        BY <3>2
      <4>2. F[k].file = A[k].file /\ F[k].class = c /\ F[k].kind = "rows" /\ k \in DOMAIN A
        BY <1>5, <1>9, <1>11
      <4> QED
        BY <4>1, <4>2, <1>5 DEF WriteOf
    <3> QED
      BY <3>1, <3>2, <1>10
  <2> QED
    BY <2>1, <1>1, <1>8 DEF WritesInv, Longer
<1>16. HeadersInv'
  <2>1. 1 .. Len(out) \subseteq 1 .. Len(out') /\ \A w \in 1 .. Len(out) : out'[w] = out[w]
    BY <1>8 DEF Longer, IsSeq
  <2> QED
    BY <2>1, <1>1 DEF HeadersInv
<1>17. RowsInv'
  <2>1. ASSUME NEW d \in Classes \ {"delay"}, d # c
        PROVE  IF groups[d] = <<>>
               THEN \E p \in 0 .. Len(out') : PrintedIn(log, out', asked[d], d, p)
               ELSE OnlyHeaders(out', d)
    <3>1. \A w \in (Len(out) + 1) .. Len(out') : out'[w].class # d
      <4> TAKE w \in (Len(out) + 1) .. Len(out')
      <4>1. w \in 1 .. Len(out') /\ w \notin 1 .. b
        BY <1>6 DEF b
      <4>2. PICK k \in 1 .. Len(F) : out'[w] = F[k]
        BY <4>1, <1>10
      <4> QED
        BY <4>2, <2>1, <1>9, <1>11
    <3>2. CASE groups[d] = <<>>
      <4>1. PICK p \in 0 .. Len(out) : PrintedIn(log, out, asked[d], d, p)
        BY <3>2, <1>1 DEF RowsInv
      <4>2. Len(asked[d]) \in Nat /\ DOMAIN asked[d] = 1 .. Len(asked[d])
        BY <1>1, RequestTypes
      <4>3. p \in 0 .. Len(out') /\ PrintedIn(log, out', asked[d], d, p)
        BY <3>1, <4>1, <4>2, <1>8, PrintedStays
      <4> QED
        BY <3>2, <4>3
    <3>3. CASE groups[d] # <<>>
      <4>1. OnlyHeaders(out, d)
        BY <3>3, <1>1 DEF RowsInv
      <4>2. OnlyHeaders(out', d)
        <5>1. ASSUME NEW w \in 1 .. Len(out'), out'[w].class = d
              PROVE  out'[w].kind = "header"
          <6>1. w \in 1 .. b /\ out'[w] = out[w]
            BY <2>1, <5>1, <1>9, <1>10, <1>11
          <6> QED
            BY <4>1, <5>1, <6>1 DEF OnlyHeaders, b
        <5> QED
          BY <5>1 DEF OnlyHeaders
      <4> QED
        BY <3>3, <4>2
    <3> QED
      BY <3>2, <3>3
  <2>2. ASSUME c # "delay"
        PROVE  b \in 0 .. Len(out') /\ PrintedIn(log, out', A, c, b)
    <3>1. OnlyHeaders(out, c)
      BY <2>2, <1>1 DEF RowsInv
    <3>2. Len(F) = Len(A) /\ Len(A) \in Nat /\ Len(G) = Len(A)
      BY <2>2, <1>4, <1>7
    <3>3. {w \in DOMAIN out' : out'[w].class = c /\ out'[w].kind = "rows"}
            = (b + 1) .. (b + Len(A))
      <4>1. ASSUME NEW w \in DOMAIN out', out'[w].class = c, out'[w].kind = "rows"
            PROVE  w \in (b + 1) .. (b + Len(A))
        <5>1. w \in 1 .. Len(out')
          BY <1>8
        <5>2. ~ (w \in 1 .. b /\ out'[w] = out[w])
          BY <3>1, <4>1 DEF OnlyHeaders, b
        <5>3. PICK k \in 1 .. Len(F) : w = b + k
          BY <5>1, <5>2, <1>10
        <5> QED
          BY <5>3, <3>2, <1>6
      <4>2. ASSUME NEW w \in (b + 1) .. (b + Len(A))
            PROVE  w \in DOMAIN out' /\ out'[w].class = c /\ out'[w].kind = "rows"
        <5>1. w \in DOMAIN out' /\ w - b \in 1 .. Len(F) /\ b + (w - b) = w
          BY <3>2, <1>6, <1>8
        <5>2. out'[w] = F[w - b]
          BY <5>1, <1>8
        <5> QED
          BY <5>1, <5>2, <2>2, <3>2, <1>9
      <4> QED
        BY <4>1, <4>2
    <3>4. ASSUME NEW w \in (b + 1) .. Len(out') PROVE out'[w].kind = "rows"
      <4>1. w \in (b + 1) .. (b + Len(A))
        BY <3>2, <1>8
      <4> QED
        BY <4>1, <3>3
    <3>5. \A k \in DOMAIN A :
            /\ out'[b + k].file = A[k].file
            /\ DOMAIN out'[b + k].lines = DOMAIN A[k].nodes
            /\ \A i \in DOMAIN A[k].nodes :
                 /\ out'[b + k].lines[i].node = A[k].nodes[i]
                 /\ RowIn(log, c, A[k], i, out'[b + k].lines[i].cells)
      <4> TAKE k \in DOMAIN A
      <4>1. k \in 1 .. Len(G) /\ out'[b + k] = F[k]
        BY <3>2, <1>5, <1>8
      <4> QED
        BY <4>1, <2>2, <1>9
    <3>6. b \in 0 .. Len(out')
      BY <3>2, <1>6, <1>8
    <3> QED
      BY <3>3, <3>4, <3>5, <3>6 DEF PrintedIn
  <2>3. ASSUME NEW d \in Classes \ {"delay"}
        PROVE  IF ended /\ groups'[d] = <<>>
               THEN \E p \in 0 .. Len(out') : PrintedIn(log, out', asked[d], d, p)
               ELSE OnlyHeaders(out', d)
    <3>1. CASE d = c
      BY <3>1, <2>2, <1>1, <1>3 DEF A
    <3>2. CASE d # c
      BY <3>2, <2>1, <1>1, <1>3
    <3> QED
      BY <3>1, <3>2
  <2> QED
    BY <2>3, <1>1 DEF RowsInv
<1>18. DelaysInv'
  <2>1. ASSUME NEW e \in 1 .. Len(log) PROVE DelaysIn(log, out', asked["delay"], e)
    <3> DEFINE B == asked["delay"]
    <3>1. DelaysIn(log, out, B, e)
      BY <1>1 DEF DelaysInv
    <3>2. \A w \in (Len(out) + 1) .. Len(out') : out'[w].kind # "delays"
      <4> TAKE w \in (Len(out) + 1) .. Len(out')
      <4>1. w \in 1 .. Len(out') /\ w \notin 1 .. b
        BY <1>6 DEF b
      <4>2. PICK k \in 1 .. Len(F) : out'[w] = F[k]
        BY <4>1, <1>10
      <4> QED
        BY <4>2, <1>9, <1>11
    <3> HIDE DEF B
    <3>3. DelaysIn(log, out', B, e)
      BY <3>1, <3>2, <1>8, DelaysStay
    <3> QED
      BY <3>3 DEF B
  <2> QED
    BY <2>1, <1>1 DEF DelaysInv
<1> QED
  BY <1>12, <1>13, <1>14, <1>15, <1>16, <1>17, <1>18 DEF TracersInv

-----------------------------------------------------------------------------
(* Each step keeps the invariant.                                          *)
LEMMA InvStep ==
  ASSUME TracersInv, [Next]_vars
  PROVE  TracersInv'
<1>1. CASE AddApplication
  BY <1>1, InvAddApplication
<1>2. CASE \E ns \in NodeLists, f \in Files : \E c \in Classes : Install(c, ns, f)
  BY <1>2, InvInstall
<1>3. CASE Fire
  BY <1>3, InvFire
<1>4. CASE EndSimulation
  BY <1>4, InvEndSimulation
<1>5. CASE \E c \in Classes : Destroy(c)
  BY <1>5, InvDestroy
<1>6. CASE UNCHANGED vars
  BY <1>6 DEF vars, TracersInv, AppsInv, HistoryInv, GroupsInv, WritesInv, HeadersInv,
              RowsInv, DelaysInv
<1>7. ASSUME NEW ns \in NodeLists, NEW f \in Files,
             \/ InstallComputeTracer(ns, f) \/ InstallComputeNodeTracer(ns, f)
             \/ InstallConsumerTracer(ns, f) \/ InstallDelayTracer(ns, f)
             \/ InstallOrchTracer(ns, f) \/ InstallOrchUdpTracer(ns, f)
             \/ InstallOrchNodeTracer(ns, f)
      PROVE  \E c \in Classes : Install(c, ns, f)
  BY <1>7 DEF InstallComputeTracer, InstallComputeNodeTracer, InstallConsumerTracer,
     InstallDelayTracer, InstallOrchTracer, InstallOrchUdpTracer, InstallOrchNodeTracer, Classes
<1> QED
  BY <1>1, <1>2, <1>3, <1>4, <1>5, <1>6, <1>7 DEF Next

(* The invariant holds in every state the tracers reach.                   *)
THEOREM Invariance == Spec => []TracersInv
<1>1. Init => TracersInv
  BY InvInit
<1>2. TracersInv /\ [Next]_vars => TracersInv'
  BY InvStep
<1> QED
  BY <1>1, <1>2, PTL DEF Spec

(* Every variable of the tracers has its type; a tracer keeps a name for   *)
(* each event it counts, and only opened files are written (Callback,      *)
(* Install).                                                               *)
THEOREM TypeCorrect == Spec => []TypeOK
<1>1. TracersInv => TypeOK
  BY InvTypes
<1> QED
  BY <1>1, Invariance, PTL

(* Each row, before and after it is printed, has of what happened since its *)
(* tracer was installed, to the applications that were on its node then,    *)
(* every count, sum and list of names under its heading, and in a cell of   *)
(* names the lists of the columns before it, too (PrintSum); each delay is  *)
(* printed once, where it belongs.                                          *)
THEOREM RowsExact == Spec => []RowsAreExact
<1>1. TracersInv => RowsAreExact
  BY InvRows
<1> QED
  BY <1>1, Invariance, PTL

(* Each Install gets its header and, when its class is destroyed, one row  *)
(* per node, in order, in its file, after everything the class wrote.      *)
THEOREM OneRowForEach == Spec => []OneRowEach
<1>1. TracersInv => OneRowEach
  BY InvOneRow
<1> QED
  BY <1>1, Invariance, PTL
=============================================================================
