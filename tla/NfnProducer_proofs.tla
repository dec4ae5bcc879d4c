------------------------- MODULE NfnProducer_proofs -------------------------
(***************************************************************************)
(* Proofs about NfnProducer, for every set of requests, functions and      *)
(* data names, every node and every amount of trouble.                     *)
(*                                                                         *)
(* One inductive invariant (BaseInv) relates the pending table, the set of *)
(* requests execution has seen and the requests somebody waits for; the    *)
(* types, the absence of double handling, the absence of forgotten         *)
(* requests and the refinement of NfnExecution all follow from it.  Two    *)
(* more are built on it: SentInv relates the sending list to the network,  *)
(* and WaitInv says what each entry lacks and how far the loop of OnData   *)
(* has come.                                                               *)
(***************************************************************************)
EXTENDS NfnProducer, WellFoundedInduction, SequenceTheorems, TLAPS

-----------------------------------------------------------------------------
(* Smallest and largest members, which the searches in sequences return.   *)
LEMMA LeastExists ==
  ASSUME NEW S \in SUBSET Nat, S # {}
  PROVE  \E x \in S : \A y \in S : x <= y
<1> DEFINE R == OpToRel(<, Nat)
<1>1. IsWellFoundedOn(R, Nat)
  BY NatLessThanWellFounded
<1> HIDE DEF R
<1>2. PICK x \in S : \A y \in S : ~ (<<y, x>> \in R)
  BY <1>1, WFMin
<1>3. ASSUME NEW y \in S PROVE x <= y
  <2>1. <<y, x>> \notin R /\ y \in Nat /\ x \in Nat
    BY <1>2
  <2>2. ~ (y < x)
    BY <2>1 DEF R, OpToRel
  <2> QED
    BY <2>1, <2>2
<1> QED
  BY <1>3

LEMMA GreatestExists ==
  ASSUME NEW S \in SUBSET Nat, S # {}, NEW b \in Nat, \A x \in S : x <= b
  PROVE  \E x \in S : \A y \in S : x >= y
<1> DEFINE T == {b - x : x \in S}
<1>1. T \in SUBSET Nat /\ T # {}
  <2>1. ASSUME NEW x \in S PROVE b - x \in Nat
    OBVIOUS
  <2> QED
    BY <2>1
<1>2. PICK t \in T : \A u \in T : t <= u
  BY <1>1, LeastExists
<1>3. PICK x \in S : t = b - x
  OBVIOUS
<1>4. ASSUME NEW y \in S PROVE x >= y
  <2>1. t <= b - y
    BY <1>2
  <2> QED
    BY <2>1, <1>3
<1> QED
  BY <1>4

(* The loop index: the largest up to last whose entry mentions the name.   *)
LEMMA LoopAtSpec ==
  ASSUME NEW n, NEW tbl \in Seq(Entry), NEW last \in 0 .. Len(tbl)
  PROVE  \/ /\ LoopAt(n, tbl, last) = Idle
            /\ \A k \in 1 .. last : n \notin DOMAIN tbl[k].args
         \/ \E i \in 1 .. last :
              /\ LoopAt(n, tbl, last) = <<n, i>>
              /\ n \in DOMAIN tbl[i].args
              /\ \A k \in (i + 1) .. last : n \notin DOMAIN tbl[k].args
<1> DEFINE I == {i \in 1 .. last : n \in DOMAIN tbl[i].args}
           m == SelectLastInSubSeq(tbl, 1, last, LAMBDA e : n \in DOMAIN e.args)
<1>1. m = IF I # {} THEN Max(I) ELSE 0
  BY DEF SelectLastInSubSeq
<1>2. LoopAt(n, tbl, last) = IF m = 0 THEN Idle ELSE <<n, m>>
  BY DEF LoopAt
<1> HIDE DEF m
<1>3. CASE I = {}
  BY <1>1, <1>2, <1>3
<1>4. CASE I # {}
  <2>1. \E x \in I : \A y \in I : x >= y
    <3>1. I \in SUBSET Nat /\ last \in Nat /\ \A x \in I : x <= last
      OBVIOUS
    <3> HIDE DEF I
    <3> QED
      BY <1>4, <3>1, GreatestExists
  <2>2. Max(I) \in I /\ \A y \in I : Max(I) >= y
    BY <2>1 DEF Max
  <2>3. m \in 1 .. last /\ n \in DOMAIN tbl[m].args /\ \A y \in I : m >= y
    BY <1>1, <1>4, <2>2
  <2>4. \A k \in (m + 1) .. last : n \notin DOMAIN tbl[k].args
    BY <2>3
  <2> QED
    BY <1>2, <2>3, <2>4
<1> QED
  BY <1>3, <1>4

(* Deleting the first entry under a name.                                  *)
IsDeletion(t, tbl, k) ==
  /\ k \in 1 .. Len(tbl)
  /\ t \in Seq(Entry)
  /\ Len(t) = Len(tbl) - 1
  /\ \A i \in 1 .. Len(t) : t[i] = tbl[IF i < k THEN i ELSE i + 1]

LEMMA DeleteSpec ==
  ASSUME NEW tbl \in Seq(Entry), NEW j \in Jobs
  PROVE  LET t == DeletePendingContentTableEntry(tbl, j)
         IN  \/ /\ t = tbl
                /\ \A i \in 1 .. Len(tbl) : tbl[i].id \notin SameName(j)
             \/ \E k \in 1 .. Len(tbl) :
                  /\ IsDeletion(t, tbl, k)
                  /\ tbl[k].id \in SameName(j)
                  /\ \A i \in 1 .. (k - 1) : tbl[i].id \notin SameName(j)
<1> DEFINE I == {i \in 1 .. Len(tbl) : tbl[i].id \in SameName(j)}
           k == SelectInSeq(tbl, LAMBDA e : e.id \in SameName(j))
           t == DeletePendingContentTableEntry(tbl, j)
<1>1. k = IF I # {} THEN Min(I) ELSE 0
  BY DEF SelectInSeq
<1>2. t = IF \E i \in 1 .. Len(tbl) : tbl[i].id \in SameName(j) THEN RemoveAt(tbl, k) ELSE tbl
  BY DEF DeletePendingContentTableEntry, RemoveFirstMatch
<1> HIDE DEF k, t
<1>3. CASE I = {}
  <2>1. t = tbl
    BY <1>2, <1>3
  <2> QED
    BY <1>3, <2>1 DEF t
<1>4. CASE I # {}
  <2>1. \E x \in I : \A y \in I : x <= y
    <3>1. I \in SUBSET Nat
      OBVIOUS
    <3> HIDE DEF I
    <3> QED
      BY <1>4, <3>1, LeastExists
  <2>2. Min(I) \in I /\ \A y \in I : Min(I) <= y
    BY <2>1 DEF Min
  <2>3. k \in 1 .. Len(tbl) /\ tbl[k].id \in SameName(j) /\ \A y \in I : k <= y
    BY <1>1, <1>4, <2>2
  <2>4. \A i \in 1 .. (k - 1) : tbl[i].id \notin SameName(j)
    BY <2>3
  <2>5. t = SubSeq(tbl, 1, k - 1) \o SubSeq(tbl, k + 1, Len(tbl))
    BY <1>2, <2>3 DEF RemoveAt
  <2> DEFINE a == SubSeq(tbl, 1, k - 1)
             b == SubSeq(tbl, k + 1, Len(tbl))
  <2>6. a \in Seq(Entry) /\ Len(a) = k - 1 /\ \A i \in 1 .. (k - 1) : a[i] = tbl[i]
    BY <2>3, SubSeqProperties
  <2>7. b \in Seq(Entry) /\ Len(b) = Len(tbl) - k /\ \A i \in 1 .. (Len(tbl) - k) : b[i] = tbl[k + i]
    <3>1. \A i \in (k + 1) .. Len(tbl) : tbl[i] \in Entry
      BY <2>3
    <3>2. /\ b \in Seq(Entry)
          /\ Len(b) = IF k + 1 <= Len(tbl) THEN Len(tbl) - (k + 1) + 1 ELSE 0
          /\ \A i \in 1 .. (Len(tbl) - (k + 1) + 1) : b[i] = tbl[k + 1 + i - 1]
      BY <2>3, <3>1, SubSeqProperties
    <3> HIDE DEF b
    <3> QED
      BY <2>3, <3>2
  <2> HIDE DEF a, b
  <2>8. /\ t \in Seq(Entry)
        /\ Len(t) = (k - 1) + (Len(tbl) - k)
        /\ \A i \in 1 .. Len(a) + Len(b) : t[i] = IF i <= Len(a) THEN a[i] ELSE b[i - Len(a)]
    BY <2>5, <2>6, <2>7, ConcatProperties DEF a, b
  <2>9. Len(t) = Len(tbl) - 1
    BY <2>3, <2>8
  <2>10. ASSUME NEW i \in 1 .. Len(t) PROVE t[i] = tbl[IF i < k THEN i ELSE i + 1]
    <3>1. t[i] = IF i <= k - 1 THEN a[i] ELSE b[i - (k - 1)]
      BY <2>3, <2>6, <2>7, <2>8
    <3>2. CASE i < k
      BY <2>3, <2>6, <3>1, <3>2
    <3>3. CASE ~ (i < k)
      <4>1. i - (k - 1) \in 1 .. (Len(tbl) - k)
        BY <2>3, <2>9, <3>3
      <4>2. t[i] = b[i - (k - 1)]
        BY <2>3, <3>1, <3>3
      <4>3. b[i - (k - 1)] = tbl[k + (i - (k - 1))]
        BY <2>7, <4>1
      <4>4. k + (i - (k - 1)) = i + 1
        BY <2>3
      <4> QED
        BY <3>3, <4>2, <4>3, <4>4
    <3> QED
      BY <3>2, <3>3
  <2>11. IsDeletion(t, tbl, k)
    BY <2>3, <2>8, <2>9, <2>10 DEF IsDeletion
  <2> QED
    BY <2>3, <2>4, <2>11 DEF t
<1> QED
  BY <1>3, <1>4 DEF t

(* A new entry goes to the front.                                          *)
LEMMA ConsSpec ==
  ASSUME NEW e \in Entry, NEW tbl \in Seq(Entry)
  PROVE  /\ Cons(e, tbl) \in Seq(Entry)
         /\ Len(Cons(e, tbl)) = Len(tbl) + 1
         /\ Cons(e, tbl)[1] = e
         /\ \A i \in 1 .. Len(tbl) : Cons(e, tbl)[i + 1] = tbl[i]
<1>1. <<e>> \in Seq(Entry) /\ Len(<<e>>) = 1 /\ <<e>>[1] = e
  OBVIOUS
<1>2. Cons(e, tbl) = <<e>> \o tbl
  BY DEF Cons
<1>3. /\ <<e>> \o tbl \in Seq(Entry)
      /\ Len(<<e>> \o tbl) = 1 + Len(tbl)
      /\ \A i \in 1 .. 1 + Len(tbl) : (<<e>> \o tbl)[i] = IF i <= 1 THEN <<e>>[i] ELSE tbl[i - 1]
  BY <1>1, ConcatProperties
<1> HIDE DEF Cons
<1>4. ASSUME NEW i \in 1 .. Len(tbl) PROVE Cons(e, tbl)[i + 1] = tbl[i]
  <2>1. i + 1 \in 1 .. 1 + Len(tbl) /\ ~(i + 1 <= 1) /\ (i + 1) - 1 = i
    OBVIOUS
  <2> QED
    BY <2>1, <1>2, <1>3
<1> QED
  BY <1>1, <1>2, <1>3, <1>4
-----------------------------------------------------------------------------
(* Execution, as far as the application depends on it.                     *)
ExecInv == Exec!TypeOK /\ Exec!QueueFillMatches
Busy    == running \union Exec!Queued

(* The three ways to carry out EXECUTE.                                    *)
LEMMA ExecuteStep ==
  ASSUME ExecInv, NEW j \in Jobs, Exec!RunNow(j) \/ Exec!Enqueue(j) \/ Exec!ForwardBusy(j)
  PROVE  /\ ExecInv'
         /\ Exec!Resolved' = Exec!Resolved \union {j}
         /\ Busy \subseteq Busy'
         /\ Exec!RunNow(j) \/ Exec!Enqueue(j) => j \in Busy'
<1> USE DEF ExecInv, Exec!TypeOK, Exec!QueueFillMatches
<1>1. CASE Exec!RunNow(j)
  <2>1. free' \in [Resources -> Nat]
    <3> SUFFICES ASSUME NEW r \in Resources PROVE free[r] - Exec!NeedOf(j)[r] \in Nat
      BY <1>1 DEF Exec!RunNow, Exec!Booked
    <3>1. Exec!NeedOf(j)[r] \in Nat
      BY NodeAssumption DEF Exec!NeedOf
    <3>2. free[r] \in Nat /\ free[r] >= Exec!NeedOf(j)[r]
      BY <1>1 DEF Exec!RunNow, Exec!CheckResource
    <3> QED
      BY <3>1, <3>2
  <2>2. /\ running' = running \union {j}
        /\ UNCHANGED <<waitingList, queueFill, fullTimer, emptyTimer, nodeBusy, answered,
                       forwarded>>
    BY <1>1 DEF Exec!RunNow, Exec!queueVars
  <2> QED
    BY <2>1, <2>2 DEF Exec!Resolved, Exec!Queued, Busy
<1>2. CASE Exec!Enqueue(j)
  <2>1. queueFill' = queueFill + 1 /\ queueFill' \in 0 .. QueueSize
    BY <1>2, NodeAssumption DEF Exec!Enqueue, Exec!IncrementQueueFill, Exec!IsQueueFull
  <2>2. emptyTimer' \in BOOLEAN /\ fullTimer' \in BOOLEAN
    BY <1>2 DEF Exec!Enqueue, Exec!IncrementQueueFill
  <2>3. /\ waitingList' = Append(waitingList, j)
        /\ UNCHANGED <<free, running, nodeBusy, answered, forwarded>>
    BY <1>2 DEF Exec!Enqueue
  <2>4. /\ waitingList' \in Seq(Jobs)
        /\ Len(waitingList') = Len(waitingList) + 1
        /\ waitingList'[Len(waitingList) + 1] = j
        /\ \A i \in 1 .. Len(waitingList) : waitingList'[i] = waitingList[i]
    BY <2>3
  <2>5. Exec!Queued' = Exec!Queued \union {j}
    BY <2>4 DEF Exec!Queued
  <2> QED
    BY <2>1, <2>2, <2>3, <2>4, <2>5 DEF Exec!Resolved, Busy
<1>3. CASE Exec!ForwardBusy(j)
  <2>1. /\ nodeBusy' = nodeBusy + 1
        /\ forwarded' = forwarded \union {j}
        /\ UNCHANGED <<free, running, waitingList, queueFill, fullTimer, emptyTimer, answered>>
    BY <1>3 DEF Exec!ForwardBusy, Exec!queueVars
  <2>2. Exec!Queued' = Exec!Queued /\ ExecInv'
    BY <2>1 DEF Exec!Queued
  <2>3. ~ (Exec!RunNow(j) \/ Exec!Enqueue(j))
    BY <1>3 DEF Exec!ForwardBusy, Exec!RunNow, Exec!Enqueue
  <2> QED
    BY <2>1, <2>2, <2>3 DEF Exec!Resolved, Busy
<1> QED
  BY <1>1, <1>2, <1>3

(* The end of an execution.                                                *)
LEMMA EndStep ==
  ASSUME ExecInv, NEW j \in Jobs, Exec!ScheduledExecutionEnd(j)
  PROVE  /\ ExecInv'
         /\ Exec!Resolved' = Exec!Resolved
         /\ Busy \ {j} \subseteq Busy'
         /\ Exec!StartsHead(Exec!Released(free, j))
              => Head(waitingList) \in Jobs /\ Head(waitingList) \in Busy'
<1> USE DEF ExecInv, Exec!TypeOK, Exec!QueueFillMatches
<1> DEFINE avail == Exec!Released(free, j)
<1>1. avail \in [Resources -> Nat]
  <2> SUFFICES ASSUME NEW r \in Resources PROVE free[r] + Exec!NeedOf(j)[r] \in Nat
    BY DEF Exec!Released
  <2> QED
    BY NodeAssumption DEF Exec!NeedOf
<1>2. j \in running /\ answered' = answered \union {j} /\ UNCHANGED <<nodeBusy, forwarded>>
  BY DEF Exec!ScheduledExecutionEnd
<1>3. CASE Exec!StartsHead(avail)
  <2> DEFINE h == Head(waitingList)
  <2>1. /\ Exec!DecrementQueueFill
        /\ waitingList' = Tail(waitingList)
        /\ free' = Exec!Booked(avail, h)
        /\ running' = (running \ {j}) \union {h}
    BY <1>3 DEF Exec!ScheduledExecutionEnd
  <2>2. queueFill > 0 /\ Len(waitingList) > 0 /\ Exec!CheckResource(avail, h)
    BY <1>3, NodeAssumption DEF Exec!StartsHead, Exec!IsQueueEmpty
  <2>3. /\ h \in Jobs /\ h = waitingList[1]
        /\ waitingList' \in Seq(Jobs) /\ Len(waitingList') = Len(waitingList) - 1
        /\ \A i \in 1 .. Len(waitingList') : waitingList'[i] = waitingList[i + 1]
    BY <2>1, <2>2
  <2>4. queueFill' = queueFill - 1 /\ queueFill' \in 0 .. QueueSize
    BY <2>1, <2>2, NodeAssumption DEF Exec!DecrementQueueFill
  <2>5. fullTimer' \in BOOLEAN /\ emptyTimer' \in BOOLEAN
    <3>1. fullTimer' = FALSE /\ emptyTimer' = emptyTimer
      BY <2>1, <2>2, Zenon DEF Exec!DecrementQueueFill
    <3> QED
      BY <3>1
  <2>6. free' \in [Resources -> Nat]
    <3> SUFFICES ASSUME NEW r \in Resources PROVE avail[r] - Exec!NeedOf(h)[r] \in Nat
      BY <2>1 DEF Exec!Booked
    <3>1. Exec!NeedOf(h)[r] \in Nat /\ avail[r] \in Nat
      BY <1>1, <2>3, NodeAssumption DEF Exec!NeedOf
    <3>2. avail[r] >= Exec!NeedOf(h)[r]
      BY <2>2 DEF Exec!CheckResource
    <3> QED
      BY <3>1, <3>2
  <2>7. Exec!Queued = Exec!Queued' \union {h}
    <3>1. ASSUME NEW x \in Exec!Queued PROVE x = h \/ x \in Exec!Queued'
      <4>1. PICK i \in 1 .. Len(waitingList) : x = waitingList[i]
        BY DEF Exec!Queued
      <4>2. CASE i = 1
        BY <2>3, <4>1, <4>2
      <4>3. CASE i # 1
        <5>1. i - 1 \in 1 .. Len(waitingList') /\ waitingList'[i - 1] = waitingList[(i - 1) + 1]
          BY <2>3, <4>3
        <5> QED
          BY <4>1, <5>1 DEF Exec!Queued
      <4> QED
        BY <4>2, <4>3
    <3>2. ASSUME NEW x \in Exec!Queued' PROVE x \in Exec!Queued
      <4>1. PICK i \in 1 .. Len(waitingList') : x = waitingList'[i]
        BY DEF Exec!Queued
      <4>2. i + 1 \in 1 .. Len(waitingList) /\ x = waitingList[i + 1]
        BY <2>3, <4>1
      <4> QED
        BY <4>2 DEF Exec!Queued
    <3>3. h \in Exec!Queued
      BY <2>2, <2>3 DEF Exec!Queued
    <3> QED
      BY <3>1, <3>2, <3>3
  <2>8. ExecInv'
    BY <1>2, <2>1, <2>3, <2>4, <2>5, <2>6
  <2> HIDE DEF h
  <2>9. Exec!Resolved' = Exec!Resolved /\ Busy \ {j} \subseteq Busy' /\ h \in Busy'
    BY <1>2, <2>1, <2>7 DEF Exec!Resolved, Busy, h
  <2> QED
    BY <2>3, <2>8, <2>9 DEF h
<1>4. CASE ~ Exec!StartsHead(avail)
  <2>1. /\ free' = avail /\ running' = running \ {j}
        /\ UNCHANGED <<waitingList, queueFill, fullTimer, emptyTimer>>
    BY <1>4 DEF Exec!ScheduledExecutionEnd, Exec!queueVars
  <2>2. ExecInv' /\ Exec!Queued' = Exec!Queued
    BY <1>1, <1>2, <2>1 DEF Exec!Queued
  <2> QED
    BY <1>2, <1>4, <2>1, <2>2 DEF Exec!Resolved, Busy
<1> QED
  BY <1>3, <1>4

(* Other steps leave it alone.                                             *)
LEMMA ExecUnchanged ==
  ASSUME ExecInv, UNCHANGED execVars
  PROVE  ExecInv' /\ Exec!Resolved' = Exec!Resolved /\ Busy' = Busy /\ UNCHANGED Exec!vars
BY DEF ExecInv, execVars, Exec!TypeOK, Exec!QueueFillMatches, Exec!Resolved, Exec!Queued, Busy,
       Exec!vars, Exec!queueVars

-----------------------------------------------------------------------------
(* Entries of the pending table.                                           *)
Flags == UNION {[S -> BOOLEAN] : S \in SUBSET Fetchable}

LEMMA FlagsType ==
  ASSUME NEW a
  PROVE  a \in Flags <=> DOMAIN a \subseteq Fetchable /\ a \in [DOMAIN a -> BOOLEAN]
BY DEF Flags

LEMMA EntryType ==
  /\ \A e \in Entry : /\ e.id \in Jobs /\ e.args \in Flags
                      /\ DOMAIN e.args \subseteq Fetchable
                      /\ e.args \in [DOMAIN e.args -> BOOLEAN]
  /\ \A j \in Jobs, a \in Flags : [id |-> j, args |-> a] \in Entry
<1>1. Entry = [id : Jobs, args : Flags]
  BY DEF Entry, Flags
<1> QED
  BY <1>1, FlagsType

LEMMA ArgsReplaced ==
  ASSUME NEW e \in Entry, NEW a
  PROVE  [e EXCEPT !.args = a] = [id |-> e.id, args |-> a]
BY DEF Entry

LEMMA EntryReplaced ==
  ASSUME NEW tbl \in Seq(Entry), NEW i \in 1 .. Len(tbl), NEW e \in Entry
  PROVE  /\ [tbl EXCEPT ![i] = e] \in Seq(Entry)
         /\ Len([tbl EXCEPT ![i] = e]) = Len(tbl)
         /\ \A k \in 1 .. Len(tbl) : [tbl EXCEPT ![i] = e][k] = IF k = i THEN e ELSE tbl[k]
OBVIOUS

-----------------------------------------------------------------------------
(* What the table owes to the requests.                                    *)

\* No request waits twice, and none waits that is resolved.
NoDouble(t, R) ==
  /\ \A i, k \in 1 .. Len(t) : t[i].id = t[k].id /\ Waiting(t[i]) /\ Waiting(t[k]) => i = k
  /\ \A i \in 1 .. Len(t) : Waiting(t[i]) => t[i].id \notin R

WaitsIn(t, j) == \E i \in 1 .. Len(t) : t[i].id = j /\ Waiting(t[i])

\* Whoever is owed an answer has a busy or a waiting request of its name.
Covered(t, D, B) == \A x \in D : \E k \in SameName(x) : k \in B \/ WaitsIn(t, k)

IdsWithin(t, S) == \A i \in 1 .. Len(t) : t[i].id \in S

LEMMA NoDoubleDeletion ==
  ASSUME NEW tbl \in Seq(Entry), NEW t, NEW k, IsDeletion(t, tbl, k), NEW R,
         NoDouble(tbl, R)
  PROVE  NoDouble(t, R)
<1> DEFINE h(i) == IF i < k THEN i ELSE i + 1
<1>1. \A i \in 1 .. Len(t) : h(i) \in 1 .. Len(tbl) /\ t[i] = tbl[h(i)]
  BY DEF IsDeletion
<1>2. \A i1, i2 \in 1 .. Len(t) : h(i1) = h(i2) => i1 = i2
  BY DEF IsDeletion
<1> HIDE DEF h
<1> QED
  BY <1>1, <1>2 DEF NoDouble

LEMMA NoDoubleResolved ==
  ASSUME NEW t, NEW R, NoDouble(t, R), NEW j, ~ WaitsIn(t, j)
  PROVE  NoDouble(t, R \union {j})
BY DEF NoDouble, WaitsIn

LEMMA NoDoubleCons ==
  ASSUME NEW tbl \in Seq(Entry), NEW e \in Entry, NEW R, NoDouble(tbl, R),
         ~ WaitsIn(tbl, e.id), e.id \notin R
  PROVE  NoDouble(Cons(e, tbl), R)
<1> DEFINE t == Cons(e, tbl)
           n == Len(tbl)
<1>0. n \in Nat
  OBVIOUS
<1>1. Len(t) = n + 1 /\ t[1] = e /\ \A i \in 1 .. n : t[i + 1] = tbl[i]
  BY ConsSpec, Zenon
<1> HIDE DEF t
<1>2. \A i \in 1 .. (n + 1) : i # 1 => i - 1 \in 1 .. n /\ t[i] = tbl[i - 1]
  BY <1>1
<1>3. ASSUME NEW i \in 1 .. (n + 1), NEW k \in 1 .. (n + 1),
             t[i].id = t[k].id, Waiting(t[i]), Waiting(t[k])
      PROVE  i = k
  <2>1. CASE i = 1 /\ k # 1
    BY <1>1, <1>2, <1>3, <2>1 DEF WaitsIn
  <2>2. CASE i # 1 /\ k = 1
    BY <1>1, <1>2, <1>3, <2>2 DEF WaitsIn
  <2>3. CASE i # 1 /\ k # 1
    <3>1. i - 1 = k - 1
      BY <1>2, <1>3, <2>3 DEF NoDouble
    <3> QED
      BY <3>1
  <2> QED
    BY <2>1, <2>2, <2>3
<1>4. ASSUME NEW i \in 1 .. (n + 1), Waiting(t[i]) PROVE t[i].id \notin R
  <2>1. CASE i = 1
    BY <1>1, <2>1
  <2>2. CASE i # 1
    BY <1>2, <1>4, <2>2 DEF NoDouble
  <2> QED
    BY <2>1, <2>2
<1> QED
  BY <1>1, <1>3, <1>4 DEF NoDouble, t

(* Deleting an entry of another name, or adding one, takes no waiting      *)
(* request from the table.                                                 *)
LEMMA WaitsAfterDeletion ==
  ASSUME NEW tbl \in Seq(Entry), NEW t, NEW k, IsDeletion(t, tbl, k),
         NEW x, x # tbl[k].id, WaitsIn(tbl, x)
  PROVE  WaitsIn(t, x)
<1>1. PICK i \in 1 .. Len(tbl) : tbl[i].id = x /\ Waiting(tbl[i])
  BY DEF WaitsIn
<1> DEFINE m == IF i < k THEN i ELSE i - 1
<1>2. m \in 1 .. Len(t) /\ t[m] = tbl[i]
  <2>1. i # k
    BY <1>1
  <2>2. m \in 1 .. Len(t) /\ (IF m < k THEN m ELSE m + 1) = i
    BY <2>1 DEF IsDeletion
  <2> HIDE DEF m
  <2> QED
    BY <2>2 DEF IsDeletion
<1> QED
  BY <1>1, <1>2 DEF WaitsIn

LEMMA WaitsAfterCons ==
  ASSUME NEW tbl \in Seq(Entry), NEW e \in Entry, NEW x,
         WaitsIn(tbl, x) \/ (x = e.id /\ Waiting(e))
  PROVE  WaitsIn(Cons(e, tbl), x)
<1> DEFINE t == Cons(e, tbl)
<1>1. Len(t) = Len(tbl) + 1 /\ t[1] = e /\ \A i \in 1 .. Len(tbl) : t[i + 1] = tbl[i]
  BY ConsSpec
<1> HIDE DEF t
<1>2. CASE WaitsIn(tbl, x)
  <2>1. PICK i \in 1 .. Len(tbl) : tbl[i].id = x /\ Waiting(tbl[i])
    BY <1>2 DEF WaitsIn
  <2>2. i + 1 \in 1 .. Len(t) /\ t[i + 1] = tbl[i]
    BY <1>1
  <2> QED
    BY <2>1, <2>2 DEF WaitsIn, t
<1>3. CASE x = e.id /\ Waiting(e)
  BY <1>1, <1>3 DEF WaitsIn, t
<1> QED
  BY <1>2, <1>3

LEMMA SameNameSymmetric ==
  ASSUME NEW x \in Jobs, NEW k \in SameName(x)
  PROVE  x \in SameName(k) /\ k \in Jobs /\ SameName(k) = SameName(x)
BY DEF SameName

-----------------------------------------------------------------------------
(* The entry a FETCH decision makes.                                       *)
NewFlags(j, args, on) ==
  [n \in DOMAIN args \union FetchList(j, on) |-> n \notin FetchList(j, on) /\ args[n]]
NewEntry(j, args, on) == [id |-> j, args |-> NewFlags(j, args, on)]

LEMMA NewEntryType ==
  ASSUME NEW j \in Jobs, NEW args \in Flags, NEW on \in SUBSET Funcs
  PROVE  /\ FetchList(j, on) \subseteq Fetchable
         /\ NewEntry(j, args, on) \in Entry
         /\ NewEntry(j, args, on).id = j
         /\ NewEntry(j, args, on).args = NewFlags(j, args, on)
         /\ DOMAIN NewFlags(j, args, on) = DOMAIN args \union FetchList(j, on)
         /\ \A n \in DOMAIN NewFlags(j, args, on) :
              NewFlags(j, args, on)[n] <=> n \notin FetchList(j, on) /\ args[n]
<1> DEFINE list == FetchList(j, on)
           a == NewFlags(j, args, on)
<1>1. list \subseteq Fetchable
  BY NodeAssumption, ParamsAssumption DEF FetchList, Misses, Fetchable
<1> HIDE DEF list
<1>2. DOMAIN args \subseteq Fetchable /\ args \in [DOMAIN args -> BOOLEAN]
  BY FlagsType
<1>3. a \in [DOMAIN args \union list -> BOOLEAN] /\ DOMAIN a = DOMAIN args \union list
  BY DEF NewFlags, list
<1>4. a \in Flags
  BY <1>1, <1>2, <1>3, FlagsType
<1>5. \A n \in DOMAIN a : a[n] <=> n \notin list /\ args[n]
  BY DEF NewFlags, list
<1> HIDE DEF a
<1>6. NewEntry(j, args, on) = [id |-> j, args |-> a]
  BY DEF NewEntry, a
<1> QED
  BY <1>1, <1>3, <1>4, <1>5, <1>6, EntryType DEF a, list

(* FETCH is never decided when there is nothing to fetch.                  *)
LEMMA FetchMeansMissing ==
  ASSUME NEW j \in Jobs, NEW on \in SUBSET Funcs, GetFetchDecisions(j, on) = "FETCH"
  PROVE  /\ FetchList(j, on) # {}
         /\ ~ Excluded(FuncOf[j])
         /\ FuncOf[j] \notin on \/ Misses(j) # {}
<1>1. ~ Excluded(FuncOf[j]) /\ (FuncOf[j] \notin on \/ Misses(j) # {})
  BY DEF GetFetchDecisions
<1> QED
  BY <1>1 DEF FetchList

LEMMA NewEntryWaits ==
  ASSUME NEW j \in Jobs, NEW args \in Flags, NEW on \in SUBSET Funcs,
         GetFetchDecisions(j, on) = "FETCH"
  PROVE  Waiting(NewEntry(j, args, on))
<1>1. PICK n \in FetchList(j, on) : TRUE
  BY FetchMeansMissing
<1>2. n \in DOMAIN NewFlags(j, args, on) /\ ~ NewFlags(j, args, on)[n]
  BY NewEntryType
<1> DEFINE e == NewEntry(j, args, on)
           a == NewFlags(j, args, on)
<1>3. e.args = a
  BY NewEntryType
<1>4. n \in DOMAIN a /\ ~ a[n]
  BY <1>2
<1> HIDE DEF e, a
<1>5. Waiting(e)
  BY <1>3, <1>4 DEF Waiting
<1> QED
  BY <1>5 DEF e

-----------------------------------------------------------------------------
(* What deciding about request j does to the table and to the debt.        *)
LEMMA ResolveStep ==
  ASSUME ExecInv, NEW j \in Jobs, j \notin Exec!Resolved, NEW args \in Flags,
         NEW tbl \in Seq(Entry), NEW on \in SUBSET Funcs, NEW debt \in SUBSET Jobs,
         sending \subseteq Fetchable, inflight \subseteq Fetchable,
         NoDouble(tbl, Exec!Resolved), ~ WaitsIn(tbl, j),
         Covered(tbl, debt \ SameName(j), Busy),
         ResolveAndHandleDecisions(j, args, tbl, on, debt)
  PROVE  /\ ExecInv'
         /\ [Exec!Next]_(Exec!vars)
         /\ Exec!Resolved' \subseteq Exec!Resolved \union {j}
         /\ pending' \in Seq(Entry) /\ Len(pending') >= Len(tbl) - 1
         /\ NoDouble(pending', Exec!Resolved')
         /\ \A S : j \in S /\ IdsWithin(tbl, S) => IdsWithin(pending', S)
         /\ sending' \subseteq Fetchable /\ inflight' \subseteq Fetchable
         /\ owed' \subseteq debt
         /\ Covered(pending', owed', Busy')
<1> DEFINE R == Exec!Resolved
<1>1. ASSUME Exec!RunNow(j) \/ Exec!Enqueue(j) \/ Exec!ForwardBusy(j)
      PROVE  /\ ExecInv' /\ [Exec!Next]_(Exec!vars)
             /\ R' = R \union {j} /\ Busy \subseteq Busy'
             /\ Exec!RunNow(j) \/ Exec!Enqueue(j) => j \in Busy'
             /\ NoDouble(tbl, R')
  <2>1. Exec!Execute(j)
    BY <1>1 DEF Exec!Execute
  <2>2. [Exec!Next]_(Exec!vars)
    BY <2>1 DEF Exec!Next
  <2>3. /\ ExecInv' /\ R' = R \union {j} /\ Busy \subseteq Busy'
        /\ Exec!RunNow(j) \/ Exec!Enqueue(j) => j \in Busy'
    BY <1>1, ExecuteStep
  <2> QED
    BY <2>2, <2>3, NoDoubleResolved
<1>2. ASSUME UNCHANGED execVars
      PROVE  ExecInv' /\ [Exec!Next]_(Exec!vars) /\ R' = R /\ Busy' = Busy
  BY <1>2, ExecUnchanged
<1> HIDE DEF R
<1> USE DEF R
<1>3. ASSUME pending' = tbl, owed' = debt \ SameName(j), Busy \subseteq Busy'
      PROVE  Covered(pending', owed', Busy')
  BY <1>3 DEF Covered
<1>4. CASE HandedOn(j, tbl, debt) /\ UNCHANGED <<execVars, sending, inflight>>
  BY <1>2, <1>3, <1>4 DEF HandedOn, execVars
<1>5. CASE Exec!ForwardBusy(j) /\ HandedOn(j, tbl, debt) /\ UNCHANGED <<sending, inflight>>
  BY <1>1, <1>3, <1>5 DEF HandedOn
<1>6. CASE /\ Exec!Enqueue(j) /\ pending' = tbl /\ owed' = debt
           /\ UNCHANGED <<sending, inflight>>
  <2>1. Covered(tbl, debt, Busy')
    <3> SUFFICES ASSUME NEW x \in debt
                 PROVE  \E k \in SameName(x) : k \in Busy' \/ WaitsIn(tbl, k)
      BY DEF Covered
    <3>1. CASE x \in SameName(j)
      BY <1>1, <1>6, <3>1, SameNameSymmetric
    <3>2. CASE x \notin SameName(j)
      BY <1>1, <1>6, <3>2 DEF Covered
    <3> QED
      BY <3>1, <3>2
  <2> QED
    BY <1>1, <1>6, <2>1
<1>7. CASE /\ Exec!RunNow(j) /\ pending' = DeletePendingContentTableEntry(tbl, j)
           /\ owed' = debt /\ UNCHANGED <<sending, inflight>>
  <2>1. \/ pending' = tbl
        \/ \E k \in 1 .. Len(tbl) : IsDeletion(pending', tbl, k) /\ tbl[k].id \in SameName(j)
    BY <1>7, DeleteSpec
  <2>2. ASSUME NEW x \in Jobs, x \notin SameName(j), WaitsIn(tbl, x)
        PROVE  WaitsIn(pending', x)
    BY <2>1, <2>2, WaitsAfterDeletion
  <2>3. Covered(pending', debt, Busy')
    <3> SUFFICES ASSUME NEW x \in debt
                 PROVE  \E k \in SameName(x) : k \in Busy' \/ WaitsIn(pending', k)
      BY DEF Covered
    <3>1. CASE x \in SameName(j)
      BY <1>1, <1>7, <3>1, SameNameSymmetric
    <3>2. CASE x \notin SameName(j)
      <4>1. PICK k \in SameName(x) : k \in Busy \/ WaitsIn(tbl, k)
        BY <3>2 DEF Covered
      <4>2. k \in Jobs /\ k \notin SameName(j)
        BY <3>2 DEF SameName
      <4> QED
        BY <1>1, <1>7, <2>2, <4>1, <4>2
    <3> QED
      BY <3>1, <3>2
  <2>4. /\ pending' \in Seq(Entry) /\ Len(pending') >= Len(tbl) - 1
        /\ NoDouble(pending', R')
    <3>1. NoDouble(tbl, R')
      BY <1>1, <1>7
    <3>2. CASE pending' = tbl
      <4>1. Len(tbl) \in Nat
        OBVIOUS
      <4> QED
        BY <3>1, <3>2, <4>1
    <3>3. CASE \E k \in 1 .. Len(tbl) : IsDeletion(pending', tbl, k)
      <4>1. PICK k \in 1 .. Len(tbl) : IsDeletion(pending', tbl, k)
        BY <3>3
      <4>2. NoDouble(pending', R')
        BY <3>1, <4>1, NoDoubleDeletion
      <4>3. pending' \in Seq(Entry) /\ Len(pending') = Len(tbl) - 1
        BY <4>1 DEF IsDeletion
      <4> QED
        BY <4>2, <4>3
    <3> QED
      BY <2>1, <3>2, <3>3
  <2>5. ASSUME NEW S, IdsWithin(tbl, S) PROVE IdsWithin(pending', S)
    <3>1. CASE pending' = tbl
      BY <2>5, <3>1
    <3>2. CASE \E k \in 1 .. Len(tbl) : IsDeletion(pending', tbl, k)
      BY <2>5, <3>2 DEF IsDeletion, IdsWithin
    <3> QED
      BY <2>1, <3>1, <3>2
  <2> QED
    BY <1>1, <1>7, <2>3, <2>4, <2>5
<1>8. CASE GetFetchDecisions(j, on) = "FETCH" /\ Fetch(j, args, tbl, on, debt)
  <2> DEFINE e == NewEntry(j, args, on)
  <2>1. /\ pending' = Cons(e, tbl) /\ owed' = debt /\ UNCHANGED execVars
        /\ sending' = sending \union FetchList(j, on)
        /\ inflight' = inflight \union (FetchList(j, on) \ sending)
    BY <1>8 DEF Fetch, NewEntry, NewFlags
  <2>2. e \in Entry /\ e.id = j /\ Waiting(e) /\ FetchList(j, on) \subseteq Fetchable
    BY <1>8, NewEntryType, NewEntryWaits
  <2> HIDE DEF e
  <2>3. /\ pending' \in Seq(Entry) /\ Len(pending') = Len(tbl) + 1
        /\ pending'[1] = e /\ \A i \in 1 .. Len(tbl) : pending'[i + 1] = tbl[i]
    <3>1. /\ Cons(e, tbl) \in Seq(Entry) /\ Len(Cons(e, tbl)) = Len(tbl) + 1
          /\ Cons(e, tbl)[1] = e
          /\ \A i \in 1 .. Len(tbl) : Cons(e, tbl)[i + 1] = tbl[i]
      BY <2>2, ConsSpec, Zenon
    <3> QED
      BY <2>1, <3>1, Zenon
  <2>4. NoDouble(pending', R')
    BY <1>2, <2>1, <2>2, NoDoubleCons
  <2>5. ASSUME NEW S, j \in S, IdsWithin(tbl, S) PROVE IdsWithin(pending', S)
    <3> SUFFICES ASSUME NEW i \in 1 .. (Len(tbl) + 1) PROVE pending'[i].id \in S
      BY <2>3 DEF IdsWithin
    <3>1. CASE i = 1
      BY <2>2, <2>3, <2>5, <3>1
    <3>2. CASE i # 1
      <4>1. i - 1 \in 1 .. Len(tbl) /\ pending'[(i - 1) + 1] = tbl[i - 1]
        BY <2>3, <3>2
      <4> QED
        BY <2>5, <4>1 DEF IdsWithin
    <3> QED
      BY <3>1, <3>2
  <2>6. Covered(pending', debt, Busy')
    <3> SUFFICES ASSUME NEW x \in debt
                 PROVE  \E k \in SameName(x) : k \in Busy' \/ WaitsIn(pending', k)
      BY DEF Covered
    <3>1. CASE x \in SameName(j)
      <4>1. WaitsIn(pending', j) /\ j \in SameName(x)
        BY <2>1, <2>2, <3>1, WaitsAfterCons, SameNameSymmetric
      <4> QED
        BY <4>1
    <3>2. CASE x \notin SameName(j)
      BY <1>2, <2>1, <2>2, <3>2, WaitsAfterCons DEF Covered
    <3> QED
      BY <3>1, <3>2
  <2> QED
    BY <1>2, <2>1, <2>2, <2>3, <2>4, <2>5, <2>6
<1> QED
  BY <1>4, <1>5, <1>6, <1>7, <1>8 DEF ResolveAndHandleDecisions, ExecuteDecided

-----------------------------------------------------------------------------
(* The inductive invariant.                                                *)
ScanType  == scan \in {Idle} \union (Fetchable \X (1 .. Len(pending)))
ScanValid == scan # Idle => scan[1] \in DOMAIN pending[scan[2]].args
Arrivals  == Exec!Resolved \subseteq arrived /\ IdsWithin(pending, arrived)

BaseInv ==
  /\ TypeOK
  /\ Exec!QueueFillMatches
  /\ ScanValid
  /\ Arrivals
  /\ NoDouble(pending, Exec!Resolved)
  /\ Covered(pending, owed, Busy)

LEMMA ScanStep ==
  ASSUME pending' \in Seq(Entry), NEW last \in 0 .. Len(pending'), NEW n \in Fetchable,
         scan' = LoopAt(n, pending', last)
  PROVE  ScanType' /\ ScanValid'
<1>1. CASE scan' = Idle
  BY <1>1 DEF ScanType, ScanValid
<1>2. CASE \E i \in 1 .. last : scan' = <<n, i>> /\ n \in DOMAIN pending'[i].args
  <2>1. PICK i \in 1 .. last : scan' = <<n, i>> /\ n \in DOMAIN pending'[i].args
    BY <1>2
  <2>2. Len(pending') \in Nat /\ i \in 1 .. Len(pending') /\ scan'[1] = n /\ scan'[2] = i
    BY <2>1
  <2> QED
    BY <2>1, <2>2 DEF ScanType, ScanValid
<1> QED
  BY <1>1, <1>2, LoopAtSpec

(* The loop body's two parts: setting the flag, and what it tells.         *)
VisitFlags == [pending[scan[2]].args EXCEPT ![scan[1]] = TRUE]
VisitTable == [pending EXCEPT ![scan[2]].args = VisitFlags]
VisitFuncs == enabled \union ({scan[1]} \intersect Funcs)
VisitDecides == News(pending[scan[2]], scan[1]) /\ Complete(VisitFlags)

LEMMA ScanIs ==
  ASSUME ScanType, ScanValid, scan # Idle, pending \in Seq(Entry)
  PROVE  /\ scan[1] \in Fetchable /\ scan[2] \in 1 .. Len(pending)
         /\ scan[1] \in DOMAIN pending[scan[2]].args
BY DEF ScanType, ScanValid

LEMMA VisitTableIs ==
  ASSUME BaseInv, scan # Idle
  PROVE  LET i == scan[2]
             t == VisitTable
         IN  /\ t \in Seq(Entry) /\ Len(t) = Len(pending)
             /\ t[i].id = pending[i].id /\ t[i].args = VisitFlags
             /\ \A k \in 1 .. Len(pending) : k # i => t[k] = pending[k]
             /\ VisitFlags \in Flags
             /\ DOMAIN VisitFlags = DOMAIN pending[i].args
             /\ VisitFlags[scan[1]]
             /\ \A m \in DOMAIN VisitFlags :
                  m # scan[1] => VisitFlags[m] = pending[i].args[m]
<1>1. pending \in Seq(Entry) /\ ScanType /\ ScanValid
  BY DEF BaseInv, TypeOK, ScanType
<1>2. scan[2] \in 1 .. Len(pending) /\ scan[1] \in DOMAIN pending[scan[2]].args
  BY <1>1, ScanIs
<1> DEFINE i == scan[2]
           n == scan[1]
           args == VisitFlags
           t == VisitTable
           e == pending[i]
           new == [id |-> e.id, args |-> args]
<1>3. args = [e.args EXCEPT ![n] = TRUE] /\ t = [pending EXCEPT ![i].args = args]
  BY DEF VisitTable, VisitFlags
<1> HIDE DEF i, n, args, t
<1>4. i \in 1 .. Len(pending) /\ n \in DOMAIN e.args /\ pending \in Seq(Entry)
  BY <1>1, <1>2 DEF i, n
<1>5. e \in Entry /\ e.id \in Jobs /\ e.args \in [DOMAIN e.args -> BOOLEAN]
                  /\ DOMAIN e.args \subseteq Fetchable
  BY <1>4, EntryType
<1>6. /\ args \in [DOMAIN e.args -> BOOLEAN] /\ DOMAIN args = DOMAIN e.args /\ args[n]
      /\ \A m \in DOMAIN args : m # n => args[m] = e.args[m]
  <2> HIDE DEF e
  <2> QED
    BY <1>3, <1>4, <1>5
<1>7. args \in Flags
  BY <1>5, <1>6, FlagsType
<1>8. new \in Entry
  BY <1>5, <1>7, EntryType
<1>9. t = [pending EXCEPT ![i] = new]
  <2>1. [e EXCEPT !.args = args] = new
    BY <1>5, ArgsReplaced
  <2>2. t = [pending EXCEPT ![i] = [e EXCEPT !.args = args]]
    BY <1>3
  <2> QED
    BY <2>1, <2>2
<1> HIDE DEF new
<1>10. /\ t \in Seq(Entry) /\ Len(t) = Len(pending)
       /\ \A k \in 1 .. Len(pending) : t[k] = IF k = i THEN new ELSE pending[k]
  <2> DEFINE u == [pending EXCEPT ![i] = new]
  <2>1. /\ u \in Seq(Entry) /\ Len(u) = Len(pending)
        /\ \A k \in 1 .. Len(pending) : u[k] = IF k = i THEN new ELSE pending[k]
    BY <1>4, <1>8, EntryReplaced
  <2>2. t = u
    BY <1>9
  <2> HIDE DEF u
  <2> QED
    BY <2>1, <2>2, Zenon
<1>11. new.id = e.id /\ new.args = args
  BY DEF new
<1>12. /\ t[i].id = e.id /\ t[i].args = args
       /\ \A k \in 1 .. Len(pending) : k # i => t[k] = pending[k]
  BY <1>4, <1>10, <1>11
<1> QED
  BY <1>6, <1>7, <1>10, <1>12 DEF i, n, args, t

LEMMA VisitWaits ==
  ASSUME BaseInv, scan # Idle
  PROVE  LET e == pending[scan[2]]
         IN  /\ \A k \in 1 .. Len(pending) :
                  Waiting(VisitTable[k]) => Waiting(pending[k])
             /\ NoDouble(VisitTable, Exec!Resolved)
             /\ IdsWithin(VisitTable, arrived)
             /\ e.id \in arrived
             /\ ~ VisitDecides => Covered(VisitTable, owed, Busy)
             /\ VisitDecides => /\ ~ WaitsIn(VisitTable, e.id)
                                /\ e.id \notin Exec!Resolved
                                /\ Covered(VisitTable, owed \ SameName(e.id), Busy)
<1> DEFINE i == scan[2]
           n == scan[1]
           t == VisitTable
           e == pending[i]
           args == VisitFlags
<1>1. /\ t \in Seq(Entry) /\ Len(t) = Len(pending)
      /\ t[i].id = e.id /\ t[i].args = args
      /\ \A k \in 1 .. Len(pending) : k # i => t[k] = pending[k]
      /\ args \in Flags /\ DOMAIN args = DOMAIN e.args /\ args[n]
      /\ \A m \in DOMAIN args : m # n => args[m] = e.args[m]
  BY VisitTableIs
<1>2. i \in 1 .. Len(pending) /\ n \in DOMAIN e.args
  BY ScanIs DEF BaseInv, TypeOK, ScanType
<1>3. VisitDecides <=> ~ e.args[n] /\ \A m \in DOMAIN args : args[m]
  BY DEF VisitDecides, News, Complete
<1> HIDE DEF t, args, i, n, e
<1>4. \A k \in 1 .. Len(pending) : t[k].id = pending[k].id
  BY <1>1 DEF e
<1>5. Waiting(t[i]) => Waiting(e)
  BY <1>1 DEF Waiting
<1>6. \A k \in 1 .. Len(pending) : Waiting(t[k]) => Waiting(pending[k])
  BY <1>1, <1>5 DEF e
<1>7. NoDouble(t, Exec!Resolved)
  BY <1>1, <1>4, <1>6 DEF BaseInv, NoDouble
<1>8. IdsWithin(t, arrived) /\ e.id \in arrived
  BY <1>1, <1>2, <1>4 DEF BaseInv, Arrivals, IdsWithin, e
<1>9. ASSUME NEW D, D \subseteq owed,
             \A x \in D : \A k \in SameName(x) : WaitsIn(pending, k) => WaitsIn(t, k)
      PROVE  Covered(t, D, Busy)
  BY <1>9 DEF BaseInv, Covered
<1>10. ASSUME NEW x, x # e.id \/ Waiting(t[i]), WaitsIn(pending, x) PROVE WaitsIn(t, x)
  <2>1. PICK k \in 1 .. Len(pending) : pending[k].id = x /\ Waiting(pending[k])
    BY <1>10 DEF WaitsIn
  <2>2. CASE k = i
    BY <1>1, <1>2, <1>10, <2>1, <2>2 DEF WaitsIn, e
  <2>3. CASE k # i
    BY <1>1, <2>1, <2>3 DEF WaitsIn
  <2> QED
    BY <2>2, <2>3
<1>11. ASSUME ~ VisitDecides PROVE Covered(t, owed, Busy)
  <2>1. CASE e.args[n]
    <3>1. Waiting(e) => Waiting(t[i])
      BY <1>1, <2>1 DEF Waiting
    <3>2. ASSUME NEW x, WaitsIn(pending, x) PROVE WaitsIn(t, x)
      <4>1. PICK k \in 1 .. Len(pending) : pending[k].id = x /\ Waiting(pending[k])
        BY <3>2 DEF WaitsIn
      <4>2. Waiting(t[k]) /\ t[k].id = x /\ k \in 1 .. Len(t)
        BY <1>1, <1>4, <3>1, <4>1 DEF e
      <4> QED
        BY <4>2 DEF WaitsIn
    <3> QED
      BY <1>9, <3>2
  <2>2. CASE ~ e.args[n]
    <3>1. Waiting(t[i])
      BY <1>1, <1>3, <1>11, <2>2 DEF Waiting
    <3> QED
      BY <1>9, <1>10, <3>1
  <2> QED
    BY <2>1, <2>2
<1>12. ASSUME VisitDecides
       PROVE  /\ ~ WaitsIn(t, e.id) /\ e.id \notin Exec!Resolved
              /\ Covered(t, owed \ SameName(e.id), Busy)
  <2>1. Waiting(e) /\ ~ Waiting(t[i])
    BY <1>1, <1>2, <1>3, <1>12 DEF Waiting
  <2>2. e.id \notin Exec!Resolved
    BY <1>2, <2>1 DEF BaseInv, NoDouble, e
  <2>3. ~ WaitsIn(t, e.id)
    <3> SUFFICES ASSUME NEW k \in 1 .. Len(t), t[k].id = e.id, Waiting(t[k]) PROVE FALSE
      BY DEF WaitsIn
    <3>1. pending[k].id = e.id /\ Waiting(pending[k]) /\ k \in 1 .. Len(pending)
      BY <1>1, <1>4, <1>6
    <3>2. k = i
      BY <1>2, <2>1, <3>1 DEF BaseInv, NoDouble, e
    <3> QED
      BY <2>1, <3>2
  <2>4. \A x \in owed \ SameName(e.id) : e.id \notin SameName(x)
    <3>1. e.id \in Jobs /\ owed \subseteq Jobs
      BY <1>8 DEF BaseInv, TypeOK
    <3> QED
      BY <3>1 DEF SameName
  <2> QED
    BY <1>9, <1>10, <2>2, <2>3, <2>4
<1> QED
  BY <1>6, <1>7, <1>8, <1>11, <1>12 DEF t, e, i

(* Visit, in these terms.                                                  *)
LEMMA VisitIs ==
  ASSUME Visit
  PROVE  /\ scan # Idle /\ enabled' = VisitFuncs
         /\ \/ /\ VisitDecides
               /\ ResolveAndHandleDecisions(pending[scan[2]].id, VisitFlags, VisitTable,
                                            VisitFuncs, owed)
            \/ /\ ~ VisitDecides
               /\ pending' = VisitTable
               /\ UNCHANGED <<execVars, sending, inflight, owed>>
         /\ scan' = LoopAt(scan[1], pending', scan[2] - 1)
         /\ UNCHANGED <<excluded, cs, delivering, arrived, spent>>
BY DEF Visit, VisitFuncs, VisitFlags, VisitTable, VisitDecides

-----------------------------------------------------------------------------
(* One step per handler.                                                   *)
ExecutionStep == [Exec!Next]_(Exec!vars)

LEMMA BaseParts ==
  ASSUME BaseInv
  PROVE  /\ ExecInv /\ pending \in Seq(Entry) /\ ScanType /\ ScanValid
         /\ sending \subseteq Fetchable /\ enabled \in SUBSET Funcs /\ cs \subseteq Data
         /\ inflight \subseteq Fetchable /\ delivering \subseteq Fetchable
         /\ arrived \in SUBSET Jobs /\ owed \in SUBSET Jobs /\ owed \subseteq arrived
BY DEF BaseInv, TypeOK, ScanType, ExecInv

LEMMA OnInterestBase ==
  ASSUME BaseInv, NEW j \in Jobs, OnInterest(j)
  PROVE  BaseInv' /\ ExecutionStep
<1> DEFINE debt == owed \union {j}
<1>1. /\ scan = Idle /\ j \notin arrived /\ arrived' = arrived \union {j}
      /\ ResolveAndHandleDecisions(j, <<>>, pending, enabled, debt)
      /\ UNCHANGED <<enabled, excluded, cs, delivering, scan, spent>>
  BY DEF OnInterest
<1>2. <<>> \in Flags
  <2>1. DOMAIN <<>> = {} /\ <<>> \in [{} -> BOOLEAN]
    OBVIOUS
  <2> QED
    BY <2>1 DEF Flags
<1>3. j \notin Exec!Resolved /\ ~ WaitsIn(pending, j) /\ IdsWithin(pending, arrived)
  BY <1>1 DEF BaseInv, Arrivals, WaitsIn, IdsWithin
<1>4. Covered(pending, debt \ SameName(j), Busy)
  BY DEF BaseInv, Covered, SameName
<1>5. /\ debt \in SUBSET Jobs
      /\ NoDouble(pending, Exec!Resolved)
  BY BaseParts DEF BaseInv
<1> HIDE DEF debt
<1>6. /\ ExecInv' /\ [Exec!Next]_(Exec!vars)
      /\ Exec!Resolved' \subseteq Exec!Resolved \union {j}
      /\ pending' \in Seq(Entry)
      /\ NoDouble(pending', Exec!Resolved')
      /\ \A S : j \in S /\ IdsWithin(pending, S) => IdsWithin(pending', S)
      /\ sending' \subseteq Fetchable /\ inflight' \subseteq Fetchable
      /\ owed' \subseteq debt
      /\ Covered(pending', owed', Busy')
  BY <1>1, <1>2, <1>3, <1>4, <1>5, BaseParts, ResolveStep
<1>7. IdsWithin(pending', arrived')
  <2>1. IdsWithin(pending, arrived')
    BY <1>1, <1>3 DEF IdsWithin
  <2> QED
    BY <1>1, <1>6, <2>1
<1>8. TypeOK'
  <2>1. owed' \subseteq arrived' /\ arrived' \subseteq Jobs
    BY <1>1, <1>6, BaseParts DEF debt
  <2> QED
    BY <1>1, <1>6, <2>1 DEF BaseInv, TypeOK, ExecInv
<1>9. Arrivals' /\ ScanValid'
  BY <1>1, <1>6, <1>7 DEF BaseInv, Arrivals, ScanValid
<1> QED
  BY <1>6, <1>8, <1>9 DEF BaseInv, ExecInv, ExecutionStep

LEMMA VisitBase ==
  ASSUME BaseInv, Visit
  PROVE  BaseInv' /\ ExecutionStep
<1> DEFINE e == pending[scan[2]]
<1>1. /\ scan # Idle /\ enabled' = VisitFuncs
      /\ \/ /\ VisitDecides
            /\ ResolveAndHandleDecisions(e.id, VisitFlags, VisitTable, VisitFuncs, owed)
         \/ /\ ~ VisitDecides
            /\ pending' = VisitTable
            /\ UNCHANGED <<execVars, sending, inflight, owed>>
      /\ scan' = LoopAt(scan[1], pending', scan[2] - 1)
      /\ UNCHANGED <<excluded, cs, delivering, arrived, spent>>
  BY VisitIs
<1>2. /\ VisitTable \in Seq(Entry) /\ Len(VisitTable) = Len(pending) /\ VisitFlags \in Flags
  BY <1>1, VisitTableIs
<1>3. /\ NoDouble(VisitTable, Exec!Resolved)
      /\ IdsWithin(VisitTable, arrived)
      /\ e.id \in arrived
      /\ ~ VisitDecides => Covered(VisitTable, owed, Busy)
      /\ VisitDecides => /\ ~ WaitsIn(VisitTable, e.id)
                         /\ e.id \notin Exec!Resolved
                         /\ Covered(VisitTable, owed \ SameName(e.id), Busy)
  BY <1>1, VisitWaits
<1>4. /\ scan[1] \in Fetchable /\ scan[2] \in 1 .. Len(pending)
      /\ VisitFuncs \in SUBSET Funcs /\ e.id \in Jobs
  BY <1>1, <1>3, BaseParts, ScanIs DEF VisitFuncs
<1>5. /\ ExecInv' /\ [Exec!Next]_(Exec!vars)
      /\ Exec!Resolved' \subseteq arrived
      /\ pending' \in Seq(Entry) /\ Len(pending') >= Len(pending) - 1
      /\ NoDouble(pending', Exec!Resolved')
      /\ IdsWithin(pending', arrived)
      /\ sending' \subseteq Fetchable /\ inflight' \subseteq Fetchable
      /\ owed' \subseteq owed
      /\ Covered(pending', owed', Busy')
  <2> HIDE DEF e
  <2>1. CASE VisitDecides
    <3>1. ResolveAndHandleDecisions(e.id, VisitFlags, VisitTable, VisitFuncs, owed)
      BY <1>1, <2>1
    <3>2. /\ ExecInv' /\ [Exec!Next]_(Exec!vars)
          /\ Exec!Resolved' \subseteq Exec!Resolved \union {e.id}
          /\ pending' \in Seq(Entry) /\ Len(pending') >= Len(VisitTable) - 1
          /\ NoDouble(pending', Exec!Resolved')
          /\ \A S : e.id \in S /\ IdsWithin(VisitTable, S) => IdsWithin(pending', S)
          /\ sending' \subseteq Fetchable /\ inflight' \subseteq Fetchable
          /\ owed' \subseteq owed
          /\ Covered(pending', owed', Busy')
      BY <1>2, <1>3, <1>4, <2>1, <3>1, BaseParts, ResolveStep
    <3>3. IdsWithin(pending', arrived)
      BY <1>3, <3>2
    <3>4. Exec!Resolved' \subseteq arrived
      BY <1>3, <3>2 DEF BaseInv, Arrivals
    <3> QED
      BY <1>2, <3>2, <3>3, <3>4
  <2>2. CASE ~ VisitDecides
    <3>1. pending' = VisitTable /\ UNCHANGED <<execVars, sending, inflight, owed>>
      BY <1>1, <2>2
    <3>2. ExecInv' /\ Exec!Resolved' = Exec!Resolved /\ Busy' = Busy /\ UNCHANGED Exec!vars
      BY <3>1, BaseParts, ExecUnchanged
    <3>3. Len(pending') >= Len(pending) - 1
      BY <1>2, <3>1, BaseParts
    <3> QED
      BY <1>2, <1>3, <2>2, <3>1, <3>2, <3>3, BaseParts DEF BaseInv, Arrivals
  <2> QED
    BY <2>1, <2>2
<1>6. ScanType' /\ ScanValid'
  <2>1. Len(pending) \in Nat /\ Len(pending') \in Nat
    BY <1>5, BaseParts
  <2>2. scan[2] - 1 \in 0 .. Len(pending')
    BY <1>4, <1>5, <2>1
  <2> QED
    BY <1>1, <1>4, <1>5, <2>2, ScanStep
<1>7. TypeOK'
  BY <1>1, <1>4, <1>5, <1>6 DEF BaseInv, TypeOK, ExecInv, ScanType
<1> QED
  BY <1>1, <1>5, <1>6, <1>7 DEF BaseInv, ExecInv, Arrivals, ExecutionStep

LEMMA EndBase ==
  ASSUME BaseInv, NEW j \in Jobs, ScheduledExecutionEnd(j)
  PROVE  BaseInv' /\ ExecutionStep
<1> DEFINE starts == Exec!StartsHead(Exec!Released(free, j))
           h == Head(waitingList)
<1>1. /\ scan = Idle /\ Exec!ScheduledExecutionEnd(j)
      /\ owed' = owed \ SameName(j)
      /\ pending' = IF starts THEN DeletePendingContentTableEntry(pending, h) ELSE pending
      /\ UNCHANGED <<sending, enabled, excluded, cs, inflight, delivering, scan, arrived, spent>>
  BY DEF ScheduledExecutionEnd
<1>2. /\ ExecInv' /\ Exec!Resolved' = Exec!Resolved /\ Busy \ {j} \subseteq Busy'
      /\ starts => h \in Jobs /\ h \in Busy'
  BY <1>1, BaseParts, EndStep
<1>3. ExecutionStep
  BY <1>1 DEF ExecutionStep, Exec!Next
<1> HIDE DEF starts, h
<1>4. \/ pending' = pending
      \/ /\ h \in Jobs /\ h \in Busy'
         /\ \E k \in 1 .. Len(pending) :
              IsDeletion(pending', pending, k) /\ pending[k].id \in SameName(h)
  <2>1. CASE starts
    BY <1>1, <1>2, <2>1, BaseParts, DeleteSpec
  <2>2. CASE ~ starts
    BY <1>1, <2>2
  <2> QED
    BY <2>1, <2>2
<1>5. /\ pending' \in Seq(Entry)
      /\ NoDouble(pending', Exec!Resolved')
      /\ IdsWithin(pending', arrived)
  <2>1. CASE pending' = pending
    BY <1>2, <2>1, BaseParts DEF BaseInv, Arrivals
  <2>2. CASE \E k \in 1 .. Len(pending) : IsDeletion(pending', pending, k)
    <3>1. PICK k \in 1 .. Len(pending) : IsDeletion(pending', pending, k)
      BY <2>2
    <3>2. NoDouble(pending', Exec!Resolved)
      BY <3>1, BaseParts, NoDoubleDeletion DEF BaseInv
    <3>3. IdsWithin(pending', arrived)
      BY <3>1 DEF BaseInv, Arrivals, IdsWithin, IsDeletion
    <3> QED
      BY <1>2, <3>1, <3>2, <3>3 DEF IsDeletion
  <2> QED
    BY <1>4, <2>1, <2>2
<1>6. Covered(pending', owed', Busy')
  <2> SUFFICES ASSUME NEW x \in owed, x \notin SameName(j)
               PROVE  \E k \in SameName(x) : k \in Busy' \/ WaitsIn(pending', k)
    BY <1>1 DEF Covered
  <2>1. x \in Jobs
    BY BaseParts
  <2>2. PICK k \in SameName(x) : k \in Busy \/ WaitsIn(pending, k)
    BY DEF BaseInv, Covered
  <2>3. k # j
    BY <2>1, <2>2 DEF SameName
  <2>4. CASE k \in Busy
    BY <1>2, <2>2, <2>3, <2>4
  <2>5. CASE WaitsIn(pending, k)
    <3>1. CASE pending' = pending
      BY <2>2, <2>5, <3>1
    <3>2. CASE /\ h \in Jobs /\ h \in Busy'
               /\ \E d \in 1 .. Len(pending) :
                    IsDeletion(pending', pending, d) /\ pending[d].id \in SameName(h)
      <4>1. PICK d \in 1 .. Len(pending) :
                   IsDeletion(pending', pending, d) /\ pending[d].id \in SameName(h)
        BY <3>2
      <4>2. CASE pending[d].id = k
        <5>1. h \in SameName(x)
          BY <2>1, <2>2, <3>2, <4>1, <4>2 DEF SameName
        <5> QED
          BY <3>2, <5>1
      <4>3. CASE pending[d].id # k
        BY <2>2, <2>5, <4>1, <4>3, BaseParts, WaitsAfterDeletion
      <4> QED
        BY <4>2, <4>3
    <3> QED
      BY <1>4, <3>1, <3>2
  <2> QED
    BY <2>2, <2>4, <2>5
<1>7. TypeOK'
  BY <1>1, <1>2, <1>5 DEF BaseInv, TypeOK, ExecInv
<1>8. ScanValid' /\ Arrivals'
  BY <1>1, <1>2, <1>5 DEF BaseInv, ScanValid, Arrivals
<1> QED
  BY <1>2, <1>3, <1>5, <1>6, <1>7, <1>8 DEF BaseInv, ExecInv

(* Handlers that touch neither execution nor the table.                    *)
LEMMA QuietBase ==
  ASSUME BaseInv, UNCHANGED <<execVars, pending, arrived, owed>>,
         sending' \subseteq Fetchable, enabled' \subseteq Funcs,
         excluded' \in [Funcs -> Nat], cs' \subseteq Data,
         inflight' \subseteq Fetchable, delivering' \subseteq Fetchable,
         ScanType', ScanValid', spent' \in [Disturbances -> Nat]
  PROVE  BaseInv' /\ ExecutionStep
<1>1. ExecInv' /\ Exec!Resolved' = Exec!Resolved /\ Busy' = Busy /\ UNCHANGED Exec!vars
  BY BaseParts, ExecUnchanged
<1>2. pending' \in Seq(Entry) /\ owed' \subseteq arrived' /\ arrived' \subseteq Jobs
  BY BaseParts
<1>3. TypeOK'
  BY <1>1, <1>2 DEF TypeOK, ExecInv, ScanType
<1> QED
  BY <1>1, <1>3 DEF BaseInv, ExecInv, Arrivals, ExecutionStep

LEMMA BaseInit == Init => BaseInv /\ Exec!Init
<1> SUFFICES ASSUME Init PROVE BaseInv
  BY DEF Init
<1>1. Exec!TypeOK /\ Exec!QueueFillMatches /\ Exec!Resolved = {}
  <2> USE DEF Init, Exec!Init
  <2>1. free \in [Resources -> Nat] /\ queueFill \in 0 .. QueueSize /\ nodeBusy \in Nat
    BY NodeAssumption
  <2>2. fullTimer \in BOOLEAN /\ emptyTimer \in BOOLEAN
    OBVIOUS
  <2>3. /\ running = {} /\ answered = {} /\ forwarded = {}
        /\ waitingList \in Seq(Jobs) /\ Len(waitingList) = 0 /\ queueFill = 0
    OBVIOUS
  <2>4. Exec!Queued = {}
    BY <2>3 DEF Exec!Queued
  <2> QED
    BY <2>1, <2>2, <2>3, <2>4 DEF Exec!TypeOK, Exec!QueueFillMatches, Exec!Resolved
<1>2. pending = <<>> /\ Len(pending) = 0 /\ scan = Idle /\ owed = {} /\ arrived = {}
  BY DEF Init
<1>3. pending \in Seq(Entry)
  BY <1>2
<1>4. TypeOK
  BY <1>1, <1>2, <1>3, EnabledAssumption DEF Init, TypeOK
<1> QED
  BY <1>1, <1>2, <1>4 DEF BaseInv, ScanValid, Arrivals, IdsWithin, NoDouble, Covered

LEMMA DisturbType ==
  ASSUME BaseInv, NEW kind \in Disturbances, Disturb(kind)
  PROVE  spent' \in [Disturbances -> Nat]
<1>1. spent \in [Disturbances -> Nat] /\ spent' = [spent EXCEPT ![kind] = spent[kind] + 1]
  BY DEF BaseInv, TypeOK, Disturb
<1>2. spent[kind] + 1 \in Nat
  BY <1>1
<1> QED
  BY <1>1, <1>2

LEMMA BaseNext == BaseInv /\ [Next]_vars => BaseInv' /\ ExecutionStep
<1> SUFFICES ASSUME BaseInv, [Next]_vars PROVE BaseInv' /\ ExecutionStep
  OBVIOUS
<1> USE BaseParts
<1>1. /\ excluded \in [Funcs -> Nat] /\ spent \in [Disturbances -> Nat]
      /\ {"stale", "lost", "switch"} \subseteq Disturbances
  BY DEF BaseInv, TypeOK, Disturbances
<1>2. ASSUME NEW j \in Jobs, OnInterest(j) PROVE BaseInv' /\ ExecutionStep
  BY <1>2, OnInterestBase
<1>3. ASSUME NEW j \in Jobs, ScheduledExecutionEnd(j) PROVE BaseInv' /\ ExecutionStep
  BY <1>3, EndBase
<1>4. CASE Visit
  BY <1>4, VisitBase
<1>5. ASSUME NEW n \in Fetchable, OnData(n) PROVE BaseInv' /\ ExecutionStep
  <2>1. /\ delivering' = delivering \ {n} /\ sending' = sending \ {n}
        /\ scan' = LoopAt(n, pending, Len(pending))
        /\ UNCHANGED <<execVars, pending, enabled, excluded, cs, inflight, arrived, owed, spent>>
    BY <1>5 DEF OnData
  <2>2. pending' \in Seq(Entry) /\ Len(pending) \in 0 .. Len(pending')
    BY <2>1
  <2>3. scan' = LoopAt(n, pending', Len(pending))
    BY <2>1
  <2>4. ScanType' /\ ScanValid'
    BY <2>2, <2>3, ScanStep
  <2> QED
    BY <1>1, <2>1, <2>4, QuietBase
<1> DEFINE SameScan == UNCHANGED <<pending, scan>>
<1>6. ASSUME SameScan PROVE ScanType' /\ ScanValid'
  BY <1>6 DEF ScanType, ScanValid
<1>7. ASSUME NEW n \in Fetchable, DataReturns(n) PROVE BaseInv' /\ ExecutionStep
  <2>1. cs' \subseteq Data /\ inflight' \subseteq Fetchable /\ delivering' \subseteq Fetchable
    BY <1>7 DEF DataReturns
  <2> QED
    BY <1>1, <1>6, <1>7, <2>1, QuietBase DEF DataReturns
<1>8. ASSUME NEW n \in Fetchable, FetchLost(n) PROVE BaseInv' /\ ExecutionStep
  BY <1>1, <1>6, <1>8, DisturbType, QuietBase DEF FetchLost
<1>9. ASSUME NEW d \in Data, CopyGoesStale(d) PROVE BaseInv' /\ ExecutionStep
  BY <1>1, <1>6, <1>9, DisturbType, QuietBase DEF CopyGoesStale
<1>10. ASSUME Command, enabled' \subseteq Funcs, excluded' \in [Funcs -> Nat]
       PROVE  BaseInv' /\ ExecutionStep
  BY <1>1, <1>6, <1>10, DisturbType, QuietBase DEF Command
<1>11. ASSUME NEW f \in Funcs, EnableFunction(f) PROVE BaseInv' /\ ExecutionStep
  BY <1>1, <1>10, <1>11 DEF EnableFunction
<1>12. ASSUME NEW f \in Funcs, DisableFunction(f) PROVE BaseInv' /\ ExecutionStep
  BY <1>1, <1>10, <1>12 DEF DisableFunction
<1>13. CASE UNCHANGED vars
  <2>1. UNCHANGED <<execVars, pending, sending, enabled, excluded, cs, inflight, delivering,
                    scan, arrived, owed, spent>>
    BY <1>13 DEF vars
  <2> QED
    BY <1>1, <1>6, <2>1, QuietBase
<1> QED
  BY <1>2, <1>3, <1>4, <1>5, <1>7, <1>8, <1>9, <1>11, <1>12, <1>13 DEF Next

(* The inductive invariant holds in every state of the producer.           *)
THEOREM BaseInvariance == SafetySpec => []BaseInv
BY BaseInit, BaseNext, PTL DEF SafetySpec

-----------------------------------------------------------------------------
(* Every variable keeps its type: no booking below zero, no flag outside   *)
(* what can be fetched, no loop index outside the table.                   *)
THEOREM TypeCorrect == SafetySpec => []TypeOK
<1>1. BaseInv => TypeOK
  BY DEF BaseInv
<1> QED
  BY <1>1, BaseInvariance, PTL

(* No request waits twice, and none waits that is already executing,       *)
(* queued, answered or forwarded, whatever is lost, stale or switched.     *)
THEOREM NeverHandledTwice == SafetySpec => []NoDoubleHandling
<1>1. BaseInv => NoDoubleHandling
  BY DEF BaseInv, NoDouble, NoDoubleHandling
<1> QED
  BY <1>1, BaseInvariance, PTL

(* Whoever is owed an answer has a request of its name that executes, is   *)
(* queued or waits, also after fetches are lost.                           *)
THEOREM NobodyForgotten == SafetySpec => []NoRequestForgotten
<1>1. BaseInv => NoRequestForgotten
  BY DEF BaseInv, Covered, WaitsIn, Busy, NoRequestForgotten
<1> QED
  BY <1>1, BaseInvariance, PTL

(* The application hands execution only requests it has not handed over    *)
(* before: what NfnExecution sees is one of its own behaviours.            *)
THEOREM RefinesExecution == SafetySpec => ImplementsExecution
BY BaseInit, BaseNext, PTL DEF SafetySpec, ImplementsExecution, Exec!SafetySpec, ExecutionStep

-----------------------------------------------------------------------------
(* What deciding does to the table and to the fetches, in three cases.     *)
Deleted(tbl, j) ==
  \E k \in 1 .. Len(tbl) : IsDeletion(pending', tbl, k) /\ tbl[k].id \in SameName(j)

Fetched(j, args, tbl, on) ==
  /\ GetFetchDecisions(j, on) = "FETCH"
  /\ pending' = Cons(NewEntry(j, args, on), tbl)
  /\ sending' = sending \union FetchList(j, on)
  /\ inflight' = inflight \union (FetchList(j, on) \ sending)

LEMMA ResolveCases ==
  ASSUME NEW j \in Jobs, NEW args, NEW tbl \in Seq(Entry), NEW on, NEW debt,
         ResolveAndHandleDecisions(j, args, tbl, on, debt)
  PROVE  \/ (pending' = tbl \/ Deleted(tbl, j)) /\ UNCHANGED <<sending, inflight>>
         \/ Fetched(j, args, tbl, on)
<1>1. CASE HandedOn(j, tbl, debt) /\ UNCHANGED <<sending, inflight>>
  BY <1>1 DEF HandedOn
<1>2. CASE ExecuteDecided(j, tbl, debt)
  BY <1>2, DeleteSpec DEF ExecuteDecided, HandedOn, Deleted
<1>3. CASE GetFetchDecisions(j, on) = "FETCH" /\ Fetch(j, args, tbl, on, debt)
  BY <1>3 DEF Fetch, Fetched, NewEntry, NewFlags
<1> QED
  BY <1>1, <1>2, <1>3 DEF ResolveAndHandleDecisions

LEMMA EndCases ==
  ASSUME BaseInv, NEW j \in Jobs, ScheduledExecutionEnd(j)
  PROVE  pending' = pending \/ \E x \in Jobs : Deleted(pending, x)
<1> DEFINE starts == Exec!StartsHead(Exec!Released(free, j))
           h == Head(waitingList)
<1>1. /\ pending' = IF starts THEN DeletePendingContentTableEntry(pending, h) ELSE pending
      /\ Exec!ScheduledExecutionEnd(j)
  BY DEF ScheduledExecutionEnd
<1>2. starts => h \in Jobs
  BY <1>1, BaseParts, EndStep
<1> HIDE DEF starts, h
<1> QED
  BY <1>1, <1>2, BaseParts, DeleteSpec DEF Deleted

-----------------------------------------------------------------------------
(* The sending list.  A name is in flight or being delivered, never both,  *)
(* and is listed; what is listed is under way unless a fetch was lost.     *)
SentInv ==
  /\ inflight \union delivering \subseteq sending
  /\ inflight \intersect delivering = {}
  /\ SendingIsInFlight

LEMMA SentInit == Init => SentInv
BY DEF Init, SentInv, SendingIsInFlight

LEMMA SentSame ==
  ASSUME SentInv, UNCHANGED <<sending, inflight, delivering>>,
         spent' = spent \/ \E k \in {"stale", "switch"} : Disturb(k), BaseInv
  PROVE  SentInv'
<1>1. spent'["lost"] = spent["lost"]
  BY DEF Disturb, BaseInv, TypeOK, Disturbances
<1> QED
  BY <1>1 DEF SentInv, SendingIsInFlight

LEMMA SentResolve ==
  ASSUME SentInv, NEW j \in Jobs, NEW args, NEW tbl \in Seq(Entry), NEW on, NEW debt,
         ResolveAndHandleDecisions(j, args, tbl, on, debt), UNCHANGED <<delivering, spent>>
  PROVE  SentInv'
<1>1. CASE UNCHANGED <<sending, inflight>>
  BY <1>1 DEF SentInv, SendingIsInFlight
<1>2. CASE Fetched(j, args, tbl, on)
  BY <1>2 DEF Fetched, SentInv, SendingIsInFlight
<1> QED
  BY <1>1, <1>2, ResolveCases

LEMMA SentNext == BaseInv /\ SentInv /\ [Next]_vars => SentInv'
<1> SUFFICES ASSUME BaseInv, SentInv, [Next]_vars PROVE SentInv'
  OBVIOUS
<1> USE BaseParts
<1>1. ASSUME NEW j \in Jobs, OnInterest(j) PROVE SentInv'
  BY <1>1, SentResolve DEF OnInterest
<1>2. ASSUME NEW j \in Jobs, ScheduledExecutionEnd(j) PROVE SentInv'
  BY <1>2, SentSame DEF ScheduledExecutionEnd
<1>3. ASSUME NEW n \in Fetchable, OnData(n) PROVE SentInv'
  BY <1>3 DEF OnData, SentInv, SendingIsInFlight
<1>4. ASSUME NEW n \in Fetchable, DataReturns(n) PROVE SentInv'
  BY <1>4 DEF DataReturns, SentInv, SendingIsInFlight
<1>5. ASSUME NEW n \in Fetchable, FetchLost(n) PROVE SentInv'
  <2>1. /\ inflight' = inflight \ {n} /\ UNCHANGED <<sending, delivering>>
        /\ spent' = [spent EXCEPT !["lost"] = spent["lost"] + 1]
    BY <1>5 DEF FetchLost, Disturb
  <2>2. spent["lost"] \in Nat /\ spent'["lost"] = spent["lost"] + 1
    BY <2>1 DEF BaseInv, TypeOK, Disturbances
  <2>3. spent'["lost"] # 0
    BY <2>2
  <2> QED
    BY <2>1, <2>3 DEF SentInv, SendingIsInFlight
<1>6. CASE Visit
  <2>1. VisitTable \in Seq(Entry) /\ pending[scan[2]].id \in Jobs
    BY <1>6, VisitIs, VisitTableIs, VisitWaits
  <2>2. CASE UNCHANGED <<sending, inflight>>
    BY <1>6, <2>2, VisitIs, SentSame
  <2>3. CASE ResolveAndHandleDecisions(pending[scan[2]].id, VisitFlags, VisitTable,
                                       VisitFuncs, owed)
    BY <1>6, <2>1, <2>3, VisitIs, SentResolve
  <2> QED
    BY <1>6, <2>2, <2>3, VisitIs
<1>7. CASE Command
  BY <1>7, SentSame DEF Command
<1>8. ASSUME NEW d \in Data, CopyGoesStale(d) PROVE SentInv'
  BY <1>8, SentSame DEF CopyGoesStale
<1>9. CASE UNCHANGED vars
  BY <1>9, SentSame DEF vars
<1> QED
  BY <1>1, <1>2, <1>3, <1>4, <1>5, <1>6, <1>7, <1>8, <1>9
     DEF Next, EnableFunction, DisableFunction

(* While no fetch is lost, the sending list is exactly what is under way,  *)
(* so a name is fetched once however many requests want it.                *)
THEOREM SendingListExact == SafetySpec => []SendingIsInFlight
<1>1. SentInv => SendingIsInFlight
  BY DEF SentInv
<1> QED
  BY <1>1, SentInit, SentNext, BaseInvariance, PTL DEF SafetySpec

-----------------------------------------------------------------------------
(* What an entry waits for.  As long as no copy in the content store goes  *)
(* stale, whatever an entry needs is at hand or one of its flags is unset, *)
(* so an entry whose flags are all set never has to fetch again, nothing   *)
(* is put before the entries the loop has still to visit, and none of them *)
(* is passed over.                                                         *)
Unset(e) == {m \in DOMAIN e.args : ~ e.args[m]}

FuncComes(e, on, out) ==
  FuncOf[e.id] \in on \/ out[FuncOf[e.id]] > 0 \/ FuncOf[e.id] \in Unset(e)

DataComes(e, here) == ParamsOf[e.id] \subseteq here \union Unset(e)

FuncInv == \A i \in 1 .. Len(pending) : FuncComes(pending[i], enabled, excluded)

Fresh == /\ delivering \intersect Data \subseteq cs
         /\ scan # Idle => {scan[1]} \intersect Data \subseteq cs

\* In the middle of the loop, the entries above the index have been told.
SentOrBelow ==
  \A k \in 1 .. Len(pending) : \A m \in Unset(pending[k]) :
    m \in sending \/ (scan # Idle /\ m = scan[1] /\ k <= scan[2])

CalmInv ==
  spent["stale"] = 0 =>
    /\ Fresh
    /\ \A i \in 1 .. Len(pending) : DataComes(pending[i], cs)
    /\ SentOrBelow

WaitInv == FuncInv /\ CalmInv

(* Entries stay what they are, and the new one waits for what it lacks.    *)
LEMMA DeletedEntries ==
  ASSUME NEW tbl \in Seq(Entry), NEW j, Deleted(tbl, j)
  PROVE  \A k \in 1 .. Len(pending') :
           \E h \in 1 .. Len(tbl) : k <= h /\ pending'[k] = tbl[h]
<1>1. PICK d \in 1 .. Len(tbl) : IsDeletion(pending', tbl, d)
  BY DEF Deleted
<1>2. ASSUME NEW k \in 1 .. Len(pending')
      PROVE  \E h \in 1 .. Len(tbl) : k <= h /\ pending'[k] = tbl[h]
  <2> DEFINE h == IF k < d THEN k ELSE k + 1
  <2>1. h \in 1 .. Len(tbl) /\ k <= h /\ pending'[k] = tbl[h]
    BY <1>1 DEF IsDeletion
  <2> QED
    BY <2>1
<1> QED
  BY <1>2

LEMMA NewUnset ==
  ASSUME NEW j \in Jobs, NEW args \in Flags, NEW on \in SUBSET Funcs
  PROVE  Complete(args) => Unset(NewEntry(j, args, on)) = FetchList(j, on)
<1> DEFINE e == NewEntry(j, args, on)
           a == NewFlags(j, args, on)
           list == FetchList(j, on)
<1>1. e.args = a
  BY DEF NewEntry
<1>2. DOMAIN a = DOMAIN args \union list
  BY NewEntryType
<1>3. ASSUME NEW n \in DOMAIN a PROVE a[n] <=> n \notin list /\ args[n]
  BY NewEntryType
<1> HIDE DEF e, a, list
<1>4. Complete(args) => Unset(e) = list
  BY <1>1, <1>2, <1>3 DEF Unset, Complete
<1> QED
  BY <1>4 DEF e, list

LEMMA NewComes ==
  ASSUME NEW j \in Jobs, NEW args \in Flags, NEW on \in SUBSET Funcs,
         Complete(args), NEW out
  PROVE  LET e == NewEntry(j, args, on)
         IN  FuncComes(e, on, out) /\ DataComes(e, cs)
<1> DEFINE e == NewEntry(j, args, on)
           u == Unset(e)
<1>1. u = FetchList(j, on)
  BY NewUnset
<1>5. e.id = j
  BY NewEntryType
<1>2. FuncOf[j] \in on \/ FuncOf[j] \in u
  BY <1>1 DEF FetchList
<1>3. ParamsOf[j] \subseteq cs \union u
  BY <1>1 DEF FetchList, Misses
<1> HIDE DEF e
<1> QED
  BY <1>1, <1>2, <1>3, <1>5 DEF FuncComes, DataComes, e

(* Telling an entry of the name that has arrived.                          *)
LEMMA VisitEntries ==
  ASSUME BaseInv, FuncInv, Visit
  PROVE  /\ \A k \in 1 .. Len(pending) : Unset(VisitTable[k]) \subseteq Unset(pending[k])
         /\ Unset(pending[scan[2]]) \subseteq Unset(VisitTable[scan[2]]) \union {scan[1]}
         /\ scan[1] \notin Unset(VisitTable[scan[2]])
         /\ \A k \in 1 .. Len(pending) : VisitTable[k].id = pending[k].id
         /\ \A k \in 1 .. Len(pending) : FuncComes(VisitTable[k], enabled', excluded')
         /\ VisitDecides => Complete(VisitFlags) /\ Unset(VisitTable[scan[2]]) = {}
<1> DEFINE i == scan[2]
           n == scan[1]
           t == VisitTable
           e == pending[i]
           args == VisitFlags
<1>1. scan # Idle /\ enabled' = enabled \union ({n} \intersect Funcs) /\ UNCHANGED excluded
  BY VisitIs DEF VisitFuncs
<1>2. /\ t \in Seq(Entry) /\ Len(t) = Len(pending)
      /\ t[i].id = e.id /\ t[i].args = args
      /\ \A k \in 1 .. Len(pending) : k # i => t[k] = pending[k]
      /\ DOMAIN args = DOMAIN e.args /\ args[n]
      /\ \A m \in DOMAIN args : m # n => args[m] = e.args[m]
  BY <1>1, VisitTableIs
<1>3. i \in 1 .. Len(pending) /\ n \in DOMAIN e.args
  BY <1>1, BaseParts, ScanIs
<1>4. VisitDecides => Complete(args)
  BY DEF VisitDecides
<1> HIDE DEF t, args, i, n, e
<1>5. Unset(t[i]) \subseteq Unset(e) /\ Unset(e) \subseteq Unset(t[i]) \union {n} /\ n \notin Unset(t[i])
  BY <1>2 DEF Unset
<1>6. \A k \in 1 .. Len(pending) : Unset(t[k]) \subseteq Unset(pending[k]) /\ t[k].id = pending[k].id
  BY <1>2, <1>5 DEF e
<1>7. VisitDecides => Unset(t[i]) = {}
  BY <1>2, <1>4 DEF Unset, Complete
<1>8. ASSUME NEW k \in 1 .. Len(pending) PROVE FuncComes(t[k], enabled', excluded')
  <2> DEFINE f == FuncOf[pending[k].id]
  <2>1. f \in enabled \/ excluded[f] > 0 \/ f \in Unset(pending[k])
    BY DEF FuncInv, FuncComes
  <2>2. f \in Funcs
    BY BaseParts, EntryType, NodeAssumption
  <2>3. CASE k # i
    BY <1>1, <1>2, <2>1, <2>3 DEF FuncComes
  <2>4. CASE k = i
    <3>1. Unset(pending[k]) \subseteq Unset(t[k]) \union {n} /\ t[k].id = pending[k].id
      BY <1>5, <1>6, <2>4 DEF e
    <3> QED
      BY <1>1, <2>1, <2>2, <3>1 DEF FuncComes
  <2> QED
    BY <2>3, <2>4
<1> QED
  BY <1>3, <1>4, <1>5, <1>6, <1>7, <1>8 DEF t, args, i, n, e

(* Each entry of the new table is an entry of the old one or the new one.  *)
LEMMA ResolvedEntries ==
  ASSUME NEW j \in Jobs, NEW args \in Flags, NEW tbl \in Seq(Entry), NEW on \in SUBSET Funcs,
         NEW debt, ResolveAndHandleDecisions(j, args, tbl, on, debt)
  PROVE  \A k \in 1 .. Len(pending') :
           \/ \E h \in 1 .. Len(tbl) : pending'[k] = tbl[h]
           \/ pending'[k] = NewEntry(j, args, on)
<1>1. CASE pending' = tbl
  BY <1>1
<1>2. CASE Deleted(tbl, j)
  BY <1>2, DeletedEntries
<1>3. CASE Fetched(j, args, tbl, on)
  <2> DEFINE e == NewEntry(j, args, on)
  <2>1. e \in Entry /\ pending' = Cons(e, tbl)
    BY <1>3, NewEntryType DEF Fetched
  <2> HIDE DEF e
  <2>2. /\ Len(pending') = Len(tbl) + 1 /\ pending'[1] = e
        /\ \A i \in 1 .. Len(tbl) : pending'[i + 1] = tbl[i]
    BY <2>1, ConsSpec
  <2>3. ASSUME NEW k \in 1 .. Len(pending')
        PROVE  (\E h \in 1 .. Len(tbl) : pending'[k] = tbl[h]) \/ pending'[k] = e
    <3>1. CASE k = 1
      BY <2>2, <3>1
    <3>2. CASE k # 1
      <4>1. k - 1 \in 1 .. Len(tbl) /\ pending'[(k - 1) + 1] = tbl[k - 1] /\ (k - 1) + 1 = k
        BY <2>2, <3>2
      <4> QED
        BY <4>1
    <3> QED
      BY <3>1, <3>2
  <2> QED
    BY <2>3 DEF e
<1> QED
  BY <1>1, <1>2, <1>3, ResolveCases

LEMMA EmptyFlags == <<>> \in Flags /\ Complete(<<>>) /\ DOMAIN <<>> = {}
<1>1. DOMAIN <<>> = {} /\ <<>> \in [{} -> BOOLEAN]
  OBVIOUS
<1> QED
  BY <1>1 DEF Flags, Complete

LEMMA FuncNext == BaseInv /\ FuncInv /\ [Next]_vars => FuncInv'
<1> SUFFICES ASSUME BaseInv, FuncInv, [Next]_vars PROVE FuncInv'
  OBVIOUS
<1> USE BaseParts
<1>1. ASSUME NEW j \in Jobs, NEW args \in Flags, NEW tbl \in Seq(Entry),
             NEW on \in SUBSET Funcs, NEW debt, Complete(args), enabled' = on,
             ResolveAndHandleDecisions(j, args, tbl, on, debt),
             \A k \in 1 .. Len(tbl) : FuncComes(tbl[k], enabled', excluded')
      PROVE  FuncInv'
  <2> SUFFICES ASSUME NEW k \in 1 .. Len(pending')
               PROVE  FuncComes(pending'[k], enabled', excluded')
    BY DEF FuncInv, FuncComes, Unset
  <2>1. CASE \E h \in 1 .. Len(tbl) : pending'[k] = tbl[h]
    BY <1>1, <2>1
  <2>2. CASE pending'[k] = NewEntry(j, args, on)
    BY <1>1, <2>2, NewComes
  <2> QED
    BY <1>1, <2>1, <2>2, ResolvedEntries
<1>2. ASSUME \A k \in 1 .. Len(pending') : \E h \in 1 .. Len(pending) : pending'[k] = pending[h],
             \A f \in Funcs : f \in enabled \/ excluded[f] > 0
                                => f \in enabled' \/ excluded'[f] > 0
      PROVE  FuncInv'
  <2> SUFFICES ASSUME NEW k \in 1 .. Len(pending')
               PROVE  FuncComes(pending'[k], enabled', excluded')
    BY DEF FuncInv, FuncComes, Unset
  <2>1. PICK h \in 1 .. Len(pending) : pending'[k] = pending[h]
    BY <1>2
  <2>2. FuncOf[pending[h].id] \in Funcs
    BY EntryType, NodeAssumption
  <2> QED
    BY <1>2, <2>1, <2>2 DEF FuncInv, FuncComes
<1>3. ASSUME NEW j \in Jobs, OnInterest(j) PROVE FuncInv'
  BY <1>1, <1>3, EmptyFlags DEF OnInterest, FuncInv
<1>4. CASE Visit
  <2>1. /\ pending[scan[2]].id \in Jobs /\ VisitFlags \in Flags /\ VisitTable \in Seq(Entry)
        /\ Len(VisitTable) = Len(pending) /\ VisitFuncs \in SUBSET Funcs
    BY <1>4, VisitIs, VisitTableIs, VisitWaits DEF VisitFuncs
  <2>2. /\ \A k \in 1 .. Len(pending) : FuncComes(VisitTable[k], enabled', excluded')
        /\ VisitDecides => Complete(VisitFlags)
    BY <1>4, VisitEntries
  <2>3. CASE pending' = VisitTable
    BY <2>1, <2>2, <2>3 DEF FuncInv, FuncComes, Unset
  <2>4. CASE VisitDecides /\ ResolveAndHandleDecisions(pending[scan[2]].id, VisitFlags, VisitTable,
                                       VisitFuncs, owed)
    BY <1>1, <1>4, <2>1, <2>2, <2>4, VisitIs
  <2> QED
    BY <1>4, <2>3, <2>4, VisitIs
<1>5. ASSUME UNCHANGED <<pending, enabled, excluded>> PROVE FuncInv'
  BY <1>2, <1>5
<1>6. ASSUME NEW j \in Jobs, ScheduledExecutionEnd(j) PROVE FuncInv'
  <2>1. \A k \in 1 .. Len(pending') : \E h \in 1 .. Len(pending) : pending'[k] = pending[h]
    BY <1>6, EndCases, DeletedEntries
  <2> QED
    BY <1>2, <1>6, <2>1 DEF ScheduledExecutionEnd
<1>7. ASSUME NEW f \in Funcs, EnableFunction(f) PROVE FuncInv'
  <2>1. /\ enabled' = enabled \union {f} /\ pending' = pending
        /\ excluded' = [excluded EXCEPT ![f] = IF excluded[f] > 0 THEN excluded[f] - 1 ELSE 0]
    BY <1>7 DEF EnableFunction, Command
  <2> QED
    BY <1>2, <2>1 DEF BaseInv, TypeOK
<1>8. ASSUME NEW f \in Funcs, DisableFunction(f) PROVE FuncInv'
  <2>1. /\ enabled' = enabled \ {f} /\ pending' = pending
        /\ excluded' = [excluded EXCEPT ![f] = excluded[f] + 1]
    BY <1>8 DEF DisableFunction, Command
  <2>2. excluded \in [Funcs -> Nat] /\ excluded'[f] > 0
    BY <2>1 DEF BaseInv, TypeOK
  <2> QED
    BY <1>2, <2>1, <2>2
<1> QED
  BY <1>3, <1>4, <1>5, <1>6, <1>7, <1>8
     DEF Next, OnData, DataReturns, FetchLost, CopyGoesStale, vars

(* Nothing is lost from sight when entries go and the loop is at rest.     *)
LEMMA CalmShrink ==
  ASSUME CalmInv, spent["stale"] = 0,
         \A k \in 1 .. Len(pending') : \E h \in 1 .. Len(pending) : pending'[k] = pending[h],
         scan = Idle, UNCHANGED <<cs, delivering, scan>>, sending \subseteq sending'
  PROVE  /\ Fresh' /\ SentOrBelow'
         /\ \A i \in 1 .. Len(pending') : DataComes(pending'[i], cs')
BY DEF CalmInv, Fresh, SentOrBelow, DataComes, Unset

(* The loop goes on below index last: what waits for the name at or below  *)
(* that index is still to be told.                                         *)
LEMMA LoopCovers ==
  ASSUME pending' \in Seq(Entry), NEW n, NEW last \in 0 .. Len(pending'),
         scan' = LoopAt(n, pending', last),
         \A k \in 1 .. Len(pending') : \A m \in Unset(pending'[k]) :
           m \in sending' \/ (m = n /\ k <= last)
  PROVE  SentOrBelow' /\ (scan' # Idle => scan'[1] = n)
<1>1. Len(pending') \in Nat
  OBVIOUS
<1>2. CASE scan' = Idle /\ \A k \in 1 .. last : n \notin DOMAIN pending'[k].args
  <2>1. \A k \in 1 .. Len(pending') : k <= last => n \notin Unset(pending'[k])
    BY <1>1, <1>2 DEF Unset
  <2> QED
    BY <1>2, <2>1 DEF SentOrBelow, Unset
<1>3. CASE \E i \in 1 .. last : /\ scan' = <<n, i>>
                                /\ \A k \in (i + 1) .. last : n \notin DOMAIN pending'[k].args
  <2>1. PICK i \in 1 .. last : /\ scan' = <<n, i>>
                               /\ \A k \in (i + 1) .. last : n \notin DOMAIN pending'[k].args
    BY <1>3
  <2>2. \A k \in 1 .. Len(pending') : k <= last /\ n \in Unset(pending'[k]) => k <= i
    BY <1>1, <2>1 DEF Unset
  <2>3. scan'[1] = n /\ scan'[2] = i /\ scan' # Idle
    BY <2>1 DEF Idle
  <2> QED
    BY <2>2, <2>3 DEF SentOrBelow, Unset
<1> QED
  BY <1>2, <1>3, LoopAtSpec

LEMMA CalmInterest ==
  ASSUME BaseInv, CalmInv, spent["stale"] = 0, NEW j \in Jobs, OnInterest(j)
  PROVE  /\ Fresh' /\ SentOrBelow'
         /\ \A i \in 1 .. Len(pending') : DataComes(pending'[i], cs')
<1> DEFINE debt == owed \union {j}
           e == NewEntry(j, <<>>, enabled)
<1>1. /\ scan = Idle /\ ResolveAndHandleDecisions(j, <<>>, pending, enabled, debt)
      /\ UNCHANGED <<enabled, excluded, cs, delivering, scan, spent>>
  BY DEF OnInterest
<1> USE BaseParts, EmptyFlags
<1>2. CASE UNCHANGED <<sending, inflight>>
           /\ (pending' = pending \/ Deleted(pending, j))
  <2>1. \A k \in 1 .. Len(pending') : \E h \in 1 .. Len(pending) : pending'[k] = pending[h]
    BY <1>2, DeletedEntries
  <2> QED
    BY <1>1, <1>2, <2>1, CalmShrink
<1>3. CASE Fetched(j, <<>>, pending, enabled)
  <2>1. /\ \A k \in 1 .. Len(pending') :
             (\E h \in 1 .. Len(pending) : pending'[k] = pending[h]) \/ pending'[k] = e
        /\ sending' = sending \union FetchList(j, enabled)
        /\ Unset(e) = FetchList(j, enabled)
        /\ DataComes(e, cs)
    BY <1>1, <1>3, ResolvedEntries, NewUnset, NewComes DEF Fetched
  <2> HIDE DEF e
  <2>2. SentOrBelow'
    <3> SUFFICES ASSUME NEW k \in 1 .. Len(pending'), NEW m \in Unset(pending'[k])
                 PROVE  m \in sending'
      BY DEF SentOrBelow, Unset
    <3>1. CASE \E h \in 1 .. Len(pending) : pending'[k] = pending[h]
      BY <1>1, <2>1, <3>1 DEF CalmInv, SentOrBelow
    <3>2. CASE pending'[k] = e
      BY <2>1, <3>2
    <3> QED
      BY <2>1, <3>1, <3>2
  <2>3. ASSUME NEW i \in 1 .. Len(pending') PROVE DataComes(pending'[i], cs')
    BY <1>1, <2>1 DEF CalmInv
  <2>4. Fresh'
    BY <1>1 DEF CalmInv, Fresh
  <2> QED
    BY <2>2, <2>3, <2>4
<1> QED
  BY <1>1, <1>2, <1>3, ResolveCases

LEMMA CalmVisit ==
  ASSUME BaseInv, FuncInv, CalmInv, spent["stale"] = 0, Visit
  PROVE  /\ Fresh' /\ SentOrBelow'
         /\ \A i \in 1 .. Len(pending') : DataComes(pending'[i], cs')
<1> DEFINE i == scan[2]
           n == scan[1]
           t == VisitTable
           j == pending[i].id
<1>1. /\ scan # Idle /\ enabled' = VisitFuncs
      /\ \/ VisitDecides /\ ResolveAndHandleDecisions(j, VisitFlags, t, VisitFuncs, owed)
         \/ pending' = t /\ UNCHANGED <<execVars, sending, inflight, owed>>
      /\ scan' = LoopAt(n, pending', i - 1)
      /\ UNCHANGED <<excluded, cs, delivering, arrived, spent>>
  BY VisitIs
<1>2. /\ t \in Seq(Entry) /\ Len(t) = Len(pending) /\ VisitFlags \in Flags
      /\ i \in 1 .. Len(pending) /\ n \in Fetchable /\ Len(pending) \in Nat
      /\ j \in Jobs /\ VisitFuncs \in SUBSET Funcs
  BY <1>1, BaseParts, ScanIs, VisitTableIs, VisitWaits DEF VisitFuncs
<1>3. /\ \A k \in 1 .. Len(pending) : Unset(t[k]) \subseteq Unset(pending[k])
      /\ Unset(pending[i]) \subseteq Unset(t[i]) \union {n}
      /\ n \notin Unset(t[i])
      /\ \A k \in 1 .. Len(pending) : t[k].id = pending[k].id
      /\ \A k \in 1 .. Len(pending) : FuncComes(t[k], enabled', excluded')
      /\ VisitDecides => Unset(t[i]) = {}
  BY VisitEntries
<1>4. \A k \in 1 .. Len(pending) : k # i => t[k] = pending[k]
  BY <1>1, VisitTableIs
<1>5. \A k \in 1 .. Len(t) : DataComes(t[k], cs)
  <2> SUFFICES ASSUME NEW k \in 1 .. Len(pending) PROVE DataComes(t[k], cs)
    BY <1>2
  <2>1. DataComes(pending[k], cs)
    BY DEF CalmInv
  <2>2. CASE k # i
    BY <1>4, <2>1, <2>2
  <2>3. CASE k = i
    <3>1. ParamsOf[j] \subseteq Data /\ {n} \intersect Data \subseteq cs
      BY <1>1, <1>2, ParamsAssumption DEF CalmInv, Fresh
    <3>2. Unset(pending[k]) \subseteq Unset(t[k]) \union {n} /\ t[k].id = j
      BY <1>3, <2>3
    <3> HIDE DEF n, t
    <3>3. ParamsOf[j] \subseteq cs \union Unset(pending[k])
      BY <2>1, <2>3 DEF DataComes
    <3>4. ParamsOf[j] \subseteq cs \union Unset(t[k])
      BY <3>1, <3>2, <3>3
    <3> QED
      BY <3>2, <3>4 DEF DataComes
  <2> QED
    BY <2>2, <2>3
<1>6. \A k \in 1 .. Len(t) : \A m \in Unset(t[k]) : m \in sending \/ (m = n /\ k <= i - 1)
  <2> SUFFICES ASSUME NEW k \in 1 .. Len(pending), NEW m \in Unset(t[k])
               PROVE  m \in sending \/ (m = n /\ k <= i - 1)
    BY <1>2
  <2>1. m \in Unset(pending[k]) /\ (k = i => m # n)
    BY <1>3
  <2>2. m \in sending \/ (m = n /\ k <= i)
    BY <2>1 DEF CalmInv, SentOrBelow
  <2> QED
    BY <1>2, <2>1, <2>2
<1>7. VisitDecides => GetFetchDecisions(j, VisitFuncs) # "FETCH"
  <2> SUFFICES ASSUME VisitDecides, GetFetchDecisions(j, VisitFuncs) = "FETCH" PROVE FALSE
    OBVIOUS
  <2>1. Unset(t[i]) = {} /\ t[i].id = j /\ DataComes(t[i], cs)
        /\ FuncComes(t[i], enabled', excluded')
    BY <1>2, <1>3, <1>5
  <2>2. ParamsOf[j] \subseteq cs /\ (FuncOf[j] \in VisitFuncs \/ excluded[FuncOf[j]] > 0)
    <3> HIDE DEF t, j, i
    <3> QED
      BY <1>1, <2>1 DEF DataComes, FuncComes
  <2>3. ~ Excluded(FuncOf[j]) /\ (FuncOf[j] \notin VisitFuncs \/ Misses(j) # {})
    BY <1>2, FetchMeansMissing
  <2> QED
    BY <2>2, <2>3 DEF Excluded, Misses
<1>8. (pending' = t \/ Deleted(t, j)) /\ UNCHANGED sending
  <2>1. CASE VisitDecides /\ ResolveAndHandleDecisions(j, VisitFlags, t, VisitFuncs, owed)
    <3>1. ~ Fetched(j, VisitFlags, t, VisitFuncs)
      BY <1>7, <2>1 DEF Fetched
    <3> QED
      BY <1>2, <2>1, <3>1, ResolveCases
  <2> QED
    BY <1>1, <2>1
<1> HIDE DEF t, n, i, j
<1>9. \A k \in 1 .. Len(pending') : \E h \in 1 .. Len(t) : k <= h /\ pending'[k] = t[h]
  <2>1. CASE pending' = t
    <3>1. \A k \in 1 .. Len(t) : k <= k
      BY <1>2
    <3> QED
      BY <2>1, <3>1
  <2>2. CASE Deleted(t, j)
    BY <1>2, <2>2, DeletedEntries
  <2> QED
    BY <1>8, <2>1, <2>2
<1>10. \A k \in 1 .. Len(pending') : DataComes(pending'[k], cs')
  BY <1>1, <1>5, <1>9
<1>11. pending' \in Seq(Entry) /\ i - 1 \in 0 .. Len(pending')
  <2>1. CASE pending' = t
    BY <1>2, <2>1
  <2>2. CASE Deleted(t, j)
    <3>1. PICK d \in 1 .. Len(t) : IsDeletion(pending', t, d)
      BY <2>2 DEF Deleted
    <3> QED
      BY <1>2, <3>1 DEF IsDeletion
  <2> QED
    BY <1>8, <2>1, <2>2
<1>12. \A k \in 1 .. Len(pending') : \A m \in Unset(pending'[k]) :
         m \in sending' \/ (m = n /\ k <= i - 1)
  <2> SUFFICES ASSUME NEW k \in 1 .. Len(pending'), NEW m \in Unset(pending'[k])
               PROVE  m \in sending' \/ (m = n /\ k <= i - 1)
    OBVIOUS
  <2>1. PICK h \in 1 .. Len(t) : k <= h /\ pending'[k] = t[h]
    BY <1>9
  <2>2. m \in sending \/ (m = n /\ h <= i - 1)
    BY <1>6, <2>1
  <2>3. h <= i - 1 => k <= i - 1
    BY <1>2, <1>11, <2>1
  <2> QED
    BY <1>8, <2>2, <2>3
<1>13. SentOrBelow' /\ (scan' # Idle => scan'[1] = n)
  BY <1>1, <1>11, <1>12, LoopCovers
<1>14. Fresh'
  <2>1. {n} \intersect Data \subseteq cs
    BY <1>1 DEF CalmInv, Fresh, n
  <2> QED
    BY <1>1, <1>13, <2>1 DEF CalmInv, Fresh
<1> QED
  BY <1>10, <1>13, <1>14

LEMMA CalmNext == BaseInv /\ WaitInv /\ [Next]_vars => CalmInv'
<1> SUFFICES ASSUME BaseInv, WaitInv, [Next]_vars, spent'["stale"] = 0
             PROVE  /\ Fresh' /\ SentOrBelow'
                    /\ \A i \in 1 .. Len(pending') : DataComes(pending'[i], cs')
  BY DEF CalmInv
<1> DEFINE Goal == /\ Fresh' /\ SentOrBelow'
                   /\ \A i \in 1 .. Len(pending') : DataComes(pending'[i], cs')
<1> USE BaseParts DEF WaitInv
<1>1. spent \in [Disturbances -> Nat] /\ {"stale", "lost", "switch"} \subseteq Disturbances
  BY DEF BaseInv, TypeOK, Disturbances
<1>2. ASSUME NEW kind \in Disturbances, Disturb(kind)
      PROVE  spent["stale"] = 0 /\ kind # "stale"
  <2>1. spent' = [spent EXCEPT ![kind] = spent[kind] + 1]
    BY <1>2 DEF Disturb
  <2>2. spent["stale"] \in Nat /\ spent[kind] \in Nat
    BY <1>1
  <2>3. kind = "stale" => spent'["stale"] = spent["stale"] + 1
    BY <1>1, <2>1
  <2>4. kind # "stale" => spent'["stale"] = spent["stale"]
    BY <1>1, <2>1
  <2> QED
    BY <2>2, <2>3, <2>4
<1>3. ASSUME NEW j \in Jobs, OnInterest(j) PROVE Goal
  <2>1. spent["stale"] = 0
    BY <1>3 DEF OnInterest
  <2> QED
    BY <1>3, <2>1, CalmInterest
<1>4. CASE Visit
  <2>1. spent["stale"] = 0
    BY <1>4 DEF Visit
  <2> QED
    BY <1>4, <2>1, CalmVisit
<1>5. ASSUME NEW j \in Jobs, ScheduledExecutionEnd(j) PROVE Goal
  <2>1. \A k \in 1 .. Len(pending') : \E h \in 1 .. Len(pending) : pending'[k] = pending[h]
    BY <1>5, EndCases, DeletedEntries
  <2>2. scan = Idle /\ UNCHANGED <<sending, cs, delivering, scan, spent>>
    BY <1>5 DEF ScheduledExecutionEnd
  <2> QED
    BY <2>1, <2>2, CalmShrink
<1>6. ASSUME UNCHANGED <<pending, sending, cs, delivering, scan>>, spent["stale"] = 0 PROVE Goal
  BY <1>6 DEF CalmInv, Fresh, SentOrBelow, DataComes, Unset
<1>7. ASSUME NEW n \in Fetchable, OnData(n) PROVE Goal
  <2>1. /\ scan = Idle /\ n \in delivering
        /\ delivering' = delivering \ {n} /\ sending' = sending \ {n}
        /\ scan' = LoopAt(n, pending', Len(pending'))
        /\ UNCHANGED <<pending, cs, spent>>
    BY <1>7 DEF OnData
  <2>2. \A k \in 1 .. Len(pending') : \A m \in Unset(pending'[k]) :
          m \in sending' \/ (m = n /\ k <= Len(pending'))
    BY <2>1 DEF CalmInv, SentOrBelow, Unset
  <2>3. pending' \in Seq(Entry) /\ Len(pending') \in 0 .. Len(pending')
    BY <2>1
  <2>4. SentOrBelow' /\ (scan' # Idle => scan'[1] = n)
    BY <2>1, <2>2, <2>3, LoopCovers
  <2>5. Fresh'
    BY <2>1, <2>4 DEF CalmInv, Fresh
  <2>6. \A i \in 1 .. Len(pending') : DataComes(pending'[i], cs')
    BY <2>1 DEF CalmInv
  <2> QED
    BY <2>4, <2>5, <2>6
<1>8. ASSUME NEW n \in Fetchable, DataReturns(n) PROVE Goal
  <2>1. /\ scan = Idle /\ delivering' = delivering \union {n}
        /\ cs' = cs \union ({n} \intersect Data)
        /\ UNCHANGED <<pending, sending, scan, spent>>
    BY <1>8 DEF DataReturns
  <2>2. Fresh'
    BY <2>1 DEF CalmInv, Fresh
  <2>3. SentOrBelow'
    BY <2>1 DEF CalmInv, SentOrBelow, Unset
  <2>4. \A i \in 1 .. Len(pending') : DataComes(pending'[i], cs')
    BY <2>1 DEF CalmInv, DataComes
  <2> QED
    BY <2>2, <2>3, <2>4
<1>9. ASSUME NEW n \in Fetchable, FetchLost(n) PROVE Goal
  <2>1. spent["stale"] = 0
    BY <1>1, <1>2, <1>9 DEF FetchLost
  <2> QED
    BY <1>6, <1>9, <2>1 DEF FetchLost
<1>10. CASE Command
  <2>1. spent["stale"] = 0
    BY <1>1, <1>2, <1>10 DEF Command
  <2> QED
    BY <1>6, <1>10, <2>1 DEF Command
<1>11. ASSUME NEW d \in Data, CopyGoesStale(d) PROVE Goal
  BY <1>1, <1>2, <1>11 DEF CopyGoesStale
<1>12. CASE UNCHANGED vars
  BY <1>6, <1>12 DEF vars
<1> QED
  BY <1>3, <1>4, <1>5, <1>7, <1>8, <1>9, <1>10, <1>11, <1>12
     DEF Next, EnableFunction, DisableFunction

LEMMA WaitInit == Init => WaitInv
<1> SUFFICES ASSUME Init PROVE WaitInv
  OBVIOUS
<1>1. Len(pending) = 0 /\ scan = Idle /\ delivering = {}
  BY DEF Init
<1> QED
  BY <1>1 DEF WaitInv, FuncInv, CalmInv, Fresh, SentOrBelow

(* Whatever an entry waits for is under way, as long as no cached copy     *)
(* goes stale: fetches may be lost and functions switched at any time.     *)
THEOREM WaitingIsSent == SafetySpec => []WaitedForIsSentWhileFresh
<1>1. BaseInv /\ WaitInv => WaitedForIsSentWhileFresh
  <2> SUFFICES ASSUME BaseInv, WaitInv, spent["stale"] = 0, scan = Idle,
                      NEW i \in 1 .. Len(pending), NEW n \in DOMAIN pending[i].args,
                      ~ pending[i].args[n]
               PROVE  n \in sending
    BY DEF WaitedForIsSent, WaitedForIsSentWhileFresh
  <2>1. n \in Unset(pending[i])
    BY DEF Unset
  <2> QED
    BY <2>1 DEF WaitInv, CalmInv, SentOrBelow
<1>2. BaseInv /\ WaitInv /\ [Next]_vars => WaitInv'
  BY FuncNext, CalmNext DEF WaitInv
<1> QED
  BY <1>1, <1>2, WaitInit, BaseInvariance, PTL DEF SafetySpec
=============================================================================
