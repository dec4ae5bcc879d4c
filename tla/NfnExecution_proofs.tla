------------------------ MODULE NfnExecution_proofs ------------------------
(***************************************************************************)
(* Proofs about NfnExecution, for every set of requests and functions,     *)
(* every capacity and every queue size.                                    *)
(*                                                                         *)
(* The heart is conservation: free resources plus what the running         *)
(* executions have booked is the idle node.  "What they have booked" is a  *)
(* sum over a set.  The induction does without its recursive definition: a *)
(* ledger gives every set of running requests its total, and the total of  *)
(* a set is that of the set without one of its members, whichever it is,   *)
(* plus what this member needs.  Starting and ending an execution extend   *)
(* and restrict a ledger; that what a ledger says is the recursive sum     *)
(* (BookedBy) is shown afterwards, once.                                   *)
(***************************************************************************)
EXTENDS NfnExecution, FiniteSetTheorems, WellFoundedInduction, TLAPS

IsLedger(s, S, r) ==
  /\ s \in [SUBSET S -> Nat]
  /\ s[{}] = 0
  /\ \A T \in SUBSET S : \A x \in T : s[T] = s[T \ {x}] + NeedOf(x)[r]

Balanced(S, avail, r) ==
  \E s : IsLedger(s, S, r) /\ avail + s[S] = Capacity[r]

Conserved == \A r \in Resources : Balanced(running, free[r], r)

-----------------------------------------------------------------------------
(* What a request needs is a natural number, at most the capacity.         *)
LEMMA NeedType ==
  ASSUME NEW j \in Jobs, NEW r \in Resources
  PROVE  /\ NeedOf(j)[r] \in Nat
         /\ Capacity[r] \in Nat
         /\ NeedOf(j)[r] <= Capacity[r]
BY FuncOfAssumption, NeedAssumption, CapacityAssumption, FitsAssumption DEF NeedOf

(* The idle node balances.                                                 *)
LEMMA IdleBalance ==
  ASSUME NEW r \in Resources
  PROVE  Balanced({}, Capacity[r], r)
<1> DEFINE s == [T \in SUBSET {} |-> 0]
<1>1. IsLedger(s, {}, r)
  BY DEF IsLedger
<1>2. Capacity[r] + s[{}] = Capacity[r]
  BY CapacityAssumption
<1> QED
  BY <1>1, <1>2 DEF Balanced

(* A node on which nothing runs has everything free.                       *)
LEMMA IdleIsFree ==
  ASSUME NEW r \in Resources, NEW a \in Nat, Balanced({}, a, r)
  PROVE  a = Capacity[r]
BY CapacityAssumption DEF Balanced, IsLedger

(* Booking keeps the balance.                                              *)
LEMMA BookBalance ==
  ASSUME NEW r \in Resources, NEW S \in SUBSET Jobs, NEW j \in Jobs \ S,
         NEW a \in Nat, Balanced(S, a, r), a >= NeedOf(j)[r]
  PROVE  Balanced(S \union {j}, a - NeedOf(j)[r], r)
<1>1. PICK s : IsLedger(s, S, r) /\ a + s[S] = Capacity[r]
  BY DEF Balanced
<1> DEFINE n == NeedOf(j)[r]
           SJ == S \union {j}
           t == [T \in SUBSET SJ |-> IF j \in T THEN s[T \ {j}] + n ELSE s[T]]
<1>2. n \in Nat
  BY NeedType
<1>3. s \in [SUBSET S -> Nat] /\ s[{}] = 0
  BY <1>1 DEF IsLedger
<1>4. t \in [SUBSET SJ -> Nat]
  <2>1. ASSUME NEW T \in SUBSET SJ
        PROVE  (IF j \in T THEN s[T \ {j}] + n ELSE s[T]) \in Nat
    <3>1. CASE j \in T
      <4>1. T \ {j} \in SUBSET S
        OBVIOUS
      <4> QED
        BY <3>1, <4>1, <1>2, <1>3
    <3>2. CASE j \notin T
      <4>1. T \in SUBSET S
        BY <3>2
      <4> QED
        BY <3>2, <4>1, <1>3
    <3> QED
      BY <3>1, <3>2
  <2> QED
    BY <2>1
<1>5. t[{}] = 0
  BY <1>3
<1>6. ASSUME NEW T \in SUBSET SJ, NEW x \in T
      PROVE  t[T] = t[T \ {x}] + NeedOf(x)[r]
  <2>1. NeedOf(x)[r] \in Nat
    BY NeedType
  <2>2. CASE x = j
    <3>1. t[T] = s[T \ {j}] + n
      BY <2>2
    <3>2. t[T \ {x}] = s[T \ {j}]
      BY <2>2
    <3> QED
      BY <3>1, <3>2, <2>2
  <2>3. CASE x # j /\ j \notin T
    <3>1. T \in SUBSET S /\ T \ {x} \in SUBSET SJ
      BY <2>3
    <3>2. t[T] = s[T] /\ t[T \ {x}] = s[T \ {x}]
      BY <3>1, <2>3
    <3> QED
      BY <3>1, <3>2, <1>1 DEF IsLedger
  <2>4. CASE x # j /\ j \in T
    <3> DEFINE U == T \ {j}
    <3>1. U \in SUBSET S /\ x \in U /\ U \ {x} \in SUBSET S /\ T \ {x} \in SUBSET SJ
      BY <2>4
    <3>2. (T \ {x}) \ {j} = U \ {x} /\ j \in T \ {x}
      BY <2>4
    <3>3. t[T] = s[U] + n /\ t[T \ {x}] = s[U \ {x}] + n
      BY <3>1, <3>2, <2>4
    <3>4. s[U] = s[U \ {x}] + NeedOf(x)[r] /\ s[U \ {x}] \in Nat
      BY <3>1, <1>1, <1>3 DEF IsLedger
    <3> HIDE DEF U, t
    <3> QED
      BY <3>3, <3>4, <2>1, <1>2
  <2> QED
    BY <2>2, <2>3, <2>4
<1>7. IsLedger(t, SJ, r)
  BY <1>4, <1>5, <1>6 DEF IsLedger
<1>8. t[SJ] = s[S] + n
  <2>1. SJ \ {j} = S
    OBVIOUS
  <2> QED
    BY <2>1
<1>9. (a - n) + t[SJ] = Capacity[r]
  <2>1. s[S] \in Nat
    BY <1>3
  <2> HIDE DEF t
  <2> QED
    BY <2>1, <1>1, <1>2, <1>8, CapacityAssumption
<1> HIDE DEF t
<1> QED
  BY <1>7, <1>9 DEF Balanced

(* Releasing keeps the balance.                                            *)
LEMMA ReleaseBalance ==
  ASSUME NEW r \in Resources, NEW S \in SUBSET Jobs, NEW j \in S,
         NEW a \in Nat, Balanced(S, a, r)
  PROVE  Balanced(S \ {j}, a + NeedOf(j)[r], r)
<1>1. PICK s : IsLedger(s, S, r) /\ a + s[S] = Capacity[r]
  BY DEF Balanced
<1> DEFINE n == NeedOf(j)[r]
           SJ == S \ {j}
           t == [T \in SUBSET SJ |-> s[T]]
<1>2. n \in Nat /\ s[S] = s[SJ] + n /\ s[SJ] \in Nat
  BY <1>1, NeedType DEF IsLedger
<1>3. IsLedger(t, SJ, r)
  <2>1. t \in [SUBSET SJ -> Nat] /\ t[{}] = 0
    BY <1>1 DEF IsLedger
  <2>2. ASSUME NEW T \in SUBSET SJ, NEW x \in T
        PROVE  t[T] = t[T \ {x}] + NeedOf(x)[r]
    <3>1. T \in SUBSET S /\ T \ {x} \in SUBSET SJ
      OBVIOUS
    <3> QED
      BY <3>1, <1>1 DEF IsLedger
  <2> QED
    BY <2>1, <2>2 DEF IsLedger
<1>4. t[SJ] = s[SJ]
  OBVIOUS
<1> HIDE DEF t
<1>5. (a + n) + t[SJ] = Capacity[r]
  BY <1>1, <1>2, <1>4
<1> QED
  BY <1>3, <1>5 DEF Balanced

-----------------------------------------------------------------------------
(* The inductive invariant of the resources and the queue.                 *)
ExecInv ==
  /\ TypeOK
  /\ QueueFillMatches
  /\ Conserved
  /\ NoStrandedQueue

LEMMA ExecInvInit == Init => ExecInv
<1> SUFFICES ASSUME Init PROVE ExecInv
  OBVIOUS
<1>1. TypeOK
  <2>1. free \in [Resources -> Nat] /\ queueFill \in 0 .. QueueSize
    BY CapacityAssumption, QueueSizeAssumption DEF Init
  <2>2. fullTimer \in BOOLEAN /\ emptyTimer \in BOOLEAN
    BY DEF Init
  <2>3. nodeBusy \in Nat
    BY GarbageAssumption DEF Init
  <2>4. running \in SUBSET Jobs /\ answered \in SUBSET Jobs /\ forwarded \in SUBSET Jobs
        /\ waitingList \in Seq(Jobs)
    BY DEF Init
  <2> QED
    BY <2>1, <2>2, <2>3, <2>4 DEF TypeOK
<1>2. QueueFillMatches /\ NoStrandedQueue
  BY DEF Init, QueueFillMatches, NoStrandedQueue
<1>3. Conserved
  BY IdleBalance DEF Init, Conserved
<1> QED
  BY <1>1, <1>2, <1>3 DEF ExecInv

(* Booking and releasing stay within the natural numbers.                  *)
LEMMA BookedType ==
  ASSUME NEW j \in Jobs, NEW a \in [Resources -> Nat], CheckResource(a, j)
  PROVE  Booked(a, j) \in [Resources -> Nat]
<1>1. ASSUME NEW r \in Resources PROVE a[r] - NeedOf(j)[r] \in Nat
  <2>1. a[r] \in Nat /\ NeedOf(j)[r] \in Nat /\ a[r] >= NeedOf(j)[r]
    BY NeedType DEF CheckResource
  <2> QED
    BY <2>1
<1> QED
  BY <1>1 DEF Booked

LEMMA ReleasedType ==
  ASSUME NEW j \in Jobs, NEW a \in [Resources -> Nat]
  PROVE  Released(a, j) \in [Resources -> Nat]
<1>1. ASSUME NEW r \in Resources PROVE a[r] + NeedOf(j)[r] \in Nat
  BY NeedType
<1> QED
  BY <1>1 DEF Released

(* A request that does not fit meets a node that is busy: every request    *)
(* fits on the idle one.                                                   *)
LEMMA BlockedMeansBusy ==
  ASSUME NEW S \in SUBSET Jobs, NEW a \in [Resources -> Nat], NEW j \in Jobs,
         \A r \in Resources : Balanced(S, a[r], r),
         ~ CheckResource(a, j)
  PROVE  S # {}
<1> SUFFICES ASSUME S = {} PROVE CheckResource(a, j)
  OBVIOUS
<1>1. ASSUME NEW r \in Resources PROVE a[r] >= NeedOf(j)[r]
  <2>1. a[r] = Capacity[r]
    BY IdleIsFree
  <2> QED
    BY <2>1, NeedType
<1> QED
  BY <1>1 DEF CheckResource

LEMMA RunNowInv ==
  ASSUME ExecInv, NEW j \in Jobs, j \notin Resolved, RunNow(j)
  PROVE  ExecInv'
<1> USE DEF ExecInv
<1>1. TypeOK'
  BY BookedType DEF RunNow, TypeOK, queueVars
<1>2. QueueFillMatches'
  BY DEF RunNow, QueueFillMatches, queueVars
<1>3. Conserved'
  <2> SUFFICES ASSUME NEW r \in Resources
               PROVE  Balanced(running \union {j}, free[r] - NeedOf(j)[r], r)
    BY DEF RunNow, Conserved, Booked, TypeOK
  <2>1. free[r] \in Nat /\ running \in SUBSET Jobs /\ j \in Jobs \ running
    BY DEF TypeOK, Resolved
  <2>2. Balanced(running, free[r], r) /\ free[r] >= NeedOf(j)[r]
    BY DEF Conserved, RunNow, CheckResource
  <2> QED
    BY <2>1, <2>2, BookBalance
<1>4. NoStrandedQueue'
  BY DEF RunNow, NoStrandedQueue, queueVars
<1> QED
  BY <1>1, <1>2, <1>3, <1>4

LEMMA EnqueueInv ==
  ASSUME ExecInv, NEW j \in Jobs, Enqueue(j)
  PROVE  ExecInv'
<1> USE DEF ExecInv
<1>1. queueFill' = queueFill + 1 /\ queueFill' \in 0 .. QueueSize
  BY QueueSizeAssumption DEF Enqueue, IncrementQueueFill, IsQueueFull, TypeOK
<1>2. TypeOK'
  <2>1. emptyTimer' \in BOOLEAN /\ fullTimer' \in BOOLEAN
    BY DEF Enqueue, IncrementQueueFill, TypeOK
  <2> QED
    BY <1>1, <2>1 DEF Enqueue, TypeOK
<1>3. QueueFillMatches'
  BY <1>1 DEF Enqueue, QueueFillMatches, TypeOK
<1>4. Conserved'
  BY DEF Enqueue, Conserved
<1>5. NoStrandedQueue'
  <2>1. running # {}
    BY BlockedMeansBusy DEF Enqueue, Conserved, TypeOK
  <2> QED
    BY <2>1 DEF Enqueue, NoStrandedQueue
<1> QED
  BY <1>2, <1>3, <1>4, <1>5

LEMMA ForwardBusyInv ==
  ASSUME ExecInv, NEW j \in Jobs, ForwardBusy(j)
  PROVE  ExecInv'
BY DEF ExecInv, ForwardBusy, TypeOK, QueueFillMatches, Conserved, NoStrandedQueue, queueVars

LEMMA ResetInv == ExecInv /\ ResetNodeBusyCounter => ExecInv'
BY DEF ExecInv, ResetNodeBusyCounter, TypeOK, QueueFillMatches, Conserved,
       NoStrandedQueue, queueVars

LEMMA AskAgainInv ==
  ASSUME ExecInv, NEW j \in Jobs, AskAgain(j)
  PROVE  ExecInv'
BY DEF ExecInv, AskAgain, TypeOK, QueueFillMatches, Conserved, NoStrandedQueue, queueVars

(* The end of an execution, the one step that takes from the queue.        *)
LEMMA ScheduledExecutionEndInv ==
  ASSUME ExecInv, NEW j \in Jobs, j \notin Queued, ScheduledExecutionEnd(j),
         running \intersect Queued = {}
  PROVE  ExecInv'
<1> USE DEF ExecInv
<1> DEFINE avail == Released(free, j)
           rest  == running \ {j}
<1>1. avail \in [Resources -> Nat] /\ rest \in SUBSET Jobs /\ j \in running
  BY ReleasedType DEF TypeOK, ScheduledExecutionEnd
<1>2. \A r \in Resources : Balanced(rest, avail[r], r)
  <2> SUFFICES ASSUME NEW r \in Resources
               PROVE  Balanced(rest, free[r] + NeedOf(j)[r], r)
    BY DEF Released
  <2>1. free[r] \in Nat /\ running \in SUBSET Jobs /\ Balanced(running, free[r], r)
    BY DEF TypeOK, Conserved
  <2> QED
    BY <2>1, <1>1, ReleaseBalance
<1> HIDE DEF avail
<1>3. CASE StartsHead(avail)
  <2> DEFINE h == Head(waitingList)
  <2>1. /\ queueFill' = queueFill - 1
        /\ queueFill' \in 0 .. QueueSize
        /\ fullTimer' \in BOOLEAN /\ emptyTimer' = emptyTimer
        /\ waitingList # <<>>
    <3>1. DecrementQueueFill
      BY <1>3 DEF ScheduledExecutionEnd, avail
    <3>2. queueFill \in 1 .. QueueSize /\ waitingList # <<>>
      BY <1>3, QueueSizeAssumption DEF StartsHead, IsQueueEmpty, QueueFillMatches, TypeOK
    <3>3. queueFill' = queueFill - 1 /\ queueFill' \in 0 .. QueueSize
      BY <3>1, <3>2, QueueSizeAssumption DEF DecrementQueueFill
    <3>4. fullTimer' = FALSE /\ emptyTimer' = emptyTimer
      <4>1. queueFill > 0
        BY <3>2, QueueSizeAssumption
      <4> QED
        BY <3>1, <4>1, Zenon DEF DecrementQueueFill
    <3> QED
      BY <3>2, <3>3, <3>4
  <2>2. /\ waitingList' = Tail(waitingList)
        /\ free' = Booked(avail, h)
        /\ running' = rest \union {h}
        /\ answered' = answered \union {j}
        /\ UNCHANGED <<nodeBusy, forwarded>>
    BY <1>3 DEF ScheduledExecutionEnd, avail
  <2>3. h \in Jobs /\ h \in Queued /\ waitingList' \in Seq(Jobs)
                  /\ Len(waitingList') = Len(waitingList) - 1
    <3>1. Len(waitingList) \in Nat \ {0} /\ h = waitingList[1]
      BY <2>1 DEF TypeOK
    <3> QED
      BY <2>1, <2>2, <3>1 DEF TypeOK, Queued
  <2>4. h \notin rest /\ CheckResource(avail, h)
    BY <2>3, <1>3 DEF StartsHead
  <2>5. TypeOK'
    <3>1. free' \in [Resources -> Nat]
      BY <2>2, <2>3, <2>4, <1>1, BookedType
    <3> QED
      BY <2>1, <2>2, <2>3, <3>1, <1>1 DEF TypeOK
  <2>6. QueueFillMatches'
    BY <2>1, <2>3 DEF QueueFillMatches, TypeOK
  <2>7. Conserved'
    <3> SUFFICES ASSUME NEW r \in Resources
                 PROVE  Balanced(rest \union {h}, avail[r] - NeedOf(h)[r], r)
      BY <2>2 DEF Conserved, Booked
    <3>1. avail[r] \in Nat /\ avail[r] >= NeedOf(h)[r] /\ h \in Jobs \ rest
      BY <1>1, <2>3, <2>4 DEF CheckResource
    <3> QED
      BY <3>1, <1>1, <1>2, BookBalance
  <2>8. NoStrandedQueue'
    BY <2>2 DEF NoStrandedQueue
  <2> QED
    BY <2>5, <2>6, <2>7, <2>8
<1>4. CASE ~ StartsHead(avail)
  <2>1. /\ free' = avail
        /\ running' = rest
        /\ answered' = answered \union {j}
        /\ UNCHANGED <<waitingList, queueFill, fullTimer, emptyTimer, nodeBusy, forwarded>>
    BY <1>4 DEF ScheduledExecutionEnd, queueVars, avail
  <2>2. TypeOK'
    BY <2>1, <1>1 DEF TypeOK
  <2>3. QueueFillMatches'
    BY <2>1 DEF QueueFillMatches
  <2>4. Conserved'
    BY <2>1, <1>2 DEF Conserved
  <2>5. NoStrandedQueue'
    <3> SUFFICES ASSUME waitingList # <<>> PROVE rest # {}
      BY <2>1 DEF NoStrandedQueue
    <3>1. queueFill # 0 /\ Head(waitingList) \in Jobs
      BY DEF QueueFillMatches, TypeOK
    <3>2. ~ CheckResource(avail, Head(waitingList))
      BY <3>1, <1>4 DEF StartsHead, IsQueueEmpty
    <3> QED
      BY <3>1, <3>2, <1>1, <1>2, BlockedMeansBusy
  <2> QED
    BY <2>2, <2>3, <2>4, <2>5
<1> QED
  BY <1>3, <1>4

-----------------------------------------------------------------------------
(* The requests in the queue, after an append and after a pop.             *)
Distinct == \A i, k \in 1 .. Len(waitingList) : waitingList[i] = waitingList[k] => i = k

LEMMA AppendQueued ==
  ASSUME waitingList \in Seq(Jobs), NEW j \in Jobs \ Queued, Distinct,
         waitingList' = Append(waitingList, j)
  PROVE  Queued' = Queued \union {j} /\ Distinct'
<1> DEFINE n == Len(waitingList)
<1>1. n \in Nat /\ Len(waitingList') = n + 1
  OBVIOUS
<1>2. waitingList'[n + 1] = j /\ \A i \in 1 .. n : waitingList'[i] = waitingList[i]
  OBVIOUS
<1>3. Queued' = Queued \union {j}
  BY <1>1, <1>2 DEF Queued
<1>4. Distinct'
  <2> SUFFICES ASSUME NEW i \in 1 .. (n + 1), NEW k \in 1 .. (n + 1),
                      waitingList'[i] = waitingList'[k]
               PROVE  i = k
    BY <1>1 DEF Distinct
  <2>1. CASE i \in 1 .. n /\ k \in 1 .. n
    BY <2>1, <1>2 DEF Distinct
  <2>2. CASE i = n + 1 /\ k \in 1 .. n
    BY <2>2, <1>2 DEF Queued
  <2>3. CASE i \in 1 .. n /\ k = n + 1
    BY <2>3, <1>2 DEF Queued
  <2>4. CASE i = n + 1 /\ k = n + 1
    BY <2>4
  <2> QED
    BY <1>1, <2>1, <2>2, <2>3, <2>4
<1> QED
  BY <1>3, <1>4

LEMMA TailQueued ==
  ASSUME waitingList \in Seq(Jobs), waitingList # <<>>, Distinct,
         waitingList' = Tail(waitingList)
  PROVE  /\ Head(waitingList) \in Queued
         /\ Queued' = Queued \ {Head(waitingList)}
         /\ Distinct'
<1> DEFINE n == Len(waitingList)
<1>1. n \in Nat \ {0} /\ Len(waitingList') = n - 1 /\ Head(waitingList) = waitingList[1]
  OBVIOUS
<1>2. \A i \in 1 .. (n - 1) : waitingList'[i] = waitingList[i + 1]
  OBVIOUS
<1>3. Head(waitingList) \in Queued
  BY <1>1 DEF Queued
<1>4. Queued' = Queued \ {Head(waitingList)}
  <2>1. ASSUME NEW x \in Queued' PROVE x \in Queued \ {Head(waitingList)}
    <3>1. PICK i \in 1 .. (n - 1) : x = waitingList'[i]
      BY <1>1 DEF Queued
    <3>2. x = waitingList[i + 1] /\ i + 1 \in 1 .. n /\ i + 1 # 1
      BY <3>1, <1>1, <1>2
    <3>3. x # waitingList[1]
      BY <3>2, <1>1 DEF Distinct
    <3> QED
      BY <3>2, <3>3, <1>1 DEF Queued
  <2>2. ASSUME NEW x \in Queued \ {Head(waitingList)} PROVE x \in Queued'
    <3>1. PICK i \in 1 .. n : x = waitingList[i]
      BY DEF Queued
    <3>2. i # 1 /\ i - 1 \in 1 .. (n - 1)
      BY <3>1, <1>1
    <3>3. x = waitingList'[i - 1]
      BY <3>1, <3>2, <1>1, <1>2
    <3> QED
      BY <3>2, <3>3, <1>1 DEF Queued
  <2> QED
    BY <2>1, <2>2
<1>5. Distinct'
  <2> SUFFICES ASSUME NEW i \in 1 .. (n - 1), NEW k \in 1 .. (n - 1),
                      waitingList'[i] = waitingList'[k]
               PROVE  i = k
    BY <1>1 DEF Distinct
  <2>1. waitingList[i + 1] = waitingList[k + 1] /\ i + 1 \in 1 .. n /\ k + 1 \in 1 .. n
    BY <1>1, <1>2
  <2>2. i + 1 = k + 1
    BY <2>1 DEF Distinct
  <2> QED
    BY <2>2
<1> QED
  BY <1>3, <1>4, <1>5

-----------------------------------------------------------------------------
(* The full inductive invariant, and the effect of every step on the       *)
(* places a request can be in.                                             *)
IInv == ExecInv /\ OneFate

LEMMA QueueStep ==
  ASSUME IInv, NEW j \in Jobs, ScheduledExecutionEnd(j), StartsHead(Released(free, j))
  PROVE  /\ Head(waitingList) \in Queued
         /\ Queued' = Queued \ {Head(waitingList)}
         /\ running' = (running \ {j}) \union {Head(waitingList)}
         /\ answered' = answered \union {j}
         /\ forwarded' = forwarded
         /\ Distinct'
<1>1. waitingList # <<>> /\ waitingList \in Seq(Jobs) /\ Distinct
  BY DEF IInv, ExecInv, QueueFillMatches, StartsHead, IsQueueEmpty, TypeOK, OneFate, Distinct
<1>2. /\ waitingList' = Tail(waitingList)
      /\ running' = (running \ {j}) \union {Head(waitingList)}
      /\ answered' = answered \union {j}
      /\ forwarded' = forwarded
  BY DEF ScheduledExecutionEnd
<1> QED
  BY <1>1, <1>2, TailQueued

LEMMA OneFateExecute ==
  ASSUME IInv, NEW j \in Jobs, Execute(j)
  PROVE  OneFate'
<1>1. waitingList \in Seq(Jobs) /\ Distinct /\ j \notin Resolved
  BY DEF IInv, ExecInv, TypeOK, OneFate, Distinct, Execute
<1>2. CASE RunNow(j)
  BY <1>1, <1>2 DEF IInv, OneFate, RunNow, queueVars, Resolved, Queued
<1>3. CASE Enqueue(j)
  <2>1. Queued' = Queued \union {j} /\ Distinct'
    BY <1>1, <1>3, AppendQueued DEF Enqueue, Resolved
  <2>2. UNCHANGED <<running, answered, forwarded>>
    BY <1>3 DEF Enqueue
  <2> QED
    BY <2>1, <2>2, <1>1 DEF IInv, OneFate, Distinct, Resolved
<1>4. CASE ForwardBusy(j)
  BY <1>1, <1>4 DEF IInv, OneFate, ForwardBusy, queueVars, Resolved, Queued
<1> QED
  BY <1>2, <1>3, <1>4 DEF Execute

LEMMA OneFateEnd ==
  ASSUME IInv, NEW j \in Jobs, ScheduledExecutionEnd(j)
  PROVE  OneFate'
<1>1. j \in running
  BY DEF ScheduledExecutionEnd
<1>2. CASE StartsHead(Released(free, j))
  <2>1. /\ Head(waitingList) \in Queued
        /\ Queued' = Queued \ {Head(waitingList)}
        /\ running' = (running \ {j}) \union {Head(waitingList)}
        /\ answered' = answered \union {j}
        /\ forwarded' = forwarded
        /\ Distinct'
    BY <1>2, QueueStep
  <2> QED
    BY <2>1, <1>1 DEF IInv, OneFate, Distinct
<1>3. CASE ~ StartsHead(Released(free, j))
  <2>1. /\ running' = running \ {j}
        /\ answered' = answered \union {j}
        /\ UNCHANGED <<waitingList, forwarded>>
    BY <1>3 DEF ScheduledExecutionEnd, queueVars
  <2> QED
    BY <2>1, <1>1 DEF IInv, OneFate, Queued
<1> QED
  BY <1>2, <1>3

LEMMA IInvInit == Init => IInv
<1>1. Init => OneFate
  BY DEF Init, OneFate, Queued
<1> QED
  BY <1>1, ExecInvInit DEF IInv

LEMMA IInvNext == IInv /\ [Next]_vars => IInv'
<1> SUFFICES ASSUME IInv, [Next]_vars PROVE IInv'
  OBVIOUS
<1>1. ASSUME NEW j \in Jobs, Execute(j) PROVE IInv'
  BY <1>1, OneFateExecute, RunNowInv, EnqueueInv, ForwardBusyInv DEF Execute, IInv
<1>2. ASSUME NEW j \in Jobs, ScheduledExecutionEnd(j) PROVE IInv'
  <2>1. j \notin Queued /\ running \intersect Queued = {}
    BY <1>2 DEF ScheduledExecutionEnd, IInv, OneFate
  <2> QED
    BY <1>2, <2>1, OneFateEnd, ScheduledExecutionEndInv DEF IInv
<1>3. CASE ResetNodeBusyCounter
  <2>1. OneFate'
    BY <1>3 DEF ResetNodeBusyCounter, IInv, OneFate, Queued, queueVars
  <2> QED
    BY <1>3, <2>1, ResetInv DEF IInv
<1>4. CASE UNCHANGED vars
  BY <1>4 DEF vars, queueVars, IInv, ExecInv, TypeOK, QueueFillMatches, Conserved,
              NoStrandedQueue, OneFate, Queued
<1>5. ASSUME NEW j \in Jobs, AskAgain(j) PROVE IInv'
  <2>1. OneFate'
    BY <1>5 DEF AskAgain, IInv, OneFate, Queued, queueVars
  <2> QED
    BY <1>5, <2>1, AskAgainInv DEF IInv
<1> QED
  BY <1>1, <1>2, <1>3, <1>4, <1>5 DEF Next

(* The inductive invariant holds in every state of the node.               *)
THEOREM Invariance == Spec => []IInv
BY IInvInit, IInvNext, PTL DEF Spec, SafetySpec

-----------------------------------------------------------------------------
(* The node's RAM and core counters never go below zero, and every         *)
(* variable keeps its type.                                                *)
THEOREM TypeCorrect == Spec => []TypeOK
<1>1. IInv => TypeOK
  BY DEF IInv, ExecInv
<1> QED
  BY <1>1, Invariance, PTL

(* Node and application agree on the length of the queue, so front() is    *)
(* only taken of a queue that has one.                                     *)
THEOREM QueueFillCorrect == Spec => []QueueFillMatches
<1>1. IInv => QueueFillMatches
  BY DEF IInv, ExecInv
<1> QED
  BY <1>1, Invariance, PTL

(* No request is left waiting on a node that runs nothing.                 *)
THEOREM QueueNeverStranded == Spec => []NoStrandedQueue
<1>1. IInv => NoStrandedQueue
  BY DEF IInv, ExecInv
<1> QED
  BY <1>1, Invariance, PTL

(* A request is in one place only.                                         *)
THEOREM OneFateOnly == Spec => []OneFate
<1>1. IInv => OneFate
  BY DEF IInv
<1> QED
  BY <1>1, Invariance, PTL

-----------------------------------------------------------------------------
(* What a ledger says of a finite set is the sum that BookedBy defines.    *)

(* A set of numbers has a smallest member.                                 *)
LEMMA LeastExists ==
  ASSUME NEW S \in SUBSET Nat, S # {}
  PROVE  \E x \in S : \A y \in S : x <= y
<1> DEFINE R == OpToRel(<, Nat)
<1>1. IsWellFoundedOn(R, Nat)
  BY NatLessThanWellFounded
<1> HIDE DEF R
<1>2. PICK x \in S : \A y \in S : ~ (<<y, x>> \in R)
  BY <1>1, WFMin
<1>3. ASSUME NEW y \in S PROVE x <= y
  <2>1. <<y, x>> \notin R /\ y \in Nat /\ x \in Nat
    BY <1>2
  <2>2. ~ (y < x)
    BY <2>1 DEF R, OpToRel
  <2> QED
    BY <2>1, <2>2
<1> QED
  BY <1>3

(* A smallest set on which the two differed would have a member; without   *)
(* it they agree, and so they do with it.                                  *)
LEMMA LedgerIsSum ==
  ASSUME NEW S, IsFiniteSet(S), NEW r, NEW s, IsLedger(s, S, r)
  PROVE  BookedBy(S, r) = s[S]
<1> DEFINE Sums(t) ==
             t = [T \in SUBSET S |->
                    IF T = {} THEN 0
                    ELSE LET j == CHOOSE j \in T : TRUE IN t[T \ {j}] + NeedOf(j)[r]]
           sum == CHOOSE t : Sums(t)
           Differ == {T \in SUBSET S : sum[T] # s[T]}
           Sizes == {Cardinality(T) : T \in Differ}
<1>1. Sums(s)
  <2>1. \A T \in SUBSET S : T # {} => (CHOOSE j \in T : TRUE) \in T
    OBVIOUS
  <2> QED
    BY <2>1 DEF IsLedger
<1>2. BookedBy(S, r) = sum[S]
  BY DEF BookedBy
<1>3. Sums(sum)
  BY <1>1
<1>4. sum[{}] = s[{}]
  BY <1>3 DEF IsLedger
<1>5. ASSUME NEW T \in SUBSET S, T # {}
      PROVE  \E j \in T : /\ sum[T] = sum[T \ {j}] + NeedOf(j)[r]
                          /\ s[T] = s[T \ {j}] + NeedOf(j)[r]
  <2> DEFINE j == CHOOSE j \in T : TRUE
  <2>1. j \in T
    BY <1>5
  <2>2. sum[T] = sum[T \ {j}] + NeedOf(j)[r]
    BY <1>3, <1>5
  <2>3. s[T] = s[T \ {j}] + NeedOf(j)[r]
    BY <2>1 DEF IsLedger
  <2> QED
    BY <2>1, <2>2, <2>3
<1> HIDE DEF sum, Sums
<1>6. Differ = {}
  <2> SUFFICES ASSUME Differ # {} PROVE FALSE
    OBVIOUS
  <2>1. \A T \in Differ : IsFiniteSet(T) /\ Cardinality(T) \in Nat
    BY FS_Subset, FS_CardinalityType
  <2>2. Sizes \in SUBSET Nat /\ Sizes # {}
    BY <2>1
  <2>3. PICK c \in Sizes : \A d \in Sizes : c <= d
    BY <2>2, LeastExists
  <2>4. PICK T \in Differ : c = Cardinality(T)
    OBVIOUS
  <2>5. T \in SUBSET S /\ T # {} /\ sum[T] # s[T]
    BY <1>4
  <2>6. PICK j \in T : /\ sum[T] = sum[T \ {j}] + NeedOf(j)[r]
                       /\ s[T] = s[T \ {j}] + NeedOf(j)[r]
    BY <1>5, <2>5
  <2>7. T \ {j} \in Differ
    BY <2>5, <2>6
  <2>8. Cardinality(T \ {j}) = c - 1 /\ c \in Nat
    BY <2>1, <2>4, FS_RemoveElement
  <2>9. c <= c - 1
    BY <2>3, <2>7, <2>8
  <2> QED
    BY <2>8, <2>9
<1> QED
  BY <1>2, <1>6

(* Finitely many executions run at any time: each step starts at most one. *)
FinitelyMany == IsFiniteSet(running)

LEMMA RunningStaysFinite == FinitelyMany /\ [Next]_vars => FinitelyMany'
<1> SUFFICES ASSUME IsFiniteSet(running), [Next]_vars PROVE IsFiniteSet(running')
  BY DEF FinitelyMany
<1>1. \A x : /\ IsFiniteSet(running \union {x})
             /\ IsFiniteSet(running \ {x})
             /\ \A y : IsFiniteSet((running \ {x}) \union {y})
  BY FS_AddElement, FS_RemoveElement
<1>2. ASSUME NEW j \in Jobs, Execute(j) PROVE IsFiniteSet(running')
  <2>1. running' = running \/ running' = running \union {j}
    BY <1>2 DEF Execute, RunNow, Enqueue, ForwardBusy
  <2> QED
    BY <1>1, <2>1
<1>3. ASSUME NEW j \in Jobs, ScheduledExecutionEnd(j) PROVE IsFiniteSet(running')
  <2>1. \/ running' = running \ {j}
        \/ running' = (running \ {j}) \union {Head(waitingList)}
    BY <1>3 DEF ScheduledExecutionEnd
  <2> QED
    BY <1>1, <2>1
<1>4. ResetNodeBusyCounter \/ (\E j \in Jobs : AskAgain(j)) \/ UNCHANGED vars
        => running' = running
  BY DEF ResetNodeBusyCounter, AskAgain, vars
<1> QED
  BY <1>2, <1>3, <1>4 DEF Next

(* Whatever is started, queued, overtaken and ended in whatever order, what *)
(* is free and what is booked are together the idle node.                  *)
THEOREM ResourcesAreConserved == Spec => []ResourcesConserved
<1>1. Init => FinitelyMany
  BY FS_EmptySet DEF Init, FinitelyMany
<1>2. IInv /\ FinitelyMany => ResourcesConserved
  <2> SUFFICES ASSUME IInv, FinitelyMany, NEW r \in Resources
               PROVE  free[r] + BookedBy(running, r) = Capacity[r]
    BY DEF ResourcesConserved
  <2>1. PICK s : IsLedger(s, running, r) /\ free[r] + s[running] = Capacity[r]
    BY DEF IInv, ExecInv, Conserved, Balanced
  <2> QED
    BY <2>1, LedgerIsSum DEF FinitelyMany
<1> QED
  BY <1>1, <1>2, RunningStaysFinite, Invariance, PTL DEF Spec, SafetySpec

-----------------------------------------------------------------------------
(* The node implements the abstract request service.                       *)
LEMMA ServiceStep == IInv /\ [Next]_vars => [Service!Next]_(Service!vars)
<1> SUFFICES ASSUME IInv, [Next]_vars PROVE [Service!Next]_(Service!vars)
  OBVIOUS
<1> USE DEF Service!Next, Service!vars, Service!Accept, Service!HandOn, Service!Answer,
            Service!Renew, Service!Offered
<1>1. ASSUME NEW j \in Jobs, Execute(j) PROVE Service!Next
  <2>1. j \notin Resolved /\ waitingList \in Seq(Jobs) /\ Distinct
    BY <1>1 DEF Execute, IInv, ExecInv, TypeOK, OneFate, Distinct
  <2>2. CASE RunNow(j)
    <3>1. Service!Accept(j)
      BY <2>1, <2>2 DEF RunNow, queueVars, Queued, Resolved
    <3> QED
      BY <3>1
  <2>3. CASE Enqueue(j)
    <3>1. Queued' = Queued \union {j}
      BY <2>1, <2>3, AppendQueued DEF Enqueue, Resolved
    <3>2. Service!Accept(j)
      BY <2>1, <2>3, <3>1 DEF Enqueue, Resolved
    <3> QED
      BY <3>2
  <2>4. CASE ForwardBusy(j)
    <3>1. Service!HandOn(j)
      BY <2>1, <2>4 DEF ForwardBusy, queueVars, Queued, Resolved
    <3> QED
      BY <3>1
  <2> QED
    BY <1>1, <2>2, <2>3, <2>4 DEF Execute
<1>2. ASSUME NEW j \in Jobs, ScheduledExecutionEnd(j) PROVE Service!Next
  <2>1. j \in running /\ j \notin Queued
    BY <1>2 DEF ScheduledExecutionEnd, IInv, OneFate
  <2>2. /\ (running \union Queued)' = (running \union Queued) \ {j}
        /\ answered' = answered \union {j}
        /\ forwarded' = forwarded
    <3>1. CASE StartsHead(Released(free, j))
      BY <1>2, <2>1, <3>1, QueueStep
    <3>2. CASE ~ StartsHead(Released(free, j))
      BY <1>2, <2>1, <3>2 DEF ScheduledExecutionEnd, queueVars, Queued
    <3> QED
      BY <3>1, <3>2
  <2>3. Service!Answer(j)
    BY <2>1, <2>2
  <2> QED
    BY <2>3
<1>3. CASE ResetNodeBusyCounter
  BY <1>3 DEF ResetNodeBusyCounter, queueVars, Queued
<1>4. CASE UNCHANGED vars
  BY <1>4 DEF vars, queueVars, Queued
<1>5. ASSUME NEW j \in Jobs, AskAgain(j) PROVE Service!Next
  <2>1. Service!Renew(j)
    BY <1>5 DEF AskAgain, queueVars, Queued
  <2> QED
    BY <2>1
<1> QED
  BY <1>1, <1>2, <1>3, <1>4, <1>5 DEF Next

(* Every behaviour of the node is one of the abstract request service.     *)
THEOREM ImplementsRequestService == Spec => ImplementsService
<1>1. Init => Service!Init
  BY DEF Init, Service!Init, Queued
<1> QED
  BY <1>1, Invariance, ServiceStep, PTL DEF Spec, SafetySpec, ImplementsService, Service!Spec
=============================================================================
