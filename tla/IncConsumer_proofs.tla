------------------------- MODULE IncConsumer_proofs -------------------------
(***************************************************************************)
(* Proofs about IncConsumer, for every number of items, every number of    *)
(* premature timeouts and every number of losses.                          *)
(*                                                                         *)
(* The invariant is inductive with two facts about the trace added: only   *)
(* numbers below seq have been sent, so that a new one meets no record of  *)
(* its own, and an application that has not started has no send event.     *)
(***************************************************************************)
EXTENDS IncConsumer, FiniteSetTheorems, TLAPS

\* The times at which s was sent.
SentAt(s, trace) == {i \in 1 .. Len(trace) : trace[i] = s}

IsTrue(s, first, last, count, trace) ==
  /\ first \in SentAt(s, trace) /\ last \in SentAt(s, trace)
  /\ \A i \in SentAt(s, trace) : first <= i /\ i <= last
  /\ count = Cardinality(SentAt(s, trace))

Records ==
  /\ DOMAIN fullDelay = Outstanding /\ DOMAIN lastDelay = Outstanding
  /\ \A s \in Outstanding : IsTrue(s, fullDelay[s], lastDelay[s], retxCounts[s], log)

BelowSeq ==
  /\ \A s \in Outstanding : s < seq
  /\ \A i \in 1 .. Len(log) : log[i] < seq

NotStarted ==
  /\ firstTime => sendEvents = 0
  /\ active => ~ firstTime

Inv ==
  /\ TypeOK
  /\ WatchedOnce
  /\ Records
  /\ OneSendEvent
  /\ BelowSeq
  /\ NotStarted

-----------------------------------------------------------------------------
(* The containers.                                                         *)

LEMMA PutFacts ==
  ASSUME NEW m, IsContainer(m), NEW s \in Numbers, NEW v \in Nat
  PROVE  /\ IsContainer(Put(m, s, v))
         /\ DOMAIN Put(m, s, v) = DOMAIN m \union {s}
         /\ Put(m, s, v)[s] = v
         /\ \A x \in DOMAIN m \ {s} : Put(m, s, v)[x] = m[x]
BY DEF IsContainer, Put

LEMMA InsertFacts ==
  ASSUME NEW m, IsContainer(m), NEW s \in Numbers, NEW v \in Nat
  PROVE  /\ IsContainer(Insert(m, s, v))
         /\ DOMAIN Insert(m, s, v) = DOMAIN m \union {s}
         /\ s \notin DOMAIN m => Insert(m, s, v)[s] = v
         /\ \A x \in DOMAIN m : Insert(m, s, v)[x] = m[x]
<1>1. CASE s \in DOMAIN m
  BY <1>1 DEF Insert
<1>2. CASE s \notin DOMAIN m
  <2>1. Insert(m, s, v) = Put(m, s, v)
    BY <1>2 DEF Insert
  <2>2. /\ IsContainer(Put(m, s, v))
        /\ DOMAIN Put(m, s, v) = DOMAIN m \union {s}
        /\ Put(m, s, v)[s] = v
        /\ \A x \in DOMAIN m : Put(m, s, v)[x] = m[x]
    BY <1>2, PutFacts
  <2> QED
    BY <2>1, <2>2
<1> QED
  BY <1>1, <1>2

LEMMA ErasedFacts ==
  ASSUME NEW m, IsContainer(m), NEW s
  PROVE  /\ IsContainer(Erased(m, s))
         /\ DOMAIN Erased(m, s) = DOMAIN m \ {s}
         /\ \A x \in DOMAIN m \ {s} : Erased(m, s)[x] = m[x]
BY DEF IsContainer, Erased

-----------------------------------------------------------------------------
(* The records.  Sending s adds one time to SentAt(s) and none to another's. *)

LEMMA SentFinite ==
  ASSUME NEW t \in Seq(Numbers), NEW s
  PROVE  /\ SentAt(s, t) \in SUBSET (1 .. Len(t))
         /\ IsFiniteSet(SentAt(s, t))
         /\ Cardinality(SentAt(s, t)) \in Nat
<1>1. SentAt(s, t) \in SUBSET (1 .. Len(t))
  BY DEF SentAt
<1>2. IsFiniteSet(1 .. Len(t))
  BY FS_Interval
<1>3. IsFiniteSet(SentAt(s, t))
  BY <1>1, <1>2, FS_Subset
<1> QED
  BY <1>1, <1>3, FS_CardinalityType

LEMMA SentSame ==
  ASSUME NEW t \in Seq(Numbers), NEW s \in Numbers
  PROVE  SentAt(s, Append(t, s)) = SentAt(s, t) \union {Len(t) + 1}
<1> DEFINE u == Append(t, s)
<1>1. Len(u) = Len(t) + 1 /\ Len(t) \in Nat /\ u[Len(t) + 1] = s
      /\ \A i \in 1 .. Len(t) : u[i] = t[i]
  OBVIOUS
<1> HIDE DEF u
<1>2. SentAt(s, u) = SentAt(s, t) \union {Len(t) + 1}
  BY <1>1 DEF SentAt
<1> QED
  BY <1>2 DEF u

LEMMA SentOther ==
  ASSUME NEW t \in Seq(Numbers), NEW s \in Numbers, NEW x, x # s
  PROVE  SentAt(x, Append(t, s)) = SentAt(x, t)
<1> DEFINE u == Append(t, s)
<1>1. Len(u) = Len(t) + 1 /\ Len(t) \in Nat /\ u[Len(t) + 1] = s
      /\ \A i \in 1 .. Len(t) : u[i] = t[i]
  OBVIOUS
<1> HIDE DEF u
<1>2. SentAt(x, u) = SentAt(x, t)
  BY <1>1 DEF SentAt
<1> QED
  BY <1>2 DEF u

(* A first transmission makes a true record.                               *)
LEMMA FirstRecord ==
  ASSUME NEW t \in Seq(Numbers), NEW s \in Numbers, SentAt(s, t) = {}
  PROVE  IsTrue(s, Len(t) + 1, Len(t) + 1, 1, Append(t, s))
<1>1. SentAt(s, Append(t, s)) = {Len(t) + 1} /\ Len(t) + 1 \in Nat
  BY SentSame
<1>2. Cardinality({Len(t) + 1}) = 1
  BY FS_Singleton
<1> QED
  BY <1>1, <1>2 DEF IsTrue

(* A retransmission keeps it true.                                         *)
LEMMA NextRecord ==
  ASSUME NEW t \in Seq(Numbers), NEW s \in Numbers, NEW a \in Nat, NEW b \in Nat,
         NEW c \in Nat, IsTrue(s, a, b, c, t)
  PROVE  IsTrue(s, a, Len(t) + 1, c + 1, Append(t, s))
<1> DEFINE S == SentAt(s, t)
<1>1. SentAt(s, Append(t, s)) = S \union {Len(t) + 1} /\ Len(t) \in Nat
  BY SentSame
<1>2. S \in SUBSET (1 .. Len(t)) /\ IsFiniteSet(S)
  BY SentFinite
<1>3. Len(t) + 1 \notin S
  BY <1>1, <1>2
<1>4. Cardinality(S \union {Len(t) + 1}) = Cardinality(S) + 1
  BY <1>2, <1>3, FS_AddElement
<1>5. a \in S /\ a <= Len(t) + 1 /\ c = Cardinality(S) /\ \A i \in S : a <= i
  BY <1>1, <1>2 DEF IsTrue
<1>6. \A i \in S \union {Len(t) + 1} : a <= i /\ i <= Len(t) + 1
  BY <1>1, <1>2, <1>5
<1> QED
  BY <1>1, <1>4, <1>5, <1>6 DEF IsTrue

(* Sending one number leaves the records of the others true.               *)
LEMMA OtherRecord ==
  ASSUME NEW t \in Seq(Numbers), NEW s \in Numbers, NEW x, x # s,
         NEW a, NEW b, NEW c, IsTrue(x, a, b, c, t)
  PROVE  IsTrue(x, a, b, c, Append(t, s))
BY SentOther DEF IsTrue

-----------------------------------------------------------------------------
(* Each action preserves the invariant.                                    *)

LEMMA InvInit == Init => Inv
<1> SUFFICES ASSUME Init PROVE Inv
  OBVIOUS
<1>1. TypeOK
  <2>1. IsContainer(<<>>)
    BY DEF IsContainer
  <2>2. seq \in 0 .. SeqMax
    BY SeqMaxAssumption DEF Init
  <2>3. log \in Seq(Numbers) /\ inbox \in [Numbers -> Nat]
    BY DEF Init
  <2>4. /\ IsContainer(seqTimeouts) /\ IsContainer(fullDelay)
        /\ IsContainer(lastDelay) /\ IsContainer(retxCounts)
    BY <2>1 DEF Init
  <2>5. /\ retxSeqs \in SUBSET Numbers /\ pit \in SUBSET Numbers
        /\ sendEvents \in Nat /\ early \in Nat /\ lost \in Nat
    BY DEF Init
  <2>6. active \in BOOLEAN /\ firstTime \in BOOLEAN
    BY DEF Init
  <2> QED
    BY <2>2, <2>3, <2>4, <2>5, <2>6 DEF TypeOK
<1>2. WatchedOnce /\ Records /\ BelowSeq
  BY DEF Init, WatchedOnce, Records, BelowSeq, Outstanding
<1>3. OneSendEvent /\ NotStarted
  BY DEF Init, OneSendEvent, NotStarted
<1> QED
  BY <1>1, <1>2, <1>3 DEF Inv

(* What the two cases of sending share.                                    *)
LEMMA SendInv ==
  ASSUME Inv, MaySend, NEW s \in Numbers, Send(s),
         s \notin DOMAIN seqTimeouts,
         seq' \in 0 .. SeqMax, seq <= seq', s < seq',
         s \in Outstanding \/ s = seq,
         retxSeqs' = retxSeqs \ {s}
  PROVE  Inv' /\ Outstanding' = Outstanding \union {s}
<1> USE DEF Inv
<1> DEFINE now   == Len(log) + 1
           count == IF s \in DOMAIN retxCounts THEN retxCounts[s] + 1 ELSE 1
<1>1. /\ IsContainer(seqTimeouts) /\ IsContainer(fullDelay)
      /\ IsContainer(lastDelay) /\ IsContainer(retxCounts)
      /\ log \in Seq(Numbers) /\ now \in Nat
  BY DEF TypeOK
<1>2. count \in Nat
  BY <1>1 DEF IsContainer
<1>3. /\ seqTimeouts' = Insert(seqTimeouts, s, now)
      /\ fullDelay' = Insert(fullDelay, s, now)
      /\ lastDelay' = Put(lastDelay, s, now)
      /\ retxCounts' = Put(retxCounts, s, count)
      /\ log' = Append(log, s)
  BY DEF Send, WillSendOutInterest, Now
<1> HIDE DEF now, count
<1>4. /\ IsContainer(seqTimeouts')
      /\ DOMAIN seqTimeouts' = DOMAIN seqTimeouts \union {s}
  BY <1>1, <1>3, InsertFacts
<1>5. /\ IsContainer(fullDelay')
      /\ DOMAIN fullDelay' = DOMAIN fullDelay \union {s}
      /\ s \notin DOMAIN fullDelay => fullDelay'[s] = now
      /\ \A x \in DOMAIN fullDelay : fullDelay'[x] = fullDelay[x]
  <2> DEFINE m == Insert(fullDelay, s, now)
  <2>1. /\ IsContainer(m)
        /\ DOMAIN m = DOMAIN fullDelay \union {s}
        /\ s \notin DOMAIN fullDelay => m[s] = now
        /\ \A x \in DOMAIN fullDelay : m[x] = fullDelay[x]
    <3>1. IsContainer(m) /\ DOMAIN m = DOMAIN fullDelay \union {s}
      BY <1>1, InsertFacts
    <3>2. s \notin DOMAIN fullDelay => m[s] = now
      BY DEF Insert, Put
    <3>3. \A x \in DOMAIN fullDelay : m[x] = fullDelay[x]
      BY DEF Insert, Put
    <3> QED
      BY <3>1, <3>2, <3>3
  <2>2. fullDelay' = m
    BY <1>3
  <2> HIDE DEF m
  <2> QED
    BY <2>1, <2>2
<1>6. /\ IsContainer(lastDelay')
      /\ DOMAIN lastDelay' = DOMAIN lastDelay \union {s}
      /\ lastDelay'[s] = now
      /\ \A x \in DOMAIN lastDelay \ {s} : lastDelay'[x] = lastDelay[x]
  <2> DEFINE m == Put(lastDelay, s, now)
  <2>1. /\ IsContainer(m)
        /\ DOMAIN m = DOMAIN lastDelay \union {s}
        /\ m[s] = now
        /\ \A x \in DOMAIN lastDelay \ {s} : m[x] = lastDelay[x]
    BY <1>1, PutFacts
  <2>2. lastDelay' = m
    BY <1>3
  <2> HIDE DEF m
  <2> QED
    BY <2>1, <2>2
<1>7. /\ IsContainer(retxCounts')
      /\ DOMAIN retxCounts' = DOMAIN retxCounts \union {s}
      /\ retxCounts'[s] = count
      /\ \A x \in DOMAIN retxCounts \ {s} : retxCounts'[x] = retxCounts[x]
  <2> DEFINE m == Put(retxCounts, s, count)
  <2>1. /\ IsContainer(m)
        /\ DOMAIN m = DOMAIN retxCounts \union {s}
        /\ m[s] = count
        /\ \A x \in DOMAIN retxCounts \ {s} : m[x] = retxCounts[x]
    BY <1>1, <1>2, PutFacts
  <2>2. retxCounts' = m
    BY <1>3
  <2> HIDE DEF m
  <2> QED
    BY <2>1, <2>2
<1>8. Outstanding' = Outstanding \union {s}
  BY <1>7 DEF Outstanding
<1>9. sendEvents = 1 /\ active /\ ~ firstTime /\ sendEvents' = 1 /\ active' /\ ~ firstTime'
  BY DEF MaySend, OneSendEvent, NotStarted, TypeOK, Send, ScheduleNextPacket
<1>10. TypeOK'
  <2>1. IsContainer(seqTimeouts)' /\ IsContainer(fullDelay)'
        /\ IsContainer(lastDelay)' /\ IsContainer(retxCounts)'
    BY <1>4, <1>5, <1>6, <1>7 DEF IsContainer
  <2>2. log' \in Seq(Numbers) /\ pit' \in SUBSET Numbers /\ retxSeqs' \in SUBSET Numbers
    BY <1>1, <1>3 DEF Send, TypeOK
  <2>3. inbox' \in [Numbers -> Nat] /\ early' \in Nat /\ lost' \in Nat /\ sendEvents' \in Nat
    BY <1>9 DEF Send, TypeOK
  <2>4. active' \in BOOLEAN /\ firstTime' \in BOOLEAN
    BY <1>9, Zenon DEF Send, TypeOK, ScheduleNextPacket
  <2> QED
    BY <2>1, <2>2, <2>3, <2>4 DEF TypeOK
<1>11. WatchedOnce'
  BY <1>4, <1>8 DEF WatchedOnce
<1>12. Records'
  <2>1. DOMAIN fullDelay' = Outstanding' /\ DOMAIN lastDelay' = Outstanding'
    BY <1>5, <1>6, <1>8 DEF Records
  <2>2. ASSUME NEW x \in Outstanding, x # s
        PROVE  IsTrue(x, fullDelay'[x], lastDelay'[x], retxCounts'[x], log')
    <3>1. fullDelay'[x] = fullDelay[x] /\ lastDelay'[x] = lastDelay[x]
          /\ retxCounts'[x] = retxCounts[x]
      BY <1>5, <1>6, <1>7, <2>2 DEF Records, Outstanding
    <3>2. IsTrue(x, fullDelay[x], lastDelay[x], retxCounts[x], log)
      BY DEF Records
    <3> QED
      BY <1>1, <1>3, <2>2, <3>1, <3>2, OtherRecord
  <2>3. IsTrue(s, fullDelay'[s], lastDelay'[s], retxCounts'[s], log')
    <3>1. lastDelay'[s] = now /\ retxCounts'[s] = count
      BY <1>6, <1>7
    <3>2. CASE s \in Outstanding
      <4>1. fullDelay'[s] = fullDelay[s]
        BY <1>5, <3>2 DEF Records
      <4>2. IsTrue(s, fullDelay[s], lastDelay[s], retxCounts[s], log)
            /\ count = retxCounts[s] + 1
        BY <3>2 DEF Records, count, Outstanding
      <4>3. fullDelay[s] \in Nat /\ lastDelay[s] \in Nat /\ retxCounts[s] \in Nat
        BY <1>1, <3>2 DEF Records, IsContainer, Outstanding
      <4> QED
        BY <1>1, <1>3, <3>1, <4>1, <4>2, <4>3, NextRecord DEF now
    <3>3. CASE s \notin Outstanding
      <4>1. fullDelay'[s] = now /\ count = 1
        BY <1>5, <3>3 DEF Records, count, Outstanding
      <4>2. SentAt(s, log) = {}
        BY <3>3, <1>1 DEF BelowSeq, SentAt, TypeOK, Numbers
      <4> QED
        BY <1>1, <1>3, <3>1, <4>1, <4>2, FirstRecord DEF now
    <3> QED
      BY <3>2, <3>3
  <2> QED
    BY <1>8, <2>1, <2>2, <2>3 DEF Records
<1>13. BelowSeq'
  <2>1. ASSUME NEW x \in Outstanding' PROVE x < seq'
    BY <1>1, <1>8 DEF BelowSeq, TypeOK, Outstanding, IsContainer, Numbers
  <2>2. ASSUME NEW i \in 1 .. Len(log') PROVE log'[i] < seq'
    <3>1. CASE i \in 1 .. Len(log)
      <4>1. log'[i] = log[i] /\ log[i] \in Numbers /\ log[i] < seq
        BY <1>1, <1>3, <3>1 DEF BelowSeq
      <4> QED
        BY <4>1 DEF Numbers, TypeOK
    <3>2. CASE i = Len(log) + 1
      BY <1>1, <1>3, <3>2
    <3> QED
      BY <1>1, <1>3, <2>2, <3>1, <3>2
  <2> QED
    BY <2>1, <2>2 DEF BelowSeq
<1>14. OneSendEvent' /\ NotStarted'
  BY <1>9 DEF OneSendEvent, NotStarted
<1> QED
  BY <1>10, <1>11, <1>12, <1>13, <1>14, <1>8

LEMMA RetransmitInv ==
  ASSUME Inv, Retransmit
  PROVE  Inv' /\ \E s \in Outstanding :
                   /\ log' = Append(log, s)
                   /\ UNCHANGED seq
                   /\ Outstanding' = Outstanding
<1>1. PICK s \in retxSeqs : Send(s) /\ retxSeqs' = retxSeqs \ {s}
  BY DEF Retransmit
<1>2. MaySend /\ seq' = seq
  BY DEF Retransmit
<1>3. s \in Numbers /\ s \in Outstanding /\ s \notin DOMAIN seqTimeouts /\ s < seq
      /\ seq \in 0 .. SeqMax
  BY DEF Inv, TypeOK, WatchedOnce, BelowSeq
<1>4. Inv' /\ Outstanding' = Outstanding \union {s}
  BY <1>1, <1>2, <1>3, SendInv
<1> QED
  BY <1>1, <1>2, <1>3, <1>4 DEF Send

LEMMA SendNewInv ==
  ASSUME Inv, SendNew
  PROVE  Inv' /\ seq' = seq + 1 /\ log' = Append(log, seq)
              /\ Outstanding' = Outstanding \union {seq}
<1>1. MaySend /\ Send(seq) /\ seq' = seq + 1 /\ seq < SeqMax
      /\ retxSeqs = {} /\ retxSeqs' = retxSeqs
  BY DEF SendNew, NewNumbers
<1>2. seq \in Numbers /\ seq' \in 0 .. SeqMax /\ seq <= seq' /\ seq < seq'
  BY <1>1, SeqMaxAssumption DEF Inv, TypeOK, Numbers
<1>3. seq \notin DOMAIN seqTimeouts
  BY <1>2 DEF Inv, WatchedOnce, BelowSeq
<1>4. Inv' /\ Outstanding' = Outstanding \union {seq}
  BY <1>1, <1>2, <1>3, SendInv
<1> QED
  BY <1>1, <1>4 DEF Send

LEMMA StartInv ==
  ASSUME Inv, StartApplication
  PROVE  Inv' /\ UNCHANGED <<seq, log, retxCounts>>
<1>1. /\ active' = TRUE /\ firstTime' = FALSE /\ sendEvents' = 1
      /\ UNCHANGED <<seq, retxSeqs, seqTimeouts, fullDelay, lastDelay, retxCounts,
                     log, pit, inbox, early, lost>>
  BY DEF StartApplication, ScheduleNextPacket, Inv, NotStarted, TypeOK, netVars
<1>2. TypeOK'
  <2>1. active' \in BOOLEAN /\ firstTime' \in BOOLEAN
    BY <1>1, Zenon
  <2> QED
    BY <1>1, <2>1 DEF Inv, TypeOK, IsContainer
<1>3. WatchedOnce' /\ Records' /\ BelowSeq'
  BY <1>1 DEF Inv, WatchedOnce, Records, BelowSeq, Outstanding
<1>4. OneSendEvent' /\ NotStarted'
  BY <1>1 DEF OneSendEvent, NotStarted
<1> QED
  BY <1>1, <1>2, <1>3, <1>4 DEF Inv

LEMMA StopInv ==
  ASSUME Inv, StopApplication
  PROVE  Inv' /\ UNCHANGED <<seq, log, retxCounts>>
<1>1. /\ active' = FALSE /\ sendEvents' = 0
      /\ UNCHANGED <<firstTime, seq, retxSeqs, seqTimeouts, fullDelay, lastDelay,
                     retxCounts, log, pit, inbox, early, lost>>
  BY DEF StopApplication, netVars
<1>2. TypeOK'
  <2>1. active' \in BOOLEAN /\ firstTime' \in BOOLEAN
    BY <1>1, Zenon DEF Inv, TypeOK
  <2> QED
    BY <1>1, <2>1 DEF Inv, TypeOK, IsContainer
<1>3. WatchedOnce' /\ Records' /\ BelowSeq'
  BY <1>1 DEF Inv, WatchedOnce, Records, BelowSeq, Outstanding
<1>4. OneSendEvent' /\ NotStarted'
  BY <1>1 DEF OneSendEvent, NotStarted
<1> QED
  BY <1>1, <1>2, <1>3, <1>4 DEF Inv

LEMMA SendNothingInv ==
  ASSUME Inv, SendNothing
  PROVE  Inv' /\ UNCHANGED <<seq, log, retxCounts>>
<1>1. /\ sendEvents' = 0
      /\ UNCHANGED <<active, firstTime, seq, retxSeqs, seqTimeouts, fullDelay,
                     lastDelay, retxCounts, log, pit, inbox, early, lost>>
  BY DEF SendNothing, netVars, Inv, OneSendEvent, TypeOK
<1>2. TypeOK'
  <2>1. active' \in BOOLEAN /\ firstTime' \in BOOLEAN
    BY <1>1, Zenon DEF Inv, TypeOK
  <2> QED
    BY <1>1, <2>1 DEF Inv, TypeOK, IsContainer
<1>3. WatchedOnce' /\ Records' /\ BelowSeq'
  BY <1>1 DEF Inv, WatchedOnce, Records, BelowSeq, Outstanding
<1>4. OneSendEvent' /\ NotStarted'
  <2>1. ~ active \/ (retxSeqs = {} /\ ~ (seq < SeqMax))
    BY DEF SendNothing, NewNumbers
  <2> QED
    BY <1>1, <2>1 DEF Inv, OneSendEvent, NotStarted
<1> QED
  BY <1>1, <1>2, <1>3, <1>4 DEF Inv

LEMMA TimeoutInv ==
  ASSUME Inv, NEW limit, CheckRetxTimeout(limit)
  PROVE  Inv' /\ UNCHANGED <<seq, log, retxCounts>>
<1> DEFINE expired   == {s \in DOMAIN seqTimeouts : seqTimeouts[s] <= limit}
           premature == Cardinality({s \in expired : UnderWay(s)})
<1>1. /\ early' = early + premature
      /\ seqTimeouts' = [s \in DOMAIN seqTimeouts \ expired |-> seqTimeouts[s]]
      /\ retxSeqs' = retxSeqs \union expired
      /\ firstTime' = FALSE
      /\ sendEvents' = IF firstTime \/ sendEvents = 0 THEN sendEvents + 1 ELSE sendEvents
      /\ UNCHANGED <<active, seq, fullDelay, lastDelay, retxCounts, log, pit,
                     inbox, lost>>
  BY DEF CheckRetxTimeout, OnTimeout, ScheduleNextPacket
<1>2. /\ expired \in SUBSET DOMAIN seqTimeouts
      /\ DOMAIN seqTimeouts \subseteq Numbers
      /\ seqTimeouts \in [DOMAIN seqTimeouts -> Nat]
  BY DEF Inv, TypeOK, IsContainer
<1>3. premature \in Nat
  <2>1. {s \in expired : UnderWay(s)} \in SUBSET Numbers
    BY <1>2
  <2>2. IsFiniteSet(Numbers)
    BY FS_Interval, SeqMaxAssumption DEF Numbers
  <2>3. IsFiniteSet({s \in expired : UnderWay(s)})
    BY <2>1, <2>2, FS_Subset
  <2> QED
    BY <2>3, FS_CardinalityType
<1> HIDE DEF expired, premature
<1>4. DOMAIN seqTimeouts' = DOMAIN seqTimeouts \ expired
  BY <1>1
<1>5. sendEvents' = 1
  BY <1>1 DEF Inv, OneSendEvent, NotStarted, TypeOK
<1>6. TypeOK'
  <2>1. active' \in BOOLEAN /\ firstTime' \in BOOLEAN
    BY <1>1, Zenon DEF Inv, TypeOK
  <2>2. IsContainer(seqTimeouts)'
    BY <1>1, <1>2, <1>4 DEF IsContainer
  <2>3. retxSeqs' \in SUBSET Numbers
    BY <1>1, <1>2 DEF Inv, TypeOK
  <2>4. early' \in Nat
    BY <1>1, <1>3 DEF Inv, TypeOK
  <2>5. IsContainer(fullDelay)' /\ IsContainer(lastDelay)' /\ IsContainer(retxCounts)'
    BY <1>1 DEF Inv, TypeOK, IsContainer
  <2> QED
    BY <1>1, <1>5, <2>1, <2>2, <2>3, <2>4, <2>5 DEF Inv, TypeOK
<1>7. WatchedOnce'
  BY <1>1, <1>2, <1>4 DEF Inv, WatchedOnce, Outstanding
<1>8. Records' /\ BelowSeq'
  BY <1>1 DEF Inv, Records, BelowSeq, Outstanding
<1>9. OneSendEvent' /\ NotStarted'
  BY <1>1, <1>5 DEF OneSendEvent, NotStarted
<1> QED
  BY <1>1, <1>6, <1>7, <1>8, <1>9 DEF Inv

LEMMA OnDataInv ==
  ASSUME Inv, NEW s \in Numbers, OnData(s)
  PROVE  Inv' /\ UNCHANGED <<seq, log>>
              /\ (Outstanding' = Outstanding \ {s} \/ UNCHANGED retxCounts)
<1>1. /\ inbox' \in [Numbers -> Nat]
      /\ UNCHANGED <<active, firstTime, sendEvents, seq, log, pit, early, lost>>
  BY DEF OnData, Inv, TypeOK
<1>2. CASE active /\ Satisfied(s)
  <2>1. /\ retxCounts' = Erased(retxCounts, s)
        /\ fullDelay' = Erased(fullDelay, s)
        /\ lastDelay' = Erased(lastDelay, s)
        /\ seqTimeouts' = Erased(seqTimeouts, s)
        /\ retxSeqs' = retxSeqs \ {s}
    BY <1>2 DEF Satisfied, Forget
  <2>2. /\ IsContainer(seqTimeouts) /\ IsContainer(fullDelay)
        /\ IsContainer(lastDelay) /\ IsContainer(retxCounts)
    BY DEF Inv, TypeOK
  <2>3. /\ IsContainer(retxCounts')
        /\ Outstanding' = Outstanding \ {s}
        /\ \A x \in Outstanding \ {s} : retxCounts'[x] = retxCounts[x]
    BY <2>1, <2>2 DEF Outstanding, Erased, IsContainer
  <2>4. /\ IsContainer(fullDelay')
        /\ DOMAIN fullDelay' = DOMAIN fullDelay \ {s}
        /\ \A x \in DOMAIN fullDelay \ {s} : fullDelay'[x] = fullDelay[x]
    BY <2>1, <2>2 DEF Erased, IsContainer
  <2>5. /\ IsContainer(lastDelay')
        /\ DOMAIN lastDelay' = DOMAIN lastDelay \ {s}
        /\ \A x \in DOMAIN lastDelay \ {s} : lastDelay'[x] = lastDelay[x]
    BY <2>1, <2>2 DEF Erased, IsContainer
  <2>6. /\ IsContainer(seqTimeouts')
        /\ DOMAIN seqTimeouts' = DOMAIN seqTimeouts \ {s}
    BY <2>1, <2>2 DEF Erased, IsContainer
  <2>7. TypeOK'
    <3>1. active' \in BOOLEAN /\ firstTime' \in BOOLEAN
      BY <1>1, Zenon DEF Inv, TypeOK
    <3>2. IsContainer(seqTimeouts)' /\ IsContainer(fullDelay)'
          /\ IsContainer(lastDelay)' /\ IsContainer(retxCounts)'
      BY <2>3, <2>4, <2>5, <2>6 DEF IsContainer
    <3> QED
      BY <1>1, <2>1, <3>1, <3>2 DEF Inv, TypeOK
  <2>8. WatchedOnce'
    BY <2>1, <2>3, <2>6 DEF Inv, WatchedOnce
  <2>9. Records'
    <3>1. DOMAIN fullDelay' = Outstanding' /\ DOMAIN lastDelay' = Outstanding'
      BY <2>3, <2>4, <2>5 DEF Inv, Records
    <3>2. ASSUME NEW x \in Outstanding'
          PROVE  IsTrue(x, fullDelay'[x], lastDelay'[x], retxCounts'[x], log')
      <4>1. x \in Outstanding \ {s} /\ fullDelay'[x] = fullDelay[x]
            /\ lastDelay'[x] = lastDelay[x] /\ retxCounts'[x] = retxCounts[x]
        BY <2>3, <2>4, <2>5 DEF Inv, Records
      <4>2. IsTrue(x, fullDelay[x], lastDelay[x], retxCounts[x], log)
        BY <4>1 DEF Inv, Records
      <4> QED
        BY <1>1, <4>1, <4>2
    <3> QED
      BY <3>1, <3>2 DEF Records
  <2>10. BelowSeq'
    BY <1>1, <2>3 DEF Inv, BelowSeq
  <2>11. OneSendEvent' /\ NotStarted'
    BY <1>1, <2>1 DEF Inv, OneSendEvent, NotStarted
  <2> QED
    BY <1>1, <2>3, <2>7, <2>8, <2>9, <2>10, <2>11 DEF Inv
<1>3. CASE ~ active
  <2>1. UNCHANGED <<retxCounts, fullDelay, lastDelay, seqTimeouts, retxSeqs>>
    BY <1>3 DEF OnData
  <2>2. TypeOK'
    <3>1. active' \in BOOLEAN /\ firstTime' \in BOOLEAN
      BY <1>1, Zenon DEF Inv, TypeOK
    <3> QED
      BY <1>1, <2>1, <3>1 DEF Inv, TypeOK, IsContainer
  <2>3. WatchedOnce' /\ Records' /\ BelowSeq' /\ OneSendEvent' /\ NotStarted'
    BY <1>1, <2>1 DEF Inv, WatchedOnce, Records, BelowSeq, OneSendEvent, NotStarted, Outstanding
  <2> QED
    BY <1>1, <2>1, <2>2, <2>3 DEF Inv
<1> QED
  BY <1>2, <1>3 DEF OnData

LEMMA NetworkInv ==
  ASSUME Inv, NEW s \in Numbers, Answer(s) \/ Lose(s)
  PROVE  Inv' /\ UNCHANGED <<seq, log, retxCounts>>
<1>1. UNCHANGED appVars
  BY DEF Answer, Lose
<1>2. inbox' \in [Numbers -> Nat] /\ pit' \in SUBSET Numbers /\ early' \in Nat /\ lost' \in Nat
  BY DEF Answer, Lose, Inv, TypeOK
<1>3. TypeOK'
  <2>1. active' \in BOOLEAN /\ firstTime' \in BOOLEAN
    BY <1>1, Zenon DEF Inv, TypeOK, appVars
  <2> QED
    BY <1>1, <1>2, <2>1 DEF Inv, TypeOK, IsContainer, appVars
<1>4. WatchedOnce' /\ Records' /\ BelowSeq' /\ OneSendEvent' /\ NotStarted'
  BY <1>1 DEF Inv, WatchedOnce, Records, BelowSeq, OneSendEvent, NotStarted, Outstanding, appVars
<1> QED
  BY <1>1, <1>3, <1>4 DEF Inv, appVars

LEMMA StutterInv == Inv /\ UNCHANGED vars => Inv'
<1> SUFFICES ASSUME Inv, UNCHANGED vars PROVE Inv'
  OBVIOUS
<1>1. UNCHANGED <<active, firstTime, sendEvents, seq, retxSeqs, seqTimeouts, fullDelay,
                  lastDelay, retxCounts, log, pit, inbox, early, lost>>
  BY DEF vars, appVars, netVars
<1>2. TypeOK'
  <2>1. active' \in BOOLEAN /\ firstTime' \in BOOLEAN
    BY <1>1, Zenon DEF Inv, TypeOK
  <2> QED
    BY <1>1, <2>1 DEF Inv, TypeOK, IsContainer
<1>3. WatchedOnce' /\ Records' /\ BelowSeq' /\ OneSendEvent' /\ NotStarted'
  BY <1>1 DEF Inv, WatchedOnce, Records, BelowSeq, OneSendEvent, NotStarted, Outstanding
<1> QED
  BY <1>2, <1>3 DEF Inv

-----------------------------------------------------------------------------
(* The invariant, and what each step does to the abstract stream.          *)

LEMMA InvNext ==
  Inv /\ [Next]_vars => Inv' /\ [Stream!Next]_(Stream!vars)
                             /\ (~ active => UNCHANGED log)
<1> SUFFICES ASSUME Inv, [Next]_vars
             PROVE  Inv' /\ [Stream!Next]_(Stream!vars) /\ (~ active => UNCHANGED log)
  OBVIOUS
<1> USE DEF Stream!Next, Stream!vars, Stream!Ask, Stream!AskAgain, Stream!Answered
<1>1. CASE StartApplication
  BY <1>1, StartInv DEF Outstanding
<1>2. CASE StopApplication
  BY <1>2, StopInv DEF Outstanding
<1>3. CASE Retransmit
  <2>1. active
    BY <1>3 DEF Retransmit, MaySend
  <2> QED
    BY <1>3, <2>1, RetransmitInv
<1>4. CASE SendNew
  <2>1. active
    BY <1>4 DEF SendNew, MaySend
  <2> QED
    BY <1>4, <2>1, SendNewInv
<1>5. CASE SendNothing
  BY <1>5, SendNothingInv DEF Outstanding
<1>6. CASE Timeout
  <2>1. PICK t \in 1 .. Now : CheckRetxTimeout(t)
    BY <1>6 DEF Timeout
  <2> QED
    BY <2>1, TimeoutInv DEF Outstanding
<1>7. ASSUME NEW s \in Numbers, OnData(s)
      PROVE  Inv' /\ [Stream!Next]_(Stream!vars) /\ (~ active => UNCHANGED log)
  <2>1. Inv' /\ UNCHANGED <<seq, log>>
        /\ (Outstanding' = Outstanding \ {s} \/ UNCHANGED retxCounts)
    BY <1>7, OnDataInv
  <2>2. CASE s \in Outstanding /\ Outstanding' = Outstanding \ {s}
    BY <2>1, <2>2
  <2>3. CASE Outstanding' = Outstanding
    BY <2>1, <2>3
  <2> QED
    BY <2>1, <2>2, <2>3 DEF Outstanding
<1>8. ASSUME NEW s \in Numbers, Answer(s) \/ Lose(s)
      PROVE  Inv' /\ [Stream!Next]_(Stream!vars) /\ (~ active => UNCHANGED log)
  BY <1>8, NetworkInv DEF Outstanding
<1>9. CASE UNCHANGED vars
  <2>1. UNCHANGED <<seq, log, retxCounts>>
    BY <1>9 DEF vars, appVars
  <2> QED
    BY <1>9, <2>1, StutterInv DEF Outstanding
<1> QED
  BY <1>1, <1>2, <1>3, <1>4, <1>5, <1>6, <1>7, <1>8, <1>9 DEF Next, SendPacket

(* The inductive invariant holds in every state of the consumer.           *)
THEOREM Invariance == Spec => []Inv
BY InvInit, InvNext, PTL DEF Spec, SafetySpec

-----------------------------------------------------------------------------
(* Every variable keeps its type.                                          *)
THEOREM TypeCorrect == Spec => []TypeOK
<1>1. Inv => TypeOK
  BY DEF Inv
<1> QED
  BY <1>1, Invariance, PTL

(* An unanswered item is in exactly one of the two containers that see to  *)
(* it, an answered one in neither.                                         *)
THEOREM EachWatchedOnce == Spec => []WatchedOnce
<1>1. Inv => WatchedOnce
  BY DEF Inv
<1> QED
  BY <1>1, Invariance, PTL

(* The delay records always tell the first and the last transmission, and  *)
(* their number.                                                           *)
THEOREM DelaysCorrect == Spec => []DelaysAreTrue
<1>1. Inv => DelaysAreTrue
  <2> SUFFICES ASSUME Inv PROVE DelaysAreTrue
    OBVIOUS
  <2>1. DOMAIN fullDelay = Outstanding /\ DOMAIN lastDelay = Outstanding
    BY DEF Inv, Records
  <2>2. ASSUME NEW s \in Outstanding
        PROVE  LET sent == {i \in 1 .. Len(log) : log[i] = s}
               IN  /\ {fullDelay[s], lastDelay[s]} \subseteq sent
                   /\ \A i \in sent : fullDelay[s] <= i /\ i <= lastDelay[s]
                   /\ retxCounts[s] = Cardinality(sent)
    BY DEF Inv, Records, IsTrue, SentAt
  <2> QED
    BY <2>1, <2>2, Zenon DEF DelaysAreTrue
<1> QED
  BY <1>1, Invariance, PTL

(* There is one send event while there is something to send, and never two. *)
THEOREM SendEventUnique == Spec => []OneSendEvent
<1>1. Inv => OneSendEvent
  BY DEF Inv
<1> QED
  BY <1>1, Invariance, PTL

(* A stopped consumer sends nothing.                                       *)
THEOREM StoppedIsSilent == Spec => SilentAfterStop
<1>1. Inv /\ [Next]_vars => [~ active => UNCHANGED log]_vars
  BY InvNext
<1> QED
  BY <1>1, Invariance, PTL DEF Spec, SafetySpec, SilentAfterStop

(* The consumer implements the abstract request stream.                    *)
THEOREM ImplementsRequestStream == Spec => ImplementsStream
<1>1. Init => Stream!Init
  BY DEF Init, Stream!Init, Outstanding
<1>2. Inv /\ [Next]_vars => [Stream!Next]_(Stream!vars)
  BY InvNext
<1> QED
  BY <1>1, <1>2, Invariance, PTL DEF Spec, SafetySpec, ImplementsStream, Stream!Spec
=============================================================================
