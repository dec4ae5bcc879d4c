---------------------------- MODULE IncConsumer ----------------------------
(***************************************************************************)
(* The consumer application (ConsumerApp on INC_ConsumerBaseApp): it sends *)
(* Interests with consecutive sequence numbers, one per interval, and      *)
(* retransmits those whose Data does not come within the retransmission    *)
(* timeout.  Two timers drive it, the send event and the periodic timeout  *)
(* check; Data may arrive at any time between them, late, twice, or never. *)
(*                                                                         *)
(* Time is the number of Interests sent so far.  The retransmission        *)
(* timeout is an estimate that may be shorter or longer than any round     *)
(* trip, so a check may find any number of the oldest entries expired.     *)
(***************************************************************************)
EXTENDS Naturals, Sequences, FiniteSets

CONSTANTS
  SeqMax,    \* attribute MaxSeq
  MaxEarly,  \* bound: timeouts of Interests whose Data is still to come
  MaxLost    \* bound: Interests that are never answered

ASSUME SeqMaxAssumption == SeqMax \in Nat
ASSUME BoundsAssumption == MaxEarly \in Nat /\ MaxLost \in Nat

VARIABLES
  active,       \* m_active
  firstTime,    \* m_firstTime
  sendEvents,   \* SendPacket events in the simulator's queue
  seq,          \* m_seq
  retxSeqs,     \* m_retxSeqs
  seqTimeouts,  \* m_seqTimeouts: number -> when it was sent last
  fullDelay,    \* m_seqFullDelay: number -> when it was sent first
  lastDelay,    \* m_seqLastDelay: number -> when it was sent last
  retxCounts,   \* m_seqRetxCounts: number -> how often it was sent
  log,          \* numbers sent, in order (the trace SendInterestsInc)
  pit,          \* numbers with an Interest in the network
  inbox,        \* inbox[s]: Data packets for s on their way to the application
  early,        \* premature timeouts so far, at most MaxEarly
  lost          \* losses so far, at most MaxLost

appVars == <<active, firstTime, sendEvents, seq, retxSeqs, seqTimeouts,
             fullDelay, lastDelay, retxCounts, log>>
netVars == <<pit, inbox, early, lost>>
vars == <<appVars, netVars>>

Numbers     == 0 .. SeqMax - 1
Now         == Len(log)
Outstanding == DOMAIN retxCounts
UnderWay(s) == s \in pit \/ inbox[s] > 0

\* Associative containers: insert keeps an existing entry, put replaces it.
Erased(m, s)    == [x \in DOMAIN m \ {s} |-> m[x]]
Put(m, s, v)    == [x \in DOMAIN m \union {s} |-> IF x = s THEN v ELSE m[x]]
Insert(m, s, v) == IF s \in DOMAIN m THEN m ELSE Put(m, s, v)

-----------------------------------------------------------------------------
\* Wrong variant: IsRunning is not asked.
ScheduleAlways(pending) ==
  /\ firstTime' = FALSE
  /\ sendEvents' = pending + 1

\* pending: the SendPacket events that remain when the current event has been
\* taken from the queue.  m_sendEvent refers to one of them.
ScheduleNextPacket(pending) ==
  /\ firstTime' = FALSE
  /\ sendEvents' = IF firstTime \/ pending = 0 THEN pending + 1 ELSE pending

StartApplication ==
  /\ ~ active /\ firstTime
  /\ active' = TRUE
  /\ ScheduleNextPacket(sendEvents)
  /\ UNCHANGED <<seq, retxSeqs, seqTimeouts, fullDelay, lastDelay, retxCounts,
                 log, netVars>>

\* Cancels the send event, not the timeout check.
StopApplication ==
  /\ active
  /\ active' = FALSE
  /\ sendEvents' = 0
  /\ UNCHANGED <<firstTime, seq, retxSeqs, seqTimeouts, fullDelay, lastDelay,
                 retxCounts, log, netVars>>

\* Wrong variant: the last delay is not erased before it is inserted.
WillSendKeepingDelay(s) ==
  /\ seqTimeouts' = Insert(seqTimeouts, s, Now + 1)
  /\ fullDelay' = Insert(fullDelay, s, Now + 1)
  /\ lastDelay' = Insert(lastDelay, s, Now + 1)
  /\ retxCounts' = Put(retxCounts, s, IF s \in DOMAIN retxCounts
                                      THEN retxCounts[s] + 1 ELSE 1)

WillSendOutInterest(s) ==
  /\ seqTimeouts' = Insert(seqTimeouts, s, Now + 1)
  /\ fullDelay' = Insert(fullDelay, s, Now + 1)
  /\ lastDelay' = Put(lastDelay, s, Now + 1)
  /\ retxCounts' = Put(retxCounts, s, IF s \in DOMAIN retxCounts
                                      THEN retxCounts[s] + 1 ELSE 1)

Send(s) ==
  /\ WillSendOutInterest(s)
  /\ log' = Append(log, s)
  /\ pit' = pit \union {s}
  /\ ScheduleNextPacket(sendEvents - 1)
  /\ UNCHANGED <<active, inbox, early, lost>>

MaySendStopped == sendEvents > 0     \* wrong variant: m_active is not asked
MaySend == active /\ sendEvents > 0

NewNumbersBeyond == seq <= SeqMax    \* wrong variant: one too many
NewNumbers == seq < SeqMax

\* The smallest number to retransmit goes first; a new one only when there is
\* none.
Retransmit ==
  /\ MaySend
  /\ \E s \in retxSeqs :
       /\ \A y \in retxSeqs : s <= y
       /\ Send(s)
       /\ retxSeqs' = retxSeqs \ {s}
  /\ UNCHANGED seq

SendNew ==
  /\ MaySend
  /\ retxSeqs = {}
  /\ NewNumbers
  /\ Send(seq)
  /\ seq' = seq + 1
  /\ UNCHANGED retxSeqs

\* The event finds the application stopped, or everything sent.
SendNothing ==
  /\ sendEvents > 0
  /\ ~ active \/ (retxSeqs = {} /\ ~ NewNumbers)
  /\ sendEvents' = sendEvents - 1
  /\ UNCHANGED <<active, firstTime, seq, retxSeqs, seqTimeouts, fullDelay,
                 lastDelay, retxCounts, log, netVars>>

SendPacket == Retransmit \/ SendNew \/ SendNothing

\* OnTimeout, called for each of the numbers.  Wrong variant: nothing is
\* scheduled.
OnTimeoutUnscheduled(numbers) ==
  /\ retxSeqs' = retxSeqs \union numbers
  /\ UNCHANGED <<firstTime, sendEvents>>

OnTimeout(numbers) ==
  /\ retxSeqs' = retxSeqs \union numbers
  /\ ScheduleNextPacket(sendEvents)

\* Every entry sent at or before `limit' has expired.  The check goes on after
\* the application has stopped.
CheckRetxTimeout(limit) ==
  LET expired   == {s \in DOMAIN seqTimeouts : seqTimeouts[s] <= limit}
      premature == Cardinality({s \in expired : UnderWay(s)})
  IN  /\ expired # {}
      /\ early + premature <= MaxEarly
      /\ early' = early + premature
      /\ seqTimeouts' = [s \in DOMAIN seqTimeouts \ expired |-> seqTimeouts[s]]
      /\ OnTimeout(expired)
      /\ UNCHANGED <<active, seq, fullDelay, lastDelay, retxCounts, log, pit,
                     inbox, lost>>

Forget(s) ==
  /\ retxCounts' = Erased(retxCounts, s)
  /\ fullDelay' = Erased(fullDelay, s)
  /\ lastDelay' = Erased(lastDelay, s)
  /\ seqTimeouts' = Erased(seqTimeouts, s)

\* Wrong variant: a retransmission that was due survives the answer.
SatisfiedKeepingRetx(s) == Forget(s) /\ UNCHANGED retxSeqs
Satisfied(s) == Forget(s) /\ retxSeqs' = retxSeqs \ {s}

\* Data for a number is taken for the answer to whatever was sent under it.
OnData(s) ==
  /\ inbox[s] > 0
  /\ inbox' = [inbox EXCEPT ![s] = @ - 1]
  /\ \/ active /\ Satisfied(s)
     \/ /\ ~ active
        /\ UNCHANGED <<retxCounts, fullDelay, lastDelay, seqTimeouts, retxSeqs>>
  /\ UNCHANGED <<active, firstTime, sendEvents, seq, log, pit, early, lost>>

-----------------------------------------------------------------------------
(* The network.  An Interest is answered, or it is lost: dropped, expired, *)
(* or rejected, for OnNack only logs.  A retransmission of a number whose  *)
(* Data is already on its way to the application is answered again, from   *)
(* the content store.                                                      *)

Answer(s) ==
  /\ s \in pit
  /\ pit' = pit \ {s}
  /\ inbox' = [inbox EXCEPT ![s] = @ + 1]
  /\ UNCHANGED <<appVars, early, lost>>

Lose(s) ==
  /\ s \in pit
  /\ lost < MaxLost
  /\ lost' = lost + 1
  /\ pit' = pit \ {s}
  /\ UNCHANGED <<appVars, inbox, early>>

-----------------------------------------------------------------------------
Init ==
  /\ active = FALSE
  /\ firstTime = TRUE
  /\ sendEvents = 0
  /\ seq = 0
  /\ retxSeqs = {}
  /\ seqTimeouts = <<>>
  /\ fullDelay = <<>>
  /\ lastDelay = <<>>
  /\ retxCounts = <<>>
  /\ log = <<>>
  /\ pit = {}
  /\ inbox = [s \in Numbers |-> 0]
  /\ early = 0
  /\ lost = 0

Timeout == \E t \in 1 .. Now : CheckRetxTimeout(t)

Next ==
  \/ StartApplication \/ StopApplication \/ SendPacket \/ Timeout
  \/ \E s \in Numbers : OnData(s) \/ Answer(s) \/ Lose(s)

SafetySpec == Init /\ [][Next]_vars

\* Scheduled events happen, the timeout of an unanswered Interest passes, and
\* the network answers what it does not lose.
Fairness ==
  /\ WF_vars(SendPacket)
  /\ WF_vars(Timeout)
  /\ \A s \in Numbers : WF_vars(OnData(s)) /\ WF_vars(Answer(s))

Spec == SafetySpec /\ Fairness

-----------------------------------------------------------------------------
(* Properties.                                                             *)

IsContainer(m) == DOMAIN m \subseteq Numbers /\ m \in [DOMAIN m -> Nat]

\* Each variable has its type.
TypeOK ==
  /\ active \in BOOLEAN
  /\ firstTime \in BOOLEAN
  /\ sendEvents \in Nat
  /\ seq \in 0 .. SeqMax
  /\ retxSeqs \in SUBSET Numbers
  /\ IsContainer(seqTimeouts)
  /\ IsContainer(fullDelay)
  /\ IsContainer(lastDelay)
  /\ IsContainer(retxCounts)
  /\ log \in Seq(Numbers)
  /\ pit \in SUBSET Numbers
  /\ inbox \in [Numbers -> Nat]
  /\ early \in Nat
  /\ lost \in Nat

\* Every unanswered number is watched by exactly one mechanism: it is waiting
\* for its timeout or for its retransmission.  Neither holds an answered one,
\* which would be sent again for ever, and none falls between them, to be
\* sent never again.
WatchedOnce ==
  /\ Outstanding = DOMAIN seqTimeouts \union retxSeqs
  /\ DOMAIN seqTimeouts \intersect retxSeqs = {}

\* What the delay traces will report of an unanswered number is the truth: the
\* first and the last time it was sent, and how often.
DelaysAreTrue ==
  /\ DOMAIN fullDelay = Outstanding /\ DOMAIN lastDelay = Outstanding
  /\ \A s \in Outstanding :
       LET sent == {i \in 1 .. Len(log) : log[i] = s}
       IN  /\ {fullDelay[s], lastDelay[s]} \subseteq sent
           /\ \A i \in sent : fullDelay[s] <= i /\ i <= lastDelay[s]
           /\ retxCounts[s] = Cardinality(sent)

\* A running consumer with something to send has exactly one send event: it
\* cannot stall, and no interplay of sending, timeouts and Data makes it send
\* faster than its interval.
OneSendEvent ==
  /\ sendEvents <= 1
  /\ active /\ (retxSeqs # {} \/ seq < SeqMax) => sendEvents = 1

\* A stopped consumer sends nothing, although its timeout check goes on and
\* schedules send events.
SilentAfterStop == [][~ active => UNCHANGED log]_vars

\* The consumer asks in sequence, repeats only unanswered questions, and takes
\* each answer once.
Stream == INSTANCE RequestStream WITH issued <- seq, open <- Outstanding
ImplementsStream == Stream!Spec

\* Every number asked for is answered, unless the consumer is stopped.
AskedIsAnswered ==
  \A s \in Numbers : (s \in Outstanding) ~> (s \notin Outstanding \/ ~ active)
=============================================================================
