----------------------- MODULE ChannelDelivery_proofs -----------------------
(***************************************************************************)
(* What one step of a channel may do, for every width, bound and           *)
(* configuration: it implements a step of ChannelDelivery, it leaves no    *)
(* gap an ordered receiver has not waited for, and it forgets no message   *)
(* before every retry was made and waited for.  All three rest on the      *)
(* inductive invariant of Channel_proofs, the last also on one that ties   *)
(* the retransmission map to the history of what was put on the wire.      *)
(***************************************************************************)
EXTENDS Channel_proofs

\* The first part of a concatenation is a prefix of it.
LEMMA ConcatExtends ==
  ASSUME NEW log \in Seq(Ranks), NEW run \in Seq(Ranks)
  PROVE  /\ Len(log \o run) = Len(log) + Len(run)
         /\ Len(log) \in Nat /\ Len(run) \in Nat
         /\ \A i \in 1 .. Len(log) : (log \o run)[i] = log[i]
         /\ \A i \in 1 .. Len(run) : (log \o run)[Len(log) + i] = run[i]
<1> DEFINE longer == log \o run
<1>1. /\ Len(longer) = Len(log) + Len(run)
      /\ Len(log) \in Nat /\ Len(run) \in Nat
      /\ \A i \in 1 .. Len(log) + Len(run) :
           longer[i] = IF i <= Len(log) THEN log[i] ELSE run[i - Len(log)]
  BY ConcatProperties
<1> HIDE DEF longer
<1>2. \A i \in 1 .. Len(log) : longer[i] = log[i]
  BY <1>1
<1>3. ASSUME NEW i \in 1 .. Len(run)
      PROVE  longer[Len(log) + i] = run[i]
  <2>1. Len(log) + i \in 1 .. Len(log) + Len(run) /\ ~(Len(log) + i <= Len(log))
        /\ (Len(log) + i) - Len(log) = i
    BY <1>1
  <2> QED BY <1>1, <2>1
<1> QED BY <1>1, <1>2, <1>3 DEF longer

\* The loop delivers the messages that follow one another from rank f on.
LEMMA RunInRanks ==
  ASSUME IInv, NEW f \in 1 .. MaxSends + 1, NEW k \in 0 .. HalfRange,
         \A s \in DOMAIN ordered_receive_buffer : ordered_receive_buffer[s].data >= f,
         RunEndsAt(ordered_receive_buffer, SeqOfRank(f), k)
  PROVE  LET run == RunOf(ordered_receive_buffer, SeqOfRank(f), k)
         IN  /\ run \in Seq(Ranks) /\ Len(run) = k
             /\ \A i \in 1 .. k : run[i] = f + i - 1
<1> DEFINE run == RunOf(ordered_receive_buffer, SeqOfRank(f), k)
<1>1. \A j \in 0 .. k - 1 :
        /\ SeqPlus(SeqOfRank(f), j) \in DOMAIN ordered_receive_buffer
        /\ ordered_receive_buffer[SeqPlus(SeqOfRank(f), j)].data = f + j
  BY RunDelivers DEF IInv
<1>2. ASSUME NEW i \in 1 .. k
      PROVE  run[i] = f + i - 1 /\ run[i] \in Ranks
  <2>1. i - 1 \in 0 .. k - 1
    OBVIOUS
  <2>2. run[i] = ordered_receive_buffer[SeqPlus(SeqOfRank(f), i - 1)].data
    BY DEF RunOf
  <2> QED BY <1>1, <2>1, <2>2 DEF IInv, TypeOK
<1>3. run \in Seq(Ranks) /\ Len(run) = k
  <2>1. run \in [1 .. k -> Ranks]
    BY <1>2 DEF RunOf
  <2> HIDE DEF run
  <2> QED BY <2>1
<1> QED BY <1>2, <1>3

\* The awaited message arrives: it is delivered, then those right behind it.
LEMMA InOrderDelivers ==
  ASSUME IInv, NEW m \in wire, ReceiveInOrder(m)
  PROVE  \E run \in Seq(Ranks) :
           /\ delivered' = Append(delivered, m.data) \o run
           /\ m.data = Awaited
           /\ \A i \in 1 .. Len(run) : run[i] = Awaited + i
<1> DEFINE a == Awaited
           B == ordered_receive_buffer
<1>1. m.data = a /\ a \in 1 .. sent /\ sent <= MaxSends /\ sent \in Nat /\ MaxSends \in Nat
  <2>1. m.data \in 1 .. FullRange /\ Awaited \in 1 .. FullRange
    BY ReceiverFacts, WindowFacts DEF Ranks
  <2>2. SeqOfRank(m.data) = SeqOfRank(Awaited)
    BY ReceiverFacts DEF ReceiveInOrder
  <2>3. m.data = Awaited
    BY <2>1, <2>2, SeqOfRankInjective
  <2> QED BY <2>3, ReceiverFacts, WindowFacts
<1>2. SeqNext(receive_sequence) = SeqOfRank(a + 1)
  <2>1. a \in 1 .. FullRange /\ 1 \in Nat /\ a + 1 <= FullRange
    BY <1>1, WindowFacts
  <2>2. SeqPlus(SeqOfRank(a), 1) = SeqOfRank(a + 1)
    BY <2>1, SeqOfRankPlus
  <2> QED BY <2>2, ReceiverFacts DEF SeqNext
<1>3. PICK k \in 0 .. HalfRange :
        /\ RunEndsAt(B, SeqOfRank(a + 1), k)
        /\ delivered' = Append(delivered, m.data) \o RunOf(B, SeqOfRank(a + 1), k)
  BY <1>2 DEF ReceiveInOrder
<1> DEFINE f   == a + 1
           run == RunOf(B, SeqOfRank(f), k)
<1>4. f \in 1 .. MaxSends + 1 /\ \A s \in DOMAIN B : B[s].data >= f
  BY <1>1 DEF IInv, ReceiverInv, TypeOK, Ranks
<1>5. RunEndsAt(B, SeqOfRank(f), k)
  BY <1>3
<1>6. \A i \in 1 .. k : f + i - 1 = a + i
  BY <1>1
<1>7. delivered' = Append(delivered, m.data) \o run
  BY <1>3
<1>8. /\ RunOf(B, SeqOfRank(f), k) \in Seq(Ranks) /\ Len(RunOf(B, SeqOfRank(f), k)) = k
      /\ \A i \in 1 .. k : RunOf(B, SeqOfRank(f), k)[i] = f + i - 1
  <2> HIDE DEF f
  <2> QED BY <1>4, <1>5, RunInRanks
<1>9. run \in Seq(Ranks) /\ Len(run) = k /\ \A i \in 1 .. k : run[i] = a + i
  <2> HIDE DEF a
  <2> QED BY <1>6, <1>8
<1> HIDE DEF run
<1> QED BY <1>1, <1>7, <1>9

\* A gap is skipped: one message at least is delivered.
LEMMA UpdateDelivers ==
  ASSUME IInv, Update
  PROVE  \E run \in Seq(Ranks) : delivered' = delivered \o run /\ Len(run) > 0
<1> DEFINE B == ordered_receive_buffer
<1>1. PICK first \in DOMAIN B, k \in 1 .. HalfRange :
        /\ Earliest(first)
        /\ RunEndsAt(B, first, k)
        /\ delivered' = delivered \o RunOf(B, first, k)
  BY DEF Update
<1> DEFINE run == RunOf(B, first, k)
<1>2. \A i \in 1 .. k : B[SeqPlus(first, i - 1)].data \in Ranks
  <2> TAKE i \in 1 .. k
  <2>1. i - 1 \in 0 .. k - 1
    OBVIOUS
  <2>2. SeqPlus(first, i - 1) \in DOMAIN B
    BY <1>1, <2>1 DEF RunEndsAt
  <2> QED BY <2>2 DEF IInv, TypeOK
<1>3. run \in [1 .. k -> Ranks]
  BY <1>2 DEF RunOf
<1> HIDE DEF run
<1>4. run \in Seq(Ranks) /\ Len(run) = k
  BY <1>3
<1> QED BY <1>1, <1>4 DEF run

-----------------------------------------------------------------------------
(* Refinement *)

\* The log of an application only ever gets longer.
LogGrows ==
  /\ Len(delivered') > Len(delivered)
  /\ \A i \in 1 .. Len(delivered) : delivered'[i] = delivered[i]

\* Whatever is received, the log stays as it is or grows at its end.
LEMMA ReceiveGrows ==
  ASSUME IInv, NEW m \in wire, OnPacketReceived(m)
  PROVE  delivered' = delivered \/ LogGrows
<1>1. delivered \in Seq(Ranks) /\ m.data \in Ranks
  BY ReceiverFacts DEF ReceiverOK, ReceiverType
<1>2. /\ Append(delivered, m.data) \in Seq(Ranks)
      /\ Len(Append(delivered, m.data)) = Len(delivered) + 1
      /\ Len(delivered) \in Nat
      /\ \A i \in 1 .. Len(delivered) : Append(delivered, m.data)[i] = delivered[i]
  BY <1>1, AppendProperties
<1>3. CASE ReceiveUnsequenced(m) \/ ReceiveNewest(m)
  BY <1>2, <1>3 DEF ReceiveUnsequenced, ReceiveNewest, LogGrows
<1>4. CASE ReceiveInOrder(m)
  <2> DEFINE longer == Append(delivered, m.data)
  <2>1. PICK run \in Seq(Ranks) : delivered' = longer \o run
    BY <1>4, InOrderDelivers
  <2> HIDE DEF longer
  <2>2. /\ Len(longer \o run) = Len(longer) + Len(run)
        /\ Len(longer) \in Nat /\ Len(run) \in Nat
        /\ \A i \in 1 .. Len(longer) : (longer \o run)[i] = longer[i]
    BY <1>2, ConcatExtends DEF longer
  <2>3. /\ Len(longer) = Len(delivered) + 1
        /\ \A i \in 1 .. Len(delivered) : longer[i] = delivered[i]
    BY <1>2 DEF longer
  <2>4. \A i \in 1 .. Len(delivered) : i \in 1 .. Len(longer)
    BY <1>2, <2>3
  <2>5. Len(delivered') > Len(delivered)
    BY <1>2, <2>1, <2>2, <2>3
  <2>6. \A i \in 1 .. Len(delivered) : delivered'[i] = delivered[i]
    BY <2>1, <2>2, <2>3, <2>4
  <2> QED BY <2>5, <2>6 DEF LogGrows
<1>5. CASE ReceiveAhead(m) \/ ReceiveStale(m)
  BY <1>5 DEF ReceiveAhead, ReceiveStale
<1> QED BY <1>3, <1>4, <1>5 DEF OnPacketReceived

LEMMA UpdateGrows ==
  ASSUME IInv, Update
  PROVE  LogGrows
<1>1. PICK run \in Seq(Ranks) : delivered' = delivered \o run /\ Len(run) > 0
  BY UpdateDelivers
<1>2. delivered \in Seq(Ranks)
  BY ReceiverFacts DEF ReceiverOK, ReceiverType
<1>3. /\ Len(delivered \o run) = Len(delivered) + Len(run)
      /\ Len(delivered) \in Nat /\ Len(run) \in Nat
      /\ \A i \in 1 .. Len(delivered) : (delivered \o run)[i] = delivered[i]
  BY <1>2, ConcatExtends
<1> QED BY <1>1, <1>3 DEF LogGrows

\* Every step accepts a message, extends the log, or leaves both alone.
LEMMA StepEffect ==
  ASSUME IInv, [Next]_vars
  PROVE  /\ config' = config
         /\ \/ sent' = sent /\ delivered' = delivered
            \/ sent' = sent + 1 /\ delivered' = delivered
            \/ sent' = sent /\ LogGrows
<1>1. CASE Send
  BY <1>1 DEF Send, receiverVars
<1>2. CASE GetOutgoingMessage \/ GetRetransmitMessages \/ Tick
  BY <1>2 DEF GetOutgoingMessage, GetRetransmitMessages, Tick, receiverVars
<1>3. ASSUME NEW n \in Ranks, AcknowledgeMessage(n) \/ MarkForFastRetransmit(n)
      PROVE  config' = config /\ sent' = sent /\ delivered' = delivered
  BY <1>3 DEF AcknowledgeMessage, MarkForFastRetransmit, receiverVars
<1>4. ASSUME NEW m \in wire, OnPacketReceived(m)
      PROVE  config' = config /\ sent' = sent /\ (delivered' = delivered \/ LogGrows)
  BY <1>4, ReceiveGrows DEF OnPacketReceived, senderVars
<1>5. ASSUME NEW m \in wire, Lose(m)
      PROVE  config' = config /\ sent' = sent /\ delivered' = delivered
  BY <1>5 DEF Lose, senderVars, receiverVars
<1>6. CASE Update
  BY <1>6, UpdateGrows DEF Update, senderVars
<1>7. CASE UNCHANGED vars
  BY <1>7 DEF vars, senderVars, receiverVars
<1> QED BY <1>1, <1>2, <1>3, <1>4, <1>5, <1>6, <1>7 DEF Next

LEMMA AbstractInit == Init => Abstract!Init
BY DEF Init, Abstract!Init, Sequenced, Ordered

\* A step of the channel is a step of what it promises, or changes nothing of it.
LEMMA AbstractStep == IInv /\ IInv' /\ [Next]_vars => [Abstract!Next]_(Abstract!vars)
<1> SUFFICES ASSUME IInv, IInv', [Next]_vars
             PROVE  [Abstract!Next]_(Abstract!vars)
  OBVIOUS
<1>1. (Sequenced \/ Ordered)' = (Sequenced \/ Ordered)
  BY StepEffect DEF Sequenced, Ordered
<1>2. CASE sent' = sent /\ delivered' = delivered
  BY <1>1, <1>2 DEF Abstract!vars
<1>3. CASE sent' = sent + 1 /\ delivered' = delivered
  BY <1>1, <1>3 DEF Abstract!Next, Abstract!Accept
<1>4. CASE sent' = sent /\ LogGrows
  <2>1. Len(delivered) \in Nat /\ Len(delivered') \in Nat
    BY DEF IInv, TypeOK
  <2>2. ASSUME NEW i \in Len(delivered) + 1 .. Len(delivered')
        PROVE  /\ delivered'[i] \in 1 .. sent
               /\ (Sequenced \/ Ordered) /\ i > 1 => delivered'[i - 1] < delivered'[i]
    <3>1. i \in 1 .. Len(delivered') /\ (i > 1 => i - 1 \in 1 .. Len(delivered') /\ i - 1 < i)
      BY <2>1
    <3>2. delivered'[i] \in Ranks /\ delivered'[i] <= sent' /\ sent' \in Nat
      BY <3>1 DEF IInv, TypeOK, DeliveredInv
    <3>3. (Sequenced \/ Ordered) /\ i > 1 => delivered'[i - 1] < delivered'[i]
      BY <1>1, <3>1 DEF IInv, DeliveredInv
    <3> QED BY <1>4, <3>2, <3>3, WindowFacts DEF Ranks
  <2>3. Abstract!Deliver
    BY <1>1, <1>4, <2>2 DEF Abstract!Deliver, LogGrows
  <2> QED BY <2>3 DEF Abstract!Next
<1> QED BY <1>2, <1>3, <1>4, StepEffect

\* A channel implements what ChannelDelivery promises the two applications: nothing
\* is delivered that was not sent, the log is never rewritten, and an ordered or
\* sequenced channel never repeats a message nor goes back (send, on_packet_received,
\* update and receive together).
THEOREM ChannelImplementsDelivery == Spec => KeepsDeliveryPromise
<1>1. Spec => []IInv
  BY Invariance
<1> QED BY <1>1, AbstractInit, AbstractStep, PTL
       DEF Spec, KeepsDeliveryPromise, Abstract!Spec

-----------------------------------------------------------------------------
(* Gaps *)

\* Nothing is skipped while no buffered message is overdue.
LEMMA InOrderLeavesNoGap ==
  ASSUME IInv, NEW m \in wire, ReceiveInOrder(m),
         NEW i \in Len(delivered) + 1 .. Len(delivered'), i > 1
  PROVE  SeqOfRank(delivered'[i]) =
           IF i = Len(delivered) + 1 THEN receive_sequence
           ELSE SeqNext(SeqOfRank(delivered'[i - 1]))
<1> DEFINE longer == Append(delivered, m.data)
<1>1. PICK run \in Seq(Ranks) :
        /\ delivered' = longer \o run
        /\ m.data = Awaited
        /\ \A j \in 1 .. Len(run) : run[j] = Awaited + j
  BY InOrderDelivers
<1>2. /\ delivered \in Seq(Ranks) /\ m.data \in Ranks /\ Len(delivered) \in Nat
      /\ Awaited \in 1 .. MaxSends + 1 /\ receive_sequence = SeqOfRank(Awaited)
  BY ReceiverFacts DEF ReceiverOK, ReceiverType
<1>3. /\ longer \in Seq(Ranks) /\ Len(longer) = Len(delivered) + 1
      /\ longer[Len(delivered) + 1] = Awaited
  BY <1>1, <1>2, AppendProperties
<1> HIDE DEF longer
<1>4. /\ Len(delivered') = Len(delivered) + 1 + Len(run) /\ Len(run) \in Nat
      /\ delivered'[Len(delivered) + 1] = Awaited
      /\ \A j \in 1 .. Len(run) : delivered'[Len(delivered) + 1 + j] = run[j]
  <2>1. /\ Len(longer \o run) = Len(longer) + Len(run)
        /\ Len(longer) \in Nat /\ Len(run) \in Nat
        /\ \A j \in 1 .. Len(longer) : (longer \o run)[j] = longer[j]
        /\ \A j \in 1 .. Len(run) : (longer \o run)[Len(longer) + j] = run[j]
    BY <1>3, ConcatExtends
  <2>2. Len(delivered) + 1 \in 1 .. Len(longer)
    BY <1>2, <1>3
  <2> QED BY <1>1, <1>3, <2>1, <2>2
<1>5. \A j \in 0 .. Len(run) : delivered'[Len(delivered) + 1 + j] = Awaited + j
  <2> TAKE j \in 0 .. Len(run)
  <2>1. CASE j = 0
    BY <1>2, <1>4, <2>1
  <2>2. CASE j \in 1 .. Len(run)
    BY <1>1, <1>4, <2>2
  <2> QED BY <1>4, <2>1, <2>2
<1>6. CASE i = Len(delivered) + 1
  BY <1>2, <1>4, <1>6
<1>7. CASE i # Len(delivered) + 1
  <2> DEFINE j == i - (Len(delivered) + 1)
  <2>1. j \in 1 .. Len(run) /\ j \in 0 .. Len(run) /\ j - 1 \in 0 .. Len(run)
    BY <1>2, <1>4, <1>7
  <2>2. i = Len(delivered) + 1 + j /\ i - 1 = Len(delivered) + 1 + (j - 1)
    BY <1>2
  <2> HIDE DEF j
  <2>3. delivered'[i] = Awaited + j /\ delivered'[i - 1] = Awaited + (j - 1)
    BY <1>5, <2>1, <2>2
  <2>4. Awaited + j \in Ranks
    <3>1. delivered' \in Seq(Ranks)
      BY <1>1, <1>3, ConcatProperties
    <3> QED BY <1>2, <2>3, <3>1
  <2>5. /\ Awaited + (j - 1) \in 1 .. FullRange /\ 1 \in Nat
        /\ (Awaited + (j - 1)) + 1 = Awaited + j /\ Awaited + j <= FullRange
    BY <1>2, <2>1, <2>4, WindowFacts DEF Ranks
  <2>6. SeqNext(SeqOfRank(Awaited + (j - 1))) = SeqOfRank((Awaited + (j - 1)) + 1)
    BY <2>5, SeqOfRankPlus DEF SeqNext
  <2> QED BY <1>7, <2>3, <2>5, <2>6
<1> QED BY <1>6, <1>7

\* An ordered channel passes over a missing message only in update(), and only when
\* some buffered message has waited longer than ordered_buffer_timeout; a full buffer
\* that loses an entry, and duplicates, never make it do so.
THEOREM OrderedLeavesNoEarlyGap == Spec => NoGapBeforeTimeout
<1> DEFINE calm == /\ Ordered
                   /\ \A s \in DOMAIN ordered_receive_buffer :
                        ordered_receive_buffer[s].age <= OrderedBufferTimeout
           noGap == \A i \in Len(delivered) + 1 .. Len(delivered') :
                      i > 1 => SeqOfRank(delivered'[i]) =
                                 IF i = Len(delivered) + 1 THEN receive_sequence
                                 ELSE SeqNext(SeqOfRank(delivered'[i - 1]))
<1>1. ASSUME IInv, [Next]_vars, calm PROVE noGap
  <2>1. Len(delivered) \in Nat
    BY <1>1, ReceiverFacts
  <2>2. CASE delivered' = delivered
    BY <2>1, <2>2
  <2>3. ASSUME NEW m \in wire, ReceiveInOrder(m) PROVE noGap
    BY <1>1, <2>3, InOrderLeavesNoGap
  <2>4. ASSUME NEW m \in wire, OnPacketReceived(m) PROVE noGap
    <3>1. ~ReceiveUnsequenced(m) /\ ~ReceiveNewest(m)
      BY <1>1 DEF ReceiveUnsequenced, ReceiveNewest, Ordered, Sequenced
    <3>2. ReceiveAhead(m) \/ ReceiveStale(m) => delivered' = delivered
      BY DEF ReceiveAhead, ReceiveStale
    <3> HIDE DEF noGap
    <3> QED BY <2>2, <2>3, <2>4, <3>1, <3>2 DEF OnPacketReceived
  <2>5. ~Update
    <3> SUFFICES ASSUME Update PROVE FALSE
      OBVIOUS
    <3>1. PICK s \in DOMAIN ordered_receive_buffer : TimedOut(s)
      BY DEF Update
    <3>2. ordered_receive_buffer[s].age \in Int /\ OrderedBufferTimeout \in Int
      BY <1>1, ChannelAssumption DEF IInv, TypeOK, Ages
    <3> QED BY <1>1, <3>1, <3>2 DEF TimedOut
  <2>6. \A n \in Ranks : AcknowledgeMessage(n) \/ MarkForFastRetransmit(n)
                           => delivered' = delivered
    BY DEF AcknowledgeMessage, MarkForFastRetransmit, receiverVars
  <2>7. \A m \in wire : Lose(m) => delivered' = delivered
    BY DEF Lose, receiverVars
  <2>8. Send \/ GetOutgoingMessage \/ GetRetransmitMessages \/ Tick => delivered' = delivered
    BY DEF Send, GetOutgoingMessage, GetRetransmitMessages, Tick, receiverVars
  <2>9. UNCHANGED vars => delivered' = delivered
    BY DEF vars, receiverVars
  <2> HIDE DEF noGap
  <2> QED BY <1>1, <2>2, <2>4, <2>5, <2>6, <2>7, <2>8, <2>9 DEF Next
<1>2. IInv /\ [Next]_vars => [calm => noGap]_vars
  <2> HIDE DEF calm, noGap
  <2> QED BY <1>1
<1>3. Spec => []IInv
  BY Invariance
<1> QED BY <1>2, <1>3, PTL DEF Spec, NoGapBeforeTimeout

-----------------------------------------------------------------------------
(* Retransmission *)

Attempt == [transmissions : Nat, quiet : Ages, reported : BOOLEAN]

\* What the retransmission map records of a message agrees with its history: the retries
\* are the transmissions after the first, and its timer tells the ticks since the last
\* one, unless it was set by a report.
AgreesAt(s) ==
  /\ attempts[s] \in Attempt
  /\ attempts[s].transmissions = pending_ack[s].retry_count + 1
  /\ attempts[s].reported \/ attempts[s].quiet = pending_ack[s].age

AttemptsInv ==
  /\ DOMAIN attempts = DOMAIN pending_ack
  /\ \A s \in DOMAIN pending_ack : AgreesAt(s)

LEMMA PendingTyped ==
  ASSUME IInv, NEW s \in DOMAIN pending_ack
  PROVE  /\ pending_ack[s] \in [data : Ranks, age : Ages, retry_count : 0 .. MaxReliableRetries]
         /\ pending_ack[s].retry_count \in Nat /\ MaxReliableRetries \in Nat /\ 0 \in Ages
<1>1. pending_ack[s] \in [data : Ranks, age : Ages, retry_count : 0 .. MaxReliableRetries]
  BY DEF IInv, TypeOK
<1> QED BY <1>1, ChannelAssumption DEF Ages

LEMMA OutgoingAgrees ==
  ASSUME IInv, AttemptsInv, GetOutgoingMessage
  PROVE  AttemptsInv'
<1> DEFINE message == Head(send_buffer)
           entry   == [data |-> message.data, age |-> 0, retry_count |-> 0]
<1>1. CASE pending_ack' = pending_ack /\ attempts' = attempts
  BY <1>1 DEF AttemptsInv, AgreesAt
<1>2. CASE /\ pending_ack' = Put(pending_ack, message.sequence, entry)
           /\ attempts' = Put(attempts, message.sequence, FirstAttempt)
  <2>1. DOMAIN attempts' = DOMAIN pending_ack'
    BY <1>2 DEF Put, AttemptsInv
  <2>2. ASSUME NEW s \in DOMAIN pending_ack' PROVE AgreesAt(s)'
    <3> HIDE DEF message
    <3>1. CASE s = message.sequence
      <4>1. pending_ack'[s] = entry /\ attempts'[s] = FirstAttempt
        BY <1>2, <3>1 DEF Put
      <4>2. 0 \in Ages
        BY ChannelAssumption DEF Ages
      <4> QED BY <4>1, <4>2 DEF AgreesAt, FirstAttempt, Attempt
    <3>2. CASE s # message.sequence
      <4>1. s \in DOMAIN pending_ack /\ s \in DOMAIN attempts
        BY <1>2, <3>2 DEF Put, AttemptsInv
      <4>2. pending_ack'[s] = pending_ack[s] /\ attempts'[s] = attempts[s]
        BY <1>2, <3>2, <4>1 DEF Put
      <4> QED BY <4>1, <4>2 DEF AttemptsInv, AgreesAt
    <3> QED BY <3>1, <3>2
  <2> QED BY <2>1, <2>2 DEF AttemptsInv
<1> QED BY <1>1, <1>2 DEF GetOutgoingMessage

LEMMA RetransmitAgrees ==
  ASSUME IInv, AttemptsInv, GetRetransmitMessages
  PROVE  AttemptsInv'
<1>1. /\ DOMAIN pending_ack' = DOMAIN pending_ack \ Exhausted
      /\ DOMAIN attempts' = DOMAIN pending_ack \ Exhausted
  BY DEF GetRetransmitMessages, AttemptsInv
<1>2. ASSUME NEW s \in DOMAIN pending_ack' PROVE AgreesAt(s)'
  <2>1. /\ s \in DOMAIN pending_ack \ Exhausted /\ s \in DOMAIN attempts \ Exhausted
        /\ AgreesAt(s)
    BY <1>1 DEF AttemptsInv
  <2>2. /\ pending_ack[s] \in [data : Ranks, age : Ages, retry_count : 0 .. MaxReliableRetries]
        /\ pending_ack[s].retry_count \in Nat /\ 0 \in Ages
    BY <2>1, PendingTyped
  <2>3. CASE s \in Due
    <3>1. /\ pending_ack'[s] = [pending_ack[s] EXCEPT !.age = 0, !.retry_count = @ + 1]
          /\ attempts'[s] = NextAttempt(attempts[s])
      BY <2>1, <2>3 DEF GetRetransmitMessages
    <3>2. pending_ack'[s].retry_count = pending_ack[s].retry_count + 1 /\ pending_ack'[s].age = 0
      BY <2>2, <3>1
    <3>3. /\ attempts'[s].transmissions = attempts[s].transmissions + 1
          /\ attempts'[s].quiet = 0 /\ attempts[s].transmissions \in Nat
          /\ attempts'[s] \in Attempt
      BY <2>1, <2>2, <3>1 DEF NextAttempt, AgreesAt, Attempt
    <3> QED BY <2>1, <2>2, <3>2, <3>3 DEF AgreesAt
  <2>4. CASE s \notin Due
    <3>1. pending_ack'[s] = pending_ack[s] /\ attempts'[s] = attempts[s]
      BY <2>1, <2>4 DEF GetRetransmitMessages
    <3> QED BY <2>1, <3>1 DEF AgreesAt
  <2> QED BY <2>3, <2>4
<1> QED BY <1>1, <1>2 DEF AttemptsInv

LEMMA AcknowledgeAgrees ==
  ASSUME AttemptsInv, NEW n \in Ranks, AcknowledgeMessage(n)
  PROVE  AttemptsInv'
<1>1. /\ DOMAIN pending_ack' = DOMAIN pending_ack \ {SeqOfRank(n)}
      /\ DOMAIN attempts' = DOMAIN pending_ack \ {SeqOfRank(n)}
      /\ \A s \in DOMAIN pending_ack' : /\ pending_ack'[s] = pending_ack[s]
                                        /\ attempts'[s] = attempts[s]
  BY DEF AcknowledgeMessage, Drop, Restrict, AttemptsInv
<1> QED BY <1>1 DEF AttemptsInv, AgreesAt

LEMMA MarkAgrees ==
  ASSUME IInv, AttemptsInv, NEW n \in Ranks, MarkForFastRetransmit(n)
  PROVE  AttemptsInv'
<1> DEFINE marked == SeqOfRank(n)
<1>1. /\ pending_ack' = [pending_ack EXCEPT ![marked].age = FastRetransmitAge]
      /\ attempts' = [attempts EXCEPT ![marked].reported = TRUE]
  BY DEF MarkForFastRetransmit
<1>2. DOMAIN attempts' = DOMAIN pending_ack' /\ DOMAIN pending_ack' = DOMAIN pending_ack
  BY <1>1 DEF AttemptsInv
<1>3. ASSUME NEW s \in DOMAIN pending_ack' PROVE AgreesAt(s)'
  <2>1. s \in DOMAIN pending_ack /\ s \in DOMAIN attempts /\ AgreesAt(s)
    BY <1>2 DEF AttemptsInv
  <2>2. pending_ack[s] \in [data : Ranks, age : Ages, retry_count : 0 .. MaxReliableRetries]
    BY <2>1, PendingTyped
  <2> HIDE DEF marked
  <2>3. CASE s = marked
    <3>1. /\ pending_ack'[s] = [pending_ack[s] EXCEPT !.age = FastRetransmitAge]
          /\ attempts'[s] = [attempts[s] EXCEPT !.reported = TRUE]
      BY <1>1, <2>1, <2>3
    <3>2. pending_ack'[s].retry_count = pending_ack[s].retry_count
      BY <2>2, <3>1
    <3>3. /\ attempts'[s] \in Attempt /\ attempts'[s].reported = TRUE
          /\ attempts'[s].transmissions = attempts[s].transmissions
      BY <2>1, <3>1 DEF AgreesAt, Attempt
    <3> QED BY <2>1, <3>2, <3>3 DEF AgreesAt
  <2>4. CASE s # marked
    <3>1. pending_ack'[s] = pending_ack[s] /\ attempts'[s] = attempts[s]
      BY <1>1, <2>1, <2>4
    <3> QED BY <2>1, <3>1 DEF AgreesAt
  <2> QED BY <2>3, <2>4
<1> QED BY <1>2, <1>3 DEF AttemptsInv

LEMMA TickAgrees ==
  ASSUME IInv, AttemptsInv, Tick
  PROVE  AttemptsInv'
<1>1. DOMAIN attempts' = DOMAIN pending_ack' /\ DOMAIN pending_ack' = DOMAIN pending_ack
  BY DEF Tick, AttemptsInv
<1>2. ASSUME NEW s \in DOMAIN pending_ack' PROVE AgreesAt(s)'
  <2>1. s \in DOMAIN pending_ack /\ s \in DOMAIN attempts /\ AgreesAt(s)
    BY <1>1 DEF AttemptsInv
  <2>2. pending_ack[s] \in [data : Ranks, age : Ages, retry_count : 0 .. MaxReliableRetries]
    BY <2>1, PendingTyped
  <2>3. /\ pending_ack'[s] = [pending_ack[s] EXCEPT !.age = Older(@)]
        /\ attempts'[s] = [attempts[s] EXCEPT !.quiet = Older(@)]
    BY <2>1 DEF Tick
  <2>4. /\ pending_ack'[s].retry_count = pending_ack[s].retry_count
        /\ pending_ack'[s].age = Older(pending_ack[s].age)
    BY <2>2, <2>3
  <2>5. \A age \in Ages : Older(age) \in Ages
    BY ChannelAssumption DEF Older, Ages
  <2>6. /\ attempts'[s] \in Attempt
        /\ attempts'[s].transmissions = attempts[s].transmissions
        /\ attempts'[s].reported = attempts[s].reported
        /\ attempts'[s].quiet = Older(attempts[s].quiet)
    <3>1. attempts[s] \in [transmissions : Nat, quiet : Ages, reported : BOOLEAN]
      BY <2>1 DEF AgreesAt, Attempt
    <3>2. Older(attempts[s].quiet) \in Ages
      BY <2>5, <3>1
    <3>3. attempts'[s].quiet = Older(attempts[s].quiet)
      BY <2>3, <3>1
    <3> QED BY <2>3, <3>1, <3>2, <3>3 DEF Attempt
  <2> QED BY <2>1, <2>4, <2>6 DEF AgreesAt
<1> QED BY <1>1, <1>2 DEF AttemptsInv

LEMMA AttemptsStep == IInv /\ AttemptsInv /\ [Next]_vars => AttemptsInv'
<1> SUFFICES ASSUME IInv, AttemptsInv, [Next]_vars PROVE AttemptsInv'
  OBVIOUS
<1>1. CASE UNCHANGED <<pending_ack, attempts>>
  BY <1>1 DEF AttemptsInv, AgreesAt
<1>2. Send \/ Update \/ UNCHANGED vars => UNCHANGED <<pending_ack, attempts>>
  BY DEF Send, Update, vars, senderVars
<1>3. \A m \in wire : OnPacketReceived(m) \/ Lose(m) => UNCHANGED <<pending_ack, attempts>>
  BY DEF OnPacketReceived, Lose, senderVars
<1> QED BY <1>1, <1>2, <1>3, OutgoingAgrees, RetransmitAgrees, AcknowledgeAgrees,
           MarkAgrees, TickAgrees DEF Next

\* The message get_outgoing_message takes is not yet among those awaiting their ack.
LEMMA FreshNumber ==
  ASSUME IInv, send_buffer # <<>>, NEW s \in DOMAIN pending_ack
  PROVE  s # Head(send_buffer).sequence
<1>1. send_buffer \in Seq([sequence : SeqNums, data : Ranks, reliable : BOOLEAN])
  BY DEF IInv, TypeOK
<1>2. Len(send_buffer) \in Nat \ {0} /\ Head(send_buffer) = send_buffer[1]
  BY <1>1, HeadTailProperties, EmptySeq
<1> DEFINE message == Head(send_buffer)
<1>3. message.data = sent - Len(send_buffer) + 1 /\ message.sequence = SeqOfRank(message.data)
  BY <1>2 DEF IInv, SenderInv
<1>4. message.data \in Ranks
  <2>1. 1 \in 1 .. Len(send_buffer)
    BY <1>2
  <2>2. send_buffer[1] \in [sequence : SeqNums, data : Ranks, reliable : BOOLEAN]
    BY <1>1, <2>1, ElementOfSeq
  <2> QED BY <1>2, <2>2
<1>5. /\ s = SeqOfRank(pending_ack[s].data) /\ pending_ack[s].data \in Ranks
      /\ pending_ack[s].data <= sent - Len(send_buffer) /\ sent \in Nat
  BY DEF IInv, SenderInv, TypeOK
<1> HIDE DEF message
<1>6. pending_ack[s].data # message.data
  BY <1>2, <1>3, <1>5 DEF Ranks
<1>7. pending_ack[s].data \in 1 .. FullRange /\ message.data \in 1 .. FullRange
  BY <1>4, <1>5, WindowFacts DEF Ranks
<1>8. SeqOfRank(pending_ack[s].data) # SeqOfRank(message.data)
  BY <1>6, <1>7, SeqOfRankInjective
<1> QED BY <1>3, <1>5, <1>8 DEF message

\* A message that is due was waited for as long as its history asks.
LEMMA DueWaitedOut ==
  ASSUME IInv, AttemptsInv, NEW s \in Due
  PROVE  WaitedOut(s)
<1>1. s \in DOMAIN pending_ack /\ pending_ack[s].age >= Backoff(pending_ack[s].retry_count)
  BY DEF Due
<1>2. AgreesAt(s) /\ pending_ack[s].retry_count \in Nat
  BY <1>1, PendingTyped DEF AttemptsInv
<1>3. attempts[s].transmissions - 1 = pending_ack[s].retry_count
  BY <1>2 DEF AgreesAt
<1> HIDE DEF Backoff
<1> QED BY <1>1, <1>2, <1>3 DEF WaitedOut, AgreesAt

\* Whatever the limits and the timers are, a reliable message is put on the wire
\* 1 + max_reliable_retries times before get_retransmit_messages forgets it, and each
\* time but after a report its whole backoff was waited for; only an acknowledgment of
\* a packet that reached the peer ends this sooner.
THEOREM ReliableKeepsTrying == Spec => KeepsTrying
<1> DEFINE ended == \A s \in DOMAIN pending_ack \ DOMAIN pending_ack' :
                      \/ pending_ack[s].data \in arrived
                      \/ /\ attempts[s].transmissions = 1 + MaxReliableRetries
                         /\ WaitedOut(s)
           resent == \A s \in DOMAIN attempts \cap DOMAIN attempts' :
                       attempts'[s].transmissions # attempts[s].transmissions => WaitedOut(s)
           trying == Reliable => ended /\ resent
<1>1. ASSUME IInv, AttemptsInv, [Next]_vars PROVE ended
  <2>1. CASE DOMAIN pending_ack \subseteq DOMAIN pending_ack'
    BY <2>1
  <2>2. CASE GetRetransmitMessages
    <3>1. DOMAIN pending_ack \ DOMAIN pending_ack' \subseteq Exhausted
      BY <2>2 DEF GetRetransmitMessages
    <3>2. ASSUME NEW s \in Exhausted
          PROVE  attempts[s].transmissions = 1 + MaxReliableRetries /\ WaitedOut(s)
      <4>1. /\ s \in Due /\ s \in DOMAIN pending_ack
            /\ pending_ack[s].retry_count >= MaxReliableRetries
        BY DEF Exhausted, Due
      <4>2. /\ pending_ack[s].retry_count \in 0 .. MaxReliableRetries
            /\ MaxReliableRetries \in Nat
        BY <1>1, <4>1, PendingTyped
      <4>3. attempts[s].transmissions = pending_ack[s].retry_count + 1
        BY <1>1, <4>1 DEF AttemptsInv, AgreesAt
      <4> QED BY <1>1, <4>1, <4>2, <4>3, DueWaitedOut
    <3> QED BY <3>1, <3>2
  <2>3. ASSUME NEW n \in Ranks, AcknowledgeMessage(n) PROVE ended
    <3> SUFFICES ASSUME NEW s \in DOMAIN pending_ack \ DOMAIN pending_ack'
                 PROVE  pending_ack[s].data \in arrived
      OBVIOUS
    <3>1. s = SeqOfRank(n) /\ n \in arrived
      BY <2>3 DEF AcknowledgeMessage, Drop, Restrict
    <3>2. s = SeqOfRank(pending_ack[s].data) /\ pending_ack[s].data \in Ranks
      BY <1>1 DEF IInv, SenderInv, TypeOK
    <3>3. n \in 1 .. FullRange /\ pending_ack[s].data \in 1 .. FullRange
      BY <3>2, WindowFacts DEF Ranks
    <3>4. n = pending_ack[s].data
      BY <3>1, <3>2, <3>3, SeqOfRankInjective
    <3> QED BY <3>1, <3>4
  <2>4. Send \/ Update \/ UNCHANGED vars => pending_ack' = pending_ack
    BY DEF Send, Update, vars, senderVars
  <2>5. GetOutgoingMessage \/ Tick => DOMAIN pending_ack \subseteq DOMAIN pending_ack'
    BY DEF GetOutgoingMessage, Tick, Put
  <2>6. \A n \in Ranks : MarkForFastRetransmit(n)
                           => DOMAIN pending_ack \subseteq DOMAIN pending_ack'
    BY DEF MarkForFastRetransmit
  <2>7. \A m \in wire : OnPacketReceived(m) \/ Lose(m) => pending_ack' = pending_ack
    BY DEF OnPacketReceived, Lose, senderVars
  <2> HIDE DEF ended
  <2> QED BY <1>1, <2>1, <2>2, <2>3, <2>4, <2>5, <2>6, <2>7 DEF Next
<1>2. ASSUME IInv, AttemptsInv, [Next]_vars PROVE resent
  <2> SUFFICES ASSUME NEW s \in DOMAIN attempts, s \in DOMAIN attempts',
                      attempts'[s].transmissions # attempts[s].transmissions
               PROVE  WaitedOut(s)
    OBVIOUS
  <2>1. s \in DOMAIN pending_ack /\ attempts[s] \in Attempt
    BY <1>2 DEF AttemptsInv, AgreesAt
  <2>2. CASE GetRetransmitMessages
    <3>1. s \in Due
      BY <2>2 DEF GetRetransmitMessages
    <3> QED BY <1>2, <3>1, DueWaitedOut
  <2>3. ~GetOutgoingMessage
    <3> SUFFICES ASSUME GetOutgoingMessage PROVE FALSE
      OBVIOUS
    <3>1. PICK message \in {Head(send_buffer)} :
            attempts' \in {attempts, Put(attempts, message.sequence, FirstAttempt)}
      BY DEF GetOutgoingMessage
    <3>2. s # message.sequence
      <4>1. /\ send_buffer # <<>> /\ message = Head(send_buffer)
        BY DEF GetOutgoingMessage
      <4> QED BY <1>2, <2>1, <4>1, FreshNumber
    <3> QED BY <3>1, <3>2 DEF Put
  <2>4. ~Tick
    BY <2>1 DEF Tick, Attempt
  <2>5. \A n \in Ranks : ~AcknowledgeMessage(n)
    BY DEF AcknowledgeMessage, Drop, Restrict
  <2>6. \A n \in Ranks : ~MarkForFastRetransmit(n)
    <3> SUFFICES ASSUME NEW n \in Ranks, MarkForFastRetransmit(n) PROVE FALSE
      OBVIOUS
    <3>1. attempts' = [attempts EXCEPT ![SeqOfRank(n)].reported = TRUE]
      BY DEF MarkForFastRetransmit
    <3>2. attempts'[s].transmissions = attempts[s].transmissions
      BY <2>1, <3>1 DEF Attempt
    <3> QED BY <3>2
  <2>7. ~Send /\ ~Update /\ ~UNCHANGED vars
    BY DEF Send, Update, vars
  <2>8. \A m \in wire : ~OnPacketReceived(m) /\ ~Lose(m)
    BY DEF OnPacketReceived, Lose
  <2> QED BY <1>2, <2>2, <2>3, <2>4, <2>5, <2>6, <2>7, <2>8 DEF Next
<1>3. IInv /\ AttemptsInv /\ [Next]_vars => [trying]_vars
  <2> HIDE DEF ended, resent
  <2> QED BY <1>1, <1>2
<1>4. Init => AttemptsInv
  BY DEF Init, AttemptsInv, EmptyMap
<1>5. Spec => []IInv
  BY Invariance
<1>6. Spec => []AttemptsInv
  BY <1>4, <1>5, AttemptsStep, PTL DEF Spec
<1> QED BY <1>3, <1>5, <1>6, PTL DEF Spec, KeepsTrying
=============================================================================
