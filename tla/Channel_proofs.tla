---------------------------- MODULE Channel_proofs --------------------------
(***************************************************************************)
(* Theorems about Channel.  The inductive invariant says where each half   *)
(* stands in terms of ranks, which are integers and do not wrap around;    *)
(* the window assumption then turns every comparison of sequence numbers   *)
(* into a comparison of ranks.                                             *)
(***************************************************************************)
EXTENDS Channel, SeqNum_proofs, SequenceTheorems, FiniteSetTheorems

\* The rank of the message an ordered receiver waits for.
Awaited == SeqDistance(StartSeq, receive_sequence) + 1

SenderInv ==
  /\ send_sequence = SeqOfRank(sent + 1)
  /\ Len(send_buffer) <= sent
  /\ \A i \in 1 .. Len(send_buffer) :
       /\ send_buffer[i].data = sent - Len(send_buffer) + i
       /\ send_buffer[i].sequence = SeqOfRank(send_buffer[i].data)
  /\ \A s \in DOMAIN pending_ack :
       /\ s = SeqOfRank(pending_ack[s].data)
       /\ pending_ack[s].data <= sent - Len(send_buffer)

WireInv ==
  \A m \in wire : m.sequence = SeqOfRank(m.data) /\ m.data <= sent

ReceiverInv ==
  /\ Awaited \in 1 .. sent + 1
  /\ \A s \in DOMAIN ordered_receive_buffer :
       /\ s = SeqOfRank(ordered_receive_buffer[s].data)
       /\ ordered_receive_buffer[s].data > Awaited
       /\ ordered_receive_buffer[s].data <= sent

DeliveredInv ==
  /\ \A i \in 1 .. Len(delivered) : delivered[i] <= sent
  /\ Ordered => \A i \in 1 .. Len(delivered) : delivered[i] < Awaited
  /\ Sequenced /\ delivered # <<>> =>
       last_received_sequence = SeqOfRank(delivered[Len(delivered)])
  /\ Sequenced \/ Ordered =>
       \A i, j \in 1 .. Len(delivered) : i < j => delivered[i] < delivered[j]

IInv == TypeOK /\ SenderInv /\ WireInv /\ ReceiverInv /\ DeliveredInv

-----------------------------------------------------------------------------
(* Ranks and numbers *)

LEMMA WindowFacts ==
  /\ MaxSends \in Nat /\ HalfRange \in Nat /\ HalfRange > 1 /\ MaxSends < HalfRange
  /\ StartSeq \in SeqNums
  /\ FullRange = 2 * HalfRange
BY ChannelAssumption, WindowAssumption, HalfRangeAssumption DEF FullRange

LEMMA SeqOfRankType ==
  ASSUME NEW n \in 1 .. FullRange
  PROVE  SeqOfRank(n) \in SeqNums
<1>1. n - 1 \in 0 .. FullRange
  BY WindowFacts
<1> QED BY <1>1, WindowFacts, PlusType DEF SeqOfRank

LEMMA SeqOfRankInjective ==
  ASSUME NEW n \in 1 .. FullRange, NEW m \in 1 .. FullRange,
         SeqOfRank(n) = SeqOfRank(m)
  PROVE  n = m
<1>1. n - 1 \in 0 .. FullRange - 1 /\ m - 1 \in 0 .. FullRange - 1
  BY WindowFacts
<1>2. n - 1 = m - 1
  BY <1>1, WindowFacts, PlusInjective DEF SeqOfRank
<1> QED BY <1>2

LEMMA SeqOfRankPlus ==
  ASSUME NEW n \in 1 .. FullRange, NEW k \in Nat, n + k <= FullRange
  PROVE  SeqPlus(SeqOfRank(n), k) = SeqOfRank(n + k)
<1>1. n - 1 \in Nat /\ (n - 1) + k < FullRange /\ (n - 1) + k = (n + k) - 1
  BY WindowFacts
<1>2. SeqPlus(SeqPlus(StartSeq, n - 1), k) = SeqPlus(StartSeq, (n - 1) + k)
  BY <1>1, WindowFacts, PlusPlus
<1> QED BY <1>1, <1>2 DEF SeqOfRank

\* sequence_greater_than on live numbers is the order of their messages.
LEMMA SeqOfRankOrder ==
  ASSUME NEW n \in 1 .. MaxSends + 1, NEW m \in 1 .. MaxSends + 1
  PROVE  SeqGreater(SeqOfRank(n), SeqOfRank(m)) <=> n > m
<1>1. n - 1 \in 0 .. HalfRange - 1 /\ m - 1 \in 0 .. HalfRange - 1
  BY WindowFacts
<1>2. SeqGreater(SeqOfRank(n), SeqOfRank(m)) <=> n - 1 > m - 1
  BY <1>1, WindowFacts, WindowOrder DEF SeqOfRank
<1> QED BY <1>2, WindowFacts

LEMMA DistanceOfRank ==
  ASSUME NEW n \in 1 .. FullRange
  PROVE  SeqDistance(StartSeq, SeqOfRank(n)) + 1 = n
<1>1. n - 1 \in 0 .. FullRange - 1
  BY WindowFacts
<1>2. SeqDistance(StartSeq, SeqPlus(StartSeq, n - 1)) = n - 1
  BY <1>1, WindowFacts, DistancePlus
<1> QED BY <1>2, WindowFacts DEF SeqOfRank

\* A number is the one of its own rank.
LEMMA RankOfSeq ==
  ASSUME NEW s \in SeqNums
  PROVE  /\ SeqDistance(StartSeq, s) + 1 \in 1 .. FullRange
         /\ SeqOfRank(SeqDistance(StartSeq, s) + 1) = s
BY WindowFacts DEF SeqOfRank, SeqDistance, SeqMinus, SeqPlus, SeqNums

LEMMA AwaitedIs ==
  ASSUME TypeOK
  PROVE  Awaited \in 1 .. FullRange /\ receive_sequence = SeqOfRank(Awaited)
BY RankOfSeq DEF Awaited, TypeOK

-----------------------------------------------------------------------------
(* What the buffers hold *)

PendingEntry  == [data : Ranks, age : Ages, retry_count : 0 .. MaxReliableRetries]
BufferedEntry == [data : Ranks, age : Ages]
QueuedMessage == [sequence : SeqNums, data : Ranks, reliable : BOOLEAN]

-----------------------------------------------------------------------------
(* The loop that delivers a run of buffered messages *)

\* When everything buffered has rank f or more and the loop starts at f and takes
\* k steps, it delivers the ranks f .. f + k - 1 and leaves only larger ones.
LEMMA RunDelivers ==
  ASSUME TypeOK, ReceiverInv, NEW f \in 1 .. MaxSends + 1, NEW k \in 0 .. HalfRange,
         \A s \in DOMAIN ordered_receive_buffer : ordered_receive_buffer[s].data >= f,
         RunEndsAt(ordered_receive_buffer, SeqOfRank(f), k)
  PROVE  /\ k > 0 => f + k <= sent + 1
         /\ SeqPlus(SeqOfRank(f), k) = SeqOfRank(f + k)
         /\ \A j \in 0 .. k - 1 :
              /\ SeqPlus(SeqOfRank(f), j) \in DOMAIN ordered_receive_buffer
              /\ ordered_receive_buffer[SeqPlus(SeqOfRank(f), j)].data = f + j
         /\ \A s \in DOMAIN ordered_receive_buffer \
                       {SeqPlus(SeqOfRank(f), j) : j \in 0 .. k - 1} :
              ordered_receive_buffer[s].data > f + k
<1> DEFINE B == ordered_receive_buffer
<1>1. \A j \in 0 .. k : /\ f + j \in 1 .. FullRange
                        /\ SeqPlus(SeqOfRank(f), j) = SeqOfRank(f + j)
  <2> TAKE j \in 0 .. k
  <2>1. j \in Nat /\ f + j \in 1 .. FullRange /\ f \in 1 .. FullRange
    BY WindowFacts
  <2> QED BY <2>1, SeqOfRankPlus
<1>2. \A s \in DOMAIN B : B[s].data \in 1 .. FullRange /\ B[s].data \in Ranks
  BY WindowFacts DEF TypeOK, Ranks
<1>3. \A j \in 0 .. k - 1 : /\ SeqPlus(SeqOfRank(f), j) \in DOMAIN B
                            /\ B[SeqPlus(SeqOfRank(f), j)].data = f + j
  <2> TAKE j \in 0 .. k - 1
  <2>1. SeqPlus(SeqOfRank(f), j) \in DOMAIN B
    BY DEF RunEndsAt
  <2>2. j \in 0 .. k
    OBVIOUS
  <2>3. SeqOfRank(f + j) \in DOMAIN B
    BY <1>1, <2>1, <2>2
  <2>4. SeqOfRank(f + j) = SeqOfRank(B[SeqOfRank(f + j)].data)
    BY <2>3 DEF ReceiverInv
  <2>5. f + j = B[SeqOfRank(f + j)].data
    BY <1>1, <1>2, <2>2, <2>3, <2>4, SeqOfRankInjective
  <2> QED BY <1>1, <2>1, <2>2, <2>5
<1>4. k > 0 => f + k <= sent + 1
  <2> SUFFICES ASSUME k > 0 PROVE f + k <= sent + 1
    OBVIOUS
  <2>1. k - 1 \in 0 .. k - 1
    OBVIOUS
  <2>2. f + (k - 1) <= sent
    BY <1>3, <2>1 DEF ReceiverInv
  <2> QED BY <2>2, WindowFacts DEF TypeOK
<1>5. \A s \in DOMAIN B \ {SeqPlus(SeqOfRank(f), j) : j \in 0 .. k - 1} :
        B[s].data > f + k
  <2> TAKE s \in DOMAIN B \ {SeqPlus(SeqOfRank(f), j) : j \in 0 .. k - 1}
  <2>1. B[s].data \in Nat /\ B[s].data >= f /\ s = SeqOfRank(B[s].data)
    BY <1>2 DEF ReceiverInv, Ranks
  <2>2. \A j \in 0 .. k - 1 : B[s].data # f + j
    <3> TAKE j \in 0 .. k - 1
    <3>1. s # SeqPlus(SeqOfRank(f), j) /\ j \in 0 .. k
      OBVIOUS
    <3> QED BY <1>1, <2>1, <3>1
  <2>3. B[s].data # f + k
    <3>1. SeqPlus(SeqOfRank(f), k) \notin DOMAIN B /\ k \in 0 .. k
      BY DEF RunEndsAt
    <3> QED BY <1>1, <2>1, <3>1
  <2>4. ~(B[s].data - f \in 0 .. k)
    <3> SUFFICES ASSUME B[s].data - f \in 0 .. k PROVE FALSE
      OBVIOUS
    <3> DEFINE j == B[s].data - f
    <3>1. B[s].data = f + j /\ (j \in 0 .. k - 1 \/ j = k)
      BY <2>1
    <3> QED BY <2>2, <2>3, <3>1
  <2> QED BY <2>1, <2>4
<1>6. k \in 0 .. k
  OBVIOUS
<1> QED BY <1>1, <1>3, <1>4, <1>5, <1>6

-----------------------------------------------------------------------------
(* The invariant holds initially *)

LEMMA InitIInv == Init => IInv
<1> SUFFICES ASSUME Init PROVE IInv
  OBVIOUS
<1> USE WindowFacts
<1>1. TypeOK
  BY ChannelAssumption DEF Init, TypeOK, EmptyMap, SeqNums
<1>2. SenderInv
  <2>1. SeqOfRank(1) = StartSeq
    BY DEF SeqOfRank, SeqPlus, SeqNums
  <2> QED BY <2>1 DEF Init, SenderInv, EmptyMap
<1>3. WireInv
  BY DEF Init, WireInv
<1>4. ReceiverInv
  <2>1. Awaited = 1
    BY DEF Init, Awaited, SeqDistance, SeqMinus, SeqNums
  <2> QED BY <2>1 DEF Init, ReceiverInv, EmptyMap
<1>5. DeliveredInv
  BY DEF Init, DeliveredInv
<1> QED BY <1>1, <1>2, <1>3, <1>4, <1>5 DEF IInv

-----------------------------------------------------------------------------
(* The steps of the sending half *)

LEMMA SendStep ==
  ASSUME IInv, Send
  PROVE  IInv'
<1> USE WindowFacts
<1>p. PICK reliable \in config.flags :
      LET message == [sequence |-> send_sequence, data |-> sent + 1,
                      reliable |-> reliable]
      IN  \/ /\ Len(send_buffer) < MessageBufferSize
             /\ send_buffer' = Append(send_buffer, message)
          \/ /\ Len(send_buffer) >= MessageBufferSize
             /\ ~config.block_on_full
             /\ send_buffer' = Append(Tail(send_buffer), message)
  BY DEF Send
<1> DEFINE message == [sequence |-> send_sequence, data |-> sent + 1,
                       reliable |-> reliable]
           base == IF Len(send_buffer) < MessageBufferSize THEN send_buffer
                                                           ELSE Tail(send_buffer)
<1>0. sent \in Nat /\ sent < MaxSends /\ sent' = sent + 1 /\ send_buffer \in Seq(QueuedMessage)
  BY DEF Send, IInv, TypeOK, QueuedMessage
<1>1. message \in QueuedMessage
  <2>1. config.flags \subseteq BOOLEAN
    BY ChannelAssumption DEF IInv, TypeOK
  <2> QED BY <1>0, <2>1 DEF IInv, TypeOK, Ranks, QueuedMessage
<1>2. /\ base \in Seq(QueuedMessage)
      /\ Len(base) \in Nat /\ Len(base) <= Len(send_buffer)
      /\ \A i \in 1 .. Len(base) :
           base[i] = send_buffer[Len(send_buffer) - Len(base) + i]
  <2>1. CASE Len(send_buffer) < MessageBufferSize
    BY <1>0, <2>1
  <2>2. CASE ~(Len(send_buffer) < MessageBufferSize)
    <3>1. send_buffer # <<>> /\ Len(send_buffer) \in Nat
      BY <1>0, <2>2, ChannelAssumption
    <3>2. /\ Tail(send_buffer) \in Seq(QueuedMessage)
          /\ Len(Tail(send_buffer)) = Len(send_buffer) - 1
          /\ \A i \in 1 .. Len(Tail(send_buffer)) : Tail(send_buffer)[i] = send_buffer[i + 1]
      BY <1>0, <3>1, HeadTailProperties
    <3>3. base = Tail(send_buffer)
      BY <2>2
    <3> HIDE DEF base
    <3> QED BY <1>0, <3>1, <3>2, <3>3
  <2> QED BY <2>1, <2>2
<1>3. /\ send_buffer' \in Seq(QueuedMessage)
      /\ Len(send_buffer') = Len(base) + 1
      /\ \A i \in 1 .. Len(base) : send_buffer'[i] = base[i]
      /\ send_buffer'[Len(base) + 1] = message
  <2>1. send_buffer' = Append(base, message)
    BY <1>0, <1>p, ChannelAssumption
  <2> HIDE DEF message, base
  <2> QED BY <1>1, <1>2, <2>1, AppendProperties
<1> HIDE DEF base
<1>4. TypeOK'
  <2>1. send_sequence' \in SeqNums
    <3>1. send_sequence' = SeqNext(send_sequence)
      BY DEF Send
    <3> QED BY <3>1, PlusType DEF SeqNext, IInv, TypeOK
  <2>2. /\ UNCHANGED <<config, pending_ack, receive_sequence, last_received_sequence>>
        /\ UNCHANGED <<ordered_receive_buffer, delivered>>
        /\ UNCHANGED <<wire, duplicated, arrived, nacks>>
    BY DEF Send, receiverVars, networkVars
  <2>3. sent' \in 0 .. MaxSends
    BY <1>0, ChannelAssumption
  <2> QED BY <1>3, <2>1, <2>2, <2>3 DEF IInv, TypeOK, QueuedMessage
<1>5. SenderInv'
  <2>1. send_sequence' = SeqOfRank(sent' + 1)
    <3>1. sent + 1 \in 1 .. FullRange /\ (sent + 1) + 1 <= FullRange /\ 1 \in Nat
      BY <1>0
    <3>2. SeqPlus(SeqOfRank(sent + 1), 1) = SeqOfRank((sent + 1) + 1)
      BY <3>1, SeqOfRankPlus
    <3> QED BY <1>0, <3>2 DEF Send, SeqNext, IInv, SenderInv
  <2>2. /\ Len(send_buffer') <= sent'
        /\ sent' - Len(send_buffer') >= sent - Len(send_buffer)
        /\ Len(send_buffer) \in Nat /\ Len(send_buffer') \in Nat
    BY <1>0, <1>2, <1>3 DEF IInv, SenderInv
  <2>3. ASSUME NEW i \in 1 .. Len(send_buffer')
        PROVE  /\ send_buffer'[i].data = sent' - Len(send_buffer') + i
               /\ send_buffer'[i].sequence = SeqOfRank(send_buffer'[i].data)
    <3>1. CASE i = Len(base) + 1
      BY <1>0, <1>2, <1>3, <3>1 DEF IInv, SenderInv
    <3>2. CASE i \in 1 .. Len(base)
      <4> DEFINE o == Len(send_buffer) - Len(base) + i
      <4>1. o \in 1 .. Len(send_buffer) /\ send_buffer'[i] = send_buffer[o]
        BY <1>2, <1>3, <2>2, <3>2
      <4>2. sent' - Len(send_buffer') + i = sent - Len(send_buffer) + o
        BY <1>0, <1>2, <1>3, <2>2, <3>2
      <4> QED BY <4>1, <4>2 DEF IInv, SenderInv
    <3> QED BY <1>2, <1>3, <3>1, <3>2
  <2>4. \A s \in DOMAIN pending_ack :
          pending_ack[s].data \in Nat /\ pending_ack[s].data <= sent' - Len(send_buffer')
    BY <1>0, <2>2 DEF IInv, SenderInv, TypeOK, Ranks
  <2> QED BY <2>1, <2>2, <2>3, <2>4 DEF Send, IInv, SenderInv
<1>6. WireInv'
  BY <1>0 DEF Send, IInv, WireInv, TypeOK, WireMessages, Ranks, networkVars
<1>7. /\ UNCHANGED receiverVars /\ config' = config /\ sent <= sent'
  BY <1>0 DEF Send
<1>8. ReceiverInv'
  BY <1>0, <1>7 DEF IInv, ReceiverInv, Awaited, TypeOK, Ranks, receiverVars
<1>9. DeliveredInv'
  <2>1. \A i \in 1 .. Len(delivered) : delivered[i] \in Nat
    BY DEF IInv, TypeOK, Ranks
  <2> QED BY <1>0, <1>7, <2>1
          DEF IInv, DeliveredInv, Awaited, Ordered, Sequenced, receiverVars
<1> QED BY <1>4, <1>5, <1>6, <1>8, <1>9 DEF IInv

LEMMA GetOutgoingMessageStep ==
  ASSUME IInv, GetOutgoingMessage
  PROVE  IInv'
<1> USE WindowFacts
<1> DEFINE message == Head(send_buffer)
           entry   == [data |-> message.data, age |-> 0, retry_count |-> 0]
<1>1. /\ send_buffer \in Seq(QueuedMessage) /\ send_buffer # <<>>
      /\ send_buffer' = Tail(send_buffer) /\ sent' = sent /\ sent \in Nat
  BY DEF GetOutgoingMessage, IInv, TypeOK, QueuedMessage
<1>2. /\ Tail(send_buffer) \in Seq(QueuedMessage)
      /\ Len(send_buffer) \in Nat \ {0}
      /\ Len(Tail(send_buffer)) = Len(send_buffer) - 1
      /\ \A i \in 1 .. Len(send_buffer) - 1 : Tail(send_buffer)[i] = send_buffer[i + 1]
  BY <1>1, HeadTailProperties, EmptySeq
<1>3. /\ message \in QueuedMessage
      /\ message.data = sent - Len(send_buffer) + 1
      /\ message.sequence = SeqOfRank(message.data)
  <2>1. message = send_buffer[1] /\ 1 \in 1 .. Len(send_buffer)
    BY <1>1, <1>2
  <2> HIDE DEF message
  <2>2. message \in QueuedMessage
    BY <1>1, <2>1, ElementOfSeq
  <2> QED BY <2>1, <2>2 DEF IInv, SenderInv
<1>4. /\ entry \in PendingEntry
      /\ pending_ack' \in {pending_ack, Put(pending_ack, message.sequence, entry)}
      /\ DOMAIN pending_ack \subseteq SeqNums /\ message.sequence \in SeqNums
      /\ pending_ack \in [DOMAIN pending_ack -> PendingEntry]
  <2>1. message.data \in Ranks /\ message.sequence \in SeqNums
    BY <1>3 DEF QueuedMessage
  <2>2. 0 \in Ages /\ 0 \in 0 .. MaxReliableRetries
    BY ChannelAssumption DEF Ages
  <2>3. entry \in PendingEntry
    BY <2>1, <2>2 DEF PendingEntry
  <2>4. pending_ack' \in {pending_ack, Put(pending_ack, message.sequence, entry)}
    BY DEF GetOutgoingMessage
  <2> HIDE DEF message, entry
  <2> QED BY <2>1, <2>3, <2>4 DEF IInv, TypeOK, PendingEntry
<1>5. TypeOK'
  <2>1. /\ DOMAIN pending_ack' \subseteq SeqNums
        /\ pending_ack' \in [DOMAIN pending_ack' ->
             PendingEntry]
    <3> HIDE DEF message, entry
    <3> QED BY <1>4 DEF Put
  <2>2. wire' \subseteq WireMessages
    BY <1>3 DEF GetOutgoingMessage, IInv, TypeOK, WireMessages, QueuedMessage
  <2> QED BY <1>1, <1>2, <2>1, <2>2
          DEF GetOutgoingMessage, IInv, TypeOK, QueuedMessage, PendingEntry, receiverVars
<1>6. SenderInv'
  <2>1. \A s \in DOMAIN pending_ack' :
          /\ s = SeqOfRank(pending_ack'[s].data)
          /\ pending_ack'[s].data <= sent' - Len(send_buffer')
    <3>1. CASE pending_ack' = pending_ack
      BY <1>1, <1>2, <3>1 DEF IInv, SenderInv, TypeOK, Ranks
    <3>2. CASE pending_ack' = Put(pending_ack, message.sequence, entry)
      <4>1. /\ DOMAIN pending_ack' = DOMAIN pending_ack \cup {message.sequence}
            /\ pending_ack'[message.sequence] = entry
            /\ \A s \in DOMAIN pending_ack \ {message.sequence} :
                 pending_ack'[s] = pending_ack[s]
        <5> HIDE DEF message, entry
        <5> QED BY <1>4, <3>2 DEF Put
      <4> QED BY <1>1, <1>2, <1>3, <4>1 DEF IInv, SenderInv, TypeOK, Ranks
    <3> QED BY <1>4, <3>1, <3>2
  <2>2. \A i \in 1 .. Len(send_buffer') :
          /\ send_buffer'[i].data = sent' - Len(send_buffer') + i
          /\ send_buffer'[i].sequence = SeqOfRank(send_buffer'[i].data)
    <3> TAKE i \in 1 .. Len(send_buffer')
    <3>1. i + 1 \in 1 .. Len(send_buffer) /\ send_buffer'[i] = send_buffer[i + 1]
      BY <1>1, <1>2
    <3> QED BY <1>1, <1>2, <3>1 DEF IInv, SenderInv
  <2> QED BY <1>1, <1>2, <2>1, <2>2 DEF GetOutgoingMessage, IInv, SenderInv
<1>7. WireInv'
  BY <1>1, <1>2, <1>3 DEF GetOutgoingMessage, IInv, WireInv, TypeOK, WireMessages, Ranks
<1>8. ReceiverInv'
  BY DEF GetOutgoingMessage, IInv, ReceiverInv, Awaited, receiverVars
<1>9. DeliveredInv'
  BY DEF GetOutgoingMessage, IInv, DeliveredInv, Awaited, Ordered, Sequenced, receiverVars
<1> QED BY <1>5, <1>6, <1>7, <1>8, <1>9 DEF IInv

LEMMA GetRetransmitMessagesStep ==
  ASSUME IInv, GetRetransmitMessages
  PROVE  IInv'
<1> USE WindowFacts
<1>1. \A s \in DOMAIN pending_ack' : /\ s \in DOMAIN pending_ack
                                     /\ pending_ack'[s].data = pending_ack[s].data
  BY DEF GetRetransmitMessages, IInv, TypeOK
<1>2. TypeOK'
  <2>1. \A s \in Due \ Exhausted :
          /\ s \in DOMAIN pending_ack
          /\ pending_ack[s].retry_count + 1 \in 0 .. MaxReliableRetries
    <3> TAKE s \in Due \ Exhausted
    <3>1. s \in DOMAIN pending_ack /\ ~(pending_ack[s].retry_count >= MaxReliableRetries)
      BY DEF Due, Exhausted
    <3>2. pending_ack[s].retry_count \in 0 .. MaxReliableRetries
      BY <3>1 DEF IInv, TypeOK
    <3> QED BY <3>1, <3>2, ChannelAssumption
  <2>2. ASSUME NEW s \in DOMAIN pending_ack \ Exhausted
        PROVE  /\ pending_ack'[s] \in PendingEntry
               /\ s \in SeqNums /\ pending_ack[s].data \in Ranks
    <3>1. pending_ack[s] \in PendingEntry /\ s \in SeqNums
      BY DEF IInv, TypeOK, PendingEntry
    <3>2. CASE s \in Due
      <4>1. pending_ack'[s] = [pending_ack[s] EXCEPT !.age = 0, !.retry_count = @ + 1]
        BY <3>2 DEF GetRetransmitMessages
      <4>2. 0 \in Ages /\ pending_ack[s].retry_count + 1 \in 0 .. MaxReliableRetries
        BY <2>1, <3>2, ChannelAssumption DEF Ages
      <4> QED BY <3>1, <4>1, <4>2 DEF PendingEntry
    <3>3. CASE s \notin Due
      BY <3>1, <3>3 DEF GetRetransmitMessages, PendingEntry
    <3> QED BY <3>2, <3>3
  <2>3. /\ DOMAIN pending_ack' = DOMAIN pending_ack \ Exhausted
        /\ DOMAIN pending_ack' \subseteq SeqNums
        /\ pending_ack' \in [DOMAIN pending_ack' -> PendingEntry]
    BY <2>2 DEF GetRetransmitMessages, IInv, TypeOK
  <2>4. wire' \subseteq WireMessages
    <3>1. \A s \in Due \ Exhausted :
            [sequence |-> s, data |-> pending_ack[s].data] \in WireMessages
      BY <2>1, <2>2 DEF WireMessages
    <3> QED BY <3>1 DEF GetRetransmitMessages, IInv, TypeOK
  <2> QED BY <2>3, <2>4 DEF GetRetransmitMessages, IInv, TypeOK, PendingEntry, receiverVars
<1>3. SenderInv'
  BY <1>1 DEF GetRetransmitMessages, IInv, SenderInv
<1>4. WireInv'
  <2>1. \A s \in Due \ Exhausted :
          /\ s = SeqOfRank(pending_ack[s].data)
          /\ pending_ack[s].data <= sent
    <3>1. \A s \in DOMAIN pending_ack : pending_ack[s].data \in Nat
      BY DEF IInv, TypeOK, Ranks
    <3>2. Len(send_buffer) \in Nat /\ sent \in Nat
      BY DEF IInv, TypeOK
    <3> QED BY <3>1, <3>2 DEF IInv, SenderInv, Due
  <2>2. \A m \in wire' : \/ m \in wire
                         \/ \E s \in Due \ Exhausted :
                              m = [sequence |-> s, data |-> pending_ack[s].data]
    BY DEF GetRetransmitMessages
  <2>3. sent' = sent
    BY DEF GetRetransmitMessages
  <2> QED BY <2>1, <2>2, <2>3 DEF IInv, WireInv
<1>5. ReceiverInv'
  BY DEF GetRetransmitMessages, IInv, ReceiverInv, Awaited, receiverVars
<1>6. DeliveredInv'
  BY DEF GetRetransmitMessages, IInv, DeliveredInv, Awaited, Ordered, Sequenced, receiverVars
<1> QED BY <1>2, <1>3, <1>4, <1>5, <1>6 DEF IInv

LEMMA AcknowledgeMessageStep ==
  ASSUME IInv, NEW n \in Ranks, AcknowledgeMessage(n)
  PROVE  IInv'
<1>1. /\ DOMAIN pending_ack' = DOMAIN pending_ack \ {SeqOfRank(n)}
      /\ \A s \in DOMAIN pending_ack' : pending_ack'[s] = pending_ack[s]
      /\ pending_ack' \in [DOMAIN pending_ack' -> PendingEntry]
  BY DEF AcknowledgeMessage, Drop, Restrict, IInv, TypeOK, PendingEntry
<1>2. TypeOK'
  BY <1>1 DEF AcknowledgeMessage, IInv, TypeOK, PendingEntry, receiverVars, networkVars
<1>3. SenderInv'
  BY <1>1 DEF AcknowledgeMessage, IInv, SenderInv
<1>4. WireInv' /\ ReceiverInv' /\ DeliveredInv'
  BY DEF AcknowledgeMessage, IInv, WireInv, ReceiverInv, DeliveredInv, Awaited,
         Ordered, Sequenced, receiverVars, networkVars
<1> QED BY <1>2, <1>3, <1>4 DEF IInv

LEMMA MarkForFastRetransmitStep ==
  ASSUME IInv, NEW n \in Ranks, MarkForFastRetransmit(n)
  PROVE  IInv'
<1>1. /\ DOMAIN pending_ack' = DOMAIN pending_ack
      /\ \A s \in DOMAIN pending_ack' : /\ pending_ack'[s].data = pending_ack[s].data
                                        /\ pending_ack'[s] \in PendingEntry
      /\ pending_ack' \in [DOMAIN pending_ack' -> PendingEntry]
  <2>1. FastRetransmitAge \in Ages
    BY ChannelAssumption DEF Ages
  <2> QED BY <2>1 DEF MarkForFastRetransmit, IInv, TypeOK, PendingEntry
<1>2. TypeOK'
  <2>1. nacks' \in 0 .. MaxNacks
    BY ChannelAssumption DEF MarkForFastRetransmit, IInv, TypeOK
  <2> QED BY <1>1, <2>1 DEF MarkForFastRetransmit, IInv, TypeOK, PendingEntry, receiverVars
<1>3. SenderInv'
  BY <1>1 DEF MarkForFastRetransmit, IInv, SenderInv
<1>4. WireInv' /\ ReceiverInv' /\ DeliveredInv'
  BY DEF MarkForFastRetransmit, IInv, WireInv, ReceiverInv, DeliveredInv, Awaited,
         Ordered, Sequenced, receiverVars
<1> QED BY <1>2, <1>3, <1>4 DEF IInv

LEMMA LoseStep ==
  ASSUME IInv, NEW m \in wire, Lose(m)
  PROVE  IInv'
<1>1. TypeOK' /\ WireInv'
  BY DEF Lose, IInv, TypeOK, WireInv, senderVars, receiverVars
<1>2. SenderInv' /\ ReceiverInv' /\ DeliveredInv'
  BY DEF Lose, IInv, SenderInv, ReceiverInv, DeliveredInv, Awaited,
         Ordered, Sequenced, senderVars, receiverVars
<1> QED BY <1>1, <1>2 DEF IInv

LEMMA TickStep ==
  ASSUME IInv, Tick
  PROVE  IInv'
<1>1. \A age \in Ages : Older(age) \in Ages
  BY ChannelAssumption DEF Older, Ages
<1>2. /\ DOMAIN pending_ack' = DOMAIN pending_ack
      /\ \A s \in DOMAIN pending_ack' : pending_ack'[s].data = pending_ack[s].data
      /\ pending_ack' \in [DOMAIN pending_ack' -> PendingEntry]
  BY <1>1 DEF Tick, IInv, TypeOK, PendingEntry
<1>3. /\ DOMAIN ordered_receive_buffer' = DOMAIN ordered_receive_buffer
      /\ \A s \in DOMAIN ordered_receive_buffer' :
           ordered_receive_buffer'[s].data = ordered_receive_buffer[s].data
      /\ ordered_receive_buffer' \in [DOMAIN ordered_receive_buffer' -> BufferedEntry]
  BY <1>1 DEF Tick, IInv, TypeOK, BufferedEntry
<1>4. TypeOK'
  BY <1>2, <1>3 DEF Tick, IInv, TypeOK, PendingEntry, BufferedEntry, networkVars
<1>5. SenderInv' /\ WireInv' /\ DeliveredInv'
  BY <1>2 DEF Tick, IInv, SenderInv, WireInv, DeliveredInv, Awaited, Ordered, Sequenced,
              networkVars
<1>6. ReceiverInv'
  BY <1>3 DEF Tick, IInv, ReceiverInv, Awaited
<1> QED BY <1>4, <1>5, <1>6 DEF IInv

-----------------------------------------------------------------------------
(* The steps of the receiving half *)

LEMMA DeliverRunStep ==
  ASSUME TypeOK, ReceiverInv, NEW f \in 1 .. MaxSends + 1, NEW k \in 0 .. HalfRange,
         \A s \in DOMAIN ordered_receive_buffer : ordered_receive_buffer[s].data >= f,
         RunEndsAt(ordered_receive_buffer, SeqOfRank(f), k),
         DeliverRun(ordered_receive_buffer, SeqOfRank(f), k)
  PROVE  LET run == RunOf(ordered_receive_buffer, SeqOfRank(f), k)
         IN  /\ run \in Seq(Ranks) /\ Len(run) = k
             /\ \A i \in 1 .. k : run[i] = f + i - 1
             /\ k > 0 => f + k <= sent + 1
             /\ receive_sequence' \in SeqNums
             /\ Awaited' = f + k
             /\ DOMAIN ordered_receive_buffer' \subseteq SeqNums
             /\ ordered_receive_buffer' \in [DOMAIN ordered_receive_buffer' -> BufferedEntry]
             /\ \A s \in DOMAIN ordered_receive_buffer' :
                  /\ s = SeqOfRank(ordered_receive_buffer'[s].data)
                  /\ ordered_receive_buffer'[s].data > f + k
                  /\ ordered_receive_buffer'[s].data <= sent
<1> DEFINE run == RunOf(ordered_receive_buffer, SeqOfRank(f), k)
<1>1. /\ k > 0 => f + k <= sent + 1
      /\ SeqPlus(SeqOfRank(f), k) = SeqOfRank(f + k)
      /\ \A j \in 0 .. k - 1 :
           /\ SeqPlus(SeqOfRank(f), j) \in DOMAIN ordered_receive_buffer
           /\ ordered_receive_buffer[SeqPlus(SeqOfRank(f), j)].data = f + j
      /\ \A s \in DOMAIN ordered_receive_buffer \
                    {SeqPlus(SeqOfRank(f), j) : j \in 0 .. k - 1} :
           ordered_receive_buffer[s].data > f + k
  BY RunDelivers
<1>2. f + k \in 1 .. FullRange
  BY WindowFacts
<1>3. /\ receive_sequence' = SeqOfRank(f + k)
      /\ receive_sequence' \in SeqNums
      /\ Awaited' = f + k
  BY <1>1, <1>2, SeqOfRankType, DistanceOfRank DEF DeliverRun, Awaited
<1>4. ASSUME NEW i \in 1 .. k
      PROVE  run[i] = f + i - 1 /\ run[i] \in Ranks
  <2>1. i - 1 \in 0 .. k - 1
    OBVIOUS
  <2>2. run[i] = ordered_receive_buffer[SeqPlus(SeqOfRank(f), i - 1)].data
    BY DEF RunOf
  <2> QED BY <1>1, <2>1, <2>2 DEF TypeOK
<1>5. run \in Seq(Ranks) /\ Len(run) = k
  <2>1. run \in [1 .. k -> Ranks]
    BY <1>4 DEF RunOf
  <2> HIDE DEF run
  <2> QED BY <2>1
<1>6. /\ DOMAIN ordered_receive_buffer' =
           DOMAIN ordered_receive_buffer \ {SeqPlus(SeqOfRank(f), j) : j \in 0 .. k - 1}
      /\ \A s \in DOMAIN ordered_receive_buffer' :
           ordered_receive_buffer'[s] = ordered_receive_buffer[s]
      /\ ordered_receive_buffer' \in [DOMAIN ordered_receive_buffer' -> BufferedEntry]
  BY DEF DeliverRun, Drop, Restrict, TypeOK, BufferedEntry
<1> QED BY <1>1, <1>3, <1>4, <1>5, <1>6 DEF ReceiverInv, TypeOK

\* The conjuncts of the invariant that the receiving half can disturb.
ReceiverType ==
  /\ receive_sequence \in SeqNums
  /\ last_received_sequence \in SeqNums
  /\ DOMAIN ordered_receive_buffer \subseteq SeqNums
  /\ ordered_receive_buffer \in [DOMAIN ordered_receive_buffer -> BufferedEntry]
  /\ delivered \in Seq(Ranks)

ReceiverOK == ReceiverType /\ ReceiverInv /\ DeliveredInv

LEMMA ReceiverFacts ==
  ASSUME IInv
  PROVE  /\ ReceiverOK
         /\ sent \in Nat /\ sent <= MaxSends
         /\ Awaited \in 1 .. MaxSends + 1 /\ Awaited <= sent + 1
         /\ receive_sequence = SeqOfRank(Awaited)
         /\ Len(delivered) \in Nat
         /\ \A i \in 1 .. Len(delivered) : delivered[i] \in 1 .. sent
         /\ \A m \in wire : /\ m.data \in Ranks /\ m.sequence \in SeqNums
                            /\ m.data <= sent /\ m.sequence = SeqOfRank(m.data)
<1>1. ReceiverOK
  BY DEF IInv, TypeOK, ReceiverOK, ReceiverType, BufferedEntry
<1>2. sent \in Nat /\ sent <= MaxSends
  BY WindowFacts DEF IInv, TypeOK
<1>3. Awaited \in 1 .. MaxSends + 1 /\ Awaited <= sent + 1
  BY <1>2, WindowFacts DEF IInv, ReceiverInv
<1>4. receive_sequence = SeqOfRank(Awaited)
  BY AwaitedIs DEF IInv
<1>5. Len(delivered) \in Nat /\ \A i \in 1 .. Len(delivered) : delivered[i] \in Ranks
  BY DEF IInv, TypeOK
<1>6. \A i \in 1 .. Len(delivered) : delivered[i] \in 1 .. sent
  BY <1>2, <1>5 DEF IInv, DeliveredInv, Ranks
<1>7. \A m \in wire : /\ m.data \in Ranks /\ m.sequence \in SeqNums
                      /\ m.data <= sent /\ m.sequence = SeqOfRank(m.data)
  BY DEF IInv, TypeOK, WireInv, WireMessages
<1> QED BY <1>1, <1>2, <1>3, <1>4, <1>5, <1>6, <1>7

\* One more message on delivery_queue.
LEMMA AppendDelivered ==
  ASSUME delivered \in Seq(Ranks), NEW d \in Ranks, delivered' = Append(delivered, d)
  PROVE  /\ delivered' \in Seq(Ranks) /\ Len(delivered') = Len(delivered) + 1
         /\ Len(delivered) \in Nat
         /\ \A i \in 1 .. Len(delivered) : delivered'[i] = delivered[i]
         /\ delivered'[Len(delivered) + 1] = d
BY AppendProperties

\* Delivering a run that begins where the log ends keeps the log increasing.
LEMMA ConcatRun ==
  ASSUME NEW log \in Seq(Ranks), NEW run \in Seq(Ranks),
         NEW f \in Nat, NEW k \in Nat, Len(run) = k,
         \A i \in 1 .. k : run[i] = f + i - 1,
         \A i \in 1 .. Len(log) : log[i] < f,
         \A i, j \in 1 .. Len(log) : i < j => log[i] < log[j]
  PROVE  /\ log \o run \in Seq(Ranks)
         /\ \A i \in 1 .. Len(log \o run) : (log \o run)[i] < f + k
         /\ \A i, j \in 1 .. Len(log \o run) : i < j => (log \o run)[i] < (log \o run)[j]
<1> DEFINE longer == log \o run
<1>1. /\ longer \in Seq(Ranks)
      /\ Len(longer) = Len(log) + Len(run)
      /\ \A i \in 1 .. Len(log) + Len(run) :
           longer[i] = IF i <= Len(log) THEN log[i] ELSE run[i - Len(log)]
  BY ConcatProperties
<1>2. Len(log) \in Nat /\ Len(longer) = Len(log) + k
  BY <1>1
<1>3. \A i \in 1 .. Len(log) : log[i] \in Nat /\ log[i] < f
  BY WindowFacts DEF Ranks
<1> HIDE DEF longer
<1>4. \A i \in 1 .. Len(log) : longer[i] = log[i]
  BY <1>1, <1>2
<1>5. ASSUME NEW i \in Len(log) + 1 .. Len(longer)
      PROVE  longer[i] = f + (i - Len(log)) - 1
  <2>1. i - Len(log) \in 1 .. k /\ longer[i] = run[i - Len(log)]
    BY <1>1, <1>2
  <2> QED BY <2>1
<1>6. \A i \in 1 .. Len(longer) : i \in 1 .. Len(log) \/ i \in Len(log) + 1 .. Len(longer)
  BY <1>2
<1>7. \A i \in 1 .. Len(longer) : longer[i] < f + k
  BY <1>2, <1>3, <1>4, <1>5, <1>6
<1>8. ASSUME NEW i \in 1 .. Len(longer), NEW j \in 1 .. Len(longer), i < j
      PROVE  longer[i] < longer[j]
  <2>1. CASE j \in 1 .. Len(log)
    <3>1. i \in 1 .. Len(log)
      BY <1>2, <1>8, <2>1
    <3> QED BY <1>4, <1>8, <2>1, <3>1
  <2>2. CASE i \in 1 .. Len(log) /\ j \in Len(log) + 1 .. Len(longer)
    <3>1. longer[j] = f + (j - Len(log)) - 1 /\ longer[i] = log[i]
      BY <1>4, <1>5, <2>2
    <3> QED BY <1>2, <1>3, <2>2, <3>1
  <2>3. CASE i \in Len(log) + 1 .. Len(longer)
    <3>1. j \in Len(log) + 1 .. Len(longer)
      BY <1>2, <1>8, <2>3
    <3>2. longer[i] = f + (i - Len(log)) - 1 /\ longer[j] = f + (j - Len(log)) - 1
      BY <1>5, <2>3, <3>1
    <3> QED BY <1>2, <1>8, <3>2
  <2> QED BY <1>6, <1>8, <2>1, <2>2, <2>3
<1> USE DEF longer
<1> QED BY <1>1, <1>7, <1>8

LEMMA ReceiveUnsequencedStep ==
  ASSUME IInv, NEW m \in wire, UNCHANGED <<config, senderVars>>, ReceiveUnsequenced(m)
  PROVE  ReceiverOK'
<1>1. /\ delivered' \in Seq(Ranks) /\ Len(delivered') = Len(delivered) + 1
      /\ \A i \in 1 .. Len(delivered) : delivered'[i] = delivered[i]
      /\ delivered'[Len(delivered) + 1] = m.data
  BY AppendDelivered, ReceiverFacts DEF ReceiveUnsequenced, ReceiverOK, ReceiverType
<1>2. ReceiverType' /\ ReceiverInv'
  BY <1>1, ReceiverFacts
     DEF ReceiveUnsequenced, ReceiverOK, ReceiverType, ReceiverInv, Awaited, senderVars
<1>3. DeliveredInv'
  BY <1>1, ReceiverFacts
     DEF ReceiveUnsequenced, ReceiverOK, DeliveredInv, Ordered, Sequenced, senderVars
<1> QED BY <1>2, <1>3 DEF ReceiverOK

LEMMA ReceiveNewestStep ==
  ASSUME IInv, NEW m \in wire, UNCHANGED <<config, senderVars>>, ReceiveNewest(m)
  PROVE  ReceiverOK'
<1>1. /\ delivered' \in Seq(Ranks) /\ Len(delivered') = Len(delivered) + 1
      /\ \A i \in 1 .. Len(delivered) : delivered'[i] = delivered[i]
      /\ delivered'[Len(delivered) + 1] = m.data
  BY AppendDelivered, ReceiverFacts DEF ReceiveNewest, ReceiverOK, ReceiverType
<1>2. ReceiverType' /\ ReceiverInv'
  BY <1>1, ReceiverFacts
     DEF ReceiveNewest, ReceiverOK, ReceiverType, ReceiverInv, Awaited, senderVars
<1>3. \A i \in 1 .. Len(delivered) : delivered[i] < m.data
  <2> SUFFICES ASSUME NEW i \in 1 .. Len(delivered) PROVE delivered[i] < m.data
    OBVIOUS
  <2> DEFINE last == delivered[Len(delivered)]
  <2>1. Len(delivered) \in 1 .. Len(delivered) /\ delivered # <<>>
    BY ReceiverFacts
  <2>2. last \in 1 .. sent /\ delivered[i] \in 1 .. sent
    BY <2>1, ReceiverFacts
  <2>3. delivered[i] <= last
    BY <2>1, <2>2, ReceiverFacts DEF ReceiveNewest, ReceiverOK, DeliveredInv
  <2>4. SeqGreater(m.sequence, last_received_sequence)
    <3>1. messages_received > 0
      BY <2>1, ReceiverFacts, WindowFacts DEF messages_received, SeqNums
    <3> QED BY <3>1 DEF ReceiveNewest, Fresh
  <2>5. SeqGreater(SeqOfRank(m.data), SeqOfRank(last))
    BY <2>1, <2>4, ReceiverFacts DEF ReceiveNewest, ReceiverOK, DeliveredInv
  <2>6. m.data \in 1 .. MaxSends + 1 /\ last \in 1 .. MaxSends + 1
    BY <2>2, ReceiverFacts, WindowFacts DEF Ranks
  <2> HIDE DEF last
  <2>7. m.data > last
    BY <2>5, <2>6, SeqOfRankOrder
  <2> QED BY <2>2, <2>3, <2>6, <2>7
<1>4. DeliveredInv'
  <2>1. /\ Sequenced' /\ ~Ordered' /\ last_received_sequence' = SeqOfRank(m.data)
        /\ sent' = sent
    BY ReceiverFacts DEF ReceiveNewest, Ordered, Sequenced, senderVars
  <2>2. \A i, j \in 1 .. Len(delivered') : i < j => delivered'[i] < delivered'[j]
    <3> SUFFICES ASSUME NEW i \in 1 .. Len(delivered'), NEW j \in 1 .. Len(delivered'), i < j
                 PROVE  delivered'[i] < delivered'[j]
      OBVIOUS
    <3>1. Len(delivered) \in Nat
      BY ReceiverFacts
    <3>2. i \in 1 .. Len(delivered) /\ (j \in 1 .. Len(delivered) \/ j = Len(delivered) + 1)
      BY <1>1, <3>1
    <3>3. CASE j \in 1 .. Len(delivered)
      BY <1>1, <3>2, <3>3, ReceiverFacts DEF ReceiveNewest, ReceiverOK, DeliveredInv
    <3>4. CASE j = Len(delivered) + 1
      BY <1>1, <1>3, <3>2, <3>4
    <3> QED BY <3>2, <3>3, <3>4
  <2>3. \A i \in 1 .. Len(delivered') : delivered'[i] <= sent'
    BY <1>1, <2>1, ReceiverFacts DEF Ranks
  <2> QED BY <1>1, <2>1, <2>2, <2>3, ReceiverFacts DEF DeliveredInv
<1> QED BY <1>2, <1>4 DEF ReceiverOK

LEMMA ReceiveInOrderStep ==
  ASSUME IInv, NEW m \in wire, UNCHANGED <<config, senderVars>>, ReceiveInOrder(m)
  PROVE  ReceiverOK'
<1> DEFINE a == Awaited
           B == ordered_receive_buffer
<1>0. /\ sent \in Nat /\ sent <= MaxSends /\ MaxSends \in Nat
      /\ Len(delivered) \in Nat /\ delivered \in Seq(Ranks)
      /\ \A i \in 1 .. Len(delivered) : delivered[i] \in 1 .. sent
      /\ m.data \in Ranks
  BY ReceiverFacts, WindowFacts DEF ReceiverOK, ReceiverType
<1>1. m.data = a /\ a \in 1 .. sent
  <2>1. m.data \in 1 .. FullRange /\ Awaited \in 1 .. FullRange
    BY ReceiverFacts, WindowFacts DEF Ranks
  <2>2. SeqOfRank(m.data) = SeqOfRank(Awaited)
    BY ReceiverFacts DEF ReceiveInOrder
  <2>3. m.data = Awaited
    BY <2>1, <2>2, SeqOfRankInjective
  <2> QED BY <2>3, ReceiverFacts
<1>2. SeqNext(receive_sequence) = SeqOfRank(a + 1)
  <2>1. a \in 1 .. FullRange /\ 1 \in Nat /\ a + 1 <= FullRange
    BY <1>1, ReceiverFacts, WindowFacts
  <2>2. SeqPlus(SeqOfRank(a), 1) = SeqOfRank(a + 1)
    BY <2>1, SeqOfRankPlus
  <2> QED BY <2>2, ReceiverFacts DEF SeqNext
<1>3. PICK k \in 0 .. HalfRange :
        /\ RunEndsAt(B, SeqOfRank(a + 1), k)
        /\ DeliverRun(B, SeqOfRank(a + 1), k)
        /\ delivered' = Append(delivered, m.data) \o RunOf(B, SeqOfRank(a + 1), k)
  BY <1>2 DEF ReceiveInOrder
<1> DEFINE run == RunOf(B, SeqOfRank(a + 1), k)
<1>4. /\ run \in Seq(Ranks) /\ Len(run) = k
      /\ \A i \in 1 .. k : run[i] = a + i
      /\ k > 0 => a + 1 + k <= sent + 1
      /\ receive_sequence' \in SeqNums
      /\ Awaited' = a + 1 + k
      /\ DOMAIN ordered_receive_buffer' \subseteq SeqNums
      /\ ordered_receive_buffer' \in [DOMAIN ordered_receive_buffer' -> BufferedEntry]
      /\ \A s \in DOMAIN ordered_receive_buffer' :
           /\ s = SeqOfRank(ordered_receive_buffer'[s].data)
           /\ ordered_receive_buffer'[s].data > a + 1 + k
           /\ ordered_receive_buffer'[s].data <= sent
  <2>1. a + 1 \in 1 .. MaxSends + 1 /\ a \in Nat
    BY <1>0, <1>1
  <2>2. \A s \in DOMAIN B : B[s].data >= a + 1
    BY <2>1 DEF IInv, ReceiverInv, TypeOK, Ranks
  <2>3. TypeOK /\ ReceiverInv
    BY DEF IInv
  <2> DEFINE f == a + 1
  <2>4. f \in 1 .. MaxSends + 1 /\ \A s \in DOMAIN B : B[s].data >= f
    BY <2>1, <2>2
  <2>5. RunEndsAt(B, SeqOfRank(f), k) /\ DeliverRun(B, SeqOfRank(f), k)
    BY <1>3
  <2>6. \A i \in 1 .. k : f + i - 1 = a + i
    BY <2>1
  <2> HIDE DEF f
  <2>7. /\ RunOf(B, SeqOfRank(f), k) \in Seq(Ranks) /\ Len(RunOf(B, SeqOfRank(f), k)) = k
        /\ \A i \in 1 .. k : RunOf(B, SeqOfRank(f), k)[i] = f + i - 1
        /\ k > 0 => f + k <= sent + 1
        /\ receive_sequence' \in SeqNums
        /\ Awaited' = f + k
        /\ DOMAIN ordered_receive_buffer' \subseteq SeqNums
        /\ ordered_receive_buffer' \in [DOMAIN ordered_receive_buffer' -> BufferedEntry]
        /\ \A s \in DOMAIN ordered_receive_buffer' :
             /\ s = SeqOfRank(ordered_receive_buffer'[s].data)
             /\ ordered_receive_buffer'[s].data > f + k
             /\ ordered_receive_buffer'[s].data <= sent
    BY <2>3, <2>4, <2>5, DeliverRunStep
  <2> USE DEF f
  <2> HIDE DEF a
  <2> QED BY <2>6, <2>7
<1> HIDE DEF a, run
<1>5. sent' = sent /\ config' = config /\ last_received_sequence' = last_received_sequence
  BY DEF ReceiveInOrder, senderVars
<1>6. /\ delivered' \in Seq(Ranks)
      /\ \A i \in 1 .. Len(delivered') : delivered'[i] < a + 1 + k
      /\ \A i, j \in 1 .. Len(delivered') : i < j => delivered'[i] < delivered'[j]
  <2> DEFINE longer == Append(delivered, m.data)
             f == a + 1
  <2>1. /\ longer \in Seq(Ranks) /\ Len(longer) = Len(delivered) + 1
        /\ \A i \in 1 .. Len(delivered) : longer[i] = delivered[i]
        /\ longer[Len(delivered) + 1] = a
    BY <1>1, ReceiverFacts, AppendProperties DEF ReceiverOK, ReceiverType
  <2>2. /\ \A i \in 1 .. Len(delivered) : delivered[i] \in Nat /\ delivered[i] < a
        /\ \A i, j \in 1 .. Len(delivered) : i < j => delivered[i] < delivered[j]
    BY <1>0, ReceiverFacts DEF ReceiveInOrder, ReceiverOK, DeliveredInv, a
  <2>3. f \in Nat /\ k \in Nat /\ Len(run) = k /\ run \in Seq(Ranks)
        /\ \A i \in 1 .. k : run[i] = f + i - 1
    <3>1. k \in Nat /\ f \in Nat /\ a \in Nat
      BY <1>0, <1>1
    <3>2. \A i \in 1 .. k : f + i - 1 = a + i
      BY <3>1
    <3>3. Len(run) = k /\ run \in Seq(Ranks) /\ \A i \in 1 .. k : run[i] = a + i
      BY <1>4
    <3> HIDE DEF f
    <3> QED BY <3>1, <3>2, <3>3
  <2> HIDE DEF longer
  <2>4. \A i \in 1 .. Len(longer) : i \in 1 .. Len(delivered) \/ i = Len(delivered) + 1
    BY <1>0, <2>1
  <2>5. \A i \in 1 .. Len(longer) : longer[i] < f
    BY <1>1, <2>1, <2>2, <2>4
  <2>6. ASSUME NEW i \in 1 .. Len(longer), NEW j \in 1 .. Len(longer), i < j
        PROVE  longer[i] < longer[j]
    <3>1. i \in 1 .. Len(delivered)
      BY <1>0, <2>1, <2>6
    <3>2. CASE j \in 1 .. Len(delivered)
      BY <2>1, <2>2, <2>6, <3>1, <3>2
    <3>3. CASE j = Len(delivered) + 1
      BY <2>1, <2>2, <3>1, <3>3
    <3> QED BY <2>4, <3>2, <3>3
  <2>7. delivered' = longer \o run
    BY <1>3 DEF run, longer
  <2> HIDE DEF f
  <2>8. /\ longer \o run \in Seq(Ranks)
        /\ \A i \in 1 .. Len(longer \o run) : (longer \o run)[i] < f + k
        /\ \A i, j \in 1 .. Len(longer \o run) : i < j => (longer \o run)[i] < (longer \o run)[j]
    BY <2>1, <2>3, <2>5, <2>6, ConcatRun
  <2> QED BY <2>7, <2>8 DEF f
<1>7. ReceiverType' /\ ReceiverInv'
  BY <1>1, <1>4, <1>5, <1>6, ReceiverFacts DEF ReceiverOK, ReceiverType, ReceiverInv
<1>8. DeliveredInv'
  <2>1. ~Sequenced'
    BY <1>5 DEF ReceiveInOrder, Ordered, Sequenced
  <2>2. \A i \in 1 .. Len(delivered') : delivered'[i] <= sent' /\ delivered'[i] < Awaited'
    <3>1. a + 1 + k <= sent + 1 /\ a + 1 + k \in Nat
      BY <1>0, <1>1, <1>4
    <3>2. \A i \in 1 .. Len(delivered') : delivered'[i] \in Nat
      BY <1>0, <1>6 DEF Ranks
    <3> QED BY <1>0, <1>4, <1>5, <1>6, <3>1, <3>2
  <2> QED BY <1>6, <2>1, <2>2 DEF DeliveredInv
<1> QED BY <1>7, <1>8 DEF ReceiverOK

LEMMA ReceiveAheadStep ==
  ASSUME IInv, NEW m \in wire, UNCHANGED <<config, senderVars>>, ReceiveAhead(m)
  PROVE  ReceiverOK'
<1> DEFINE B == ordered_receive_buffer
           entry == [data |-> m.data, age |-> 0]
<1>1. PICK S \in SUBSET DOMAIN B : B' = Put(Drop(B, S), m.sequence, entry)
  <2>1. CASE B' = Put(B, m.sequence, entry)
    <3>1. {} \in SUBSET DOMAIN B /\ Drop(B, {}) = B
      BY ReceiverFacts DEF Drop, Restrict, ReceiverOK, ReceiverType
    <3> QED BY <2>1, <3>1
  <2>2. CASE \E evicted \in DOMAIN B : B' = Put(Drop(B, {evicted}), m.sequence, entry)
    BY <2>2
  <2> QED BY <2>1, <2>2 DEF ReceiveAhead
<1>2. m.data > Awaited
  <2>1. SeqGreater(SeqOfRank(m.data), SeqOfRank(Awaited))
    BY ReceiverFacts DEF ReceiveAhead
  <2>2. m.data \in 1 .. MaxSends + 1
    BY ReceiverFacts, WindowFacts DEF Ranks
  <2> QED BY <2>1, <2>2, ReceiverFacts, SeqOfRankOrder
<1>3. entry \in BufferedEntry /\ entry.data = m.data
  BY ReceiverFacts, ChannelAssumption DEF BufferedEntry, Ages
<1> HIDE DEF entry
<1>4. /\ DOMAIN B' = (DOMAIN B \ S) \cup {m.sequence}
      /\ \A s \in DOMAIN B' : B'[s] = IF s = m.sequence THEN entry ELSE B[s]
  BY <1>1 DEF Put, Drop, Restrict
<1>5. /\ UNCHANGED <<receive_sequence, last_received_sequence, delivered, sent, config>>
  BY DEF ReceiveAhead, senderVars
<1>6. DOMAIN B' \subseteq SeqNums /\ B' \in [DOMAIN B' -> BufferedEntry]
  <2>1. \A s \in DOMAIN B' : s \in SeqNums /\ B'[s] \in BufferedEntry
    BY <1>3, <1>4, ReceiverFacts DEF ReceiverOK, ReceiverType
  <2>2. B' = [s \in DOMAIN B' |-> B'[s]]
    BY <1>1 DEF Put
  <2> QED BY <2>1, <2>2
<1>7. ReceiverType'
  BY <1>5, <1>6, ReceiverFacts DEF ReceiverOK, ReceiverType
<1>8. ASSUME NEW s \in DOMAIN B'
      PROVE  /\ s = SeqOfRank(B'[s].data)
             /\ B'[s].data > Awaited
             /\ B'[s].data <= sent
  <2>1. CASE s = m.sequence
    BY <1>2, <1>3, <1>4, <2>1, ReceiverFacts
  <2>2. CASE s # m.sequence
    <3>1. s \in DOMAIN B /\ B'[s] = B[s]
      BY <1>4, <2>2
    <3> QED BY <3>1, ReceiverFacts DEF ReceiverOK, ReceiverInv
  <2> QED BY <2>1, <2>2
<1>9. ReceiverInv'
  BY <1>5, <1>8, ReceiverFacts DEF ReceiverOK, ReceiverInv, Awaited
<1>10. DeliveredInv'
  BY <1>5, ReceiverFacts DEF ReceiverOK, DeliveredInv, Awaited, Ordered, Sequenced
<1> QED BY <1>7, <1>9, <1>10 DEF ReceiverOK

LEMMA ReceiveStaleStep ==
  ASSUME IInv, NEW m \in wire, UNCHANGED <<config, senderVars>>, ReceiveStale(m)
  PROVE  ReceiverOK'
BY ReceiverFacts
   DEF ReceiveStale, ReceiverOK, ReceiverType, ReceiverInv, DeliveredInv, Awaited,
       Ordered, Sequenced, senderVars

LEMMA OnPacketReceivedStep ==
  ASSUME IInv, NEW m \in wire, OnPacketReceived(m)
  PROVE  IInv'
<1>1. UNCHANGED <<config, senderVars>>
  BY DEF OnPacketReceived
<1>2. ReceiverOK'
  BY <1>1, ReceiveUnsequencedStep, ReceiveNewestStep, ReceiveInOrderStep,
     ReceiveAheadStep, ReceiveStaleStep DEF OnPacketReceived
<1>3. wire' \subseteq wire /\ duplicated' \in 0 .. MaxDuplicates /\ arrived' \subseteq Ranks
  <2>1. duplicated' \in 0 .. MaxDuplicates
    BY ChannelAssumption DEF OnPacketReceived, IInv, TypeOK
  <2> QED BY <2>1, ReceiverFacts DEF OnPacketReceived, IInv, TypeOK
<1>4. TypeOK'
  BY <1>1, <1>2, <1>3
     DEF OnPacketReceived, IInv, TypeOK, ReceiverOK, ReceiverType, BufferedEntry, senderVars
<1>5. SenderInv' /\ WireInv'
  BY <1>1, <1>3 DEF IInv, SenderInv, WireInv, senderVars
<1> QED BY <1>2, <1>4, <1>5 DEF IInv, ReceiverOK

LEMMA UpdateStep ==
  ASSUME IInv, Update
  PROVE  IInv'
<1> DEFINE B == ordered_receive_buffer
<1>1. PICK first \in DOMAIN B, k \in 1 .. HalfRange :
        /\ Earliest(first)
        /\ RunEndsAt(B, first, k)
        /\ DeliverRun(B, first, k)
        /\ delivered' = delivered \o RunOf(B, first, k)
  BY DEF Update
<1> DEFINE f == B[first].data
           run == RunOf(B, first, k)
<1>2. UNCHANGED <<config, senderVars, last_received_sequence, networkVars>> /\ Ordered
  BY DEF Update
<1>3. \A s \in DOMAIN B : /\ B[s].data \in 1 .. sent /\ B[s].data > Awaited
                         /\ s = SeqOfRank(B[s].data)
  BY ReceiverFacts DEF ReceiverOK, ReceiverType, ReceiverInv, BufferedEntry, Ranks
<1>4. f \in 1 .. MaxSends + 1 /\ f > Awaited /\ f <= sent /\ first = SeqOfRank(f)
  BY <1>3, ReceiverFacts, WindowFacts
<1>5. \A s \in DOMAIN B : B[s].data >= f
  <2> SUFFICES ASSUME NEW s \in DOMAIN B PROVE B[s].data >= f
    OBVIOUS
  <2>1. ~SeqGreater(first, s)
    BY <1>1 DEF Earliest
  <2>2. ~SeqGreater(SeqOfRank(f), SeqOfRank(B[s].data))
    BY <1>3, <1>4, <2>1
  <2>3. B[s].data \in 1 .. MaxSends + 1
    BY <1>3, ReceiverFacts, WindowFacts
  <2> HIDE DEF f, B
  <2> QED BY <1>4, <2>2, <2>3, SeqOfRankOrder
<1>6. /\ run \in Seq(Ranks) /\ Len(run) = k
      /\ \A i \in 1 .. k : run[i] = f + i - 1
      /\ f + k <= sent + 1
      /\ receive_sequence' \in SeqNums
      /\ Awaited' = f + k
      /\ DOMAIN ordered_receive_buffer' \subseteq SeqNums
      /\ ordered_receive_buffer' \in [DOMAIN ordered_receive_buffer' -> BufferedEntry]
      /\ \A s \in DOMAIN ordered_receive_buffer' :
           /\ s = SeqOfRank(ordered_receive_buffer'[s].data)
           /\ ordered_receive_buffer'[s].data > f + k
           /\ ordered_receive_buffer'[s].data <= sent
  <2>1. TypeOK /\ ReceiverInv /\ k \in 0 .. HalfRange /\ k > 0
    BY DEF IInv
  <2>2. RunEndsAt(B, SeqOfRank(f), k) /\ DeliverRun(B, SeqOfRank(f), k)
    BY <1>1, <1>4
  <2>3. run = RunOf(B, SeqOfRank(f), k)
    BY <1>4
  <2> HIDE DEF f, run
  <2>4. LET r == RunOf(B, SeqOfRank(f), k)
        IN  /\ r \in Seq(Ranks) /\ Len(r) = k
            /\ \A i \in 1 .. k : r[i] = f + i - 1
            /\ k > 0 => f + k <= sent + 1
            /\ receive_sequence' \in SeqNums
            /\ Awaited' = f + k
            /\ DOMAIN ordered_receive_buffer' \subseteq SeqNums
            /\ ordered_receive_buffer' \in [DOMAIN ordered_receive_buffer' -> BufferedEntry]
            /\ \A s \in DOMAIN ordered_receive_buffer' :
                 /\ s = SeqOfRank(ordered_receive_buffer'[s].data)
                 /\ ordered_receive_buffer'[s].data > f + k
                 /\ ordered_receive_buffer'[s].data <= sent
    BY <1>4, <1>5, <2>1, <2>2, DeliverRunStep
  <2> QED BY <2>1, <2>3, <2>4
<1>7. /\ delivered' \in Seq(Ranks)
      /\ \A i \in 1 .. Len(delivered') : delivered'[i] < f + k
      /\ \A i, j \in 1 .. Len(delivered') : i < j => delivered'[i] < delivered'[j]
  <2>1. /\ delivered \in Seq(Ranks)
        /\ \A i \in 1 .. Len(delivered) : delivered[i] < f
        /\ \A i, j \in 1 .. Len(delivered) : i < j => delivered[i] < delivered[j]
    BY <1>2, <1>4, ReceiverFacts DEF ReceiverOK, ReceiverType, DeliveredInv
  <2>2. f \in Nat /\ k \in Nat /\ delivered' = delivered \o run
    BY <1>1, <1>4
  <2> HIDE DEF f, run
  <2>3. /\ delivered \o run \in Seq(Ranks)
        /\ \A i \in 1 .. Len(delivered \o run) : (delivered \o run)[i] < f + k
        /\ \A i, j \in 1 .. Len(delivered \o run) :
             i < j => (delivered \o run)[i] < (delivered \o run)[j]
    BY <1>6, <2>1, <2>2, ConcatRun
  <2> QED BY <2>2, <2>3
<1> HIDE DEF f, run
<1>8. sent' = sent /\ config' = config /\ sent \in Nat /\ sent <= MaxSends /\ MaxSends \in Nat
  BY <1>2, ReceiverFacts, WindowFacts DEF senderVars
<1>9. TypeOK'
  BY <1>2, <1>6, <1>7 DEF IInv, TypeOK, BufferedEntry, senderVars, networkVars
<1>10. SenderInv' /\ WireInv'
  BY <1>2 DEF IInv, SenderInv, WireInv, senderVars, networkVars
<1>11. ReceiverInv'
  BY <1>4, <1>6, <1>8 DEF ReceiverInv
<1>12. DeliveredInv'
  <2>1. \A i \in 1 .. Len(delivered') : delivered'[i] \in Nat
    BY <1>7, <1>8 DEF Ranks
  <2>2. \A i \in 1 .. Len(delivered') : delivered'[i] <= sent' /\ delivered'[i] < Awaited'
    BY <1>4, <1>6, <1>7, <1>8, <2>1
  <2>3. ~Sequenced'
    BY <1>2, <1>8 DEF Ordered, Sequenced
  <2> QED BY <1>7, <2>2, <2>3 DEF DeliveredInv
<1> QED BY <1>9, <1>10, <1>11, <1>12 DEF IInv

-----------------------------------------------------------------------------
(* The theorems *)

LEMMA NextIInv == IInv /\ [Next]_vars => IInv'
<1> SUFFICES ASSUME IInv, [Next]_vars PROVE IInv'
  OBVIOUS
<1>1. CASE Next
  <2>1. ASSUME NEW n \in Ranks, AcknowledgeMessage(n) PROVE IInv'
    BY <2>1, AcknowledgeMessageStep
  <2>2. ASSUME NEW n \in Ranks, MarkForFastRetransmit(n) PROVE IInv'
    BY <2>2, MarkForFastRetransmitStep
  <2>3. ASSUME NEW m \in wire, OnPacketReceived(m) PROVE IInv'
    BY <2>3, OnPacketReceivedStep
  <2>4. ASSUME NEW m \in wire, Lose(m) PROVE IInv'
    BY <2>4, LoseStep
  <2> QED BY <1>1, <2>1, <2>2, <2>3, <2>4, SendStep, GetOutgoingMessageStep,
             GetRetransmitMessagesStep, UpdateStep, TickStep DEF Next
<1>2. CASE UNCHANGED vars
  BY <1>2 DEF vars, senderVars, receiverVars, networkVars, IInv, TypeOK, SenderInv, WireInv,
              ReceiverInv, DeliveredInv, Awaited, Ordered, Sequenced
<1> QED BY <1>1, <1>2

\* The inductive invariant: where the two halves, the queue, the retransmission
\* map, the wire and the ordered buffer stand relative to each other.
THEOREM Invariance == Spec => []IInv
<1> QED BY InitIInv, NextIInv, PTL DEF Spec

\* Every variable keeps its type, whatever the numbers, buffers and timeouts.
THEOREM TypeCorrect == Spec => []TypeOK
<1>1. IInv => TypeOK
  BY DEF IInv
<1> QED BY <1>1, Invariance, PTL

\* The awaited message is never in the ordered buffer, and everything there is
\* ahead of it by sequence_greater_than (channel.rs: evict_oldest_buffered,
\* find_earliest_buffered).
LEMMA IInvBufferedAhead == IInv => BufferedAhead
<1> SUFFICES ASSUME IInv, NEW s \in DOMAIN ordered_receive_buffer
             PROVE  s # receive_sequence /\ SeqGreater(s, receive_sequence)
  BY DEF BufferedAhead
<1> DEFINE d == ordered_receive_buffer[s].data
<1>1. s = SeqOfRank(d) /\ d > Awaited /\ d <= sent /\ d \in Nat
  BY ReceiverFacts
     DEF ReceiverOK, ReceiverType, ReceiverInv, BufferedEntry, Ranks
<1>2. d \in 1 .. MaxSends + 1 /\ Awaited \in 1 .. MaxSends + 1
  BY <1>1, ReceiverFacts, WindowFacts
<1> HIDE DEF d
<1>3. SeqGreater(SeqOfRank(d), SeqOfRank(Awaited))
  BY <1>1, <1>2, SeqOfRankOrder
<1>4. SeqGreater(s, receive_sequence)
  BY <1>1, <1>3, ReceiverFacts
<1>5. ~SeqGreater(s, s)
  <2>1. s \in Int
    BY ReceiverFacts DEF ReceiverOK, ReceiverType, SeqNums
  <2> QED BY <2>1 DEF SeqGreater
<1> QED BY <1>4, <1>5

\* get_outgoing_message never overwrites a message that awaits its ack: the queue
\* holds the last messages accepted and the map only earlier ones.
LEMMA IInvQueuedAfterPending == IInv => QueuedAfterPending
<1>1. IInv => DOMAIN send_buffer = 1 .. Len(send_buffer)
  BY DEF IInv, TypeOK
<1> QED BY <1>1 DEF IInv, SenderInv, QueuedAfterPending

\* One out, one in.
LEMMA Exchange ==
  ASSUME NEW S, IsFiniteSet(S), NEW old \in S, NEW new
  PROVE  /\ Cardinality((S \ {old}) \cup {new}) <= Cardinality(S)
         /\ Cardinality((S \ {old}) \cup {new}) \in Nat
<1> DEFINE rest == S \ {old}
<1>1. IsFiniteSet(rest) /\ Cardinality(rest) = Cardinality(S) - 1
  BY FS_RemoveElement
<1>2. Cardinality(S) \in Nat /\ Cardinality(rest) \in Nat
  BY <1>1, FS_CardinalityType
<1> HIDE DEF rest
<1>3. /\ IsFiniteSet(rest \cup {new})
      /\ Cardinality(rest \cup {new}) =
           IF new \in rest THEN Cardinality(rest) ELSE Cardinality(rest) + 1
  BY <1>1, FS_AddElement
<1>4. Cardinality(rest \cup {new}) <= Cardinality(S) /\ Cardinality(rest \cup {new}) \in Nat
  BY <1>1, <1>2, <1>3
<1> QED BY <1>4 DEF rest

LEMMA InitBufferBounded == Init => BufferBounded
BY ChannelAssumption, FS_EmptySet DEF Init, EmptyMap, BufferBounded

\* A buffer that is full loses an entry before it gains one, and no step but
\* ReceiveAhead lets it gain any.
LEMMA NextBufferBounded == IInv /\ BufferBounded /\ [Next]_vars => BufferBounded'
<1> SUFFICES ASSUME IInv, BufferBounded, [Next]_vars PROVE BufferBounded'
  OBVIOUS
<1> DEFINE buffered == DOMAIN ordered_receive_buffer
<1>1. IsFiniteSet(buffered) /\ Cardinality(buffered) \in Nat
  <2>1. IsFiniteSet(0 .. FullRange - 1)
    BY WindowFacts, FS_Interval
  <2>2. buffered \in SUBSET (0 .. FullRange - 1)
    BY DEF IInv, TypeOK, SeqNums
  <2> HIDE DEF buffered
  <2> QED BY <2>1, <2>2, FS_Subset, FS_CardinalityType
<1>2. Cardinality(buffered) <= MaxOrderedBufferSize /\ MaxOrderedBufferSize \in Nat
  BY ChannelAssumption DEF BufferBounded
<1>3. ASSUME buffered' \in SUBSET buffered PROVE BufferBounded'
  <2> HIDE DEF buffered
  <2>1. Cardinality(buffered') <= Cardinality(buffered) /\ Cardinality(buffered') \in Nat
    BY <1>1, <1>3, FS_Subset, FS_CardinalityType
  <2>2. Cardinality(buffered') <= MaxOrderedBufferSize
    BY <1>1, <1>2, <2>1
  <2> QED BY <2>2 DEF BufferBounded, buffered
<1>4. ASSUME NEW m, ReceiveAhead(m) PROVE BufferBounded'
  <2>1. CASE ~BufferFull /\ buffered' = buffered \cup {m.sequence}
    <3>1. Cardinality(buffered) < MaxOrderedBufferSize
      BY <1>1, <1>2, <2>1 DEF BufferFull
    <3> HIDE DEF buffered
    <3>2. Cardinality(buffered \cup {m.sequence}) <= MaxOrderedBufferSize
      BY <1>1, <1>2, <3>1, FS_AddElement
    <3> QED BY <2>1, <3>2 DEF BufferBounded, buffered
  <2>2. ASSUME NEW evicted \in buffered, buffered' = (buffered \ {evicted}) \cup {m.sequence}
        PROVE  BufferBounded'
    <3> HIDE DEF buffered
    <3>1. Cardinality(buffered') <= Cardinality(buffered) /\ Cardinality(buffered') \in Nat
      BY <1>1, <2>2, Exchange
    <3>2. Cardinality(buffered') <= MaxOrderedBufferSize
      BY <1>1, <1>2, <3>1
    <3> QED BY <3>2 DEF BufferBounded, buffered
  <2> QED BY <1>4, <2>1, <2>2 DEF ReceiveAhead, Put, Drop, Restrict
<1>5. ASSUME NEW m \in wire, OnPacketReceived(m) PROVE BufferBounded'
  <2>1. CASE ReceiveUnsequenced(m) \/ ReceiveNewest(m) \/ ReceiveStale(m)
    BY <1>3, <2>1 DEF ReceiveUnsequenced, ReceiveNewest, ReceiveStale
  <2>2. CASE ReceiveInOrder(m)
    BY <1>3, <2>2 DEF ReceiveInOrder, DeliverRun, Drop, Restrict
  <2>3. CASE ReceiveAhead(m)
    BY <1>4, <2>3
  <2> QED BY <1>5, <2>1, <2>2, <2>3 DEF OnPacketReceived
<1>6. CASE Update
  BY <1>3, <1>6 DEF Update, DeliverRun, Drop, Restrict
<1>7. CASE Tick
  BY <1>3, <1>7 DEF Tick
<1>8. ASSUME UNCHANGED ordered_receive_buffer PROVE BufferBounded'
  BY <1>3, <1>8
<1>9. CASE Next
  <2>1. Send \/ GetOutgoingMessage \/ GetRetransmitMessages => UNCHANGED ordered_receive_buffer
    BY DEF Send, GetOutgoingMessage, GetRetransmitMessages, receiverVars
  <2>2. \A n \in Ranks : AcknowledgeMessage(n) \/ MarkForFastRetransmit(n)
                           => UNCHANGED ordered_receive_buffer
    BY DEF AcknowledgeMessage, MarkForFastRetransmit, receiverVars
  <2>3. \A m \in wire : Lose(m) => UNCHANGED ordered_receive_buffer
    BY DEF Lose, receiverVars
  <2> QED BY <1>5, <1>6, <1>7, <1>8, <1>9, <2>1, <2>2, <2>3 DEF Next
<1>10. CASE UNCHANGED vars
  BY <1>8, <1>10 DEF vars, receiverVars
<1> QED BY <1>9, <1>10

\* The buffers agree with each other and the counters: nothing awaited is buffered,
\* the bound on the memory a peer can take holds, and no entry is overwritten, for
\* every size of the buffers and of the number space.
THEOREM BuffersAlwaysSound == Spec => []BuffersSound
<1>1. IInv /\ BufferBounded => BuffersSound
  BY IInvBufferedAhead, IInvQueuedAfterPending DEF BuffersSound
<1>2. Spec => []BufferBounded
  BY InitBufferBounded, NextBufferBounded, Invariance, PTL DEF Spec
<1> QED BY <1>1, <1>2, Invariance, PTL

\* on_packet_received and update hand an ordered or sequenced channel's messages
\* to the application in strictly increasing order, for every window smaller than
\* half the sequence space.
THEOREM DeliveredInOrder == Spec => []InOrderOnce
<1>1. IInv => InOrderOnce
  BY DEF IInv, DeliveredInv, InOrderOnce, TypeOK
<1> QED BY <1>1, Invariance, PTL
=============================================================================
