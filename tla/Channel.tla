------------------------------- MODULE Channel ------------------------------
(***************************************************************************)
(* One message channel (gbnet/src/channel.rs): the sending half at one     *)
(* host, the receiving half at its peer, and between them the datagrams    *)
(* that carry the channel's messages.  UDP may lose, duplicate and reorder *)
(* them, and the packet layer above tells the sender, some time later or   *)
(* never, that a packet carrying a message reached the peer.               *)
(*                                                                         *)
(* A message is abstracted to its rank, the how-manieth message accepted   *)
(* by send() it is.  Time is counted in ticks; send_time and inserted_at   *)
(* are kept as ages, so two events within one tick have equal timestamps.  *)
(*                                                                         *)
(* Left out: receive() pops delivery_queue, which nothing else reads, so   *)
(* the history of everything pushed stands for the queue; messages over    *)
(* max_message_size are refused with no effect; datagrams too short for a  *)
(* sequence number are never produced by a channel.  The definitions *)
(* listed as "mutants" in PROJECT.json (ExhaustedOneEarly, ...) are *)
(* not the code but slips that show a property can fail.                   *)
(***************************************************************************)
EXTENDS SeqNum, Sequences, FiniteSets, Functions

CONSTANTS
  Configs,                \* the ChannelConfigs considered, with the application's flags
  StartSeq,               \* sequence number both halves have reached
  MaxSends,               \* bound: messages accepted by send()
  MessageBufferSize,      \* config.message_buffer_size
  MaxOrderedBufferSize,   \* config.max_ordered_buffer_size
  OrderedBufferTimeout,   \* config.ordered_buffer_timeout, in ticks
  MaxReliableRetries,     \* config.max_reliable_retries
  MaxBackoffExponent,     \* MAX_BACKOFF_EXPONENT
  Rto,                    \* retransmission timeout, in ticks
  FastRetransmitAge,      \* the 60 seconds of mark_for_fast_retransmit, in ticks
  MaxAge,                 \* bound: older timestamps are not told apart
  MaxDuplicates,          \* bound: datagrams the network delivers twice
  MaxNacks                \* bound: messages the packet layer reports missing

Modes == {"Unreliable", "UnreliableSequenced",
          "ReliableUnordered", "ReliableOrdered", "ReliableSequenced"}

ASSUME ChannelAssumption ==
  /\ Configs \subseteq [delivery_mode : Modes, block_on_full : BOOLEAN,
                        flags : SUBSET BOOLEAN]   \* values passed as send's `reliable`
  /\ StartSeq \in SeqNums
  /\ MaxSends \in Nat
  /\ MessageBufferSize \in Nat \ {0}
  /\ MaxOrderedBufferSize \in Nat \ {0}
  /\ OrderedBufferTimeout \in Nat
  /\ MaxReliableRetries \in Nat
  /\ MaxBackoffExponent \in Nat
  /\ Rto \in Nat \ {0}
  /\ MaxAge \in Nat
  /\ MaxAge > OrderedBufferTimeout
  /\ FastRetransmitAge \in 0 .. MaxAge
  /\ MaxDuplicates \in Nat
  /\ MaxNacks \in Nat

\* Fewer messages than half the space, so that any two live numbers compare the way
\* they were issued.  Exactly HalfRange messages is one too many: at that distance
\* sequence_greater_than compares the numbers as integers, and a message lost at the
\* start of the window looks new again at its end.
ASSUME WindowAssumption == MaxSends < HalfRange

VARIABLES
  config,                   \* chosen by Channel::new, never changed
  (* the sending half *)
  sent,                     \* number of messages accepted so far
  send_sequence,
  send_buffer,              \* sequence of [sequence, data, reliable]
  pending_ack,              \* sequence number -> [data, age, retry_count]
  (* the receiving half *)
  receive_sequence,
  last_received_sequence,
  ordered_receive_buffer,   \* sequence number -> [data, age]
  delivered,                \* every message pushed on delivery_queue, in order
  (* between them *)
  wire,                     \* datagrams in flight
  duplicated,               \* how many datagrams were delivered and kept
  arrived,                  \* messages carried by a packet that reached the peer
  nacks,                    \* how many messages the packet layer reported missing
  (* history: what was done for each message awaiting its ack *)
  attempts                  \* sequence number -> [transmissions, quiet, reported]

senderVars   == <<sent, send_sequence, send_buffer, pending_ack>>
receiverVars == <<receive_sequence, last_received_sequence,
                  ordered_receive_buffer, delivered>>
networkVars  == <<wire, duplicated, arrived, nacks>>
vars == <<config, senderVars, receiverVars, networkVars, attempts>>

-----------------------------------------------------------------------------
Ranks == 1 .. MaxSends
Ages  == 0 .. MaxAge

SeqOfRank(n) == SeqPlus(StartSeq, n - 1)

WireMessages == [sequence : SeqNums, data : Ranks]

Reliable  == config.delivery_mode \in
               {"ReliableUnordered", "ReliableOrdered", "ReliableSequenced"}
Sequenced == config.delivery_mode \in {"UnreliableSequenced", "ReliableSequenced"}
Ordered   == config.delivery_mode = "ReliableOrdered"

\* The StartSeq messages before this history were received as well.
messages_received == StartSeq + Len(delivered)

EmptyMap     == [x \in {} |-> x]
Put(f, k, v) == [x \in DOMAIN f \cup {k} |-> IF x = k THEN v ELSE f[x]]
Drop(f, S)   == Restrict(f, DOMAIN f \ S)

Older(age) == IF age < MaxAge THEN age + 1 ELSE age

\* The history of a message: how often it was put on the wire, the ticks since the
\* last time, and whether it was reported missing since then.
FirstAttempt == [transmissions |-> 1, quiet |-> 0, reported |-> FALSE]
NextAttempt(a) ==
  [transmissions |-> a.transmissions + 1, quiet |-> 0, reported |-> FALSE]

-----------------------------------------------------------------------------
(* The sending half *)

\* send(data, reliable): a full buffer refuses the message or forgets its
\* oldest one; the message is numbered when it is queued, not when it is sent.
Send ==
  /\ sent < MaxSends
  /\ \E reliable \in config.flags :
       LET message == [sequence |-> send_sequence, data |-> sent + 1,
                       reliable |-> reliable]
       IN  \/ /\ Len(send_buffer) < MessageBufferSize
              /\ send_buffer' = Append(send_buffer, message)
           \/ /\ Len(send_buffer) >= MessageBufferSize
              /\ ~config.block_on_full
              /\ send_buffer' = Append(Tail(send_buffer), message)
  /\ sent' = sent + 1
  /\ send_sequence' = SeqNext(send_sequence)
  /\ UNCHANGED <<config, pending_ack, receiverVars, networkVars, attempts>>

\* get_outgoing_message(): a reliable message is remembered until acknowledged.
GetOutgoingMessage ==
  /\ send_buffer # <<>>
  /\ LET message == Head(send_buffer)
     IN  /\ pending_ack' =
              IF message.reliable
              THEN Put(pending_ack, message.sequence,
                       [data |-> message.data, age |-> 0, retry_count |-> 0])
              ELSE pending_ack
         /\ attempts' = IF message.reliable
                        THEN Put(attempts, message.sequence, FirstAttempt)
                        ELSE attempts
         /\ wire' = wire \cup {[sequence |-> message.sequence, data |-> message.data]}
  /\ send_buffer' = Tail(send_buffer)
  /\ UNCHANGED <<config, sent, send_sequence, receiverVars,
                 duplicated, arrived, nacks>>

Backoff(retry_count) ==
  Rto * 2 ^ (IF retry_count < MaxBackoffExponent THEN retry_count
                                                 ELSE MaxBackoffExponent)

\* The messages whose retransmission timer has run out; those that also ran out
\* of retries are forgotten.
Due == {s \in DOMAIN pending_ack :
          pending_ack[s].age >= Backoff(pending_ack[s].retry_count)}
ExhaustedOneEarly == {s \in Due : pending_ack[s].retry_count + 1 >= MaxReliableRetries}
Exhausted == {s \in Due : pending_ack[s].retry_count >= MaxReliableRetries}

\* get_retransmit_messages(now, rto): one pass over the whole map.
GetRetransmitMessages ==
  /\ Reliable
  /\ Due # {}
  /\ pending_ack' =
       [s \in DOMAIN pending_ack \ Exhausted |->
          IF s \in Due
          THEN [pending_ack[s] EXCEPT !.age = 0, !.retry_count = @ + 1]
          ELSE pending_ack[s]]
  /\ wire' = wire \cup {[sequence |-> s, data |-> pending_ack[s].data] :
                           s \in Due \ Exhausted}
  /\ attempts' =
       [s \in DOMAIN attempts \ Exhausted |->
          IF s \in Due THEN NextAttempt(attempts[s]) ELSE attempts[s]]
  /\ UNCHANGED <<config, sent, send_sequence, send_buffer, receiverVars,
                 duplicated, arrived, nacks>>

\* acknowledge_message(sequence), for a message the packet layer saw acked;
\* it tracks packets of reliable channels only (connection/io.rs).
AcknowledgeMessage(n) ==
  /\ Reliable
  /\ n \in arrived
  /\ SeqOfRank(n) \in DOMAIN pending_ack
  /\ pending_ack' = Drop(pending_ack, {SeqOfRank(n)})
  /\ attempts' = Drop(attempts, {SeqOfRank(n)})
  /\ UNCHANGED <<config, sent, send_sequence, send_buffer, receiverVars, networkVars>>

\* mark_for_fast_retransmit(seq), after three acks skipped its packet; the packet
\* layer reports a packet at most once.
MarkForFastRetransmit(n) ==
  /\ Reliable
  /\ nacks < MaxNacks
  /\ nacks' = nacks + 1
  /\ SeqOfRank(n) \in DOMAIN pending_ack
  /\ pending_ack' = [pending_ack EXCEPT ![SeqOfRank(n)].age = FastRetransmitAge]
  /\ attempts' = [attempts EXCEPT ![SeqOfRank(n)].reported = TRUE]
  /\ UNCHANGED <<config, sent, send_sequence, send_buffer, receiverVars,
                 wire, duplicated, arrived>>

-----------------------------------------------------------------------------
(* The receiving half *)

\* sequence_greater_than(seq, last) || messages_received == 0
FreshOrEqual(s) == ~SeqGreater(last_received_sequence, s) \/ messages_received = 0
FreshUnlessRepeated(s) == s # last_received_sequence \/ messages_received = 0
Fresh(s) == SeqGreater(s, last_received_sequence) \/ messages_received = 0

\* The numbers from..(next - 1) are all buffered and next is not.  The loops
\* `while let Some(..) = ordered_receive_buffer.remove(&receive_sequence)` run
\* from "from" and stop at "next", having removed and delivered those k.
RunEndsAt(buffer, from, k) ==
  /\ \A j \in 0 .. (k - 1) : SeqPlus(from, j) \in DOMAIN buffer
  /\ SeqPlus(from, k) \notin DOMAIN buffer

DeliverRun(buffer, from, k) ==
  /\ receive_sequence' = SeqPlus(from, k)
  /\ ordered_receive_buffer' = Drop(buffer, {SeqPlus(from, j) : j \in 0 .. (k - 1)})

RunOf(buffer, from, k) == [j \in 1 .. k |-> buffer[SeqPlus(from, j - 1)].data]

ReceiveUnsequenced(m) ==
  /\ ~Sequenced /\ ~Ordered
  /\ delivered' = Append(delivered, m.data)
  /\ UNCHANGED <<receive_sequence, last_received_sequence, ordered_receive_buffer>>

ReceiveNewest(m) ==
  /\ Sequenced
  /\ Fresh(m.sequence)
  /\ last_received_sequence' = m.sequence
  /\ delivered' = Append(delivered, m.data)
  /\ UNCHANGED <<receive_sequence, ordered_receive_buffer>>

\* The awaited message: deliver it and every one buffered right behind it.
ReceiveInOrder(m) ==
  /\ Ordered
  /\ m.sequence = receive_sequence
  /\ \E k \in 0 .. HalfRange :
       LET from == SeqNext(receive_sequence)
       IN  /\ RunEndsAt(ordered_receive_buffer, from, k)
           /\ DeliverRun(ordered_receive_buffer, from, k)
           /\ delivered' = Append(delivered, m.data)
                             \o RunOf(ordered_receive_buffer, from, k)
  /\ UNCHANGED last_received_sequence

\* evict_oldest_buffered() when the buffer is full: an entry no other entry is
\* older than.  Its branch for evicting receive_sequence itself is unreachable
\* (BufferedAhead), so the awaited number does not move.
Oldest(s) == \A o \in DOMAIN ordered_receive_buffer :
               ordered_receive_buffer[o].age <= ordered_receive_buffer[s].age

BufferOverfull == Cardinality(DOMAIN ordered_receive_buffer) > MaxOrderedBufferSize
BufferFull == Cardinality(DOMAIN ordered_receive_buffer) >= MaxOrderedBufferSize

\* A message ahead of the awaited one is buffered, after making room.
ReceiveAhead(m) ==
  /\ Ordered
  /\ m.sequence # receive_sequence
  /\ SeqGreater(m.sequence, receive_sequence)
  /\ LET entry == [data |-> m.data, age |-> 0]
     IN  \/ /\ ~BufferFull
            /\ ordered_receive_buffer' = Put(ordered_receive_buffer, m.sequence, entry)
         \/ /\ BufferFull
            /\ \E evicted \in DOMAIN ordered_receive_buffer :
                 /\ Oldest(evicted)
                 /\ ordered_receive_buffer' =
                      Put(Drop(ordered_receive_buffer, {evicted}), m.sequence, entry)
  /\ UNCHANGED <<receive_sequence, last_received_sequence, delivered>>

\* Anything behind is dropped without a trace.
ReceiveStale(m) ==
  /\ \/ Sequenced /\ ~Fresh(m.sequence)
     \/ /\ Ordered
        /\ m.sequence # receive_sequence
        /\ ~SeqGreater(m.sequence, receive_sequence)
  /\ UNCHANGED <<receive_sequence, last_received_sequence,
                 ordered_receive_buffer, delivered>>

\* on_packet_received(wire_data); the datagram may still have a duplicate in flight.
OnPacketReceived(m) ==
  /\ m \in wire
  /\ \/ ReceiveUnsequenced(m) \/ ReceiveNewest(m)
     \/ ReceiveInOrder(m) \/ ReceiveAhead(m) \/ ReceiveStale(m)
  /\ \/ /\ wire' = wire \ {m}
        /\ UNCHANGED duplicated
     \/ /\ duplicated < MaxDuplicates
        /\ duplicated' = duplicated + 1
        /\ UNCHANGED wire
  /\ arrived' = arrived \cup {m.data}
  /\ UNCHANGED <<config, senderVars, nacks, attempts>>

\* find_earliest_buffered(); the fold finds it in any order because all the
\* buffered numbers lie within half a turn of receive_sequence (BufferedAhead).
Earliest(s) == \A o \in DOMAIN ordered_receive_buffer : ~SeqGreater(s, o)

TimedOutEarly(s) == ordered_receive_buffer[s].age >= OrderedBufferTimeout
TimedOutIfAwaited(s) ==
  s = receive_sequence /\ ordered_receive_buffer[s].age > OrderedBufferTimeout
TimedOut(s) == ordered_receive_buffer[s].age > OrderedBufferTimeout

\* update(): when an entry has waited too long, skip the gap before the first
\* buffered message and deliver the run that begins there.
Update ==
  /\ Ordered
  /\ \E s \in DOMAIN ordered_receive_buffer : TimedOut(s)
  /\ \E first \in DOMAIN ordered_receive_buffer, k \in 1 .. HalfRange :
       /\ Earliest(first)
       /\ RunEndsAt(ordered_receive_buffer, first, k)
       /\ DeliverRun(ordered_receive_buffer, first, k)
       /\ delivered' = delivered \o RunOf(ordered_receive_buffer, first, k)
  /\ UNCHANGED <<config, senderVars, last_received_sequence, networkVars, attempts>>

-----------------------------------------------------------------------------
(* The environment *)

Lose(m) ==
  /\ m \in wire
  /\ wire' = wire \ {m}
  /\ UNCHANGED <<config, senderVars, receiverVars,
                 duplicated, arrived, nacks, attempts>>

\* Time passes at both hosts.
Tick ==
  /\ pending_ack' = [s \in DOMAIN pending_ack |->
                       [pending_ack[s] EXCEPT !.age = Older(@)]]
  /\ ordered_receive_buffer' = [s \in DOMAIN ordered_receive_buffer |->
                       [ordered_receive_buffer[s] EXCEPT !.age = Older(@)]]
  /\ attempts' = [s \in DOMAIN attempts |-> [attempts[s] EXCEPT !.quiet = Older(@)]]
  /\ UNCHANGED <<config, sent, send_sequence, send_buffer, receive_sequence,
                 last_received_sequence, delivered, networkVars>>

\* Both halves have exchanged StartSeq messages and are idle.
Init ==
  /\ config \in Configs
  /\ sent = 0
  /\ send_sequence = StartSeq
  /\ send_buffer = <<>>
  /\ pending_ack = EmptyMap
  /\ receive_sequence = StartSeq
  /\ last_received_sequence = (IF StartSeq = 0 THEN 0 ELSE StartSeq - 1)
  /\ ordered_receive_buffer = EmptyMap
  /\ delivered = <<>>
  /\ wire = {}
  /\ duplicated = 0
  /\ arrived = {}
  /\ nacks = 0
  /\ attempts = EmptyMap

Next ==
  \/ Send
  \/ GetOutgoingMessage
  \/ GetRetransmitMessages
  \/ \E n \in Ranks : AcknowledgeMessage(n) \/ MarkForFastRetransmit(n)
  \/ \E m \in wire : OnPacketReceived(m) \/ Lose(m)
  \/ Update
  \/ Tick

Spec == Init /\ [][Next]_vars

\* Connection::update_tick runs every tick of the application's loop: it drains
\* the send buffers, asks for retransmissions and calls update(), and the clock
\* does not stop.  Nothing is assumed of the network.
Fairness ==
  /\ WF_vars(GetOutgoingMessage)
  /\ WF_vars(GetRetransmitMessages)
  /\ WF_vars(Update)
  /\ WF_vars(Tick)

FairSpec == Spec /\ Fairness

-----------------------------------------------------------------------------
(* Properties *)

TypeOK ==
  /\ config \in Configs
  /\ sent \in 0 .. MaxSends
  /\ send_sequence \in SeqNums
  /\ send_buffer \in Seq([sequence : SeqNums, data : Ranks, reliable : BOOLEAN])
  /\ DOMAIN pending_ack \subseteq SeqNums
  /\ pending_ack \in [DOMAIN pending_ack ->
                        [data : Ranks, age : Ages, retry_count : 0 .. MaxReliableRetries]]
  /\ receive_sequence \in SeqNums
  /\ last_received_sequence \in SeqNums
  /\ DOMAIN ordered_receive_buffer \subseteq SeqNums
  /\ ordered_receive_buffer \in [DOMAIN ordered_receive_buffer -> [data : Ranks, age : Ages]]
  /\ delivered \in Seq(Ranks)
  /\ wire \subseteq WireMessages
  /\ duplicated \in 0 .. MaxDuplicates
  /\ arrived \subseteq Ranks
  /\ nacks \in 0 .. MaxNacks

\* Everything in the ordered buffer is ahead of the awaited number, so the awaited
\* message is never itself buffered: evict_oldest_buffered can never evict it, the
\* reinsertion loop cannot skip it, and find_earliest_buffered compares numbers
\* that lie within half a turn of each other.
BufferedAhead ==
  \A s \in DOMAIN ordered_receive_buffer :
    s # receive_sequence /\ SeqGreater(s, receive_sequence)

\* max_ordered_buffer_size bounds the memory a peer can make the receiver hold.
BufferBounded == Cardinality(DOMAIN ordered_receive_buffer) <= MaxOrderedBufferSize

\* A queued message was accepted after every message that awaits its ack, and the
\* queue holds the last ones accepted: get_outgoing_message never overwrites the
\* entry of a message still awaiting its ack, even when the numbers wrap around.
QueuedAfterPending ==
  /\ \A i \in DOMAIN send_buffer :
       send_buffer[i].data = sent - Len(send_buffer) + i
  /\ \A s \in DOMAIN pending_ack :
       /\ s = SeqOfRank(pending_ack[s].data)
       /\ pending_ack[s].data <= sent - Len(send_buffer)

\* The three buffers agree with each other and with the counters, across the wrap-around
\* and at their limits.
BuffersSound == BufferedAhead /\ BufferBounded /\ QueuedAfterPending

\* Ordered and sequenced channels hand the application strictly increasing
\* messages: no duplicate, no late one, whatever the network does.
InOrderOnce ==
  Sequenced \/ Ordered =>
    \A i, j \in DOMAIN delivered : i < j => delivered[i] < delivered[j]

\* An ordered channel leaves a gap in what it delivers only when some buffered
\* message has waited longer than ordered_buffer_timeout; losing an entry of a
\* full buffer, or receiving duplicates, never moves it past a missing message.
NoGapBeforeTimeout ==
  [][ (/\ Ordered
       /\ \A s \in DOMAIN ordered_receive_buffer :
            ordered_receive_buffer[s].age <= OrderedBufferTimeout)
      => \A i \in Len(delivered) + 1 .. Len(delivered') :
           i > 1 => SeqOfRank(delivered'[i]) =
                      IF i = Len(delivered) + 1 THEN receive_sequence
                      ELSE SeqNext(SeqOfRank(delivered'[i - 1])) ]_vars

\* A reliable channel keeps trying.  A message is put on the wire again only when the
\* backoff of its last transmission has passed in full, or when it was reported missing
\* since; and it is forgotten only when a packet that carried it arrived, or when all
\* 1 + max_reliable_retries transmissions were made, and the last one was waited for
\* like the others unless it was reported missing.  (So mark_for_fast_retransmit does not
\* always cause the message to be sent again on the next get_retransmit_messages: once
\* there is no retry left, that call forgets it.)
WaitedOut(s) ==
  \/ attempts[s].reported
  \/ attempts[s].quiet >= Backoff(attempts[s].transmissions - 1)

KeepsTrying ==
  [][ Reliable =>
        /\ \A s \in DOMAIN pending_ack \ DOMAIN pending_ack' :
             \/ pending_ack[s].data \in arrived
             \/ /\ attempts[s].transmissions = 1 + MaxReliableRetries
                /\ WaitedOut(s)
        /\ \A s \in DOMAIN attempts \cap DOMAIN attempts' :
             attempts'[s].transmissions # attempts[s].transmissions => WaitedOut(s) ]_vars

\* Nothing waits for ever, whatever is lost: the sender's memory of reliable messages
\* drains even if no ack ever arrives, and a message buffered out of order does not wait
\* for a lost one.  (`always eventually absent' is `present leads to absent'.)
NothingWaitsForEver ==
  \A n \in Ranks :
    /\ []<>(Reliable => SeqOfRank(n) \notin DOMAIN pending_ack)
    /\ []<>(SeqOfRank(n) \notin DOMAIN ordered_receive_buffer)

\* The channel keeps the promise ChannelDelivery states.
Abstract == INSTANCE ChannelDelivery
  WITH monotone <- Sequenced \/ Ordered, accepted <- sent, log <- delivered

KeepsDeliveryPromise == Abstract!Spec

\* What "guaranteed delivery" says of an ordered channel: when the sender learns that
\* a message was acknowledged and forgets it, never to send it again, the message has
\* reached the application or is about to.
AcknowledgedIsDelivered ==
  [][ Ordered =>
        \A s \in DOMAIN pending_ack \ (DOMAIN pending_ack' \cup Exhausted) :
          \/ \E i \in DOMAIN delivered : delivered[i] = pending_ack[s].data
          \/ s \in DOMAIN ordered_receive_buffer ]_vars
=============================================================================
