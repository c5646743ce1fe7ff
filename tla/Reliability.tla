----------------------------- MODULE Reliability ----------------------------
(***************************************************************************)
(* Packet acknowledgment (gbnet/src/reliability.rs, ReliableEndpoint).     *)
(*                                                                         *)
(* An endpoint has two independent halves: the fields that number and      *)
(* track what it sends, and the fields that record what it receives and    *)
(* make up the ack information it puts on every packet.  The module        *)
(* follows one direction of a connection, so it has the sending half of    *)
(* one endpoint and the receiving half of its peer; the other direction is *)
(* the same with the roles exchanged.                                      *)
(*                                                                         *)
(* Packets are the ranks 1 .. sent, numbered from `start`; every header    *)
(* takes a number (Connection::create_header), but only payloads of        *)
(* reliable channels are tracked.  The network may lose, repeat and delay  *)
(* both packets and ack information, so nothing ever leaves the sets       *)
(* 1 .. sent and ack_infos: what is lost is simply never received.         *)
(*                                                                         *)
(* Left out: the statistics, the round trip estimate (floating point), and *)
(* the distance check at the top of on_packet_received, which compares an  *)
(* absolute sequence_diff, at most 32768, with a limit of 32768.           *)
(***************************************************************************)
EXTENDS SeqNum, FiniteSets

CONSTANTS
  Starts,                   \* first sequence numbers considered; 0 is a new connection
  MaxPackets,               \* bound: headers created
  MaxTime,                  \* bound: clock ticks
  AckBitsWindow,            \* ACK_BITS_WINDOW, the width of ack_bits
  BufferSize,               \* config.packet_buffer_size
  MaxInFlight,              \* config.max_in_flight
  FastRetransmitThreshold,  \* FAST_RETRANSMIT_THRESHOLD
  MaxNackCount              \* u8::MAX, where nack_count saturates

ASSUME ReliabilityAssumption ==
  /\ Starts \subseteq SeqNums
  /\ MaxPackets \in Nat \ {0}
  /\ MaxTime \in Nat
  /\ AckBitsWindow \in Nat \ {0}
  /\ BufferSize \in Nat \ {0}
  /\ MaxInFlight \in Nat \ {0}
  /\ FastRetransmitThreshold \in Nat \ {0}
  /\ MaxNackCount \in Nat
  /\ FastRetransmitThreshold < MaxNackCount

\* The numbers in play, the remembered ones included, span less than half the space.
ASSUME PacketWindowAssumption ==
  MaxPackets + BufferSize < HalfRange /\ MaxPackets + AckBitsWindow < HalfRange

VARIABLES
  start,              \* the number of packet 1
  overflow_checks,    \* is this a build with overflow checks (debug) or without (release)?
  now,                \* the clock
  (* the sending half *)
  local_sequence,
  sent_packets,       \* sequence number -> [packet, send_time, nack_count]
  (* the receiving half of the peer *)
  remote_sequence,
  ack_bits,           \* the set of bit positions that are 1
  received_packets,   \* SequenceBuffer: [sequence, entries]
  panicked,           \* did an arithmetic check end the peer's process?
  (* between them *)
  ack_infos,          \* (ack, ack_bits) pairs put on packets so far
  (* history *)
  sent,               \* packets sent
  received,           \* packets received at least once
  skipped_window,     \* did remote_sequence ever advance by exactly the window?
  tracked_at,         \* packet that was tracked -> the time it was sent
  acked,              \* packets process_acks returned as acknowledged
  reports             \* packet -> how often it was a fast retransmit candidate

sendingVars   == <<now, local_sequence, sent_packets, sent, tracked_at, acked,
                   reports>>
receivingVars == <<remote_sequence, ack_bits, received_packets, panicked,
                   received, skipped_window>>
vars == <<start, overflow_checks, sendingVars, receivingVars, ack_infos>>

-----------------------------------------------------------------------------
Packets   == 1 .. MaxPackets
BitPositions == 0 .. (AckBitsWindow - 1)
None      == -1                     \* an empty slot of a SequenceBuffer

\* The number of packet n; ranks below 1 are the packets before this history.
SeqOfPacket(n) == IF n > 0 THEN SeqPlus(start, n - 1) ELSE SeqMinus(start, 1 - n)

-----------------------------------------------------------------------------
(* The sending half *)

LatestSent(s) == \A o \in DOMAIN sent_packets :
                   sent_packets[s].send_time >= sent_packets[o].send_time
\* evict_worst_in_flight(): a record with the earliest send_time.
Worst(s) == \A o \in DOMAIN sent_packets :
              sent_packets[s].send_time <= sent_packets[o].send_time

MustEvict == Cardinality(DOMAIN sent_packets) >= MaxInFlight

\* What may be left of sent_packets once there is room for one more.
Remaining ==
  IF MustEvict
  THEN {DOMAIN sent_packets \ {s} : s \in {w \in DOMAIN sent_packets : Worst(w)}}
  ELSE {DOMAIN sent_packets}

\* on_packet_sent(sequence, ...)
Track(sequence) ==
  \E remaining \in Remaining :
    sent_packets' =
      [s \in remaining \cup {sequence} |->
         IF s = sequence
         THEN [packet |-> sent + 1, send_time |-> now, nack_count |-> 0]
         ELSE sent_packets[s]]

\* Connection::create_header numbers a packet, and on_packet_sent tracks it if it
\* carries a message of a reliable channel.
SendPacket ==
  /\ sent < MaxPackets
  /\ sent' = sent + 1
  /\ local_sequence' = SeqNext(local_sequence)
  /\ \/ /\ Track(local_sequence)
        /\ tracked_at' = [n \in DOMAIN tracked_at \cup {sent + 1} |->
                            IF n = sent + 1 THEN now ELSE tracked_at[n]]
     \/ UNCHANGED <<sent_packets, tracked_at>>
  /\ UNCHANGED <<start, overflow_checks, now, acked, reports, receivingVars, ack_infos>>

CoversShort(ack, bits, s) == s = ack \/ \E i \in bits : s = SeqMinus(ack, i)
\* Bit i of ack_bits stands for the packet i + 1 before ack.
Covers(ack, bits, s) == s = ack \/ \E i \in bits : s = SeqMinus(ack, i + 1)

\* Packets that ack has overtaken by no more than the window, without acking them.
Nacked(ack, bits) ==
  {s \in DOMAIN sent_packets :
     /\ ~Covers(ack, bits, s)
     /\ SeqGreater(ack, s)
     /\ SeqDiff(ack, s) \in 1 .. AckBitsWindow}

NackCountAfter(s) == IF sent_packets[s].nack_count < MaxNackCount
                     THEN sent_packets[s].nack_count + 1
                     ELSE MaxNackCount

AtOrPastThreshold(s) == NackCountAfter(s) >= FastRetransmitThreshold
AtThreshold(s) == NackCountAfter(s) = FastRetransmitThreshold

\* process_acks(ack, ack_bits): acknowledged records go, the others that were
\* overtaken count one more nack.
ProcessAcks(ack, bits) ==
  /\ LET hit     == {s \in DOMAIN sent_packets : Covers(ack, bits, s)}
         nacked  == Nacked(ack, bits)
         reported == {sent_packets[s].packet : s \in {n \in nacked : AtThreshold(n)}}
     IN  /\ sent_packets' =
              [s \in DOMAIN sent_packets \ hit |->
                 IF s \in nacked
                 THEN [sent_packets[s] EXCEPT !.nack_count = NackCountAfter(s)]
                 ELSE sent_packets[s]]
         /\ acked' = acked \cup {sent_packets[s].packet : s \in hit}
         /\ reports' = [n \in Packets |->
                          IF n \in reported THEN reports[n] + 1 ELSE reports[n]]
  /\ UNCHANGED <<start, overflow_checks, now, local_sequence, sent, tracked_at,
                 receivingVars, ack_infos>>

-----------------------------------------------------------------------------
(* The receiving half *)

Slot(s) == s % BufferSize

\* SequenceBuffer::exists(sequence)
Exists(s) == received_packets.entries[Slot(s)] = s

\* SequenceBuffer::insert(sequence): a newer number clears the slots it passes over.
Inserted(s) ==
  LET newest == received_packets.sequence
      passed == {SeqPlus(newest, j) : j \in 1 .. SeqDiff(s, newest)}
      kept(i) ==
        IF SeqGreater(s, newest)
           /\ (SeqDiff(s, newest) >= BufferSize \/ \E p \in passed : Slot(p) = i)
        THEN None
        ELSE received_packets.entries[i]
  IN  [sequence |-> IF SeqGreater(s, newest) THEN s ELSE newest,
       entries  |-> [i \in 0 .. BufferSize - 1 |-> IF i = Slot(s) THEN s ELSE kept(i)]]

ShiftedLeft(bits, diff) == {i \in BitPositions : i - diff \in bits}

\* A packet newer than any before.  Shifting a 64-bit number by 64 panics where
\* overflow is checked and shifts by 0 where it is not.
AdvanceBelowWindow(s) ==
  LET diff == SeqDiff(s, remote_sequence)
  IN  /\ remote_sequence' = s
      /\ ack_bits' = IF diff < AckBitsWindow
                     THEN ShiftedLeft(ack_bits, diff) \cup {diff - 1}
                     ELSE {}
      /\ UNCHANGED <<panicked, skipped_window>>
Advance(s) ==
  LET diff == SeqDiff(s, remote_sequence)
  IN  \/ /\ diff < AckBitsWindow
         /\ remote_sequence' = s
         /\ ack_bits' = ShiftedLeft(ack_bits, diff) \cup {diff - 1}
         /\ UNCHANGED <<panicked, skipped_window>>
      \/ /\ diff = AckBitsWindow
         /\ ~overflow_checks
         /\ remote_sequence' = s
         /\ ack_bits' = ack_bits \cup {diff - 1}
         /\ skipped_window' = TRUE
         /\ UNCHANGED panicked
      \/ /\ diff = AckBitsWindow
         /\ overflow_checks
         /\ panicked' = TRUE
         /\ skipped_window' = TRUE
         /\ UNCHANGED <<remote_sequence, ack_bits>>
      \/ /\ diff > AckBitsWindow
         /\ remote_sequence' = s
         /\ ack_bits' = {}
         /\ UNCHANGED <<panicked, skipped_window>>

\* A packet older than the newest one, noted if it is within the window.
FillIn(s) ==
  LET diff == SeqDiff(remote_sequence, s)
  IN  /\ ack_bits' = IF diff \in 1 .. AckBitsWindow THEN ack_bits \cup {diff - 1}
                                                    ELSE ack_bits
      /\ UNCHANGED <<remote_sequence, panicked, skipped_window>>

\* on_packet_received(sequence)
Note(s) ==
  \/ /\ Exists(s)
     /\ UNCHANGED <<remote_sequence, ack_bits, received_packets, panicked, skipped_window>>
  \/ /\ ~Exists(s)
     /\ received_packets' = Inserted(s)
     /\ \/ SeqGreater(s, remote_sequence) /\ Advance(s)
        \/ ~SeqGreater(s, remote_sequence) /\ FillIn(s)

OnPacketReceived(n) ==
  /\ ~panicked
  /\ n <= sent
  /\ Note(SeqOfPacket(n))
  /\ received' = received \cup {n}
  /\ UNCHANGED <<start, overflow_checks, sendingVars, ack_infos>>

\* A MtuProbeAck is sent outside the connection (send_raw) with sequence, ack and
\* ack_bits 0, and its header is processed like any other; probes are made at the
\* beginning of a connection only.  The peer notes packet 0 as received, ...
ReceiveRawHeader ==
  /\ start = 0
  /\ ~panicked
  /\ Note(0)
  /\ UNCHANGED <<start, overflow_checks, sendingVars, received, ack_infos>>

\* get_ack_info(), for a packet the peer sends.
GetAckInfo ==
  /\ ~panicked
  /\ ack_infos' = ack_infos \cup {[ack |-> remote_sequence, ack_bits |-> ack_bits]}
  /\ UNCHANGED <<start, overflow_checks, sendingVars, receivingVars>>

\* ... and the sender takes it for an ack of packet 0.
ProcessRawHeader == start = 0 /\ ProcessAcks(0, {})

Tick ==
  /\ now < MaxTime
  /\ now' = now + 1
  /\ UNCHANGED <<start, overflow_checks, local_sequence, sent_packets, sent,
                 tracked_at, acked, reports, receivingVars, ack_infos>>

-----------------------------------------------------------------------------
\* The latest of the last BufferSize earlier packets that went to slot i, if any.
LastInSlot(i) ==
  LET there == {j \in 0 .. BufferSize - 1 : Slot(SeqOfPacket(-j)) = i}
  IN  IF there = {} THEN None
      ELSE SeqOfPacket(-(CHOOSE j \in there : \A k \in there : j <= k))

\* Either a new connection (start 0), or one on which every packet before this
\* history was received.
Init ==
  /\ start \in Starts
  /\ overflow_checks \in BOOLEAN
  /\ now = 0
  /\ local_sequence = start
  /\ sent_packets = [s \in {} |-> s]
  /\ IF start = 0
     THEN /\ remote_sequence = 0
          /\ ack_bits = {}
          /\ received_packets = [sequence |-> 0,
                                 entries |-> [i \in 0 .. BufferSize - 1 |-> None]]
     ELSE /\ remote_sequence = SeqOfPacket(0)
          /\ ack_bits = BitPositions
          /\ received_packets =
               [sequence |-> SeqOfPacket(0),
                entries |-> [i \in 0 .. BufferSize - 1 |-> LastInSlot(i)]]
  /\ panicked = FALSE
  /\ ack_infos = {}
  /\ sent = 0
  /\ received = {}
  /\ skipped_window = FALSE
  /\ tracked_at = [n \in {} |-> n]
  /\ acked = {}
  /\ reports = [n \in Packets |-> 0]

Next ==
  \/ SendPacket
  \/ \E n \in Packets : OnPacketReceived(n)
  \/ GetAckInfo
  \/ \E info \in ack_infos : ProcessAcks(info.ack, info.ack_bits)
  \/ ReceiveRawHeader
  \/ ProcessRawHeader
  \/ Tick

Spec == Init /\ [][Next]_vars

-----------------------------------------------------------------------------
(* Properties *)

TypeOK ==
  /\ start \in Starts
  /\ overflow_checks \in BOOLEAN
  /\ Cardinality(DOMAIN sent_packets) <= MaxInFlight
  /\ now \in 0 .. MaxTime
  /\ local_sequence \in SeqNums
  /\ DOMAIN sent_packets \subseteq SeqNums
  /\ sent_packets \in [DOMAIN sent_packets ->
        [packet : Packets, send_time : 0 .. MaxTime, nack_count : 0 .. MaxNackCount]]
  /\ remote_sequence \in SeqNums
  /\ ack_bits \subseteq BitPositions
  /\ received_packets \in
       [sequence : SeqNums, entries : [0 .. BufferSize - 1 -> SeqNums \cup {None}]]
  /\ panicked \in BOOLEAN
  /\ ack_infos \subseteq [ack : SeqNums, ack_bits : SUBSET BitPositions]
  /\ sent \in 0 .. MaxPackets
  /\ received \subseteq Packets
  /\ skipped_window \in BOOLEAN
  /\ DOMAIN tracked_at \subseteq Packets
  /\ tracked_at \in [DOMAIN tracked_at -> 0 .. MaxTime]
  /\ acked \subseteq Packets
  /\ reports \in [Packets -> Nat]

\* The ack information is complete: a packet that arrived is acknowledged by every
\* packet the peer sends, until remote_sequence has moved more than the window past it,
\* however late or often it and others arrive and whatever the SequenceBuffer has
\* forgotten meanwhile.
AckBitsComplete ==
  ~panicked =>
    \A n \in received :
      LET diff == SeqDiff(remote_sequence, SeqOfPacket(n))
      IN  /\ ~SeqGreater(SeqOfPacket(n), remote_sequence)
          /\ diff \in 1 .. AckBitsWindow => diff - 1 \in ack_bits

\* A packet the ack information covers did arrive, except the first one of a new
\* connection (remote_sequence is 0 before anything arrived, and so is every number
\* in the header of a MtuProbeAck), and unless remote_sequence once advanced by exactly the width of ack_bits.
AckBitsHonest ==
  ~skipped_window =>
    \A n \in Packets \ received :
      Covers(remote_sequence, ack_bits, SeqOfPacket(n)) => start = 0 /\ n = 1

\* The same for what the sender concludes, however late or often it is told: neither
\* half ever makes up an acknowledgment.
AcksHonest ==
  /\ AckBitsHonest
  /\ ~skipped_window => \A n \in acked \ received : start = 0 /\ n = 1

\* process_acks reports a packet for fast retransmission at most once, however often
\* the same acknowledgment is repeated, and only when the peer has received a later one.
FastRetransmitSound ==
  \A n \in Packets :
    /\ reports[n] <= 1
    /\ reports[n] > 0 => \E later \in received : later > n

Recorded(n) == \E s \in DOMAIN sent_packets : sent_packets[s].packet = n

\* Other tracked packets sent when packet n was, or later.
TrackedSince(n) ==
  {m \in DOMAIN tracked_at \ {n} : tracked_at[m] >= tracked_at[n]}

\* A recent packet can still be settled: from when it is tracked until it is
\* acknowledged its record is there, unless max_in_flight others have been tracked
\* since.  Whatever evict_worst_in_flight and process_acks have removed, however often
\* they were called and wherever the numbers wrapped around, none of the latest
\* max_in_flight was forgotten without an ack.
RecentStayTracked ==
  \A n \in DOMAIN tracked_at :
    n \in acked \/ Recorded(n) \/ Cardinality(TrackedSince(n)) >= MaxInFlight

\* What an acknowledgment is taken for: a packet that was acknowledged arrived.
AckedWasReceived == acked \subseteq received
=============================================================================
