----------------------------- MODULE Connection -----------------------------
(***************************************************************************)
(* A connected pair of hosts (gbnet/src/connection/): how the messages of  *)
(* a reliable channel become numbered packets, whole or in fragments, how  *)
(* an acknowledged packet settles its message, and what a client's         *)
(* reconnect() leaves behind.  One direction is followed; the client is at *)
(* its sending or at its receiving end.                                    *)
(*                                                                         *)
(* The parts with modules of their own appear by what those establish:     *)
(*  - Channel: the messages sent are 0, 1, 2 ... of a session, and at the  *)
(*    other end the set of those given to its receiving half; a            *)
(*    retransmission timer, which lasts as long as the round trip          *)
(*    estimate says, may run out whenever update_tick() looks, so asking   *)
(*    for a fast retransmission changes nothing here;                      *)
(*  - Reliability: while a session has fewer packets than ack_bits has     *)
(*    bits, the ack information covers the packets received and, always,   *)
(*    packet 0 (AckBitsComplete, AckBitsHonest).                           *)
(*                                                                         *)
(* update_tick() sends any number of messages, as the congestion control   *)
(* lets it, so each of its packets is a step.  The network may lose, delay *)
(* and repeat packets: they stay in `packets`, and what is lost is never   *)
(* received.  Of the ack information in flight only the latest is kept:    *)
(* within a session it covers all that came before, so that what is        *)
(* processed after it has no effect, and what is lost was not processed.   *)
(*                                                                         *)
(* Left out: a client that connects again while the server still has its   *)
(* connection, and keeps it, numbers, messages and all; other channels;    *)
(* eviction from a full map of tracked packets (Reliability), which only   *)
(* makes a message wait for its retransmissions.                           *)
(***************************************************************************)
EXTENDS Naturals, FiniteSets, Functions

CONSTANTS
  Configs,        \* see ConnectionAssumption
  MaxMessages,    \* bound: messages of a session
  MaxPackets,     \* bound: headers created in a session, in any configuration
  MaxSessions,    \* bound: sessions, in any configuration
  MaxLate,        \* bound: packets that outlive their session (0: no ack either)
  MaxReliableRetries,
  FragmentCount,  \* fragments of a message over config.fragment_threshold
  AckBitsWindow   \* ACK_BITS_WINDOW

Messages == 0 .. (MaxMessages - 1)
Numbers  == 0 .. (MaxPackets - 1)

ASSUME ConnectionAssumption ==
  /\ Configs \subseteq
       [client_sends : BOOLEAN,     \* is the client at the sending end?
        probes : BOOLEAN,           \* is there an MTU to discover (config.mtu > MIN_MTU + 1)?
        large : SUBSET Messages,    \* the messages sent in fragments
        headers : 0 .. MaxPackets,  \* bound: headers created in a session
        sessions : 1 .. MaxSessions] \* bound: sessions, the first included
  /\ MaxMessages \in Nat
  /\ MaxPackets \in Nat
  /\ MaxPackets < AckBitsWindow
  /\ AckBitsWindow \in Nat
  /\ MaxSessions \in Nat \ {0}
  /\ MaxLate \in Nat
  /\ MaxReliableRetries \in Nat
  /\ FragmentCount \in Nat \ {0}

VARIABLES
  config,
  session,           \* how many times the hosts connected
  (* the sending end *)
  local_sequence,
  probed,            \* did update_tick() send its first probe?
  sent_packets,      \* ReliableEndpoint: number -> the message it stands for
  send_sequence,     \* messages taken from the channel
  pending_ack,       \* message -> retry_count
  next_fragment_id,
  (* the receiving end *)
  received_packets,  \* ReliableEndpoint: the numbers received
  fragment_buffers,  \* FragmentAssembler: the [id, index, from] held
  (* the network *)
  packets,
  ack_info,          \* the numbers the latest packet the other way acknowledges
  (* history; all but clean is of the current session *)
  clean,             \* did every session begin with nothing left of the one before?
  handed,            \* messages given to the channel's receiving half
  mixed,             \* was a message assembled from fragments of two?
  acknowledged,      \* messages the sender was told about
  confirmed          \* numbers of packets the sender was told about

senderVars   == <<local_sequence, probed, sent_packets, send_sequence, pending_ack,
                  next_fragment_id>>
receiverVars == <<received_packets, fragment_buffers, handed, mixed>>
sessionVars  == <<config, session, clean>>
vars == <<sessionVars, senderVars, receiverVars, packets, ack_info,
          acknowledged, confirmed>>

-----------------------------------------------------------------------------
EmptyMap     == [x \in {} |-> x]
Put(f, k, v) == [x \in DOMAIN f \cup {k} |-> IF x = k THEN v ELSE f[x]]

Indices == 0 .. (FragmentCount - 1)
Origins == [session : 1 .. MaxSessions, message : Messages]

(* The packets: a whole message, a fragment, or one without a message *)

Whole(n, m) ==
  [number |-> n, type |-> "message", from |-> [session |-> session, message |-> m]]
Piece(n, m, id, index) ==
  [number |-> n, type |-> "fragment", from |-> [session |-> session, message |-> m],
   id |-> id, index |-> index]
Plain(n) == [number |-> n, type |-> "other"]

PacketSet ==
  [number : Numbers, type : {"message"}, from : Origins]
    \cup [number : Numbers, type : {"fragment"}, from : Origins,
          id : Messages, index : Indices]
    \cup [number : Numbers, type : {"other"}]

-----------------------------------------------------------------------------
(* The sending end: Connection::update_tick *)

\* create_header() takes the next k numbers.
TakeNumbers(k) ==
  /\ local_sequence + k <= config.headers
  /\ local_sequence' = local_sequence + k

\* The first update_tick() of a session sends a probe before any message.
MayCarryMessages == config.probes => probed

\* Probes, keep-alives and AckOnly packets are not tracked.
SendOther ==
  /\ TakeNumbers(1)
  /\ probed' = TRUE
  /\ packets' = packets \cup {Plain(local_sequence)}
  /\ UNCHANGED <<sessionVars, sent_packets, send_sequence, pending_ack, next_fragment_id,
                 receiverVars, ack_info, acknowledged, confirmed>>

\* The fragments have numbers of their own after the first, which is tracked but
\* put on no packet.
FragmentsFrom(m, id) == {Piece(local_sequence + 1 + i, m, id, i) : i \in Indices}

\* on_packet_sent(pkt_seq, ...)
TrackedLate == local_sequence + 1
TrackedNumber == local_sequence

FragmentIdStuck == next_fragment_id
FragmentIdAfter == next_fragment_id + 1

\* get_outgoing_message() and what update_tick() does with the message.
SendMessage(m) ==
  /\ MayCarryMessages
  /\ m = send_sequence
  /\ send_sequence' = send_sequence + 1
  /\ pending_ack' = Put(pending_ack, m, 0)
  /\ sent_packets' = Put(sent_packets, TrackedNumber, m)
  /\ \/ /\ m \notin config.large
        /\ TakeNumbers(1)
        /\ packets' = packets \cup {Whole(local_sequence, m)}
        /\ UNCHANGED next_fragment_id
     \/ /\ m \in config.large
        /\ TakeNumbers(1 + FragmentCount)
        /\ packets' = packets \cup FragmentsFrom(m, next_fragment_id)
        /\ next_fragment_id' = FragmentIdAfter
  /\ UNCHANGED <<sessionVars, probed, receiverVars, ack_info, acknowledged, confirmed>>

ExhaustedOneLate(m) == pending_ack[m] > MaxReliableRetries
Exhausted(m) == pending_ack[m] >= MaxReliableRetries

\* get_retransmit_messages(), for one message that is due: again under a new number,
\* which is not tracked, and in one piece; or forgotten.
Retransmit(m) ==
  /\ m \in DOMAIN pending_ack
  /\ \/ /\ ~Exhausted(m)
        /\ TakeNumbers(1)
        /\ pending_ack' = [pending_ack EXCEPT ![m] = @ + 1]
        /\ packets' = packets \cup {Whole(local_sequence, m)}
     \/ /\ Exhausted(m)
        /\ pending_ack' = Restrict(pending_ack, DOMAIN pending_ack \ {m})
        /\ UNCHANGED <<local_sequence, packets>>
  /\ UNCHANGED <<sessionVars, probed, sent_packets, send_sequence, next_fragment_id,
                 receiverVars, ack_info, acknowledged, confirmed>>

\* process_incoming_header(), the half that looks at ack and ack_bits.
ProcessAcks ==
  /\ LET hit     == DOMAIN sent_packets \cap ack_info
         settled == {sent_packets[n] : n \in hit}
     IN  /\ sent_packets' = Restrict(sent_packets, DOMAIN sent_packets \ hit)
         /\ pending_ack' = Restrict(pending_ack, DOMAIN pending_ack \ settled)
         /\ acknowledged' = acknowledged \cup (settled \cap DOMAIN pending_ack)
  /\ confirmed' = confirmed \cup {n \in ack_info : n < local_sequence}
  /\ UNCHANGED <<sessionVars, local_sequence, probed, send_sequence, next_fragment_id,
                 receiverVars, packets, ack_info>>

-----------------------------------------------------------------------------
(* The receiving end *)

\* FragmentAssembler::process_fragment(): a fragment already held is ignored, the
\* last one missing completes the message.
HeldFragments(id) == {f \in fragment_buffers : f.id = id}

Assemble(p) ==
  LET held == HeldFragments(p.id)
      with == IF \E f \in held : f.index = p.index
              THEN held
              ELSE held \cup {[id |-> p.id, index |-> p.index, from |-> p.from]}
      sources == {f.from : f \in with}
  IN  \/ /\ {f.index : f \in with} # Indices
         /\ fragment_buffers' = fragment_buffers \cup with
         /\ UNCHANGED <<handed, mixed>>
      \/ /\ {f.index : f \in with} = Indices
         /\ fragment_buffers' = fragment_buffers \ held
         /\ IF Cardinality(sources) = 1
            THEN handed' = handed \cup sources /\ UNCHANGED mixed
            ELSE mixed' = TRUE /\ UNCHANGED handed

\* The handler of a data packet, in NetServer or NetClient.
ReceivePacket(p) ==
  /\ p \in packets
  /\ received_packets' = received_packets \cup {p.number}
  /\ \/ /\ p.type = "message"
        /\ handed' = handed \cup {p.from}
        /\ UNCHANGED <<fragment_buffers, mixed>>
     \/ /\ p.type = "fragment"
        /\ Assemble(p)
     \/ /\ p.type = "other"
        /\ UNCHANGED <<fragment_buffers, handed, mixed>>
  /\ UNCHANGED <<sessionVars, senderVars, packets, ack_info, acknowledged, confirmed>>

\* FragmentAssembler::cleanup() and expire_oldest()
ForgetFragments(id) ==
  /\ HeldFragments(id) # {}
  /\ fragment_buffers' = fragment_buffers \ HeldFragments(id)
  /\ UNCHANGED <<sessionVars, senderVars, received_packets, handed, mixed,
                 packets, ack_info, acknowledged, confirmed>>

\* get_ack_info(), for a packet of the other direction.
AckInfo == received_packets \cup {0}
SendAcks ==
  /\ ack_info' = AckInfo
  /\ UNCHANGED <<sessionVars, senderVars, receiverVars, packets, acknowledged, confirmed>>

-----------------------------------------------------------------------------
(* Sessions *)

\* The server has dropped its Connection by the time the client connects again, makes a
\* new one and has nothing of the former.  NetClient::reconnect() calls reset_connection(),
\* which resets all but the ReliableEndpoint, whose halves therefore survive at
\* the client.  No packet says which session it belongs to.
RecordsKept == IF config.client_sends THEN sent_packets ELSE EmptyMap
ReceivedKept == IF config.client_sends THEN {} ELSE received_packets

Reconnect ==
  /\ session < config.sessions
  /\ session' = session + 1
  /\ local_sequence' = 0
  /\ probed' = FALSE
  /\ send_sequence' = 0
  /\ pending_ack' = EmptyMap
  /\ next_fragment_id' = 0
  /\ sent_packets' = RecordsKept
  /\ received_packets' = ReceivedKept
  /\ fragment_buffers' = {}
  /\ packets' \in {late \in SUBSET packets : Cardinality(late) <= MaxLate}
  /\ ack_info' \in (IF MaxLate = 0 THEN {{}} ELSE {ack_info, {}})
  /\ clean' = (/\ clean
               /\ sent_packets' = EmptyMap
               /\ received_packets' = {}
               /\ packets' = {}
               /\ ack_info' = {})
  /\ handed' = {}
  /\ acknowledged' = {}
  /\ confirmed' = {}
  /\ UNCHANGED <<config, mixed>>

Init ==
  /\ config \in Configs
  /\ session = 1
  /\ local_sequence = 0
  /\ probed = FALSE
  /\ sent_packets = EmptyMap
  /\ send_sequence = 0
  /\ pending_ack = EmptyMap
  /\ next_fragment_id = 0
  /\ received_packets = {}
  /\ fragment_buffers = {}
  /\ packets = {}
  /\ ack_info = {}
  /\ clean = TRUE
  /\ handed = {}
  /\ mixed = FALSE
  /\ acknowledged = {}
  /\ confirmed = {}

Next ==
  \/ SendOther
  \/ \E m \in Messages : SendMessage(m) \/ Retransmit(m)
  \/ ProcessAcks
  \/ \E p \in packets : ReceivePacket(p)
  \/ \E id \in Messages : ForgetFragments(id)
  \/ SendAcks
  \/ Reconnect

Spec == Init /\ [][Next]_vars

-----------------------------------------------------------------------------
(* Properties *)

TypeOK ==
  /\ config \in Configs
  /\ session \in 1 .. MaxSessions
  /\ local_sequence \in 0 .. MaxPackets
  /\ probed \in BOOLEAN
  /\ DOMAIN sent_packets \subseteq Numbers
  /\ sent_packets \in [DOMAIN sent_packets -> Messages]
  /\ send_sequence \in 0 .. MaxMessages
  /\ DOMAIN pending_ack \subseteq Messages
  /\ pending_ack \in [DOMAIN pending_ack -> 0 .. MaxReliableRetries]
  /\ next_fragment_id \in 0 .. MaxMessages
  /\ received_packets \subseteq Numbers
  /\ fragment_buffers \subseteq [id : Messages, index : Indices, from : Origins]
  /\ packets \subseteq PacketSet
  /\ ack_info \subseteq Numbers \cup {0}
  /\ clean \in BOOLEAN
  /\ handed \subseteq Origins
  /\ mixed \in BOOLEAN
  /\ acknowledged \subseteq Messages
  /\ confirmed \subseteq Numbers

Arrived(m) == [session |-> session, message |-> m] \in handed

\* A message the sender forgets because it was acknowledged has reached the
\* receiver's channel, whole.  Packet 0, which the peer acknowledges before it
\* arrives, does no harm as long as an untracked probe takes that number.
AcknowledgedArrived ==
  clean => \A m \in acknowledged : Arrived(m) \/ (m = 0 /\ ~config.probes)

\* Sending a message ends: it is put on the wire at most 1 + max_reliable_retries times,
\* whatever arrives and is acknowledged meanwhile; and once the sender is told that the
\* first packet of a message sent whole arrived, the message is settled for good, in
\* whatever state the session began.
FirstOf(m) ==
  {p \in packets : /\ p.type = "message"
                   /\ p.from = [session |-> session, message |-> m]
                   /\ \A q \in packets :
                        q.type = "message" /\ q.from = p.from => p.number <= q.number}

TransmissionsEnd ==
  \A m \in Messages :
    LET whole == {p \in packets : /\ p.type = "message"
                                  /\ p.from = [session |-> session, message |-> m]}
        first == IF m \in config.large THEN 1 ELSE 0
    IN  /\ Cardinality(whole) + first <= 1 + MaxReliableRetries
        /\ m \notin config.large /\ (\E p \in FirstOf(m) : p.number \in confirmed)
             => m \notin DOMAIN pending_ack

\* No message is put together from fragments of different ones, unless something
\* of a former session is still around: both sessions number from 0.
NeverMixed == clean => ~mixed

\* reconnect() resets "all connection state": in every session, a message that was
\* acknowledged arrived.
ReconnectForgets ==
  \A m \in acknowledged : Arrived(m) \/ (m = 0 /\ ~config.probes)

\* "The message stays in pending_ack until acknowledged": a message of which the
\* sender was told that some copy arrived is not pending.
AnyCopySettles ==
  \A p \in packets :
    p.type = "message" /\ p.from.session = session /\ p.number \in confirmed
      => p.from.message \notin DOMAIN pending_ack
=============================================================================
