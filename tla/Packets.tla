------------------------------- MODULE Packets ------------------------------
(***************************************************************************)
(* From a message to datagrams and back: the packet format of              *)
(* gbnet/src/packet.rs, whose types derive NetworkSerialize, the fragment  *)
(* header of fragment.rs, and what update_tick and the receiving handlers  *)
(* do with them. Bits per byte and word are those of BitBuffer.            *)
(*                                                                         *)
(* Sender and receiver share no state, and the network is that of the      *)
(* other modules: every state asks what all the datagrams decode to.       *)
(***************************************************************************)
EXTENDS Codec, FragmentFormat

CONSTANTS
  NumberBits,         \* bits of a sequence number (16 in the code)
  ChannelIds,         \* the configuration's channels
  SizeLimits,         \* [channel, default]: max_message_size of a channel, and that of
                      \* default_channel_config
  ChannelData,        \* what channels hand over: a number and a message, as bytes
  ControlPackets,     \* packets that carry no message
  AckFields,          \* [ack, ack_bits] of the endpoint
  MaxRequested        \* bound: messages and control packets

ASSUME PacketsAssumption ==
  /\ NumberBits \in 1 .. WordBits
  /\ ChannelIds \subseteq 0 .. 2 ^ ByteBits - 1
  /\ \A data \in ChannelData : Len(data) * ByteBits >= NumberBits
  /\ MaxRequested \in Nat

VARIABLES
  size_limits,
  header_sequence,   \* local_sequence
  fragment_id,       \* next_fragment_id
  datagrams,         \* [packet, bytes]: what was sent, and as what
  requested          \* history: the messages, [channel, data]

packetsVars == <<size_limits, header_sequence, fragment_id, datagrams, requested>>

-----------------------------------------------------------------------------
(* packet.rs *)

u8 == Number(ByteBits, FALSE)
SizedNumber(bits) == Sized(Number(bits, FALSE), bits)

\* protocol_id, sequence, ack, ack_bits
PacketHeader ==
  Struct(<<SizedNumber(NumberBits), SizedNumber(NumberBits), SizedNumber(NumberBits),
           SizedNumber(WordBits)>>)

TypeBits == 4
ChannelBits == 3

Unit == Variant({}, TRUE, <<>>)
With(fields) == Variant({}, TRUE, fields)

\* Numbered from 1; the wire has one less.
PacketType ==
  [kind |-> "enum", bits |-> {TypeBits}, variants |->
    << Unit,                                                    \* ConnectionRequest
       With(<<SizedNumber(WordBits)>>),                         \* ConnectionChallenge
       With(<<SizedNumber(WordBits)>>),                         \* ConnectionResponse
       Unit,                                                    \* ConnectionAccept
       With(<<Sized(u8, ByteBits)>>),                           \* ConnectionDeny
       With(<<Sized(u8, ByteBits)>>),                           \* Disconnect
       Unit,                                                    \* KeepAlive
       With(<<Sized(u8, ChannelBits), Sized(Boolean, 1)>>),     \* Payload
       With(<<Sized(u8, ChannelBits)>>),                        \* BatchedPayload
       With(<<SizedNumber(NumberBits)>>),                       \* MtuProbe
       With(<<SizedNumber(NumberBits)>>),                       \* MtuProbeAck
       Unit,                                                    \* AckOnly
       With(<<SizedNumber(WordBits), SizedNumber(WordBits)>>),  \* ConnectionCookie
       With(<<SizedNumber(WordBits), SizedNumber(WordBits)>>)   \* ConnectionRequestWithCookie
    >>]

PayloadVariant == 8
PayloadType(channel, is_fragment) == [variant |-> PayloadVariant, fields |-> <<channel, is_fragment>>]

PacketOf(header, type, payload) == [header |-> header, type |-> type, payload |-> payload]

\* The bytes of a buffer as numbers, and back.
AsNumbers(bytes) == [i \in 1 .. Len(bytes) |-> WordOf(bytes[i])]
AsBits(bytes) == [i \in 1 .. Len(bytes) |-> BitsIn(bytes[i])]

\* The payload begins at a byte boundary. A packet that is refused is no datagram.
PacketSerialize(p) ==
  {AsNumbers(IntoBytes(b)) \o p.payload :
     b \in UNION {BitSerialize(PacketType, p.type, h) :
                  h \in BitSerialize(PacketHeader, p.header, NewBuffer)}}

\* What is left of the byte in which the type ends is skipped.
UnskippedAfter(b) == {b}
SkippedAfter(b) == SkippedToByte(b)

PayloadIn(bytes, b) == SubSeq(bytes, b.read_pos \div ByteBits + 1, Len(bytes))

PacketDeserialize(bytes) ==
  IF bytes = <<>>
  THEN Fail
  ELSE UNION {UNION {{PacketOf(h.value, t.value, PayloadIn(bytes, b)) :
                      b \in SkippedAfter(t.buffer)} :
                     t \in BitRead(PacketType, h.buffer)} :
              h \in BitRead(PacketHeader, FromBytes(AsBits(bytes)))}

-----------------------------------------------------------------------------
(* Sending: numbers for the packets, then their datagrams *)

NumberAfter(n) == (header_sequence + n) % 2 ^ NumberBits

HeaderNumber(n, acks) == <<0, NumberAfter(n), acks.ack, acks.ack_bits>>

Datagrams(packets) ==
  UNION {{[packet |-> p, bytes |-> bytes] : bytes \in PacketSerialize(p)} : p \in packets}

\* Channel::send looks at the length of the message, without the number before it.
Accepted(data) == Len(data) - NumberBits \div ByteBits <= size_limits.channel

\* The body of the loop in update_tick. The header made first is of no packet if the
\* message is fragmented, and of none at all if it cannot be.
SendData(channel, data, acks) ==
  /\ Len(requested) < MaxRequested
  /\ Accepted(data)
  /\ requested' = Append(requested, [channel |-> channel, data |-> data])
  /\ IF Len(data) > MaxWholePayload
     THEN LET fragmented == FragmentMessage(fragment_id, data)
              packets == UNION {{PacketOf(HeaderNumber(i, acks), PayloadType(channel, 1), f[i]) :
                                 i \in 1 .. Len(f)} : f \in fragmented}
          IN  /\ fragment_id' = fragment_id + 1
              /\ header_sequence' = NumberAfter(1 + Cardinality(packets))
              /\ datagrams' = datagrams \cup Datagrams(packets)
     ELSE /\ datagrams' = datagrams
               \cup Datagrams({PacketOf(HeaderNumber(0, acks), PayloadType(channel, 0), data)})
          /\ header_sequence' = NumberAfter(1)
          /\ UNCHANGED fragment_id
  /\ UNCHANGED size_limits

\* What carries no message. The packets of a handshake have numbers of their own, which
\* is nothing to their format.
SendControl(type, payload, acks) ==
  /\ Len(requested) < MaxRequested
  /\ requested' = Append(requested, [control |-> type])
  /\ datagrams' = datagrams \cup Datagrams({PacketOf(HeaderNumber(0, acks), type, payload)})
  /\ header_sequence' = NumberAfter(1)
  /\ UNCHANGED <<size_limits, fragment_id>>

PacketsInit ==
  /\ size_limits \in SizeLimits
  /\ header_sequence = 2 ^ NumberBits - 1
  /\ fragment_id = 0
  /\ datagrams = {} /\ requested = <<>>

PacketsNext ==
  \E acks \in AckFields :
    \/ \E channel \in ChannelIds, data \in ChannelData : SendData(channel, data, acks)
    \/ \E c \in ControlPackets : SendControl(c.type, c.payload, acks)

-----------------------------------------------------------------------------
(* Receiving *)

\* What the handler of Payload passes on: the message, or a fragment. Whatever the
\* channel, it drops a payload longer than a message of the default channel may be.
PayloadsOf(packets) ==
  {p \in packets : p.type.variant = PayloadVariant /\ Len(p.payload) <= size_limits.default}
WholeMessages(packets) ==
  {[channel |-> p.type.fields[1], data |-> p.payload] :
     p \in {x \in PayloadsOf(packets) : x.type.fields[2] = 0}}

\* Fragments with their channel; a message is there when all its fragments are.
FragmentsIn(packets) ==
  UNION {{[channel |-> p.type.fields[1], fragment |-> f] : f \in FragmentRead(p.payload)} :
         p \in {x \in PayloadsOf(packets) : x.type.fields[2] = 1}}

Assembled(packets) ==
  LET found == FragmentsIn(packets)
      piecesWith(id) == {x \in found : x.fragment.id = id}
      channel(id) == (CHOOSE x \in piecesWith(id) : TRUE).channel
  IN  UNION {{[channel |-> channel(id), data |-> data] :
              data \in Reassembled({x.fragment : x \in piecesWith(id)})} :
             id \in {x.fragment.id : x \in found}}

-----------------------------------------------------------------------------
(* Properties *)

PacketsTypeOK ==
  /\ size_limits \in SizeLimits
  /\ header_sequence \in 0 .. 2 ^ NumberBits - 1
  /\ fragment_id \in 0 .. MaxRequested
  /\ \A d \in datagrams : \A i \in 1 .. Len(d.bytes) : d.bytes[i] \in 0 .. 2 ^ ByteBits - 1

\* Channels whose number the type of a packet can hold, data that can be fragmented, and
\* packets the receiver does not find too long: the number or the header of a fragment
\* counts, too.
LargestPayload(data) ==
  IF Len(data) > MaxWholePayload THEN FragmentHeaderSize + MaxWholePayload ELSE Len(data)

Deliverable(m) ==
  /\ m.channel < 2 ^ ChannelBits
  /\ PiecesOf(Len(m.data)) <= MaxFragmentCount
  /\ LargestPayload(m.data) <= size_limits.default

\* Every datagram decodes to the packet it was made of, header, type and payload, at
\* whatever bit they end; and the messages handed over, whole or in fragments, are the
\* messages sent, on their channels, except those that are silently lost: on channels
\* past the eighth, although max_channels may be 256; too long to fragment; or accepted
\* by the channel but in packets the receiver finds too long.
PacketsArrive ==
  LET decoded == UNION {PacketDeserialize(d.bytes) : d \in datagrams}
      messages == {requested[i] : i \in {k \in 1 .. Len(requested) : "data" \in DOMAIN requested[k]}}
  IN  /\ \A d \in datagrams : PacketDeserialize(d.bytes) = {d.packet}
      /\ WholeMessages(decoded) \cup Assembled(decoded) = {m \in messages : Deliverable(m)}
=============================================================================
