------------------------- MODULE Connection_proofs --------------------------
(***************************************************************************)
(* Proofs about Connection: whatever is lost, repeated, delayed, retried   *)
(* or reassembled, an acknowledged message arrived, transmissions end and  *)
(* fragments of different messages are never put together.                 *)
(*                                                                         *)
(* Two arguments run side by side.  One, about the sending end only, holds *)
(* in every session, whatever it inherited: a pending message sent whole   *)
(* still has the record of its first packet, so that the ack of that       *)
(* packet settles it.  The other holds in a session that began with        *)
(* nothing left of the one before (clean): numbers and fragment ids then   *)
(* name one packet and one message.                                        *)
(***************************************************************************)
EXTENDS Connection, FiniteSetTheorems, TLAPS

This(m) == [session |-> session, message |-> m]

\* The packets that carry message m of this session whole.
WholeOf(m) == {p \in packets : p.type = "message" /\ p.from = This(m)}
InFragments(m) == IF m \in config.large THEN 1 ELSE 0

\* The record that settles a message when the ack of its first packet comes.
FirstRecord(m) ==
  \E n \in DOMAIN sent_packets :
    /\ sent_packets[n] = m
    /\ n < local_sequence
    /\ n \notin confirmed
    /\ Whole(n, m) \in packets
    /\ \A q \in WholeOf(m) : n <= q.number

\* Copies of a message are counted, and the ack of the first is not lost.
Pursued(m) ==
  /\ IsFiniteSet(WholeOf(m))
  /\ m >= send_sequence => WholeOf(m) = {}
  /\ m \in DOMAIN pending_ack
       => Cardinality(WholeOf(m)) + InFragments(m) <= 1 + pending_ack[m]
  /\ Cardinality(WholeOf(m)) + InFragments(m) <= 1 + MaxReliableRetries
  /\ m \in DOMAIN pending_ack /\ m \notin config.large => FirstRecord(m)

SendingInv ==
  /\ next_fragment_id <= send_sequence
  /\ \A n \in confirmed : n < local_sequence
  /\ \A m \in DOMAIN pending_ack : m < send_sequence
  /\ \A p \in packets : p.type = "message" => p.from.session <= session
  /\ \A m \in Messages : Pursued(m)

\* In a session that began with nothing left of another.

NumbersTell ==
  /\ \A p \in packets : p.number < local_sequence
  /\ \A p, q \in packets : p.type = "message" /\ p.number = q.number => q = p
  /\ \A n \in DOMAIN sent_packets :
       /\ n < local_sequence
       /\ \A p \in packets : p.number = n => p.type = "message" /\ p.from = This(sent_packets[n])
       /\ n = 0 => ~config.probes /\ sent_packets[n] = 0
  /\ probed => local_sequence > 0
  /\ local_sequence = 0 => send_sequence = 0

IdsTell ==
  /\ \A p \in packets : p.type = "fragment" => p.id < next_fragment_id
  /\ \A p, q \in packets :
       p.type = "fragment" /\ q.type = "fragment" /\ p.id = q.id => p.from = q.from
  /\ \A f \in fragment_buffers :
       \E p \in packets : p.type = "fragment" /\ p.id = f.id /\ p.from = f.from

ReceivedTells ==
  /\ \A n \in received_packets :
       \E p \in packets : p.number = n /\ (p.type = "message" => p.from \in handed)
  /\ ack_info \subseteq received_packets \cup {0}

Clean ==
  /\ NumbersTell /\ IdsTell /\ ReceivedTells
  /\ ~mixed
  /\ \A m \in acknowledged : Arrived(m) \/ (m = 0 /\ ~config.probes)

CleanInv == clean => Clean

IInv == TypeOK /\ SendingInv /\ CleanInv

-----------------------------------------------------------------------------
(* Types *)

LEMMA ConfigType ==
  ASSUME config \in Configs
  PROVE  /\ config.headers \in 0 .. MaxPackets /\ config.sessions \in 1 .. MaxSessions
         /\ config.client_sends \in BOOLEAN /\ config.probes \in BOOLEAN
         /\ config.large \subseteq Messages
         /\ MaxPackets \in Nat /\ MaxMessages \in Nat /\ MaxSessions \in Nat
         /\ MaxReliableRetries \in Nat /\ FragmentCount \in Nat /\ FragmentCount >= 1
BY ConnectionAssumption

\* create_header hands out numbers below the bound.
LEMMA NumbersType ==
  ASSUME TypeOK, NEW k \in Nat, k >= 1, TakeNumbers(k)
  PROVE  /\ local_sequence' \in 0 .. MaxPackets
         /\ \A i \in 0 .. k - 1 : local_sequence + i \in Numbers
         /\ local_sequence' = local_sequence + k
         /\ local_sequence \in Nat
<1>1. local_sequence \in 0 .. MaxPackets /\ config \in Configs
  BY DEF TypeOK
<1>2. config.headers \in 0 .. MaxPackets /\ MaxPackets \in Nat
  BY <1>1, ConfigType
<1> QED
  BY <1>1, <1>2 DEF TakeNumbers, Numbers

LEMMA WholeType ==
  ASSUME TypeOK, NEW n \in Numbers, NEW m \in Messages
  PROVE  Whole(n, m) \in PacketSet
BY DEF TypeOK, Origins, Whole, PacketSet

LEMMA PieceType ==
  ASSUME TypeOK, NEW n \in Numbers, NEW m \in Messages, NEW id \in Messages,
         NEW index \in Indices
  PROVE  Piece(n, m, id, index) \in PacketSet
BY DEF TypeOK, Origins, Piece, PacketSet

LEMMA SendMessageType ==
  ASSUME TypeOK, next_fragment_id <= send_sequence, NEW m \in Messages, SendMessage(m)
  PROVE  TypeOK'
<1>1. /\ config \in Configs /\ send_sequence \in 0 .. MaxMessages
      /\ next_fragment_id \in 0 .. MaxMessages
      /\ sent_packets \in [DOMAIN sent_packets -> Messages]
      /\ pending_ack \in [DOMAIN pending_ack -> 0 .. MaxReliableRetries]
      /\ DOMAIN sent_packets \subseteq Numbers /\ DOMAIN pending_ack \subseteq Messages
      /\ packets \subseteq PacketSet
  BY DEF TypeOK
<1>2. /\ MaxPackets \in Nat /\ MaxMessages \in Nat /\ MaxReliableRetries \in Nat
      /\ FragmentCount \in Nat /\ FragmentCount >= 1
  BY <1>1, ConfigType
<1>3. send_sequence = m /\ send_sequence' = send_sequence + 1
  BY DEF SendMessage
<1>4. next_fragment_id \in Messages /\ send_sequence' \in 0 .. MaxMessages
      /\ next_fragment_id + 1 \in 0 .. MaxMessages
  BY <1>1, <1>2, <1>3 DEF Messages
<1>5. local_sequence \in Numbers /\ local_sequence' \in 0 .. MaxPackets /\ local_sequence \in Nat
  BY <1>2, NumbersType DEF SendMessage
<1>6. packets' \subseteq PacketSet /\ next_fragment_id' \in 0 .. MaxMessages
  <2>1. CASE packets' = packets \cup {Whole(local_sequence, m)} /\ UNCHANGED next_fragment_id
    BY <1>1, <1>5, <2>1, WholeType
  <2>2. CASE /\ TakeNumbers(1 + FragmentCount)
             /\ packets' = packets \cup FragmentsFrom(m, next_fragment_id)
             /\ next_fragment_id' = FragmentIdAfter
    <3>1. \A i \in Indices : local_sequence + 1 + i \in Numbers
      <4>1. \A i \in 0 .. 1 + FragmentCount - 1 : local_sequence + i \in Numbers
        BY <1>2, <2>2, NumbersType
      <4> QED
        BY <1>2, <1>5, <4>1 DEF Indices
    <3>2. \A i \in Indices : Piece(local_sequence + 1 + i, m, next_fragment_id, i) \in PacketSet
      BY <1>4, <3>1, PieceType
    <3> QED
      BY <1>1, <1>4, <2>2, <3>2 DEF FragmentsFrom, FragmentIdAfter
  <2> QED
    BY <2>1, <2>2 DEF SendMessage
<1>7. sent_packets' = Put(sent_packets, local_sequence, m) /\ pending_ack' = Put(pending_ack, m, 0)
  BY DEF SendMessage, TrackedNumber
<1>8. sent_packets' \in [DOMAIN sent_packets' -> Messages]
      /\ DOMAIN sent_packets' \subseteq Numbers
  BY <1>1, <1>5, <1>7 DEF Put
<1>9. pending_ack' \in [DOMAIN pending_ack' -> 0 .. MaxReliableRetries]
      /\ DOMAIN pending_ack' \subseteq Messages
  BY <1>1, <1>2, <1>7 DEF Put
<1> QED
  BY <1>4, <1>5, <1>6, <1>8, <1>9
     DEF SendMessage, TypeOK, sessionVars, receiverVars

LEMMA RetransmitType ==
  ASSUME TypeOK, NEW m \in Messages, Retransmit(m)
  PROVE  TypeOK'
<1>1. /\ config \in Configs
      /\ pending_ack \in [DOMAIN pending_ack -> 0 .. MaxReliableRetries]
      /\ DOMAIN pending_ack \subseteq Messages
      /\ packets \subseteq PacketSet /\ m \in DOMAIN pending_ack
  BY DEF TypeOK, Retransmit
<1>2. MaxPackets \in Nat /\ MaxReliableRetries \in Nat /\ FragmentCount \in Nat /\ FragmentCount >= 1
  BY <1>1, ConfigType
<1>3. CASE ~Exhausted(m) /\ TakeNumbers(1)
           /\ pending_ack' = [pending_ack EXCEPT ![m] = @ + 1]
           /\ packets' = packets \cup {Whole(local_sequence, m)}
  <2>1. local_sequence \in Numbers /\ local_sequence' \in 0 .. MaxPackets
    BY <1>2, <1>3, NumbersType
  <2>2. pending_ack[m] + 1 \in 0 .. MaxReliableRetries
    BY <1>1, <1>2, <1>3 DEF Exhausted
  <2>3. pending_ack' \in [DOMAIN pending_ack' -> 0 .. MaxReliableRetries]
        /\ DOMAIN pending_ack' = DOMAIN pending_ack
    BY <1>1, <1>3, <2>2
  <2>4. packets' \subseteq PacketSet
    BY <1>1, <1>3, <2>1, WholeType
  <2> QED
    BY <1>1, <2>1, <2>3, <2>4 DEF Retransmit, TypeOK, sessionVars, receiverVars
<1>4. CASE /\ pending_ack' = Restrict(pending_ack, DOMAIN pending_ack \ {m})
           /\ UNCHANGED <<local_sequence, packets>>
  <2>1. pending_ack' \in [DOMAIN pending_ack' -> 0 .. MaxReliableRetries]
        /\ DOMAIN pending_ack' \subseteq DOMAIN pending_ack
    BY <1>1, <1>4 DEF Restrict
  <2> QED
    BY <1>1, <1>4, <2>1 DEF Retransmit, TypeOK, sessionVars, receiverVars
<1> QED
  BY <1>3, <1>4 DEF Retransmit

LEMMA ProcessAcksType ==
  ASSUME TypeOK, ProcessAcks
  PROVE  TypeOK'
<1> DEFINE hit == DOMAIN sent_packets \cap ack_info
           settled == {sent_packets[n] : n \in hit}
<1>1. /\ config \in Configs
      /\ sent_packets \in [DOMAIN sent_packets -> Messages]
      /\ pending_ack \in [DOMAIN pending_ack -> 0 .. MaxReliableRetries]
      /\ DOMAIN sent_packets \subseteq Numbers /\ DOMAIN pending_ack \subseteq Messages
      /\ ack_info \subseteq Numbers \cup {0} /\ local_sequence \in 0 .. MaxPackets
      /\ acknowledged \subseteq Messages /\ confirmed \subseteq Numbers
  BY DEF TypeOK
<1>2. /\ sent_packets' = Restrict(sent_packets, DOMAIN sent_packets \ hit)
      /\ pending_ack' = Restrict(pending_ack, DOMAIN pending_ack \ settled)
      /\ acknowledged' = acknowledged \cup (settled \cap DOMAIN pending_ack)
      /\ confirmed' = confirmed \cup {n \in ack_info : n < local_sequence}
  BY DEF ProcessAcks
<1> HIDE DEF hit, settled
<1>3. sent_packets' \in [DOMAIN sent_packets' -> Messages]
      /\ DOMAIN sent_packets' \subseteq Numbers
  BY <1>1, <1>2 DEF Restrict
<1>4. pending_ack' \in [DOMAIN pending_ack' -> 0 .. MaxReliableRetries]
      /\ DOMAIN pending_ack' \subseteq Messages
  BY <1>1, <1>2 DEF Restrict
<1>5. \A n \in ack_info : n < local_sequence => n \in Numbers
  <2>1. MaxPackets \in Nat
    BY <1>1, ConfigType
  <2> QED
    BY <1>1, <2>1 DEF Numbers
<1> QED
  BY <1>1, <1>2, <1>3, <1>4, <1>5 DEF ProcessAcks, TypeOK, sessionVars, receiverVars

LEMMA ReceiveType ==
  ASSUME TypeOK, NEW p \in packets, ReceivePacket(p)
  PROVE  TypeOK'
<1>1. p \in PacketSet /\ fragment_buffers \subseteq [id : Messages, index : Indices, from : Origins]
  BY DEF TypeOK
<1>2. p.number \in Numbers
  BY <1>1 DEF PacketSet
<1>3. handed' \subseteq Origins /\ mixed' \in BOOLEAN
      /\ fragment_buffers' \subseteq [id : Messages, index : Indices, from : Origins]
  <2>1. CASE p.type = "message" /\ handed' = handed \cup {p.from}
             /\ UNCHANGED <<fragment_buffers, mixed>>
    <3>1. p.from \in Origins
      BY <1>1, <2>1 DEF PacketSet
    <3> QED
      BY <2>1, <3>1 DEF TypeOK
  <2>2. CASE p.type = "fragment" /\ Assemble(p)
    <3> DEFINE held == HeldFragments(p.id)
               with == IF \E f \in held : f.index = p.index
                       THEN held
                       ELSE held \cup {[id |-> p.id, index |-> p.index, from |-> p.from]}
               sources == {f.from : f \in with}
    <3>1. p.id \in Messages /\ p.index \in Indices /\ p.from \in Origins
      BY <1>1, <2>2 DEF PacketSet
    <3>2. with \subseteq [id : Messages, index : Indices, from : Origins]
      BY <1>1, <3>1 DEF HeldFragments
    <3>3. sources \subseteq Origins
      <4> HIDE DEF with
      <4> QED
        BY <3>2
    <3>4. /\ fragment_buffers' \subseteq fragment_buffers \cup with
          /\ handed' = handed \/ handed' = handed \cup sources
          /\ mixed' = mixed \/ mixed' = TRUE
      BY <2>2 DEF Assemble
    <3> HIDE DEF with, sources
    <3> QED
      BY <1>1, <3>2, <3>3, <3>4 DEF TypeOK
  <2>3. CASE UNCHANGED <<fragment_buffers, handed, mixed>>
    BY <1>1, <2>3 DEF TypeOK
  <2> QED
    BY <2>1, <2>2, <2>3 DEF ReceivePacket
<1> QED
  BY <1>2, <1>3 DEF ReceivePacket, TypeOK, sessionVars, senderVars

LEMMA ReconnectType ==
  ASSUME TypeOK, Reconnect
  PROVE  TypeOK'
<1>1. config \in Configs /\ session \in 1 .. MaxSessions
  BY DEF TypeOK
<1>2. /\ config.sessions \in 1 .. MaxSessions
      /\ MaxPackets \in Nat /\ MaxMessages \in Nat /\ MaxSessions \in Nat
  BY <1>1, ConfigType
<1>3. session' \in 1 .. MaxSessions
  BY <1>1, <1>2 DEF Reconnect
<1>4. DOMAIN EmptyMap = {} /\ \A S : EmptyMap \in [DOMAIN EmptyMap -> S]
  BY DEF EmptyMap
<1>5. /\ DOMAIN sent_packets' \subseteq Numbers
      /\ sent_packets' \in [DOMAIN sent_packets' -> Messages]
      /\ received_packets' \subseteq Numbers
  BY <1>4 DEF Reconnect, RecordsKept, ReceivedKept, TypeOK
<1>6. packets' \subseteq packets /\ (ack_info' = {} \/ ack_info' = ack_info)
  BY DEF Reconnect
<1>7. 0 \in 0 .. MaxPackets /\ 0 \in 0 .. MaxMessages
  BY <1>2
<1>8. DOMAIN pending_ack' \subseteq Messages
      /\ pending_ack' \in [DOMAIN pending_ack' -> 0 .. MaxReliableRetries]
  BY <1>4 DEF Reconnect
<1>9. clean' \in BOOLEAN /\ mixed' = mixed /\ config' = config
  BY DEF Reconnect
<1> QED
  BY <1>3, <1>5, <1>6, <1>7, <1>8, <1>9 DEF Reconnect, TypeOK

LEMMA OtherType ==
  ASSUME TypeOK,
         SendOther \/ SendAcks \/ (\E id \in Messages : ForgetFragments(id)) \/ UNCHANGED vars
  PROVE  TypeOK'
<1>1. CASE SendOther
  <2>1. config \in Configs /\ packets \subseteq PacketSet
    BY DEF TypeOK
  <2>2. local_sequence \in Numbers /\ local_sequence' \in 0 .. MaxPackets
    BY <1>1, NumbersType DEF SendOther
  <2>3. packets' \subseteq PacketSet
    BY <1>1, <2>1, <2>2 DEF SendOther, Plain, PacketSet
  <2> QED
    BY <1>1, <2>2, <2>3 DEF SendOther, TypeOK, sessionVars, receiverVars
<1>2. CASE SendAcks
  BY <1>2 DEF SendAcks, AckInfo, TypeOK, sessionVars, senderVars, receiverVars
<1>3. CASE \E id \in Messages : ForgetFragments(id)
  BY <1>3 DEF ForgetFragments, TypeOK, sessionVars, senderVars
<1>4. CASE UNCHANGED vars
  BY <1>4 DEF vars, TypeOK, sessionVars, senderVars, receiverVars
<1> QED
  BY <1>1, <1>2, <1>3, <1>4

LEMMA TypeStep ==
  ASSUME TypeOK, next_fragment_id <= send_sequence, [Next]_vars
  PROVE  TypeOK'
BY SendMessageType, RetransmitType, ProcessAcksType, ReceiveType, ReconnectType, OtherType
   DEF Next

-----------------------------------------------------------------------------
(* The sending end, in any session *)

LEMMA SendingStable ==
  ASSUME SendingInv,
         UNCHANGED <<config, session, local_sequence, sent_packets, send_sequence,
                     pending_ack, next_fragment_id, packets, confirmed>>
  PROVE  SendingInv'
BY DEF SendingInv, Pursued, WholeOf, This, InFragments, FirstRecord, Whole

LEMMA SendMessageSending ==
  ASSUME TypeOK, SendingInv, NEW m \in Messages, SendMessage(m)
  PROVE  SendingInv'
<1>1. /\ config \in Configs /\ send_sequence \in Nat /\ next_fragment_id \in Nat
      /\ \A k \in Messages : k \in Nat
      /\ DOMAIN pending_ack \subseteq Messages
  BY DEF TypeOK, Messages
<1>2. /\ MaxReliableRetries \in Nat /\ FragmentCount \in Nat /\ FragmentCount >= 1
  BY <1>1, ConfigType
<1>3. send_sequence = m /\ send_sequence' = send_sequence + 1
      /\ UNCHANGED <<config, session, confirmed>>
  BY DEF SendMessage, sessionVars
<1>4. local_sequence \in Nat /\ local_sequence' \in Nat /\ local_sequence < local_sequence'
  BY <1>2, NumbersType DEF SendMessage
<1>5. /\ \A n \in DOMAIN sent_packets :
           n # local_sequence => n \in DOMAIN sent_packets' /\ sent_packets'[n] = sent_packets[n]
      /\ local_sequence \in DOMAIN sent_packets' /\ sent_packets'[local_sequence] = m
  BY DEF SendMessage, TrackedNumber, Put
<1>6. /\ DOMAIN pending_ack' = DOMAIN pending_ack \cup {m}
      /\ pending_ack'[m] = 0
      /\ \A k \in DOMAIN pending_ack : k # m => pending_ack'[k] = pending_ack[k]
  BY DEF SendMessage, Put
<1>7. /\ packets \subseteq packets'
      /\ \A p \in packets' \ packets : p.from = This(m)
      /\ m \notin config.large => packets' = packets \cup {Whole(local_sequence, m)}
      /\ m \in config.large => \A p \in packets' \ packets : p.type = "fragment"
  BY DEF SendMessage, FragmentsFrom, Piece, Whole, This
<1>8. next_fragment_id' <= send_sequence'
  BY <1>1, <1>3 DEF SendingInv, SendMessage, FragmentIdAfter
<1>9. \A n \in confirmed : n < local_sequence /\ n \in Nat
  BY DEF SendingInv, TypeOK, Numbers
<1>10. \A n \in confirmed' : n < local_sequence'
  BY <1>3, <1>4, <1>9
<1>11. \A k \in DOMAIN pending_ack' : k < send_sequence'
  <2>1. \A k \in DOMAIN pending_ack : k \in Nat /\ k < send_sequence
    BY <1>1 DEF SendingInv
  <2> QED
    BY <1>1, <1>3, <1>6, <2>1
<1>12. \A p \in packets' : p.type = "message" => p.from.session <= session'
  BY <1>3, <1>7 DEF SendingInv, This, TypeOK
<1>13. ASSUME NEW k \in Messages, k # m
       PROVE  Pursued(k)'
  <2>1. Pursued(k)
    BY DEF SendingInv
  <2>2. WholeOf(k)' = WholeOf(k)
    BY <1>3, <1>7, <1>13 DEF WholeOf, This
  <2>3. k \in DOMAIN pending_ack' <=> k \in DOMAIN pending_ack
    BY <1>6, <1>13
  <2>4. k \in DOMAIN pending_ack => pending_ack'[k] = pending_ack[k]
    BY <1>6, <1>13
  <2>5. k >= send_sequence' => k >= send_sequence
    BY <1>1, <1>3
  <2>6. FirstRecord(k) => FirstRecord(k)'
    <3> SUFFICES ASSUME FirstRecord(k) PROVE FirstRecord(k)'
      OBVIOUS
    <3>1. PICK n \in DOMAIN sent_packets :
            /\ sent_packets[n] = k /\ n < local_sequence /\ n \notin confirmed
            /\ Whole(n, k) \in packets
            /\ \A q \in WholeOf(k) : n <= q.number
      BY DEF FirstRecord
    <3>2. n \in Nat
      BY DEF TypeOK, Numbers
    <3>3. n # local_sequence /\ n < local_sequence'
      BY <1>4, <3>1, <3>2
    <3>4. Whole(n, k)' = Whole(n, k)
      BY <1>3 DEF Whole
    <3> QED
      BY <1>3, <1>5, <1>7, <2>2, <3>1, <3>3, <3>4 DEF FirstRecord
  <2> QED
    BY <1>3, <2>1, <2>2, <2>3, <2>4, <2>5, <2>6 DEF Pursued, InFragments
<1>14. Pursued(m)'
  <2>1. WholeOf(m) = {}
    BY <1>1, <1>3 DEF SendingInv, Pursued
  <2>2. m \in DOMAIN pending_ack' /\ pending_ack'[m] = 0 /\ ~(m >= send_sequence')
    BY <1>1, <1>3, <1>6
  <2>3. CASE m \in config.large
    <3>1. WholeOf(m)' = {}
      BY <1>3, <1>7, <2>1, <2>3 DEF WholeOf, This
    <3>2. InFragments(m)' = 1
      BY <1>3, <2>3 DEF InFragments
    <3> QED
      BY <1>2, <1>3, <2>2, <2>3, <3>1, <3>2, FS_EmptySet DEF Pursued
  <2>4. CASE m \notin config.large
    <3> DEFINE w == Whole(local_sequence, m)
    <3>1. w.type = "message" /\ w.from = This(m) /\ w.number = local_sequence
      BY DEF Whole, This
    <3>2. WholeOf(m)' = {w}
      BY <1>3, <1>7, <2>1, <2>4, <3>1 DEF WholeOf, This
    <3>3. InFragments(m)' = 0
      BY <1>3, <2>4 DEF InFragments
    <3>4. IsFiniteSet({w}) /\ Cardinality({w}) = 1
      BY FS_Singleton
    <3>5. FirstRecord(m)'
      <4>1. local_sequence \notin confirmed'
        BY <1>3, <1>4, <1>9
      <4>2. Whole(local_sequence, m) \in packets'
        BY <1>7, <2>4
      <4>3. \A n : Whole(n, m)' = [number |-> n, type |-> "message",
                                   from |-> [session |-> session, message |-> m]]
        BY <1>3 DEF Whole
      <4>4. [number |-> local_sequence, type |-> "message",
             from |-> [session |-> session, message |-> m]] \in packets'
        BY <4>2 DEF Whole
      <4>5. \A q \in WholeOf(m)' : local_sequence <= q.number
        BY <1>4, <3>1, <3>2
      <4> QED
        BY <1>4, <1>5, <4>1, <4>3, <4>4, <4>5 DEF FirstRecord
    <3> HIDE DEF w
    <3> QED
      BY <1>2, <1>3, <2>2, <3>2, <3>3, <3>4, <3>5 DEF Pursued
  <2> QED
    BY <2>3, <2>4
<1> QED
  BY <1>8, <1>10, <1>11, <1>12, <1>13, <1>14 DEF SendingInv

LEMMA SendOtherSending ==
  ASSUME TypeOK, SendingInv, SendOther
  PROVE  SendingInv'
<1>1. /\ UNCHANGED <<config, session, sent_packets, send_sequence, pending_ack,
                     next_fragment_id, confirmed>>
      /\ packets' = packets \cup {Plain(local_sequence)}
  BY DEF SendOther, sessionVars
<1>2. local_sequence \in Nat /\ local_sequence' = local_sequence + 1
  BY NumbersType DEF SendOther
<1>3. Plain(local_sequence).type = "other"
  BY DEF Plain
<1>4. \A m : WholeOf(m)' = WholeOf(m)
  BY <1>1, <1>3 DEF WholeOf, This
<1>5. \A n \in Numbers : n < local_sequence => n < local_sequence'
  BY <1>2 DEF Numbers
<1>6. \A m \in Messages : FirstRecord(m) => FirstRecord(m)'
  BY <1>1, <1>4, <1>5 DEF FirstRecord, Whole, TypeOK
<1>7. \A n \in confirmed' : n < local_sequence'
  BY <1>1, <1>5 DEF SendingInv, TypeOK
<1>8. \A p \in packets' : p.type = "message" => p.from.session <= session'
  BY <1>1, <1>3 DEF SendingInv
<1> QED
  BY <1>1, <1>4, <1>6, <1>7, <1>8 DEF SendingInv, Pursued, InFragments

LEMMA RetransmitSending ==
  ASSUME TypeOK, SendingInv, NEW m \in Messages, Retransmit(m)
  PROVE  SendingInv'
<1>1. /\ UNCHANGED <<config, session, sent_packets, send_sequence, next_fragment_id,
                     confirmed>>
      /\ m \in DOMAIN pending_ack
  BY DEF Retransmit, sessionVars
<1>2. /\ config \in Configs /\ DOMAIN pending_ack \subseteq Messages
      /\ pending_ack \in [DOMAIN pending_ack -> 0 .. MaxReliableRetries]
      /\ \A k \in Messages : k \in Nat
      /\ send_sequence \in Nat
  BY DEF TypeOK, Messages
<1>3. MaxReliableRetries \in Nat
  BY <1>2, ConfigType
<1>4. m < send_sequence /\ Pursued(m)
  BY <1>1 DEF SendingInv
<1>5. CASE /\ ~Exhausted(m) /\ TakeNumbers(1)
           /\ pending_ack' = [pending_ack EXCEPT ![m] = @ + 1]
           /\ packets' = packets \cup {Whole(local_sequence, m)}
  <2> DEFINE w == Whole(local_sequence, m)
  <2>1. w.type = "message" /\ w.from = This(m) /\ w.number = local_sequence
    BY DEF Whole, This
  <2>2. local_sequence \in Nat /\ local_sequence' = local_sequence + 1
    BY <1>5, NumbersType
  <2>3. /\ WholeOf(m)' = WholeOf(m) \cup {w}
        /\ \A k \in Messages : k # m => WholeOf(k)' = WholeOf(k)
    BY <1>1, <1>5, <2>1 DEF WholeOf, This
  <2>4. \A n \in Numbers : n < local_sequence => n < local_sequence'
    BY <2>2 DEF Numbers
  <2>5. \A n \in confirmed' : n < local_sequence'
    BY <1>1, <2>4 DEF SendingInv, TypeOK
  <2>6. \A p \in packets' : p.type = "message" => p.from.session <= session'
    BY <1>1, <1>5, <2>1 DEF SendingInv, This, TypeOK
  <2>7. \A k \in Messages : FirstRecord(k) => FirstRecord(k)'
    <3> SUFFICES ASSUME NEW k \in Messages, FirstRecord(k) PROVE FirstRecord(k)'
      OBVIOUS
    <3>1. PICK n \in DOMAIN sent_packets :
            /\ sent_packets[n] = k /\ n < local_sequence /\ n \notin confirmed
            /\ Whole(n, k) \in packets
            /\ \A q \in WholeOf(k) : n <= q.number
      BY DEF FirstRecord
    <3>2. n \in Numbers /\ n \in Nat
      BY DEF TypeOK, Numbers
    <3>3. \A q \in WholeOf(k)' : n <= q.number
      BY <2>1, <2>2, <2>3, <3>1, <3>2
    <3> QED
      BY <1>1, <1>5, <2>4, <3>1, <3>2, <3>3 DEF FirstRecord, Whole
  <2>8. /\ DOMAIN pending_ack' = DOMAIN pending_ack
        /\ pending_ack'[m] = pending_ack[m] + 1
        /\ \A k \in DOMAIN pending_ack : k # m => pending_ack'[k] = pending_ack[k]
    BY <1>1, <1>5
  <2>9. ASSUME NEW k \in Messages, k # m PROVE Pursued(k)'
    BY <1>1, <2>3, <2>7, <2>8, <2>9 DEF SendingInv, Pursued, InFragments
  <2>10. Pursued(m)'
    <3>1. IsFiniteSet(WholeOf(m)) /\ Cardinality(WholeOf(m)) \in Nat
      BY <1>4, FS_CardinalityType DEF Pursued
    <3>2. /\ IsFiniteSet(WholeOf(m) \cup {w})
          /\ Cardinality(WholeOf(m) \cup {w}) \in
               {Cardinality(WholeOf(m)), Cardinality(WholeOf(m)) + 1}
      BY <3>1, FS_AddElement
    <3>3. InFragments(m) \in Nat /\ InFragments(m)' = InFragments(m)
      BY <1>1 DEF InFragments
    <3>4. Cardinality(WholeOf(m)) + InFragments(m) <= 1 + pending_ack[m]
      BY <1>1, <1>4 DEF Pursued
    <3>5. pending_ack[m] < MaxReliableRetries /\ pending_ack[m] \in Nat
      BY <1>1, <1>2, <1>3, <1>5 DEF Exhausted
    <3>6. Cardinality(WholeOf(m))' + InFragments(m)' <= 1 + pending_ack'[m]
      BY <2>3, <2>8, <3>1, <3>2, <3>3, <3>4, <3>5
    <3>7. Cardinality(WholeOf(m))' + InFragments(m)' <= 1 + MaxReliableRetries
      BY <1>3, <2>3, <3>1, <3>2, <3>3, <3>4, <3>5
    <3>8. ~(m >= send_sequence')
      BY <1>1, <1>2, <1>4
    <3>9. m \in DOMAIN pending_ack' /\ m \notin config'.large => FirstRecord(m)'
      BY <1>1, <1>4, <2>7 DEF Pursued
    <3> QED
      BY <2>3, <3>2, <3>6, <3>7, <3>8, <3>9 DEF Pursued
  <2> QED
    BY <1>1, <2>5, <2>6, <2>8, <2>9, <2>10 DEF SendingInv
<1>6. CASE /\ pending_ack' = Restrict(pending_ack, DOMAIN pending_ack \ {m})
           /\ UNCHANGED <<local_sequence, packets>>
  <2>1. /\ DOMAIN pending_ack' \subseteq DOMAIN pending_ack
        /\ \A k \in DOMAIN pending_ack' : pending_ack'[k] = pending_ack[k]
    BY <1>6 DEF Restrict
  <2>2. ASSUME NEW k \in Messages PROVE Pursued(k)'
    <3>1. Pursued(k)
      BY DEF SendingInv
    <3>2. /\ WholeOf(k)' = WholeOf(k) /\ InFragments(k)' = InFragments(k)
          /\ FirstRecord(k) => FirstRecord(k)'
      BY <1>1, <1>6 DEF WholeOf, This, InFragments, FirstRecord, Whole
    <3>3. Cardinality(WholeOf(k))' = Cardinality(WholeOf(k))
      BY <3>2
    <3> QED
      BY <1>1, <2>1, <3>1, <3>2, <3>3 DEF Pursued
  <2> QED
    BY <1>1, <1>6, <2>1, <2>2 DEF SendingInv
<1> QED
  BY <1>5, <1>6 DEF Retransmit

\* The ack of the first packet finds its record, so the message is no longer pending.
LEMMA ProcessAcksSending ==
  ASSUME TypeOK, SendingInv, ProcessAcks
  PROVE  SendingInv'
<1> DEFINE hit == DOMAIN sent_packets \cap ack_info
           settled == {sent_packets[n] : n \in hit}
<1>1. /\ UNCHANGED <<config, session, local_sequence, send_sequence, next_fragment_id,
                     packets>>
      /\ sent_packets' = Restrict(sent_packets, DOMAIN sent_packets \ hit)
      /\ pending_ack' = Restrict(pending_ack, DOMAIN pending_ack \ settled)
      /\ confirmed' = confirmed \cup {n \in ack_info : n < local_sequence}
  BY DEF ProcessAcks, sessionVars
<1>2. /\ DOMAIN pending_ack' = DOMAIN pending_ack \ settled
      /\ \A k \in DOMAIN pending_ack' : pending_ack'[k] = pending_ack[k]
      /\ DOMAIN sent_packets' = DOMAIN sent_packets \ hit
      /\ \A n \in DOMAIN sent_packets' : sent_packets'[n] = sent_packets[n]
  <2> HIDE DEF hit, settled
  <2> QED
    BY <1>1 DEF Restrict
<1>3. ASSUME NEW m \in Messages, m \in DOMAIN pending_ack', FirstRecord(m)
      PROVE  FirstRecord(m)'
  <2>1. PICK n \in DOMAIN sent_packets :
          /\ sent_packets[n] = m /\ n < local_sequence /\ n \notin confirmed
          /\ Whole(n, m) \in packets
          /\ \A q \in WholeOf(m) : n <= q.number
    BY <1>3 DEF FirstRecord
  <2>2. n \notin hit /\ n \notin ack_info
    BY <1>2, <1>3, <2>1
  <2>3. n \in DOMAIN sent_packets' /\ sent_packets'[n] = m /\ n \notin confirmed'
    BY <1>1, <1>2, <2>1, <2>2
  <2> QED
    BY <1>1, <2>1, <2>3 DEF FirstRecord, Whole, WholeOf, This
<1>4. \A n \in confirmed' : n < local_sequence'
  BY <1>1 DEF SendingInv
<1>5. ASSUME NEW m \in Messages PROVE Pursued(m)'
  <2>1. Pursued(m)
    BY DEF SendingInv
  <2>2. WholeOf(m)' = WholeOf(m) /\ InFragments(m)' = InFragments(m)
    BY <1>1 DEF WholeOf, This, InFragments
  <2> HIDE DEF hit, settled
  <2> QED
    BY <1>1, <1>2, <1>3, <2>1, <2>2 DEF Pursued
<1> HIDE DEF hit, settled
<1> QED
  BY <1>1, <1>2, <1>4, <1>5 DEF SendingInv

\* A new session has sent nothing: whatever is still in flight says another session.
LEMMA ReconnectSending ==
  ASSUME TypeOK, SendingInv, Reconnect
  PROVE  SendingInv'
<1>1. /\ session' = session + 1 /\ packets' \subseteq packets /\ config' = config
      /\ next_fragment_id' = 0 /\ send_sequence' = 0 /\ pending_ack' = EmptyMap
      /\ confirmed' = {}
  BY DEF Reconnect
<1>2. DOMAIN pending_ack' = {}
  BY <1>1 DEF EmptyMap
<1>3. config \in Configs /\ session \in Nat /\ packets \subseteq PacketSet
  BY DEF TypeOK
<1>4. MaxReliableRetries \in Nat
  BY <1>3, ConfigType
<1>5. \A p \in packets : p.type = "message" => p.from.session \in Nat /\ p.from.session <= session
  BY <1>3 DEF SendingInv, PacketSet, Origins
<1>6. \A m : WholeOf(m)' = {}
  BY <1>1, <1>3, <1>5 DEF WholeOf, This
<1>7. \A m : InFragments(m)' \in {0, 1}
  BY DEF InFragments
<1>8. ASSUME NEW m \in Messages PROVE Pursued(m)'
  <2>1. IsFiniteSet(WholeOf(m)') /\ Cardinality(WholeOf(m)') = 0
    BY <1>6, FS_EmptySet
  <2>2. m \notin DOMAIN pending_ack'
    BY <1>2
  <2> QED
    BY <1>4, <1>6, <1>7, <2>1, <2>2 DEF Pursued
<1>9. \A p \in packets' : p.type = "message" => p.from.session <= session'
  BY <1>1, <1>3, <1>5
<1> QED
  BY <1>1, <1>2, <1>8, <1>9 DEF SendingInv

LEMMA SendingStep ==
  ASSUME TypeOK, SendingInv, [Next]_vars
  PROVE  SendingInv'
<1>1. ASSUME NEW p \in packets, ReceivePacket(p) PROVE SendingInv'
  BY <1>1, SendingStable DEF ReceivePacket, sessionVars, senderVars
<1>2. ASSUME NEW id \in Messages, ForgetFragments(id) PROVE SendingInv'
  BY <1>2, SendingStable DEF ForgetFragments, sessionVars, senderVars
<1>3. CASE SendAcks \/ UNCHANGED vars
  BY <1>3, SendingStable DEF SendAcks, vars, sessionVars, senderVars
<1> QED
  BY <1>1, <1>2, <1>3, SendMessageSending, SendOtherSending, RetransmitSending,
     ProcessAcksSending, ReconnectSending
     DEF Next

-----------------------------------------------------------------------------
(* A session that began with nothing left of another *)

\* Sending only adds packets: what was received and acknowledged stays so.
LEMMA ReceivedStays ==
  ASSUME ReceivedTells, packets \subseteq packets',
         UNCHANGED <<received_packets, handed, ack_info>>
  PROVE  ReceivedTells'
BY DEF ReceivedTells

LEMMA NumbersNat ==
  ASSUME TypeOK
  PROVE  /\ \A p \in packets : p.number \in Nat
         /\ \A p \in packets : p.type = "fragment" => p.id \in Nat
         /\ \A n \in DOMAIN sent_packets : n \in Nat
BY DEF TypeOK, PacketSet, Numbers, Messages

LEMMA SendOtherClean ==
  ASSUME TypeOK, Clean, SendOther
  PROVE  Clean'
<1> DEFINE o == Plain(local_sequence)
<1>1. o.type = "other" /\ o.number = local_sequence
  BY DEF Plain
<1>2. /\ UNCHANGED <<config, session, sent_packets, send_sequence, next_fragment_id,
                     received_packets, fragment_buffers, handed, mixed, ack_info,
                     acknowledged>>
      /\ packets' = packets \cup {o}
  BY DEF SendOther, sessionVars, receiverVars
<1>3. local_sequence \in Nat /\ local_sequence' = local_sequence + 1
  BY NumbersType DEF SendOther
<1> HIDE DEF o
<1>4. \A p \in packets : p.number \in Nat /\ p.number < local_sequence
  BY NumbersNat DEF Clean, NumbersTell
<1>5. \A n \in DOMAIN sent_packets : n \in Nat /\ n < local_sequence
  BY NumbersNat DEF Clean, NumbersTell
<1>6. NumbersTell'
  <2>1. \A p \in packets' : p.number < local_sequence'
    BY <1>1, <1>2, <1>3, <1>4
  <2>2. \A p, q \in packets' : p.type = "message" /\ p.number = q.number => q = p
    BY <1>1, <1>2, <1>3, <1>4 DEF Clean, NumbersTell
  <2>3. \A n \in DOMAIN sent_packets :
          /\ n < local_sequence'
          /\ \A p \in packets' : p.number = n
                => p.type = "message" /\ p.from = This(sent_packets[n])
          /\ n = 0 => ~config.probes /\ sent_packets[n] = 0
    BY <1>1, <1>2, <1>3, <1>5 DEF Clean, NumbersTell
  <2>4. local_sequence' > 0 /\ local_sequence' # 0
    BY <1>3
  <2> QED
    BY <1>2, <2>1, <2>2, <2>3, <2>4 DEF NumbersTell, This
<1>7. IdsTell'
  BY <1>1, <1>2 DEF Clean, IdsTell
<1>8. ReceivedTells'
  BY <1>2, ReceivedStays DEF Clean
<1> QED
  BY <1>2, <1>6, <1>7, <1>8 DEF Clean, Arrived

\* A message takes a number no packet has, and its fragments an id none has.
LEMMA SendMessageClean ==
  ASSUME TypeOK, Clean, NEW m \in Messages, SendMessage(m)
  PROVE  Clean'
<1>1. /\ UNCHANGED <<config, session, probed, received_packets, fragment_buffers, handed,
                     mixed, ack_info, acknowledged>>
      /\ send_sequence = m
  BY DEF SendMessage, sessionVars, receiverVars
<1>2. config \in Configs /\ next_fragment_id \in Nat
  BY DEF TypeOK
<1>3. FragmentCount \in Nat /\ FragmentCount >= 1
  BY <1>2, ConfigType
<1>4. local_sequence \in Nat /\ local_sequence' \in Nat /\ local_sequence < local_sequence'
  BY <1>3, NumbersType DEF SendMessage
<1>5. /\ DOMAIN sent_packets' = DOMAIN sent_packets \cup {local_sequence}
      /\ sent_packets'[local_sequence] = m
      /\ \A n \in DOMAIN sent_packets : n # local_sequence => sent_packets'[n] = sent_packets[n]
  BY DEF SendMessage, TrackedNumber, Put
<1>6. \A p \in packets : p.number \in Nat /\ p.number < local_sequence
  BY NumbersNat DEF Clean, NumbersTell
<1>7. \A n \in DOMAIN sent_packets : n \in Nat /\ n < local_sequence
  BY NumbersNat DEF Clean, NumbersTell
\* The record of the message names no other packet.
<1>8. /\ packets \subseteq packets'
      /\ \A p \in packets' \ packets :
           /\ p.from = This(m)
           /\ p.number \in Nat /\ local_sequence <= p.number /\ p.number < local_sequence'
           /\ p.type = "message" => p = Whole(local_sequence, m)
           /\ p.number = local_sequence => p = Whole(local_sequence, m)
           /\ p.type \in {"message", "fragment"}
           /\ p.type = "fragment" =>
                p.id = next_fragment_id /\ next_fragment_id' = next_fragment_id + 1
      /\ Whole(local_sequence, m).type = "message"
      /\ Whole(local_sequence, m).number = local_sequence
      /\ next_fragment_id' \in {next_fragment_id, next_fragment_id + 1}
  <2>1. CASE /\ packets' = packets \cup {Whole(local_sequence, m)}
             /\ UNCHANGED next_fragment_id
    BY <1>4, <2>1 DEF Whole, This
  <2>2. CASE /\ TakeNumbers(1 + FragmentCount)
             /\ packets' = packets \cup FragmentsFrom(m, next_fragment_id)
             /\ next_fragment_id' = FragmentIdAfter
    <3>1. local_sequence' = local_sequence + (1 + FragmentCount)
      BY <1>3, <2>2, NumbersType
    <3>2. ASSUME NEW p \in packets' \ packets
          PROVE  /\ p.from = This(m) /\ p.type = "fragment" /\ p.id = next_fragment_id
                 /\ p.number \in Nat /\ local_sequence < p.number
                 /\ p.number < local_sequence'
      <4>1. PICK i \in Indices : p = Piece(local_sequence + 1 + i, m, next_fragment_id, i)
        BY <2>2 DEF FragmentsFrom
      <4>2. i \in Nat /\ i < FragmentCount
        BY <1>3 DEF Indices
      <4>3. p.number = local_sequence + 1 + i /\ p.from = This(m) /\ p.type = "fragment"
            /\ p.id = next_fragment_id
        BY <4>1 DEF Piece, This
      <4> QED
        BY <1>3, <1>4, <3>1, <4>2, <4>3
    <3>3. Whole(local_sequence, m).type = "message"
          /\ Whole(local_sequence, m).number = local_sequence
      BY DEF Whole
    <3> QED
      BY <1>4, <2>2, <3>2, <3>3 DEF FragmentIdAfter
  <2> QED
    BY <2>1, <2>2 DEF SendMessage
<1>9. NumbersTell'
  <2>1. \A p \in packets' : p.number < local_sequence'
    BY <1>4, <1>6, <1>8
  <2>2. ASSUME NEW p \in packets', NEW q \in packets',
               p.type = "message", p.number = q.number
        PROVE  q = p
    <3>1. CASE p \in packets /\ q \in packets
      BY <2>2, <3>1 DEF Clean, NumbersTell
    <3>2. CASE p \in packets /\ q \notin packets
      BY <1>4, <1>6, <1>8, <2>2, <3>2
    <3>3. CASE p \notin packets /\ q \in packets
      BY <1>4, <1>6, <1>8, <2>2, <3>3
    <3>4. CASE p \notin packets /\ q \notin packets
      BY <1>8, <2>2, <3>4
    <3> QED
      BY <3>1, <3>2, <3>3, <3>4
  <2>3. ASSUME NEW n \in DOMAIN sent_packets'
        PROVE  /\ n < local_sequence'
               /\ \A p \in packets' : p.number = n
                     => p.type = "message" /\ p.from = This(sent_packets'[n])
               /\ n = 0 => ~config.probes /\ sent_packets'[n] = 0
    <3>1. CASE n = local_sequence
      <4>1. \A p \in packets' : p.number = n => p.type = "message" /\ p.from = This(m)
        BY <1>4, <1>6, <1>8, <3>1
      <4>2. n = 0 => ~config.probes /\ m = 0
        BY <1>1, <1>4, <3>1 DEF Clean, NumbersTell, SendMessage, MayCarryMessages
      <4> QED
        BY <1>4, <1>5, <3>1, <4>1, <4>2
    <3>2. CASE n # local_sequence
      <4>1. n \in DOMAIN sent_packets /\ sent_packets'[n] = sent_packets[n]
        BY <1>5, <3>2
      <4>2. n < local_sequence' /\ n \in Nat /\ n < local_sequence
        BY <1>4, <1>7, <4>1
      <4>3. \A p \in packets' \ packets : p.number # n
        BY <1>4, <1>8, <4>2
      <4> QED
        BY <4>1, <4>2, <4>3 DEF Clean, NumbersTell
    <3> QED
      BY <3>1, <3>2
  <2>4. local_sequence' > 0 /\ local_sequence' # 0
    BY <1>4
  <2> QED
    BY <1>1, <2>1, <2>2, <2>3, <2>4 DEF NumbersTell, This
<1>10. IdsTell'
  <2>1. \A p \in packets : p.type = "fragment" =>
          p.id \in Nat /\ p.id < next_fragment_id /\ p.id < next_fragment_id'
    BY <1>2, <1>8, NumbersNat DEF Clean, IdsTell
  <2>2. \A p \in packets' : p.type = "fragment" => p.id < next_fragment_id'
    BY <1>2, <1>8, <2>1
  <2>3. ASSUME NEW p \in packets', NEW q \in packets',
               p.type = "fragment", q.type = "fragment", p.id = q.id
        PROVE  p.from = q.from
    <3>1. CASE p \in packets /\ q \in packets
      BY <2>3, <3>1 DEF Clean, IdsTell
    <3>2. CASE p \in packets /\ q \notin packets
      BY <1>2, <1>8, <2>1, <2>3, <3>2
    <3>3. CASE p \notin packets /\ q \in packets
      BY <1>2, <1>8, <2>1, <2>3, <3>3
    <3>4. CASE p \notin packets /\ q \notin packets
      BY <1>8, <3>4
    <3> QED
      BY <3>1, <3>2, <3>3, <3>4
  <2> QED
    BY <1>1, <1>8, <2>2, <2>3 DEF Clean, IdsTell
<1>11. ReceivedTells'
  BY <1>1, <1>8, ReceivedStays DEF Clean
<1> QED
  BY <1>1, <1>9, <1>10, <1>11 DEF Clean, Arrived

LEMMA RetransmitClean ==
  ASSUME TypeOK, Clean, NEW m \in Messages, Retransmit(m)
  PROVE  Clean'
<1>1. UNCHANGED <<config, session, probed, sent_packets, send_sequence, next_fragment_id,
                  received_packets, fragment_buffers, handed, mixed, ack_info, acknowledged>>
  BY DEF Retransmit, sessionVars, receiverVars
<1>2. CASE UNCHANGED <<local_sequence, packets>>
  BY <1>1, <1>2 DEF Clean, NumbersTell, IdsTell, ReceivedTells, Arrived, This
<1>3. CASE TakeNumbers(1) /\ packets' = packets \cup {Whole(local_sequence, m)}
  <2> DEFINE w == Whole(local_sequence, m)
  <2>1. w.type = "message" /\ w.number = local_sequence
    BY DEF Whole
  <2>2. local_sequence \in Nat /\ local_sequence' = local_sequence + 1
    BY <1>3, NumbersType
  <2>3. packets' = packets \cup {w}
    BY <1>3
  <2> HIDE DEF w
  <2>4. \A p \in packets : p.number \in Nat /\ p.number < local_sequence
    BY NumbersNat DEF Clean, NumbersTell
  <2>5. \A n \in DOMAIN sent_packets : n \in Nat /\ n < local_sequence
    BY NumbersNat DEF Clean, NumbersTell
  <2>6. NumbersTell'
    <3>1. \A p \in packets' : p.number < local_sequence'
      BY <2>1, <2>2, <2>3, <2>4
    <3>2. \A p, q \in packets' : p.type = "message" /\ p.number = q.number => q = p
      BY <2>1, <2>2, <2>3, <2>4 DEF Clean, NumbersTell
    <3>3. \A n \in DOMAIN sent_packets :
            /\ n < local_sequence'
            /\ \A p \in packets' : p.number = n
                  => p.type = "message" /\ p.from = This(sent_packets[n])
            /\ n = 0 => ~config.probes /\ sent_packets[n] = 0
      BY <2>1, <2>2, <2>3, <2>5 DEF Clean, NumbersTell
    <3>4. local_sequence' > 0 /\ local_sequence' # 0
      BY <2>2
    <3> QED
      BY <1>1, <3>1, <3>2, <3>3, <3>4 DEF NumbersTell, This
  <2>7. IdsTell'
    BY <1>1, <2>1, <2>3 DEF Clean, IdsTell
  <2>8. ReceivedTells'
    BY <1>1, <2>3, ReceivedStays DEF Clean
  <2> QED
    BY <1>1, <2>6, <2>7, <2>8 DEF Clean, Arrived
<1> QED
  BY <1>2, <1>3 DEF Retransmit

\* An acknowledged number with a record is that of the message's own packet, which
\* arrived; or 0, which every ack info covers.
LEMMA ProcessAcksClean ==
  ASSUME TypeOK, Clean, ProcessAcks
  PROVE  Clean'
<1> DEFINE hit == DOMAIN sent_packets \cap ack_info
           settled == {sent_packets[n] : n \in hit}
<1>1. /\ UNCHANGED <<config, session, local_sequence, probed, send_sequence,
                     next_fragment_id, received_packets, fragment_buffers, handed, mixed,
                     packets, ack_info>>
      /\ sent_packets' = Restrict(sent_packets, DOMAIN sent_packets \ hit)
      /\ acknowledged' = acknowledged \cup (settled \cap DOMAIN pending_ack)
  BY DEF ProcessAcks, sessionVars, receiverVars
<1>2. /\ DOMAIN sent_packets' \subseteq DOMAIN sent_packets
      /\ \A n \in DOMAIN sent_packets' : sent_packets'[n] = sent_packets[n]
  <2> HIDE DEF hit
  <2> QED
    BY <1>1 DEF Restrict
<1>3. ASSUME NEW n \in hit
      PROVE  Arrived(sent_packets[n]) \/ (sent_packets[n] = 0 /\ ~config.probes)
  <2>1. CASE n \in received_packets
    <3>1. PICK p \in packets : p.number = n /\ (p.type = "message" => p.from \in handed)
      BY <2>1 DEF Clean, ReceivedTells
    <3>2. p.type = "message" /\ p.from = This(sent_packets[n])
      BY <3>1 DEF Clean, NumbersTell
    <3> QED
      BY <3>1, <3>2 DEF Arrived, This
  <2>2. CASE n = 0
    BY <2>2 DEF Clean, NumbersTell
  <2> QED
    BY <2>1, <2>2 DEF Clean, ReceivedTells
<1>4. \A m \in acknowledged' : Arrived(m) \/ (m = 0 /\ ~config.probes)
  BY <1>1, <1>3 DEF Clean
<1> HIDE DEF hit, settled
<1>5. NumbersTell'
  <2>1. \A n \in DOMAIN sent_packets' :
          /\ n < local_sequence
          /\ \A p \in packets : p.number = n
                => p.type = "message" /\ p.from = This(sent_packets'[n])
          /\ n = 0 => ~config.probes /\ sent_packets'[n] = 0
    BY <1>2 DEF Clean, NumbersTell
  <2> QED
    BY <1>1, <2>1 DEF Clean, NumbersTell, This
<1>6. IdsTell' /\ ReceivedTells' /\ ~mixed'
  BY <1>1 DEF Clean, IdsTell, ReceivedTells
<1> QED
  BY <1>1, <1>4, <1>5, <1>6 DEF Clean, Arrived

\* Fragments with one id are of one message, so no assembly mixes messages.
LEMMA AssembleClean ==
  ASSUME TypeOK, Clean, NEW p \in packets, p.type = "fragment", Assemble(p)
  PROVE  /\ ~mixed' /\ handed \subseteq handed'
         /\ \A f \in fragment_buffers' :
              f \in fragment_buffers \/ (f.id = p.id /\ f.from = p.from)
<1> DEFINE held == HeldFragments(p.id)
           with == IF \E f \in held : f.index = p.index
                   THEN held
                   ELSE held \cup {[id |-> p.id, index |-> p.index, from |-> p.from]}
           sources == {f.from : f \in with}
<1>1. \A f \in held : f.id = p.id /\ f \in fragment_buffers
  BY DEF HeldFragments
<1>2. \A f \in held : f.from = p.from
  BY <1>1 DEF Clean, IdsTell
<1>3. \A f \in with : f.from = p.from /\ f.id = p.id
  BY <1>1, <1>2
<1>4. with # {}
  OBVIOUS
<1>5. sources = {p.from}
  <2> HIDE DEF with
  <2> QED
    BY <1>3, <1>4
<1>6. Cardinality(sources) = 1
  BY <1>5, FS_Singleton
<1>7. \/ fragment_buffers' = fragment_buffers \cup with /\ UNCHANGED <<handed, mixed>>
      \/ /\ fragment_buffers' = fragment_buffers \ held
         /\ IF Cardinality(sources) = 1
            THEN handed' = handed \cup sources /\ UNCHANGED mixed
            ELSE mixed' = TRUE /\ UNCHANGED handed
  BY DEF Assemble
<1> HIDE DEF with, sources, held
<1> QED
  BY <1>3, <1>6, <1>7 DEF Clean

LEMMA ReceiveClean ==
  ASSUME TypeOK, Clean, NEW p \in packets, ReceivePacket(p)
  PROVE  Clean'
<1>1. /\ UNCHANGED <<config, session, local_sequence, probed, sent_packets, send_sequence,
                     next_fragment_id, packets, ack_info, acknowledged>>
      /\ received_packets' = received_packets \cup {p.number}
  BY DEF ReceivePacket, sessionVars, senderVars
<1>2. /\ ~mixed' /\ handed \subseteq handed'
      /\ p.type = "message" => p.from \in handed'
      /\ \A f \in fragment_buffers' :
           f \in fragment_buffers \/ (p.type = "fragment" /\ f.id = p.id /\ f.from = p.from)
  <2>1. CASE p.type = "fragment" /\ Assemble(p)
    BY <2>1, AssembleClean
  <2>2. CASE p.type = "message" /\ handed' = handed \cup {p.from}
             /\ UNCHANGED <<fragment_buffers, mixed>>
    BY <2>2 DEF Clean
  <2>3. CASE p.type = "other" /\ UNCHANGED <<fragment_buffers, handed, mixed>>
    BY <2>3 DEF Clean
  <2> QED
    BY <2>1, <2>2, <2>3 DEF ReceivePacket
<1>3. NumbersTell'
  BY <1>1 DEF Clean, NumbersTell, This
<1>4. IdsTell'
  BY <1>1, <1>2 DEF Clean, IdsTell
<1>5. ReceivedTells'
  BY <1>1, <1>2 DEF Clean, ReceivedTells
<1> QED
  BY <1>1, <1>2, <1>3, <1>4, <1>5 DEF Clean, Arrived

LEMMA CleanStep ==
  ASSUME TypeOK, CleanInv, [Next]_vars
  PROVE  CleanInv'
<1>1. CASE Reconnect
  <2>1. clean' => /\ clean /\ packets' = {} /\ received_packets' = {} /\ ack_info' = {}
                  /\ sent_packets' = EmptyMap /\ mixed' = mixed
                  /\ acknowledged' = {} /\ fragment_buffers' = {}
                  /\ local_sequence' = 0 /\ probed' = FALSE /\ send_sequence' = 0
    BY <1>1 DEF Reconnect
  <2>2. DOMAIN EmptyMap = {}
    BY DEF EmptyMap
  <2>3. clean' => ~mixed'
    BY <2>1 DEF CleanInv, Clean
  <2> QED
    BY <2>1, <2>2, <2>3 DEF CleanInv, Clean, NumbersTell, IdsTell, ReceivedTells
<1>2. CASE ~Reconnect
  <2>1. clean' = clean
    BY <1>2 DEF Next, vars, sessionVars, SendOther, SendMessage, Retransmit, ProcessAcks,
                ReceivePacket, ForgetFragments, SendAcks
  <2>2. SUFFICES ASSUME Clean PROVE Clean'
    BY <2>1 DEF CleanInv
  <2>3. CASE \E id \in Messages : ForgetFragments(id)
    BY <2>2, <2>3
       DEF ForgetFragments, Clean, NumbersTell, IdsTell, ReceivedTells, Arrived, This,
           sessionVars, senderVars
  <2>4. CASE SendAcks
    BY <2>2, <2>4
       DEF SendAcks, AckInfo, Clean, NumbersTell, IdsTell, ReceivedTells, Arrived, This,
           sessionVars, senderVars, receiverVars
  <2>5. CASE UNCHANGED vars
    BY <2>2, <2>5
       DEF vars, Clean, NumbersTell, IdsTell, ReceivedTells, Arrived, This,
           sessionVars, senderVars, receiverVars
  <2> QED
    BY <1>2, <2>2, <2>3, <2>4, <2>5, SendOtherClean, SendMessageClean, RetransmitClean,
       ProcessAcksClean, ReceiveClean
       DEF Next
<1> QED
  BY <1>1, <1>2

-----------------------------------------------------------------------------
(* The invariant and what it comes to *)

LEMMA InitInv == Init => IInv
<1> SUFFICES ASSUME Init PROVE IInv
  OBVIOUS
<1>1. config \in Configs
  BY DEF Init
<1>2. /\ MaxPackets \in Nat /\ MaxMessages \in Nat /\ MaxSessions \in Nat
      /\ MaxReliableRetries \in Nat /\ config.sessions \in 1 .. MaxSessions
  BY <1>1, ConfigType
<1>3. DOMAIN EmptyMap = {} /\ \A S : EmptyMap \in [DOMAIN EmptyMap -> S]
  BY DEF EmptyMap
<1>4. TypeOK
  <2>1. 1 \in 1 .. MaxSessions /\ 0 \in 0 .. MaxPackets /\ 0 \in 0 .. MaxMessages
    BY <1>2
  <2> QED
    BY <1>1, <1>3, <2>1 DEF Init, TypeOK
<1>5. SendingInv
  <2>1. ASSUME NEW m \in Messages PROVE Pursued(m)
    <3>1. WholeOf(m) = {} /\ m \notin DOMAIN pending_ack
      BY <1>3 DEF Init, WholeOf
    <3>2. InFragments(m) \in {0, 1}
      BY DEF InFragments
    <3> QED
      BY <1>2, <3>1, <3>2, FS_EmptySet DEF Pursued
  <2> QED
    BY <1>3, <2>1 DEF Init, SendingInv
<1>6. CleanInv
  BY <1>3 DEF Init, CleanInv, Clean, NumbersTell, IdsTell, ReceivedTells
<1> QED
  BY <1>4, <1>5, <1>6 DEF IInv

LEMMA NextInv == IInv /\ [Next]_vars => IInv'
<1> SUFFICES ASSUME IInv, [Next]_vars PROVE IInv'
  OBVIOUS
<1>1. TypeOK /\ SendingInv /\ CleanInv /\ next_fragment_id <= send_sequence
  BY DEF IInv, SendingInv
<1> QED
  BY <1>1, TypeStep, SendingStep, CleanStep DEF IInv

\* Every reachable state satisfies the inductive invariant.
THEOREM ConnectionInvariance == Spec => []IInv
<1> QED
  BY InitInv, NextInv, PTL DEF Spec

\* The maps, numbers and buffers of a connection keep their types, and no message is
\* retried more than max_reliable_retries times.
THEOREM ConnectionTypeCorrect == Spec => []TypeOK
<1>1. IInv => TypeOK
  BY DEF IInv
<1> QED
  BY <1>1, ConnectionInvariance, PTL

\* In a session that began with nothing left of another, a message the sender forgets
\* as acknowledged reached the receiver's channel, through any loss, repetition, delay,
\* retry and reassembly (packet 0 apart, if no probe takes that number).
THEOREM AcknowledgedMessagesArrived == Spec => []AcknowledgedArrived
<1>1. IInv => AcknowledgedArrived
  BY DEF IInv, CleanInv, Clean, AcknowledgedArrived
<1> QED
  BY <1>1, ConnectionInvariance, PTL

\* In such a session no message is put together from fragments of different ones.
THEOREM FragmentsNeverMix == Spec => []NeverMixed
<1>1. IInv => NeverMixed
  BY DEF IInv, CleanInv, Clean, NeverMixed
<1> QED
  BY <1>1, ConnectionInvariance, PTL

\* In every session, whatever it inherited, a message goes out at most
\* 1 + max_reliable_retries times, and the ack of its first packet settles it.
THEOREM EveryTransmissionEnds == Spec => []TransmissionsEnd
<1>1. IInv => TransmissionsEnd
  <2> SUFFICES ASSUME IInv, NEW m \in Messages
               PROVE  /\ Cardinality(WholeOf(m)) + InFragments(m) <= 1 + MaxReliableRetries
                      /\ m \notin config.large /\ (\E p \in FirstOf(m) : p.number \in confirmed)
                           => m \notin DOMAIN pending_ack
    BY DEF TransmissionsEnd, WholeOf, InFragments, This
  <2>1. TypeOK /\ Pursued(m)
    BY DEF IInv, SendingInv
  <2>2. ASSUME m \notin config.large, NEW p \in FirstOf(m), p.number \in confirmed,
               m \in DOMAIN pending_ack
        PROVE  FALSE
    <3>1. PICK n \in DOMAIN sent_packets :
            /\ n \notin confirmed
            /\ Whole(n, m) \in packets
            /\ \A q \in WholeOf(m) : n <= q.number
      BY <2>1, <2>2 DEF Pursued, FirstRecord
    <3>2. /\ p \in packets /\ p.type = "message" /\ p.from = This(m)
          /\ \A q \in packets : q.type = "message" /\ q.from = p.from => p.number <= q.number
      BY DEF FirstOf, This
    <3>3. n <= p.number
      BY <3>1, <3>2 DEF WholeOf
    <3>4. p.number <= n
      BY <3>1, <3>2 DEF Whole, This
    <3>5. n \in Nat /\ p.number \in Nat
      BY <2>1, <3>2, NumbersNat
    <3>6. n = p.number
      BY <3>3, <3>4, <3>5
    <3> QED
      BY <2>2, <3>1, <3>6
  <2> QED
    BY <2>1, <2>2 DEF Pursued
<1> QED
  BY <1>1, ConnectionInvariance, PTL
=============================================================================
