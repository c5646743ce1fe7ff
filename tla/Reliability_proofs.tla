------------------------- MODULE Reliability_proofs -------------------------
(***************************************************************************)
(* Proofs about Reliability: acknowledgments are neither made up nor       *)
(* forgotten, for every window, buffer size and history, wherever the      *)
(* numbers wrap around.                                                    *)
(*                                                                         *)
(* The code compares circular numbers; the argument is about ranks, the    *)
(* order in which packets were sent.  The lemmas of the first part say     *)
(* that within the span of numbers in play the two agree.                  *)
(***************************************************************************)
EXTENDS Reliability, FiniteSetTheorems, WellFoundedInduction, TLAPS

\* The ranks in play: packets of the history, and those before it that the buffer
\* or the ack bits may still hold.
Width == IF AckBitsWindow > BufferSize THEN AckBitsWindow ELSE BufferSize
Span  == -Width .. MaxPackets

\* The packet a number stands for; `start` is the number of packet 1.
RankOf(s) == SeqDiff(s, start) + 1

\* remote_sequence starts as 0, the number of packet 1 of a new connection.
FirstRank == IF start = 0 THEN 1 ELSE 0
Newest == RankOf(remote_sequence)

Arrived(n) == n \in received \/ n < 1 \/ (start = 0 /\ n = 1)

\* Acknowledgment information that claims only what arrived.
InfoSound(ack, bits) ==
  /\ RankOf(ack) \in received \cup {FirstRank}
  /\ ack = SeqOfPacket(RankOf(ack))
  /\ ~skipped_window => \A i \in bits : Arrived(RankOf(ack) - i - 1)

\* Packet n is acknowledged, or the window has moved past it.
Noted(n) ==
  /\ n <= Newest
  /\ Newest - n \in 1 .. AckBitsWindow => Newest - n - 1 \in ack_bits

SendingInv ==
  /\ local_sequence = SeqOfPacket(sent + 1)
  /\ \A n \in Packets : n > sent => reports[n] = 0
  /\ \A s \in DOMAIN sent_packets :
       /\ sent_packets[s].packet <= sent
       /\ s = SeqOfPacket(sent_packets[s].packet)
       /\ sent_packets[s].nack_count < FastRetransmitThreshold
            => reports[sent_packets[s].packet] = 0

\* Whatever the SequenceBuffer still recognises as a repeat has been noted.
BufferNoted ==
  \A i \in 0 .. BufferSize - 1 :
    received_packets.entries[i] # None =>
      \E n \in Span : received_packets.entries[i] = SeqOfPacket(n) /\ Noted(n)

ReceivingInv ==
  /\ \A n \in received : n <= sent
  /\ InfoSound(remote_sequence, ack_bits)
  /\ ~panicked => (\A n \in received : Noted(n)) /\ BufferNoted

AcksInv ==
  /\ \A info \in ack_infos : InfoSound(info.ack, info.ack_bits)
  /\ ~skipped_window => \A n \in acked : Arrived(n)

IInv == TypeOK /\ SendingInv /\ ReceivingInv /\ AcksInv /\ FastRetransmitSound

-----------------------------------------------------------------------------
(* Ranks and circular numbers *)

LEMMA SpanFacts ==
  /\ Width \in Nat /\ MaxPackets \in Nat /\ HalfRange \in Nat
  /\ 1 <= AckBitsWindow /\ AckBitsWindow <= Width
  /\ 1 <= BufferSize /\ BufferSize <= Width
  /\ 1 <= MaxPackets
  /\ MaxPackets + Width < HalfRange
BY ReliabilityAssumption, PacketWindowAssumption, HalfRangeAssumption DEF Width

LEMMA RankType ==
  ASSUME start \in SeqNums, NEW n \in Span
  PROVE  SeqOfPacket(n) \in SeqNums
BY SpanFacts DEF SeqOfPacket, SeqPlus, SeqMinus, SeqNums, FullRange, Span

\* Within the span, differences and comparisons of numbers are those of ranks.
LEMMA RankDiff ==
  ASSUME start \in SeqNums, NEW n \in Span, NEW m \in Span
  PROVE  /\ SeqDiff(SeqOfPacket(n), SeqOfPacket(m)) = n - m
         /\ SeqGreater(SeqOfPacket(n), SeqOfPacket(m)) <=> n > m
BY SpanFacts
   DEF SeqOfPacket, SeqDiff, SeqGreater, SeqPlus, SeqMinus, SeqNums, FullRange, Span

LEMMA RankOfIs ==
  ASSUME start \in SeqNums, NEW n \in Span
  PROVE  RankOf(SeqOfPacket(n)) = n
<1>1. 1 \in Span
  BY SpanFacts DEF Span
<1>2. SeqOfPacket(1) = start
  BY SpanFacts DEF SeqOfPacket, SeqPlus, SeqNums, FullRange
<1> QED
  BY <1>1, <1>2, RankDiff, SpanFacts DEF RankOf, Span

LEMMA RankInjective ==
  ASSUME start \in SeqNums, NEW n \in Span, NEW m \in Span,
         SeqOfPacket(n) = SeqOfPacket(m)
  PROVE  n = m
BY RankOfIs

LEMMA RankBack ==
  ASSUME start \in SeqNums, NEW n \in Span, NEW k \in Nat, n - k \in Span
  PROVE  SeqMinus(SeqOfPacket(n), k) = SeqOfPacket(n - k)
BY SpanFacts DEF SeqOfPacket, SeqPlus, SeqMinus, SeqNums, FullRange, Span

\* The packets of the history keep their numbers.
LEMMA RankFixed ==
  ASSUME start' = start
  PROVE  /\ \A n : SeqOfPacket(n)' = SeqOfPacket(n)
         /\ \A s : RankOf(s)' = SeqDiff(s, start) + 1
         /\ FirstRank' = FirstRank
BY DEF SeqOfPacket, RankOf, FirstRank

\* What acknowledgment information covers, as ranks.
LEMMA CoversRank ==
  ASSUME TypeOK, received \subseteq Packets,
         NEW ack, NEW bits \in SUBSET BitPositions, InfoSound(ack, bits),
         NEW n \in Packets, Covers(ack, bits, SeqOfPacket(n))
  PROVE  n = RankOf(ack) \/ \E i \in bits : n = RankOf(ack) - i - 1
<1>1. start \in SeqNums
  BY ReliabilityAssumption DEF TypeOK
<1>2. RankOf(ack) \in 0 .. MaxPackets
  <2>1. RankOf(ack) \in Packets \/ RankOf(ack) = FirstRank
    BY DEF InfoSound
  <2>2. FirstRank \in {0, 1}
    BY DEF FirstRank
  <2>3. 0 \in 0 .. MaxPackets /\ 1 \in 0 .. MaxPackets
    BY SpanFacts
  <2>4. Packets \subseteq 0 .. MaxPackets
    BY SpanFacts DEF Packets
  <2> QED
    BY <2>1, <2>2, <2>3, <2>4
<1>3. RankOf(ack) \in Span /\ n \in Span
  BY <1>2, SpanFacts DEF Span, Packets
<1>4. ack = SeqOfPacket(RankOf(ack))
  BY DEF InfoSound
<1>5. CASE SeqOfPacket(n) = ack
  BY <1>1, <1>3, <1>4, <1>5, RankInjective
<1>6. CASE \E i \in bits : SeqOfPacket(n) = SeqMinus(ack, i + 1)
  <2>1. PICK i \in bits : SeqOfPacket(n) = SeqMinus(ack, i + 1)
    BY <1>6
  <2>2. i \in Nat /\ i + 1 <= Width
    BY <2>1, SpanFacts, ReliabilityAssumption DEF BitPositions
  <2>3. RankOf(ack) - (i + 1) \in Span
    BY <1>2, <2>2, SpanFacts DEF Span
  <2>4. SeqOfPacket(n) = SeqOfPacket(RankOf(ack) - (i + 1))
    BY <1>1, <1>3, <1>4, <2>1, <2>2, <2>3, RankBack
  <2>5. n = RankOf(ack) - (i + 1)
    BY <1>1, <1>3, <2>3, <2>4, RankInjective
  <2> QED
    BY <1>2, <2>2, <2>5
<1> QED
  BY <1>5, <1>6 DEF Covers

-----------------------------------------------------------------------------
(* The receiving half *)

LEMMA NewestType ==
  ASSUME TypeOK, InfoSound(remote_sequence, ack_bits)
  PROVE  /\ start \in SeqNums
         /\ Newest \in 0 .. MaxPackets
         /\ Newest \in Span
         /\ remote_sequence = SeqOfPacket(Newest)
<1>1. start \in SeqNums
  BY ReliabilityAssumption DEF TypeOK
<1>2. Newest \in Packets \/ Newest = FirstRank
  BY DEF InfoSound, Newest, TypeOK
<1>3. FirstRank \in {0, 1}
  BY DEF FirstRank
<1>4. 0 \in 0 .. MaxPackets /\ 1 \in 0 .. MaxPackets
  BY SpanFacts
<1>5. Packets \subseteq 0 .. MaxPackets
  BY SpanFacts DEF Packets
<1>6. Newest \in 0 .. MaxPackets
  BY <1>2, <1>3, <1>4, <1>5
<1>7. Newest \in Span
  BY <1>6, SpanFacts DEF Span
<1> QED
  BY <1>1, <1>6, <1>7 DEF InfoSound, Newest

\* What shifting and filling the ack bits does, in ranks: position `newest` moves to
\* `newer`, and packet n is noted.
LEMMA NoteBits ==
  ASSUME TypeOK, InfoSound(remote_sequence, ack_bits), ~panicked,
         NEW n \in Packets, Note(SeqOfPacket(n)), ~Exists(SeqOfPacket(n)),
         start' = start
  PROVE  \/ /\ n > Newest /\ n - Newest < AckBitsWindow
            /\ Newest' = n /\ remote_sequence' = SeqOfPacket(n)
            /\ ack_bits' = ShiftedLeft(ack_bits, n - Newest) \cup {n - Newest - 1}
            /\ UNCHANGED <<panicked, skipped_window>>
         \/ /\ n > Newest /\ n - Newest = AckBitsWindow
            /\ Newest' = n /\ remote_sequence' = SeqOfPacket(n)
            /\ ack_bits' = ack_bits \cup {n - Newest - 1}
            /\ skipped_window' /\ UNCHANGED panicked
         \/ /\ panicked' /\ skipped_window'
            /\ UNCHANGED <<remote_sequence, ack_bits>> /\ Newest' = Newest
         \/ /\ n > Newest /\ n - Newest > AckBitsWindow
            /\ Newest' = n /\ remote_sequence' = SeqOfPacket(n)
            /\ ack_bits' = {}
            /\ UNCHANGED <<panicked, skipped_window>>
         \/ /\ n <= Newest
            /\ Newest' = Newest /\ UNCHANGED remote_sequence
            /\ ack_bits' = IF Newest - n \in 1 .. AckBitsWindow
                           THEN ack_bits \cup {Newest - n - 1} ELSE ack_bits
            /\ UNCHANGED <<panicked, skipped_window>>
<1> DEFINE s == SeqOfPacket(n)
<1>1. /\ start \in SeqNums
      /\ Newest \in 0 .. MaxPackets
      /\ Newest \in Span
      /\ remote_sequence = SeqOfPacket(Newest)
  BY NewestType
<1>2. n \in Span
  BY SpanFacts DEF Span, Packets
<1>3. /\ SeqGreater(s, remote_sequence) <=> n > Newest
      /\ SeqDiff(s, remote_sequence) = n - Newest
      /\ SeqDiff(remote_sequence, s) = Newest - n
  BY <1>1, <1>2, RankDiff
<1>4. remote_sequence' = s => Newest' = n
  BY <1>1, <1>2, RankOfIs DEF Newest, RankOf
<1>5. remote_sequence' = remote_sequence => Newest' = Newest
  BY DEF Newest, RankOf
<1>6. n \in Nat /\ Newest \in Nat
  BY <1>1, SpanFacts DEF Packets
<1>7. CASE n > Newest /\ Advance(s)
  <2> HIDE DEF s
  <2>1. s = SeqOfPacket(n)
    BY DEF s
  <2> QED
    BY <1>3, <1>4, <1>5, <1>6, <1>7, <2>1 DEF Advance
<1>8. CASE ~(n > Newest) /\ FillIn(s)
  <2> HIDE DEF s
  <2> QED
    BY <1>3, <1>5, <1>6, <1>8 DEF FillIn
<1> QED
  BY <1>3, <1>7, <1>8 DEF Note

\* Noting packet n keeps every packet noted, and notes n.
LEMMA NoteNotes ==
  ASSUME TypeOK, ReceivingInv, ~panicked,
         NEW n \in Packets, Note(SeqOfPacket(n)), start' = start, ~panicked',
         NEW m \in Span, Noted(m) \/ m = n
  PROVE  Noted(m)'
<1>1. /\ start \in SeqNums
      /\ Newest \in 0 .. MaxPackets
      /\ Newest \in Span
  BY NewestType DEF ReceivingInv
<1>2. n \in Span /\ n \in Nat /\ Newest \in Nat /\ m \in Int
  BY <1>1, SpanFacts DEF Span, Packets
<1>3. AckBitsWindow \in Nat
  BY ReliabilityAssumption
<1>4. ack_bits \subseteq BitPositions
  BY DEF TypeOK
<1>5. CASE Exists(SeqOfPacket(n))
  <2>1. UNCHANGED <<remote_sequence, ack_bits>>
    BY <1>5 DEF Note
  <2>2. Noted(n)
    <3> DEFINE i == Slot(SeqOfPacket(n))
    <3>1. i \in 0 .. BufferSize - 1
      BY <1>1, <1>2, RankType, ReliabilityAssumption, HalfRangeAssumption
         DEF Slot, SeqNums, FullRange
    <3>2. received_packets.entries[i] = SeqOfPacket(n) /\ SeqOfPacket(n) # None
      BY <1>1, <1>2, <1>5, RankType, HalfRangeAssumption DEF Exists, None, SeqNums, FullRange
    <3>3. PICK k \in Span : received_packets.entries[i] = SeqOfPacket(k) /\ Noted(k)
      BY <3>1, <3>2 DEF ReceivingInv, BufferNoted
    <3>4. k = n
      BY <1>1, <1>2, <3>2, <3>3, RankInjective
    <3> QED
      BY <3>3, <3>4
  <2>3. Noted(m)
    BY <2>2
  <2> QED
    BY <2>1, <2>3 DEF Noted, Newest, RankOf
<1>6. CASE ~Exists(SeqOfPacket(n))
  <2> SUFFICES /\ m <= Newest'
               /\ Newest' - m \in 1 .. AckBitsWindow => Newest' - m - 1 \in ack_bits'
    BY DEF Noted
  <2>1. \/ m = n
        \/ m <= Newest /\ (Newest - m \in 1 .. AckBitsWindow
                             => Newest - m - 1 \in ack_bits)
    BY DEF Noted
  <2>2. CASE /\ n > Newest /\ n - Newest < AckBitsWindow
             /\ Newest' = n
             /\ ack_bits' = ShiftedLeft(ack_bits, n - Newest) \cup {n - Newest - 1}
    <3>1. CASE m = n
      BY <1>2, <2>2, <3>1
    <3>2. CASE m = Newest
      BY <1>2, <1>3, <2>2, <3>2
    <3>3. CASE m < Newest /\ n - m \in 1 .. AckBitsWindow
      <4>1. Newest - m \in 1 .. AckBitsWindow
        BY <1>2, <1>3, <2>2, <3>3
      <4>2. Newest - m - 1 \in ack_bits
        BY <1>2, <2>1, <2>2, <3>3, <4>1
      <4>3. n - m - 1 \in BitPositions /\ (n - m - 1) - (n - Newest) = Newest - m - 1
        BY <1>2, <1>3, <3>3 DEF BitPositions
      <4>4. n - m - 1 \in ShiftedLeft(ack_bits, n - Newest)
        BY <4>2, <4>3 DEF ShiftedLeft
      <4> QED
        BY <1>2, <2>2, <3>3, <4>4
    <3> QED
      BY <1>2, <2>1, <2>2, <3>1, <3>2, <3>3
  <2>3. CASE /\ n > Newest /\ n - Newest = AckBitsWindow
             /\ Newest' = n
             /\ ack_bits' = ack_bits \cup {n - Newest - 1}
    BY <1>2, <1>3, <2>1, <2>3
  <2>4. CASE /\ n > Newest /\ n - Newest > AckBitsWindow
             /\ Newest' = n
    BY <1>2, <1>3, <2>1, <2>4
  <2>5. CASE /\ n <= Newest
             /\ Newest' = Newest
             /\ ack_bits' = IF Newest - n \in 1 .. AckBitsWindow
                            THEN ack_bits \cup {Newest - n - 1} ELSE ack_bits
    BY <1>2, <1>3, <2>1, <2>5
  <2> QED
    BY <1>6, <2>2, <2>3, <2>4, <2>5, NoteBits DEF ReceivingInv
<1> QED
  BY <1>5, <1>6

\* skipped_window never clears.
LEMMA SkippedStays ==
  ASSUME NEW s, Note(s), skipped_window PROVE skipped_window'
BY DEF Note, Advance, FillIn

\* What was sound to claim stays so.
LEMMA InfoStable ==
  ASSUME start' = start, received \subseteq received',
         skipped_window => skipped_window',
         NEW CONSTANT ack, NEW CONSTANT bits, InfoSound(ack, bits)
  PROVE  InfoSound(ack, bits)'
BY DEF InfoSound, RankOf, FirstRank, SeqOfPacket, Arrived

LEMMA ArrivedStable ==
  ASSUME start' = start, received \subseteq received', NEW CONSTANT n, Arrived(n)
  PROVE  Arrived(n)'
BY DEF Arrived

\* After packet n is noted, the peer still claims only what arrived.
LEMMA NoteHonest ==
  ASSUME TypeOK, ReceivingInv, ~panicked,
         NEW n \in Packets, Note(SeqOfPacket(n)), start' = start,
         received \subseteq received', n \in received' \cup {FirstRank}
  PROVE  InfoSound(remote_sequence, ack_bits)'
<1>1. /\ start \in SeqNums
      /\ Newest \in 0 .. MaxPackets
      /\ Newest \in Span
      /\ remote_sequence = SeqOfPacket(Newest)
  BY NewestType DEF ReceivingInv
<1>2. n \in Span /\ n \in Nat /\ n >= 1 /\ Newest \in Nat
  BY <1>1, SpanFacts DEF Span, Packets
<1>3. AckBitsWindow \in Nat /\ \A i \in ack_bits : i \in Nat
  BY ReliabilityAssumption DEF TypeOK, BitPositions
<1>4. /\ Newest \in received \cup {FirstRank}
      /\ ~skipped_window => \A i \in ack_bits : Arrived(Newest - i - 1)
  BY DEF ReceivingInv, InfoSound, Newest
<1> DEFINE A(k) == k \in received' \/ k < 1 \/ (start = 0 /\ k = 1)
<1>5. SUFFICES /\ Newest' \in received' \cup {FirstRank}
               /\ remote_sequence' = SeqOfPacket(Newest')
               /\ ~skipped_window' => \A i \in ack_bits' : A(Newest' - i - 1)
  BY DEF InfoSound, Newest, RankOf, FirstRank, SeqOfPacket, Arrived
<1>6. A(Newest) /\ A(n)
  BY <1>1, <1>2, <1>4 DEF Arrived, FirstRank
<1>7. \A k : Arrived(k) => A(k)
  BY DEF Arrived
<1> HIDE DEF A
<1>8. CASE Exists(SeqOfPacket(n))
  <2>1. UNCHANGED <<remote_sequence, ack_bits, skipped_window>> /\ Newest' = Newest
    BY <1>8 DEF Note, Newest, RankOf
  <2> QED
    BY <1>1, <1>4, <1>7, <2>1
<1>9. CASE ~Exists(SeqOfPacket(n))
  <2>1. CASE /\ n > Newest /\ n - Newest < AckBitsWindow
             /\ Newest' = n /\ remote_sequence' = SeqOfPacket(n)
             /\ ack_bits' = ShiftedLeft(ack_bits, n - Newest) \cup {n - Newest - 1}
             /\ UNCHANGED <<panicked, skipped_window>>
    <3> SUFFICES ASSUME ~skipped_window, NEW i \in ack_bits'
                 PROVE  A(n - i - 1)
      BY <2>1
    <3>1. CASE i = n - Newest - 1
      <4>1. n - i - 1 = Newest
        BY <1>2, <3>1
      <4> QED
        BY <1>6, <4>1
    <3>2. CASE i \in ShiftedLeft(ack_bits, n - Newest)
      <4>1. i \in Nat /\ i - (n - Newest) \in ack_bits
        BY <3>2, ReliabilityAssumption DEF ShiftedLeft, BitPositions
      <4>2. Newest - (i - (n - Newest)) - 1 = n - i - 1
        BY <1>2, <4>1
      <4>3. Arrived(n - i - 1)
        BY <1>4, <4>1, <4>2
      <4> QED
        BY <1>7, <4>3
    <3> QED
      BY <2>1, <3>1, <3>2
  <2>2. CASE /\ Newest' = n /\ remote_sequence' = SeqOfPacket(n) /\ skipped_window'
    BY <2>2
  <2>3. CASE /\ Newest' = Newest /\ UNCHANGED remote_sequence /\ skipped_window'
    BY <1>1, <1>4, <2>3
  <2>4. CASE /\ Newest' = n /\ remote_sequence' = SeqOfPacket(n) /\ ack_bits' = {}
    BY <2>4
  <2>5. CASE /\ n <= Newest
             /\ Newest' = Newest /\ UNCHANGED remote_sequence
             /\ ack_bits' = IF Newest - n \in 1 .. AckBitsWindow
                            THEN ack_bits \cup {Newest - n - 1} ELSE ack_bits
             /\ UNCHANGED <<panicked, skipped_window>>
    <3> SUFFICES ASSUME ~skipped_window, NEW i \in ack_bits'
                 PROVE  A(Newest - i - 1)
      BY <1>1, <1>4, <2>5
    <3>1. CASE i = Newest - n - 1
      <4>1. Newest - i - 1 = n
        BY <1>2, <3>1
      <4> QED
        BY <1>6, <4>1
    <3>2. CASE i \in ack_bits
      BY <1>4, <1>7, <3>2
    <3> QED
      BY <2>5, <3>1, <3>2
  <2> QED
    BY <1>9, <2>1, <2>2, <2>3, <2>4, <2>5, NoteBits DEF ReceivingInv
<1> QED
  BY <1>8, <1>9

\* The buffer is told of packet n and forgets some others: what it recognises as a
\* repeat is still noted.
LEMMA NoteBuffer ==
  ASSUME TypeOK, ReceivingInv, ~panicked,
         NEW n \in Packets, Note(SeqOfPacket(n)), start' = start, ~panicked'
  PROVE  BufferNoted'
<1>1. n \in Span
  BY SpanFacts DEF Span, Packets
<1>2. \A m \in Span : Noted(m) \/ m = n => Noted(m)'
  BY NoteNotes
<1>3. SUFFICES ASSUME NEW i \in 0 .. BufferSize - 1, received_packets'.entries[i] # None
               PROVE  \E m \in Span : received_packets'.entries[i] = SeqOfPacket(m) /\ Noted(m)'
  BY DEF BufferNoted, SeqOfPacket
<1>4. received_packets'.entries[i] \in {SeqOfPacket(n), None, received_packets.entries[i]}
  <2>1. received_packets' \in {received_packets, Inserted(SeqOfPacket(n))}
    BY DEF Note
  <2>2. Inserted(SeqOfPacket(n)).entries[i]
          \in {SeqOfPacket(n), None, received_packets.entries[i]}
    BY DEF Inserted
  <2> QED
    BY <2>1, <2>2
<1>5. CASE received_packets'.entries[i] = SeqOfPacket(n)
  BY <1>1, <1>2, <1>5
<1>6. CASE received_packets'.entries[i] = received_packets.entries[i]
  <2>1. PICK m \in Span : received_packets.entries[i] = SeqOfPacket(m) /\ Noted(m)
    BY <1>3, <1>6 DEF ReceivingInv, BufferNoted
  <2> QED
    BY <1>2, <1>6, <2>1
<1> QED
  BY <1>3, <1>4, <1>5, <1>6

LEMMA SlotType ==
  ASSUME NEW s \in SeqNums PROVE Slot(s) \in 0 .. BufferSize - 1
BY ReliabilityAssumption, HalfRangeAssumption DEF Slot, SeqNums, FullRange

LEMMA NoteType ==
  ASSUME TypeOK, NEW s \in SeqNums, Note(s)
  PROVE  /\ remote_sequence' \in SeqNums
         /\ ack_bits' \subseteq BitPositions
         /\ received_packets' \in
              [sequence : SeqNums, entries : [0 .. BufferSize - 1 -> SeqNums \cup {None}]]
         /\ panicked' \in BOOLEAN
         /\ skipped_window' \in BOOLEAN
<1>1. received_packets' \in {received_packets, Inserted(s)}
  BY DEF Note
<1>2. Inserted(s) \in
        [sequence : SeqNums, entries : [0 .. BufferSize - 1 -> SeqNums \cup {None}]]
  <2> DEFINE newest == received_packets.sequence
             passed == {SeqPlus(newest, j) : j \in 1 .. SeqDiff(s, newest)}
             kept(i) ==
               IF SeqGreater(s, newest)
                  /\ (SeqDiff(s, newest) >= BufferSize \/ \E q \in passed : Slot(q) = i)
               THEN None ELSE received_packets.entries[i]
  <2>1. newest \in SeqNums
    BY DEF TypeOK
  <2>2. \A i \in 0 .. BufferSize - 1 : kept(i) \in SeqNums \cup {None}
    BY DEF TypeOK
  <2>3. Inserted(s) = [sequence |-> IF SeqGreater(s, newest) THEN s ELSE newest,
                       entries |-> [i \in 0 .. BufferSize - 1 |->
                                      IF i = Slot(s) THEN s ELSE kept(i)]]
    BY DEF Inserted
  <2> HIDE DEF newest, kept
  <2> QED
    BY <2>1, <2>2, <2>3
<1>3. remote_sequence \in SeqNums
  BY DEF TypeOK
<1>4. /\ SeqDiff(s, remote_sequence) \in Int
      /\ SeqGreater(s, remote_sequence) => SeqDiff(s, remote_sequence) > 0
  BY <1>3, HalfRangeAssumption DEF SeqDiff, SeqNums, FullRange, SeqGreater
<1>5. AckBitsWindow \in Nat /\ AckBitsWindow >= 1
  BY ReliabilityAssumption
<1>6. CASE SeqGreater(s, remote_sequence) /\ Advance(s)
  <2> DEFINE d == SeqDiff(s, remote_sequence)
  <2>1. d \in Int /\ d > 0
    BY <1>4, <1>6
  <2>2. d <= AckBitsWindow => d - 1 \in BitPositions
    BY <1>5, <2>1 DEF BitPositions
  <2>3. ShiftedLeft(ack_bits, d) \subseteq BitPositions
    BY DEF ShiftedLeft
  <2>4. remote_sequence' \in SeqNums /\ panicked' \in BOOLEAN /\ skipped_window' \in BOOLEAN
    BY <1>6 DEF Advance, TypeOK
  <2>5. \/ d < AckBitsWindow /\ ack_bits' = ShiftedLeft(ack_bits, d) \cup {d - 1}
        \/ d = AckBitsWindow /\ ack_bits' = ack_bits \cup {d - 1}
        \/ ack_bits' = ack_bits
        \/ ack_bits' = {}
    BY <1>6 DEF Advance
  <2>6. d < AckBitsWindow \/ d = AckBitsWindow => d <= AckBitsWindow
    BY <1>5, <2>1
  <2> HIDE DEF d
  <2> QED
    BY <1>1, <1>2, <2>2, <2>3, <2>4, <2>5, <2>6 DEF TypeOK
<1>7. CASE FillIn(s)
  <2>1. SeqDiff(remote_sequence, s) \in 1 .. AckBitsWindow
          => SeqDiff(remote_sequence, s) - 1 \in BitPositions
    BY <1>5 DEF BitPositions
  <2> QED
    BY <1>1, <1>2, <1>7, <2>1 DEF FillIn, TypeOK
<1> QED
  BY <1>6, <1>7 DEF Note, TypeOK

-----------------------------------------------------------------------------
(* The sending half *)

LEMMA DomainFinite ==
  ASSUME TypeOK
  PROVE  IsFiniteSet(DOMAIN sent_packets)
<1>1. IsFiniteSet(SeqNums)
  BY FS_Interval, HalfRangeAssumption DEF SeqNums, FullRange
<1> QED
  BY <1>1, FS_Subset DEF TypeOK

\* on_packet_sent makes room first, so the map never exceeds its limit.
LEMMA TrackFits ==
  ASSUME TypeOK, NEW s, Track(s)
  PROVE  Cardinality(DOMAIN sent_packets') <= MaxInFlight
<1>1. PICK remaining \in Remaining : DOMAIN sent_packets' = remaining \cup {s}
  BY DEF Track
<1>2. IsFiniteSet(DOMAIN sent_packets)
  BY DomainFinite
<1>3. Cardinality(DOMAIN sent_packets) \in Nat /\ MaxInFlight \in Nat
  BY <1>2, FS_CardinalityType, ReliabilityAssumption
<1>4. IsFiniteSet(remaining) /\ Cardinality(remaining) \in Nat
      /\ Cardinality(remaining) + 1 <= MaxInFlight
  <2>1. CASE MustEvict
    <3>1. PICK w \in DOMAIN sent_packets : remaining = DOMAIN sent_packets \ {w}
      BY <1>1, <2>1 DEF Remaining
    <3>2. /\ IsFiniteSet(remaining)
          /\ Cardinality(remaining) = Cardinality(DOMAIN sent_packets) - 1
      BY <1>2, <3>1, FS_RemoveElement
    <3>3. Cardinality(remaining) \in Nat
      BY <3>2, FS_CardinalityType
    <3>4. Cardinality(DOMAIN sent_packets) <= MaxInFlight
      BY DEF TypeOK
    <3> QED
      BY <1>3, <3>2, <3>3, <3>4
  <2>2. CASE ~MustEvict
    <3>1. remaining = DOMAIN sent_packets
      BY <1>1, <2>2 DEF Remaining
    <3> QED
      BY <1>2, <1>3, <2>2, <3>1 DEF MustEvict
  <2> QED
    BY <2>1, <2>2
<1>5. Cardinality(remaining \cup {s}) \in {Cardinality(remaining), Cardinality(remaining) + 1}
  BY <1>4, FS_AddElement
<1> QED
  BY <1>1, <1>3, <1>4, <1>5

\* Numbering a packet and perhaps tracking it.
LEMMA SendStep ==
  ASSUME IInv, SendPacket
  PROVE  TypeOK' /\ SendingInv'
<1>1. start' = start /\ start \in SeqNums
  BY ReliabilityAssumption DEF IInv, TypeOK, SendPacket
<1>2. sent \in Nat /\ sent + 1 \in Packets /\ sent' = sent + 1 /\ MaxPackets \in Nat
      /\ sent' \in 0 .. MaxPackets
  BY ReliabilityAssumption DEF IInv, TypeOK, SendPacket, Packets
<1>3. local_sequence = SeqOfPacket(sent + 1) /\ local_sequence \in SeqNums
  BY DEF IInv, SendingInv, TypeOK
<1>4. local_sequence' = SeqOfPacket(sent + 1 + 1)
  BY <1>1, <1>2, <1>3, SpanFacts
     DEF SendPacket, SeqOfPacket, SeqNext, SeqPlus, SeqNums, FullRange, Span
<1>5. local_sequence' \in SeqNums
  BY <1>3, HalfRangeAssumption DEF SendPacket, SeqNext, SeqPlus, SeqNums, FullRange
<1>6. /\ DOMAIN sent_packets' \subseteq DOMAIN sent_packets \cup {local_sequence}
      /\ sent_packets' = [s \in DOMAIN sent_packets' |-> sent_packets'[s]]
      /\ Cardinality(DOMAIN sent_packets') <= MaxInFlight
      /\ \A s \in DOMAIN sent_packets' :
           \/ s \in DOMAIN sent_packets /\ sent_packets'[s] = sent_packets[s]
           \/ /\ s = local_sequence
              /\ sent_packets'[s] =
                   [packet |-> sent + 1, send_time |-> now, nack_count |-> 0]
  <2>1. CASE Track(local_sequence)
    <3>1. PICK remaining \in Remaining :
            sent_packets' =
              [s \in remaining \cup {local_sequence} |->
                 IF s = local_sequence
                 THEN [packet |-> sent + 1, send_time |-> now, nack_count |-> 0]
                 ELSE sent_packets[s]]
      BY <2>1 DEF Track
    <3>2. remaining \subseteq DOMAIN sent_packets
      BY DEF Remaining
    <3>3. Cardinality(DOMAIN sent_packets') <= MaxInFlight
      BY <2>1, TrackFits DEF IInv
    <3> QED
      BY <3>1, <3>2, <3>3
  <2>2. CASE UNCHANGED sent_packets
    BY <2>2 DEF IInv, TypeOK
  <2> QED
    BY <2>1, <2>2 DEF SendPacket
<1>7. [packet |-> sent + 1, send_time |-> now, nack_count |-> 0] \in
        [packet : Packets, send_time : 0 .. MaxTime, nack_count : 0 .. MaxNackCount]
  BY <1>2, ReliabilityAssumption DEF IInv, TypeOK
<1>8. TypeOK'
  <2>1. DOMAIN sent_packets' \subseteq SeqNums
    BY <1>3, <1>6 DEF IInv, TypeOK
  <2>2. sent_packets' \in [DOMAIN sent_packets' ->
          [packet : Packets, send_time : 0 .. MaxTime, nack_count : 0 .. MaxNackCount]]
    <3>1. \A s \in DOMAIN sent_packets' : sent_packets'[s] \in
            [packet : Packets, send_time : 0 .. MaxTime, nack_count : 0 .. MaxNackCount]
      BY <1>6, <1>7 DEF IInv, TypeOK
    <3> HIDE DEF IInv
    <3> QED
      BY <1>6, <3>1
  <2>3. DOMAIN tracked_at' \subseteq Packets /\ tracked_at' \in [DOMAIN tracked_at' -> 0 .. MaxTime]
    <3>1. /\ DOMAIN tracked_at \subseteq Packets /\ now \in 0 .. MaxTime
          /\ tracked_at \in [DOMAIN tracked_at -> 0 .. MaxTime]
      BY DEF IInv, TypeOK
    <3>2. CASE tracked_at' = [n \in DOMAIN tracked_at \cup {sent + 1} |->
                                IF n = sent + 1 THEN now ELSE tracked_at[n]]
      BY <1>2, <3>1, <3>2
    <3> QED
      BY <3>1, <3>2 DEF SendPacket
  <2>4. start' \in Starts /\ overflow_checks' \in BOOLEAN /\ now' \in 0 .. MaxTime
        /\ acked' \subseteq Packets /\ reports' \in [Packets -> Nat]
    BY DEF IInv, TypeOK, SendPacket
  <2> QED
    BY <1>2, <1>5, <1>6, <2>1, <2>2, <2>3, <2>4
       DEF IInv, TypeOK, SendPacket, receivingVars
<1>9. \A n \in Packets : n > sent' => reports'[n] = 0
  BY <1>2 DEF IInv, SendingInv, SendPacket, Packets
<1>10. ASSUME NEW s \in DOMAIN sent_packets'
       PROVE  /\ sent_packets'[s].packet <= sent'
              /\ s = SeqOfPacket(sent_packets'[s].packet)
              /\ sent_packets'[s].nack_count < FastRetransmitThreshold
                   => reports'[sent_packets'[s].packet] = 0
  <2>1. reports' = reports
    BY DEF SendPacket
  <2>2. CASE s \in DOMAIN sent_packets /\ sent_packets'[s] = sent_packets[s]
    <3>1. sent_packets[s].packet \in Nat
      BY <2>2, SpanFacts DEF IInv, TypeOK, Packets
    <3> QED
      BY <1>2, <2>1, <2>2, <3>1 DEF IInv, SendingInv
  <2>3. CASE s = local_sequence /\ sent_packets'[s].packet = sent + 1
    <3>1. reports[sent + 1] = 0
      BY <1>2 DEF IInv, SendingInv
    <3> QED
      BY <1>2, <1>3, <2>1, <2>3, <3>1
  <2> QED
    BY <1>6, <2>2, <2>3
<1> QED
  BY <1>1, <1>2, <1>4, <1>8, <1>9, <1>10 DEF SendingInv, SeqOfPacket

\* The number in a raw header is that of packet 1 of a new connection, so as an
\* acknowledgment it claims nothing else.
LEMMA RawHeaderSound ==
  ASSUME TypeOK, start = 0
  PROVE  InfoSound(0, {}) /\ 0 = SeqOfPacket(1)
BY HalfRangeAssumption
   DEF InfoSound, RankOf, FirstRank, SeqOfPacket, SeqPlus, SeqDiff, FullRange

\* A packet that is nacked was overtaken: a later one arrived.
LEMMA NackedOvertaken ==
  ASSUME TypeOK, NEW ack, NEW bits, InfoSound(ack, bits),
         NEW n \in Packets, SeqGreater(ack, SeqOfPacket(n))
  PROVE  \E later \in received : later > n
<1> DEFINE r == RankOf(ack)
<1>1. start \in SeqNums
  BY ReliabilityAssumption DEF TypeOK
<1>2. r \in Packets \/ r = FirstRank
  BY DEF InfoSound, TypeOK
<1>3. FirstRank \in {0, 1}
  BY DEF FirstRank
<1>4. ack = SeqOfPacket(r) /\ r \in received \cup {FirstRank}
  BY DEF InfoSound
<1> HIDE DEF r
<1>5. r \in Span /\ n \in Span /\ n >= 1
  BY <1>2, <1>3, SpanFacts DEF Span, Packets
<1>6. r > n
  BY <1>1, <1>4, <1>5, RankDiff
<1>7. r # FirstRank
  BY <1>3, <1>5, <1>6, SpanFacts DEF Span
<1> QED
  BY <1>4, <1>6, <1>7

\* process_acks, told anything sound, however old or often repeated.
LEMMA AcksStep ==
  ASSUME IInv, NEW ack \in SeqNums, NEW bits \in SUBSET BitPositions,
         InfoSound(ack, bits), ProcessAcks(ack, bits)
  PROVE  /\ TypeOK' /\ SendingInv' /\ FastRetransmitSound'
         /\ ~skipped_window => \A n \in acked' : Arrived(n)
<1> DEFINE tracked == DOMAIN sent_packets
           hit     == {s \in tracked : Covers(ack, bits, s)}
           nacked  == Nacked(ack, bits)
           reported == {sent_packets[s].packet : s \in {n \in nacked : AtThreshold(n)}}
<1>1. /\ sent_packets' =
           [s \in tracked \ hit |->
              IF s \in nacked
              THEN [sent_packets[s] EXCEPT !.nack_count = NackCountAfter(s)]
              ELSE sent_packets[s]]
      /\ acked' = acked \cup {sent_packets[s].packet : s \in hit}
      /\ reports' = [n \in Packets |->
                       IF n \in reported THEN reports[n] + 1 ELSE reports[n]]
      /\ UNCHANGED <<start, overflow_checks, now, local_sequence, sent, tracked_at,
                     receivingVars, ack_infos>>
  BY DEF ProcessAcks
<1>2. /\ start \in SeqNums /\ TypeOK
      /\ \A s \in tracked :
           /\ sent_packets[s] \in [packet : Packets, send_time : 0 .. MaxTime,
                                   nack_count : 0 .. MaxNackCount]
           /\ s = SeqOfPacket(sent_packets[s].packet)
           /\ sent_packets[s].packet <= sent
           /\ sent_packets[s].nack_count < FastRetransmitThreshold
                => reports[sent_packets[s].packet] = 0
  BY ReliabilityAssumption DEF IInv, TypeOK, SendingInv
<1>3. /\ MaxNackCount \in Nat /\ FastRetransmitThreshold \in Nat
      /\ FastRetransmitThreshold < MaxNackCount
  BY ReliabilityAssumption
<1>4. \A s \in tracked :
        /\ NackCountAfter(s) \in 0 .. MaxNackCount
        /\ NackCountAfter(s) <= FastRetransmitThreshold
             => sent_packets[s].nack_count < FastRetransmitThreshold
  BY <1>2, <1>3 DEF NackCountAfter
<1>5. nacked \subseteq tracked \ hit
  BY DEF Nacked
\* The packet of a record is told from its number.
<1>6. \A s, t \in tracked : sent_packets[s].packet = sent_packets[t].packet => s = t
  BY <1>2
<1>7. reports \in [Packets -> Nat] /\ acked \subseteq Packets
  BY DEF IInv, TypeOK
<1>8. TypeOK'
  <2>1. DOMAIN sent_packets' \subseteq tracked
    BY <1>1
  <2>2. Cardinality(DOMAIN sent_packets') <= MaxInFlight
    <3>1. IsFiniteSet(tracked)
      BY <1>2, DomainFinite
    <3>2. /\ Cardinality(DOMAIN sent_packets') <= Cardinality(tracked)
          /\ Cardinality(DOMAIN sent_packets') \in Nat /\ Cardinality(tracked) \in Nat
      BY <2>1, <3>1, FS_Subset, FS_CardinalityType
    <3>3. Cardinality(tracked) <= MaxInFlight /\ MaxInFlight \in Nat
      BY <1>2, ReliabilityAssumption DEF TypeOK
    <3> QED
      BY <3>2, <3>3
  <2>3. \A s \in tracked :
          [sent_packets[s] EXCEPT !.nack_count = NackCountAfter(s)] \in
            [packet : Packets, send_time : 0 .. MaxTime, nack_count : 0 .. MaxNackCount]
    BY <1>2, <1>4
  <2>4. sent_packets' \in [DOMAIN sent_packets' ->
          [packet : Packets, send_time : 0 .. MaxTime, nack_count : 0 .. MaxNackCount]]
    <3> HIDE DEF tracked, hit, nacked
    <3> QED
      BY <1>1, <1>2, <2>3
  <2>5. acked' \subseteq Packets
    BY <1>1, <1>2, <1>7
  <2>6. reports' \in [Packets -> Nat]
    <3> HIDE DEF reported
    <3> QED
      BY <1>1, <1>7
  <2>7. DOMAIN sent_packets' \subseteq SeqNums
    BY <1>2, <2>1 DEF TypeOK
  <2> QED
    BY <1>1, <1>2, <2>2, <2>4, <2>5, <2>6, <2>7 DEF TypeOK, receivingVars
<1>9. \A n \in reported : n \in Packets /\ n <= sent /\ reports[n] = 0
  BY <1>2, <1>3, <1>4, <1>5 DEF AtThreshold
<1>10. SendingInv'
  <2>1. local_sequence' = SeqOfPacket(sent' + 1)
    BY <1>1 DEF IInv, SendingInv
  <2>2. \A n \in Packets : n > sent => n \notin reported
    BY <1>2, <1>9, SpanFacts DEF Packets, TypeOK
  <2>3. \A n \in Packets : n > sent' => reports'[n] = 0
    <3> HIDE DEF reported
    <3> QED
      BY <1>1, <2>2 DEF IInv, SendingInv
  <2>4. ASSUME NEW s \in DOMAIN sent_packets'
        PROVE  /\ sent_packets'[s].packet <= sent'
               /\ s = SeqOfPacket(sent_packets'[s].packet)
               /\ sent_packets'[s].nack_count < FastRetransmitThreshold
                    => reports'[sent_packets'[s].packet] = 0
    <3>1. s \in tracked \ hit
      BY <1>1
    <3>2. sent_packets'[s] =
            IF s \in nacked
            THEN [sent_packets[s] EXCEPT !.nack_count = NackCountAfter(s)]
            ELSE sent_packets[s]
      BY <1>1, <3>1
    <3>3. sent_packets'[s].packet = sent_packets[s].packet
      BY <1>2, <3>1, <3>2
    <3>4. ASSUME sent_packets'[s].nack_count < FastRetransmitThreshold
          PROVE  reports'[sent_packets[s].packet] = 0
      <4>1. reports[sent_packets[s].packet] = 0
        BY <1>2, <1>3, <1>4, <3>1, <3>2, <3>4
      <4>2. sent_packets[s].packet \notin reported
        <5> SUFFICES ASSUME sent_packets[s].packet \in reported
                     PROVE  FALSE
          OBVIOUS
        <5>1. PICK t \in nacked : AtThreshold(t) /\ sent_packets[s].packet = sent_packets[t].packet
          OBVIOUS
        <5>2. t = s
          BY <1>5, <1>6, <3>1, <5>1
        <5>3. sent_packets'[s].nack_count = FastRetransmitThreshold
          BY <1>2, <3>1, <3>2, <5>1, <5>2 DEF AtThreshold
        <5> QED
          BY <1>3, <3>4, <5>3
      <4>3. sent_packets[s].packet \in Packets
        BY <1>2, <3>1
      <4> QED
        BY <1>1, <4>1, <4>2, <4>3
    <3> QED
      BY <1>1, <1>2, <3>1, <3>3, <3>4
  <2> QED
    BY <1>1, <2>1, <2>3, <2>4 DEF SendingInv, SeqOfPacket
<1>11. FastRetransmitSound'
  <2>1. \A n \in reported : \E later \in received : later > n
    <3> SUFFICES ASSUME NEW s \in nacked
                 PROVE  \E later \in received : later > sent_packets[s].packet
      OBVIOUS
    <3>1. sent_packets[s].packet \in Packets /\ SeqGreater(ack, SeqOfPacket(sent_packets[s].packet))
      BY <1>2, <1>5 DEF Nacked
    <3> QED
      BY <1>2, <3>1, NackedOvertaken
  <2>2. received' = received
    BY <1>1 DEF receivingVars
  <2> HIDE DEF reported
  <2> QED
    BY <1>1, <1>9, <2>1, <2>2 DEF IInv, FastRetransmitSound
<1>12. ASSUME ~skipped_window, NEW n \in acked'
       PROVE  Arrived(n)
  <2>1. CASE n \in acked
    BY <1>12, <2>1 DEF IInv, AcksInv
  <2>2. CASE \E s \in hit : n = sent_packets[s].packet
    <3>1. n \in Packets /\ Covers(ack, bits, SeqOfPacket(n))
      BY <1>2, <2>2
    <3>2. n = RankOf(ack) \/ \E i \in bits : n = RankOf(ack) - i - 1
      BY <1>2, <3>1, CoversRank DEF TypeOK
    <3>3. RankOf(ack) = n => n \in received \cup {FirstRank}
      BY DEF InfoSound
    <3> QED
      BY <1>12, <3>1, <3>2, <3>3 DEF InfoSound, Arrived, FirstRank
  <2> QED
    BY <1>1, <2>1, <2>2
<1> QED
  BY <1>8, <1>10, <1>11, <1>12

-----------------------------------------------------------------------------
(* The invariant *)

LEMMA Least ==
  ASSUME NEW S \in SUBSET Nat, S # {}
  PROVE  \E j \in S : \A k \in S : j <= k
<1>1. PICK j \in S : \A k \in S : ~(<<k, j>> \in OpToRel(<, Nat))
  BY NatLessThanWellFounded, WFMin, Zenon
<1>2. \A k \in S : ~(k < j)
  BY <1>1 DEF OpToRel
<1> QED
  BY <1>2

\* What a running connection's buffer holds: numbers of the latest packets.
LEMMA LastInSlotIs ==
  ASSUME NEW i \in 0 .. BufferSize - 1, LastInSlot(i) # None
  PROVE  \E j \in 0 .. BufferSize - 1 : LastInSlot(i) = SeqOfPacket(-j)
<1> DEFINE there == {j \in 0 .. BufferSize - 1 : Slot(SeqOfPacket(-j)) = i}
           first == CHOOSE j \in there : \A k \in there : j <= k
<1>1. there # {} /\ LastInSlot(i) = SeqOfPacket(-first)
  BY DEF LastInSlot
<1>2. there \in SUBSET Nat
  BY ReliabilityAssumption
<1>3. \E j \in there : \A k \in there : j <= k
  <2> HIDE DEF there
  <2> QED
    BY <1>1, <1>2, Least
<1>4. first \in there
  <2> HIDE DEF there
  <2> QED
    BY <1>3
<1> QED
  BY <1>1, <1>4

LEMMA InitInv == Init => IInv
<1> SUFFICES ASSUME Init PROVE IInv
  OBVIOUS
<1>1. start \in SeqNums /\ start \in Starts
  BY ReliabilityAssumption DEF Init
<1>2. 0 \in Span /\ 1 \in Span
  BY SpanFacts DEF Span
<1>3. SeqOfPacket(1) = start
  BY <1>1, HalfRangeAssumption DEF SeqOfPacket, SeqPlus, SeqNums, FullRange
<1>4. remote_sequence = SeqOfPacket(FirstRank) /\ FirstRank \in Span
      /\ RankOf(remote_sequence) = FirstRank
  <2>1. remote_sequence = SeqOfPacket(FirstRank) /\ FirstRank \in Span
    BY <1>2, <1>3 DEF Init, FirstRank
  <2> QED
    BY <1>1, <2>1, RankOfIs
<1>5. ack_bits \subseteq BitPositions /\ \A i \in BitPositions : i \in Nat
  BY ReliabilityAssumption DEF Init, BitPositions
<1> DEFINE held == [i \in 0 .. BufferSize - 1 |-> IF start = 0 THEN None ELSE LastInSlot(i)]
<1>6. received_packets = [sequence |-> remote_sequence, entries |-> held]
  <2>1. CASE start = 0
    <3>1. held = [i \in 0 .. BufferSize - 1 |-> None]
      BY <2>1
    <3> HIDE DEF held
    <3> QED
      BY <2>1, <3>1 DEF Init
  <2>2. CASE start # 0
    <3>1. held = [i \in 0 .. BufferSize - 1 |-> LastInSlot(i)]
      BY <2>2
    <3> HIDE DEF held
    <3> QED
      BY <2>2, <3>1 DEF Init
  <2> QED
    BY <2>1, <2>2
<1>7. /\ received_packets.sequence = remote_sequence
       /\ received_packets.entries = held
  <2> HIDE DEF held
  <2> QED
    BY <1>6
<1>8. \A i \in 0 .. BufferSize - 1 :
         received_packets.entries[i] = IF start = 0 THEN None ELSE LastInSlot(i)
  BY <1>7
<1>9. ASSUME NEW i \in 0 .. BufferSize - 1, received_packets.entries[i] # None
      PROVE  start # 0 /\ \E j \in 0 .. BufferSize - 1 :
                            received_packets.entries[i] = SeqOfPacket(-j)
  <2>1. start # 0
    BY <1>9, <1>8
  <2>2. received_packets.entries[i] = LastInSlot(i)
    BY <1>8, <2>1
  <2> QED
    BY <1>9, <2>1, <2>2, LastInSlotIs
<1>10. \A j \in 0 .. BufferSize - 1 : -j \in Span /\ j \in Nat
  BY SpanFacts, ReliabilityAssumption DEF Span
<1>11. TypeOK
  <2>1. remote_sequence \in SeqNums
    BY <1>1, <1>4, RankType
  <2>2. \A i \in 0 .. BufferSize - 1 : received_packets.entries[i] \in SeqNums \cup {None}
    BY <1>1, <1>9, <1>10, RankType
  <2>3. received_packets \in
          [sequence : SeqNums, entries : [0 .. BufferSize - 1 -> SeqNums \cup {None}]]
    <3>1. \A i \in 0 .. BufferSize - 1 : held[i] \in SeqNums \cup {None}
      BY <1>7, <2>2
    <3>2. held = [i \in 0 .. BufferSize - 1 |-> held[i]]
      OBVIOUS
    <3> HIDE DEF held
    <3>3. held \in [0 .. BufferSize - 1 -> SeqNums \cup {None}]
      BY <3>1, <3>2
    <3> QED
      BY <1>6, <2>1, <3>3
  <2>4. Cardinality(DOMAIN sent_packets) <= MaxInFlight
    <3>1. DOMAIN sent_packets = {}
      BY DEF Init
    <3> QED
      BY <3>1, FS_EmptySet, ReliabilityAssumption
  <2>5. now \in 0 .. MaxTime /\ sent \in 0 .. MaxPackets
    BY ReliabilityAssumption DEF Init
  <2>6. sent_packets \in [DOMAIN sent_packets ->
          [packet : Packets, send_time : 0 .. MaxTime, nack_count : 0 .. MaxNackCount]]
        /\ DOMAIN sent_packets \subseteq SeqNums
    BY DEF Init
  <2>7. reports \in [Packets -> Nat]
    BY DEF Init
  <2> QED
    BY <1>1, <1>5, <2>1, <2>3, <2>4, <2>5, <2>6, <2>7 DEF Init, TypeOK
<1>12. SendingInv
  BY <1>1, <1>3 DEF Init, SendingInv
<1>13. InfoSound(remote_sequence, ack_bits)
  <2>1. \A i \in ack_bits : Arrived(FirstRank - i - 1)
    <3>1. CASE start = 0
      BY <3>1 DEF Init
    <3>2. CASE start # 0
      BY <1>5, <3>2 DEF Arrived, FirstRank
    <3> QED
      BY <3>1, <3>2
  <2> QED
    BY <1>4, <2>1 DEF InfoSound
<1>14. BufferNoted
  <2> SUFFICES ASSUME NEW i \in 0 .. BufferSize - 1, received_packets.entries[i] # None
               PROVE  \E n \in Span : received_packets.entries[i] = SeqOfPacket(n) /\ Noted(n)
    BY DEF BufferNoted
  <2>1. PICK j \in 0 .. BufferSize - 1 : received_packets.entries[i] = SeqOfPacket(-j)
    BY <1>9
  <2>2. start # 0 /\ Newest = 0 /\ ack_bits = BitPositions
    BY <1>4, <1>9 DEF Init, Newest, FirstRank
  <2>3. Noted(-j)
    BY <1>10, <2>2, ReliabilityAssumption DEF Noted, BitPositions
  <2> QED
    BY <1>10, <2>1, <2>3
<1>15. ReceivingInv /\ AcksInv /\ FastRetransmitSound
  BY <1>13, <1>14 DEF Init, ReceivingInv, AcksInv, FastRetransmitSound
<1> QED
  BY <1>11, <1>12, <1>15 DEF IInv

\* Recording what arrives, from a packet or from a raw header.
LEMMA NoteStep ==
  ASSUME IInv, ~panicked, NEW n \in Packets, Note(SeqOfPacket(n)),
         received' = received \/ (received' = received \cup {n} /\ n <= sent),
         n \in received' \cup {FirstRank},
         UNCHANGED <<start, overflow_checks, sendingVars, ack_infos>>
  PROVE  IInv'
<1>1. /\ TypeOK /\ ReceivingInv /\ start' = start /\ n \in Span
      /\ received \subseteq received' /\ SeqOfPacket(n) \in SeqNums
  <2>1. TypeOK /\ ReceivingInv
    BY DEF IInv
  <2>2. start \in SeqNums
    BY <2>1, ReliabilityAssumption DEF TypeOK
  <2>3. n \in Span
    BY SpanFacts DEF Span, Packets
  <2>4. SeqOfPacket(n) \in SeqNums
    BY <2>2, <2>3, RankType
  <2> QED
    BY <2>1, <2>3, <2>4
<1>2. TypeOK'
  BY <1>1, NoteType DEF TypeOK, sendingVars
<1>3. SendingInv'
  BY DEF IInv, SendingInv, sendingVars, SeqOfPacket
<1>4. InfoSound(remote_sequence, ack_bits)'
  BY <1>1, NoteHonest
<1>5. ASSUME ~panicked'
      PROVE  BufferNoted' /\ \A m \in received' : Noted(m)'
  <2>1. BufferNoted'
    BY <1>1, <1>5, NoteBuffer
  <2>2. \A m \in received' : m \in Span /\ (m = n \/ Noted(m))
    BY <1>1, SpanFacts DEF ReceivingInv, TypeOK, Span, Packets
  <2>3. \A m \in Span : Noted(m) \/ m = n => Noted(m)'
    BY <1>1, <1>5, NoteNotes
  <2> QED
    BY <2>1, <2>2, <2>3
<1>6. ReceivingInv'
  <2>1. \A m \in received' : m <= sent'
    BY DEF IInv, ReceivingInv, sendingVars
  <2> QED
    BY <1>4, <1>5, <2>1 DEF ReceivingInv
<1>7. skipped_window => skipped_window'
  BY SkippedStays
<1>8. AcksInv'
  <2>1. \A info \in ack_infos : InfoSound(info.ack, info.ack_bits)'
    BY <1>1, <1>7, InfoStable DEF IInv, AcksInv
  <2>2. \A m : Arrived(m) => Arrived(m)'
    BY <1>1, ArrivedStable
  <2> QED
    BY <1>7, <2>1, <2>2 DEF IInv, AcksInv, sendingVars
<1>9. FastRetransmitSound'
  BY <1>1 DEF IInv, FastRetransmitSound, sendingVars
<1> QED
  BY <1>2, <1>3, <1>6, <1>8, <1>9 DEF IInv

LEMMA AcksInvKept ==
  ASSUME IInv, NEW ack \in SeqNums, NEW bits \in SUBSET BitPositions,
         InfoSound(ack, bits), ProcessAcks(ack, bits)
  PROVE  IInv'
<1>1. /\ TypeOK' /\ SendingInv' /\ FastRetransmitSound'
      /\ ~skipped_window => \A n \in acked' : Arrived(n)
  BY AcksStep
<1>2. UNCHANGED <<start, sent, receivingVars, ack_infos>>
  BY DEF ProcessAcks
<1>3. ReceivingInv'
  BY <1>2 DEF IInv, ReceivingInv, BufferNoted, Noted, Newest, InfoSound, Arrived, RankOf,
              FirstRank, SeqOfPacket, receivingVars
<1>4. AcksInv'
  BY <1>1, <1>2 DEF IInv, AcksInv, InfoSound, Arrived, RankOf, FirstRank, SeqOfPacket,
                    receivingVars
<1> QED
  BY <1>1, <1>3, <1>4 DEF IInv

LEMMA NextInv == IInv /\ [Next]_vars => IInv'
<1> SUFFICES ASSUME IInv, [Next]_vars PROVE IInv'
  OBVIOUS
<1>1. CASE SendPacket
  <2>1. TypeOK' /\ SendingInv'
    BY <1>1, SendStep
  <2>2. UNCHANGED <<start, acked, reports, receivingVars, ack_infos>> /\ sent' = sent + 1
    BY <1>1 DEF SendPacket
  <2>3. sent \in Nat /\ received \subseteq Packets /\ \A n \in Packets : n \in Nat
    BY SpanFacts DEF IInv, TypeOK, Packets
  <2>4. \A n \in received : n <= sent'
    BY <2>2, <2>3 DEF IInv, ReceivingInv
  <2>5. ReceivingInv'
    BY <2>2, <2>4 DEF IInv, ReceivingInv, BufferNoted, Noted, Newest, InfoSound, Arrived,
                      RankOf, FirstRank, SeqOfPacket, receivingVars
  <2>6. AcksInv' /\ FastRetransmitSound'
    BY <2>2 DEF IInv, AcksInv, FastRetransmitSound, InfoSound, Arrived, RankOf, FirstRank,
                SeqOfPacket, receivingVars
  <2> QED
    BY <2>1, <2>5, <2>6 DEF IInv
<1>2. ASSUME NEW n \in Packets, OnPacketReceived(n)
      PROVE  IInv'
  BY <1>2, NoteStep DEF OnPacketReceived
<1>3. CASE GetAckInfo
  <2>1. TypeOK'
    BY <1>3 DEF GetAckInfo, IInv, TypeOK, sendingVars, receivingVars
  <2>2. SendingInv' /\ FastRetransmitSound'
    BY <1>3 DEF GetAckInfo, IInv, SendingInv, FastRetransmitSound, sendingVars,
                receivingVars, SeqOfPacket
  <2>3. ReceivingInv'
    BY <1>3 DEF GetAckInfo, IInv, ReceivingInv, BufferNoted, Noted, Newest, InfoSound,
                Arrived, RankOf, FirstRank, SeqOfPacket, sendingVars, receivingVars
  <2>4. \A info \in ack_infos' : InfoSound(info.ack, info.ack_bits)
    BY <1>3 DEF GetAckInfo, IInv, AcksInv, ReceivingInv
  <2>5. AcksInv'
    BY <1>3, <2>4 DEF GetAckInfo, IInv, AcksInv, InfoSound, Arrived, RankOf, FirstRank,
                      SeqOfPacket, sendingVars, receivingVars
  <2> QED
    BY <2>1, <2>2, <2>3, <2>5 DEF IInv
<1>4. ASSUME NEW info \in ack_infos, ProcessAcks(info.ack, info.ack_bits)
      PROVE  IInv'
  <2>1. info.ack \in SeqNums /\ info.ack_bits \in SUBSET BitPositions
    BY DEF IInv, TypeOK
  <2>2. InfoSound(info.ack, info.ack_bits)
    BY DEF IInv, AcksInv
  <2> QED
    BY <1>4, <2>1, <2>2, AcksInvKept
<1>5. CASE ReceiveRawHeader
  <2>1. TypeOK /\ start = 0 /\ 0 = SeqOfPacket(1) /\ 1 \in Packets
    BY <1>5, RawHeaderSound, SpanFacts DEF ReceiveRawHeader, IInv, Packets
  <2>2. ~panicked /\ Note(SeqOfPacket(1)) /\ received' = received /\ 1 \in received' \cup {FirstRank}
        /\ UNCHANGED <<start, overflow_checks, sendingVars, ack_infos>>
    BY <1>5, <2>1 DEF ReceiveRawHeader, FirstRank
  <2> QED
    BY <2>1, <2>2, NoteStep
<1>6. CASE ProcessRawHeader
  <2>1. InfoSound(0, {}) /\ 0 \in SeqNums /\ {} \in SUBSET BitPositions
    BY <1>6, RawHeaderSound, HalfRangeAssumption
       DEF ProcessRawHeader, IInv, SeqNums, FullRange
  <2> QED
    BY <1>6, <2>1, AcksInvKept DEF ProcessRawHeader
<1>7. CASE Tick \/ UNCHANGED vars
  <2>1. UNCHANGED <<start, overflow_checks, local_sequence, sent_packets, sent, tracked_at,
                    acked, reports, receivingVars, ack_infos>>
    BY <1>7 DEF Tick, vars, sendingVars, receivingVars
  <2>2. now' \in 0 .. MaxTime
    BY <1>7, ReliabilityAssumption DEF Tick, vars, sendingVars, IInv, TypeOK
  <2>3. TypeOK'
    BY <2>1, <2>2 DEF IInv, TypeOK, receivingVars
  <2> QED
    BY <2>1, <2>3 DEF IInv, SendingInv, ReceivingInv, AcksInv, FastRetransmitSound,
         BufferNoted, Noted, Newest, InfoSound, Arrived, RankOf, FirstRank, SeqOfPacket,
         receivingVars
<1> QED
  BY <1>1, <1>2, <1>3, <1>4, <1>5, <1>6, <1>7 DEF Next

\* Every reachable state satisfies the inductive invariant.
THEOREM ReliabilityInvariance == Spec => []IInv
<1> QED
  BY InitInv, NextInv, PTL DEF Spec

-----------------------------------------------------------------------------
(* What it comes to *)

\* The maps, buffers and counters of an endpoint keep their types and bounds; the
\* map of tracked packets never exceeds max_in_flight (reliability.rs on_packet_sent).
THEOREM ReliabilityTypeCorrect == Spec => []TypeOK
<1>1. IInv => TypeOK
  BY DEF IInv
<1> QED
  BY <1>1, ReliabilityInvariance, PTL

\* A packet that arrived is acknowledged until the window has moved past it, for
\* every window and buffer size and wherever the numbers wrap around.
THEOREM NothingArrivedIsForgotten == Spec => []AckBitsComplete
<1>1. IInv => AckBitsComplete
  <2> SUFFICES ASSUME IInv, ~panicked, NEW n \in received
               PROVE  /\ ~SeqGreater(SeqOfPacket(n), remote_sequence)
                      /\ SeqDiff(remote_sequence, SeqOfPacket(n)) \in 1 .. AckBitsWindow
                           => SeqDiff(remote_sequence, SeqOfPacket(n)) - 1 \in ack_bits
    BY DEF AckBitsComplete
  <2>1. /\ start \in SeqNums /\ Newest \in Span /\ remote_sequence = SeqOfPacket(Newest)
    BY NewestType DEF IInv, ReceivingInv
  <2>2. n \in Span
    BY SpanFacts DEF IInv, TypeOK, Packets, Span
  <2>3. Noted(n)
    BY DEF IInv, ReceivingInv
  <2>4. /\ SeqDiff(remote_sequence, SeqOfPacket(n)) = Newest - n
        /\ SeqGreater(SeqOfPacket(n), remote_sequence) <=> n > Newest
    BY <2>1, <2>2, RankDiff
  <2>5. n \in Int /\ Newest \in Int
    BY <2>1, <2>2, SpanFacts DEF Span
  <2> QED
    BY <2>3, <2>4, <2>5 DEF Noted
<1> QED
  BY <1>1, ReliabilityInvariance, PTL

\* Neither half makes up an acknowledgment, unless remote_sequence once advanced by
\* exactly the width of ack_bits.
THEOREM AcknowledgmentsAreHonest == Spec => []AcksHonest
<1>1. IInv => AcksHonest
  <2> SUFFICES ASSUME IInv, ~skipped_window
               PROVE  /\ \A n \in Packets \ received :
                           Covers(remote_sequence, ack_bits, SeqOfPacket(n)) => start = 0 /\ n = 1
                      /\ \A n \in acked \ received : start = 0 /\ n = 1
    BY DEF AcksHonest, AckBitsHonest
  <2>1. ASSUME NEW n \in Packets \ received,
               Covers(remote_sequence, ack_bits, SeqOfPacket(n))
        PROVE  start = 0 /\ n = 1
    <3>1. TypeOK /\ received \subseteq Packets /\ ack_bits \in SUBSET BitPositions
          /\ InfoSound(remote_sequence, ack_bits)
      BY DEF IInv, TypeOK, ReceivingInv
    <3>2. \/ n = RankOf(remote_sequence)
          \/ \E i \in ack_bits : n = RankOf(remote_sequence) - i - 1
      BY <2>1, <3>1, CoversRank
    <3>3. RankOf(remote_sequence) = n => n = FirstRank
      BY <3>1 DEF InfoSound
    <3>4. n >= 1 /\ n \in Nat
      BY SpanFacts DEF Packets
    <3> QED
      BY <3>1, <3>2, <3>3, <3>4 DEF InfoSound, Arrived, FirstRank
  <2>2. \A n \in acked \ received : start = 0 /\ n = 1
    BY SpanFacts DEF IInv, AcksInv, Arrived, TypeOK, Packets
  <2> QED
    BY <2>1, <2>2
<1> QED
  BY <1>1, ReliabilityInvariance, PTL

\* process_acks names a packet for fast retransmission at most once, and only when a
\* later one has arrived.
THEOREM FastRetransmitIsSound == Spec => []FastRetransmitSound
<1>1. IInv => FastRetransmitSound
  BY DEF IInv
<1> QED
  BY <1>1, ReliabilityInvariance, PTL

\* The time a packet was sent is that of its record while it has one, and the clock has
\* not gone back since.
TrackInv ==
  /\ \A n \in DOMAIN tracked_at : n <= sent /\ tracked_at[n] <= now
  /\ \A s \in DOMAIN sent_packets :
       /\ sent_packets[s].packet \in DOMAIN tracked_at
       /\ tracked_at[sent_packets[s].packet] = sent_packets[s].send_time
  /\ RecentStayTracked

LEMMA TrackInit == Init => TrackInv
<1> SUFFICES ASSUME Init PROVE TrackInv
  OBVIOUS
<1>1. DOMAIN sent_packets = {} /\ DOMAIN tracked_at = {}
  BY DEF Init
<1> QED
  BY <1>1 DEF TrackInv, RecentStayTracked

LEMMA PacketsFinite ==
  ASSUME NEW T \in SUBSET Packets
  PROVE  IsFiniteSet(T) /\ Cardinality(T) \in Nat
<1>1. IsFiniteSet(Packets)
  BY FS_Interval, SpanFacts DEF Packets
<1> QED
  BY <1>1, FS_Subset, FS_CardinalityType

\* Neither tracking another packet nor the acknowledgment of one makes the packets
\* tracked since any fewer.
LEMMA SinceGrows ==
  ASSUME NEW n \in DOMAIN tracked_at,
         DOMAIN tracked_at \subseteq DOMAIN tracked_at', DOMAIN tracked_at' \subseteq Packets,
         \A m \in DOMAIN tracked_at : tracked_at'[m] = tracked_at[m],
         Cardinality(TrackedSince(n)) >= MaxInFlight
  PROVE  Cardinality(TrackedSince(n)') >= MaxInFlight
<1>1. TrackedSince(n) \subseteq TrackedSince(n)'
  BY DEF TrackedSince
<1>2. IsFiniteSet(TrackedSince(n)') /\ Cardinality(TrackedSince(n)') \in Nat
  <2>1. TrackedSince(n)' \in SUBSET Packets
    BY DEF TrackedSince
  <2> QED
    BY <2>1, PacketsFinite
<1>3. Cardinality(TrackedSince(n)) <= Cardinality(TrackedSince(n)') /\ Cardinality(TrackedSince(n)) \in Nat
  BY <1>1, <1>2, FS_Subset, FS_CardinalityType
<1> QED
  BY <1>2, <1>3, ReliabilityAssumption

\* A packet whose record is evicted: all the records that are left, as many as there
\* may be, are of packets sent when it was or later.
LEMMA EvictedIsOld ==
  ASSUME IInv, TrackInv, SendPacket, TypeOK', SendingInv', NEW w \in DOMAIN sent_packets,
         NEW p, p = sent_packets[w].packet, MustEvict, Worst(w),
         DOMAIN sent_packets' = (DOMAIN sent_packets \ {w}) \cup {local_sequence},
         \A s \in DOMAIN sent_packets \ {w} : sent_packets'[s] = sent_packets[s],
         sent_packets'[local_sequence].packet = sent + 1,
         local_sequence \notin DOMAIN sent_packets,
         DOMAIN tracked_at' = DOMAIN tracked_at \cup {sent + 1},
         tracked_at'[sent + 1] = now,
         \A m \in DOMAIN tracked_at : tracked_at'[m] = tracked_at[m]
  PROVE  Cardinality(TrackedSince(p)') >= MaxInFlight
<1> DEFINE D == DOMAIN sent_packets
           L == TrackedSince(p)'
           f == [s \in DOMAIN sent_packets' |-> sent_packets'[s].packet]
<1>1. /\ IsFiniteSet(D) /\ Cardinality(D) \in Nat /\ Cardinality(D) >= MaxInFlight
      /\ MaxInFlight \in Nat
  BY DomainFinite, FS_CardinalityType, ReliabilityAssumption DEF IInv, MustEvict
<1>2. Cardinality(DOMAIN sent_packets') = Cardinality(D)
  <2>1. IsFiniteSet(D \ {w}) /\ Cardinality(D \ {w}) = Cardinality(D) - 1
    BY <1>1, FS_RemoveElement
  <2>2. Cardinality((D \ {w}) \cup {local_sequence}) = Cardinality(D \ {w}) + 1
    BY <2>1, FS_AddElement
  <2> QED
    BY <1>1, <2>1, <2>2
<1>3. /\ p \in DOMAIN tracked_at /\ tracked_at[p] = sent_packets[w].send_time
      /\ p <= sent /\ tracked_at[p] <= now /\ p \in Nat /\ sent \in Nat
      /\ tracked_at'[p] = tracked_at[p]
  BY SpanFacts DEF TrackInv, IInv, TypeOK, Packets
<1>4. ASSUME NEW s \in DOMAIN sent_packets' PROVE sent_packets'[s].packet \in L
  <2>1. CASE s \in D \ {w}
    <3> DEFINE q == sent_packets[s].packet
    <3>1. /\ sent_packets'[s].packet = q /\ q \in DOMAIN tracked_at
          /\ tracked_at[q] = sent_packets[s].send_time
      BY <2>1 DEF TrackInv
    <3>2. q # p
      <4>1. s = SeqOfPacket(q) /\ w = SeqOfPacket(p)
        BY <2>1 DEF IInv, SendingInv
      <4> QED
        BY <2>1, <4>1
    <3>3. sent_packets[w].send_time <= sent_packets[s].send_time
      BY <2>1 DEF Worst
    <3>4. tracked_at'[q] >= tracked_at'[p] /\ q \in DOMAIN tracked_at'
      BY <1>3, <3>1, <3>3 DEF IInv, TypeOK
    <3> QED
      BY <3>1, <3>2, <3>4 DEF TrackedSince
  <2>2. CASE s = local_sequence
    <3>1. sent + 1 # p /\ tracked_at'[sent + 1] >= tracked_at'[p]
      BY <1>3 DEF IInv, TypeOK
    <3> QED
      BY <2>2, <3>1 DEF TrackedSince
  <2> QED
    BY <2>1, <2>2
<1>5. \A s, t \in DOMAIN sent_packets' :
        sent_packets'[s].packet = sent_packets'[t].packet => s = t
  BY DEF SendingInv
<1>6. IsFiniteSet(L) /\ Cardinality(L) \in Nat
  <2>1. L \in SUBSET Packets
    BY DEF TypeOK, TrackedSince
  <2> HIDE DEF L
  <2> QED
    BY <2>1, PacketsFinite
<1> HIDE DEF L
<1>7. f \in [DOMAIN sent_packets' -> L]
  BY <1>4
<1>8. f \in Injection(DOMAIN sent_packets', L)
  BY <1>5, <1>7 DEF Injection, IsInjective
<1> HIDE DEF f
<1>9. Cardinality(DOMAIN sent_packets') <= Cardinality(L)
  BY <1>6, <1>8, FS_Injection
<1>10. Cardinality(L) >= MaxInFlight
  <2> HIDE DEF D
  <2> QED
    BY <1>1, <1>2, <1>6, <1>9
<1> QED
  BY <1>10 DEF L

LEMMA SendTracks ==
  ASSUME IInv, TrackInv, SendPacket
  PROVE  TrackInv'
<1>1. TypeOK' /\ SendingInv' /\ start' = start /\ sent' = sent + 1 /\ sent \in Nat
      /\ acked' = acked /\ now' = now
  BY SendStep, ReliabilityAssumption DEF SendPacket, IInv, TypeOK
<1>2. DOMAIN tracked_at \subseteq Packets /\ DOMAIN tracked_at' \subseteq Packets
      /\ \A n \in Packets : n \in Nat
  BY <1>1, SpanFacts DEF IInv, TypeOK, Packets
<1>3. CASE UNCHANGED <<sent_packets, tracked_at>>
  <2>1. \A n : Recorded(n)' = Recorded(n) /\ TrackedSince(n)' = TrackedSince(n)
    BY <1>3 DEF Recorded, TrackedSince
  <2>2. RecentStayTracked'
    BY <1>1, <1>3, <2>1 DEF TrackInv, RecentStayTracked
  <2> QED
    BY <1>1, <1>2, <1>3, <2>2 DEF TrackInv
<1>4. CASE /\ Track(local_sequence)
           /\ tracked_at' = [n \in DOMAIN tracked_at \cup {sent + 1} |->
                               IF n = sent + 1 THEN now ELSE tracked_at[n]]
  <2>1. PICK remaining \in Remaining :
          sent_packets' =
            [s \in remaining \cup {local_sequence} |->
               IF s = local_sequence
               THEN [packet |-> sent + 1, send_time |-> now, nack_count |-> 0]
               ELSE sent_packets[s]]
    BY <1>4 DEF Track
  <2>2. local_sequence \notin DOMAIN sent_packets
    <3> SUFFICES ASSUME local_sequence \in DOMAIN sent_packets PROVE FALSE
      OBVIOUS
    <3> DEFINE k == sent_packets[local_sequence].packet
    <3>1. k <= sent /\ k \in Packets /\ SeqOfPacket(k) = SeqOfPacket(sent + 1)
      BY DEF IInv, SendingInv, TypeOK
    <3>2. start \in SeqNums /\ sent + 1 \in Packets
      BY <1>1, SpanFacts, ReliabilityAssumption DEF IInv, TypeOK, SendPacket, Packets
    <3>3. k \in Span /\ sent + 1 \in Span
      BY <3>1, <3>2, SpanFacts DEF Packets, Span
    <3>4. k = sent + 1
      BY <3>1, <3>2, <3>3, RankInjective
    <3> QED
      BY <1>1, <3>1, <3>4
  <2>3. remaining \subseteq DOMAIN sent_packets
    BY DEF Remaining
  <2>4. /\ DOMAIN sent_packets' = remaining \cup {local_sequence}
        /\ sent_packets'[local_sequence] =
             [packet |-> sent + 1, send_time |-> now, nack_count |-> 0]
        /\ \A s \in remaining : sent_packets'[s] = sent_packets[s]
    BY <2>1, <2>2, <2>3
  <2>5. \A n \in DOMAIN tracked_at : n <= sent /\ tracked_at[n] <= now
    BY DEF TrackInv
  <2>6. /\ DOMAIN tracked_at' = DOMAIN tracked_at \cup {sent + 1}
        /\ tracked_at'[sent + 1] = now
        /\ \A m \in DOMAIN tracked_at : tracked_at'[m] = tracked_at[m]
    BY <1>1, <1>2, <1>4, <2>5
  <2>7. \A n \in DOMAIN tracked_at' : n <= sent' /\ tracked_at'[n] <= now'
    BY <1>1, <1>2, <2>5, <2>6 DEF IInv, TypeOK
  <2>8. ASSUME NEW s \in DOMAIN sent_packets'
        PROVE  /\ sent_packets'[s].packet \in DOMAIN tracked_at'
               /\ tracked_at'[sent_packets'[s].packet] = sent_packets'[s].send_time
    <3>1. CASE s \in remaining
      BY <2>3, <2>4, <2>6, <3>1 DEF TrackInv
    <3>2. CASE s = local_sequence
      BY <2>4, <2>6, <3>2
    <3> QED
      BY <2>4, <3>1, <3>2
  <2>9. ASSUME NEW n \in DOMAIN tracked_at'
        PROVE  n \in acked' \/ Recorded(n)' \/ Cardinality(TrackedSince(n)') >= MaxInFlight
    <3>1. CASE n = sent + 1
      BY <2>4, <3>1 DEF Recorded
    <3>2. CASE n \in DOMAIN tracked_at /\ n \in acked
      BY <1>1, <3>2
    <3>3. CASE n \in DOMAIN tracked_at /\ Cardinality(TrackedSince(n)) >= MaxInFlight
      BY <1>2, <2>6, <3>3, SinceGrows
    <3>4. CASE Recorded(n)
      <4>1. PICK w \in DOMAIN sent_packets : sent_packets[w].packet = n
        BY <3>4 DEF Recorded
      <4>2. CASE w \in remaining
        BY <2>4, <4>1, <4>2 DEF Recorded
      <4>3. CASE w \notin remaining
        <5>1. MustEvict /\ Worst(w) /\ remaining = DOMAIN sent_packets \ {w}
          BY <4>3 DEF Remaining
        <5> QED
          BY <1>1, <2>2, <2>4, <2>6, <4>1, <5>1, EvictedIsOld
      <4> QED
        BY <4>2, <4>3
    <3> QED
      BY <2>6, <3>1, <3>2, <3>3, <3>4 DEF TrackInv, RecentStayTracked
  <2> QED
    BY <2>7, <2>8, <2>9 DEF TrackInv, RecentStayTracked
<1> QED
  BY <1>3, <1>4 DEF SendPacket

\* process_acks removes no record but of a packet it acknowledges.
LEMMA AcksTrack ==
  ASSUME IInv, TrackInv, NEW ack, NEW bits, ProcessAcks(ack, bits)
  PROVE  TrackInv'
<1> DEFINE hit == {s \in DOMAIN sent_packets : Covers(ack, bits, s)}
<1>1. /\ DOMAIN sent_packets' = DOMAIN sent_packets \ hit
      /\ acked' = acked \cup {sent_packets[s].packet : s \in hit}
      /\ UNCHANGED <<sent, tracked_at, now>>
  BY DEF ProcessAcks
<1>2. \A s \in DOMAIN sent_packets' :
        /\ sent_packets'[s].packet = sent_packets[s].packet
        /\ sent_packets'[s].send_time = sent_packets[s].send_time
  <2>1. \A s \in DOMAIN sent_packets :
          sent_packets[s] \in [packet : Packets, send_time : 0 .. MaxTime,
                               nack_count : 0 .. MaxNackCount]
    BY DEF IInv, TypeOK
  <2>2. \A s \in DOMAIN sent_packets' :
          \/ sent_packets'[s] = sent_packets[s]
          \/ sent_packets'[s] = [sent_packets[s] EXCEPT !.nack_count = NackCountAfter(s)]
    BY DEF ProcessAcks
  <2> QED
    BY <1>1, <2>1, <2>2
<1> HIDE DEF hit
<1>3. \A n : TrackedSince(n)' = TrackedSince(n)
  BY <1>1 DEF TrackedSince
<1>4. \A n : Recorded(n) => n \in acked' \/ Recorded(n)'
  BY <1>1, <1>2 DEF Recorded
<1>5. RecentStayTracked'
  BY <1>1, <1>3, <1>4 DEF TrackInv, RecentStayTracked
<1> QED
  BY <1>1, <1>2, <1>5 DEF TrackInv

LEMMA TrackStep == IInv /\ TrackInv /\ [Next]_vars => TrackInv'
<1> SUFFICES ASSUME IInv, TrackInv, [Next]_vars PROVE TrackInv'
  OBVIOUS
<1>1. CASE SendPacket
  BY <1>1, SendTracks
<1>2. ASSUME NEW ack, NEW bits, ProcessAcks(ack, bits) PROVE TrackInv'
  BY <1>2, AcksTrack
<1>3. CASE UNCHANGED <<sent_packets, sent, tracked_at, acked>> /\ now' \in {now, now + 1}
  <2>1. \A n : Recorded(n)' = Recorded(n) /\ TrackedSince(n)' = TrackedSince(n)
    BY <1>3 DEF Recorded, TrackedSince
  <2>2. RecentStayTracked'
    BY <1>3, <2>1 DEF TrackInv, RecentStayTracked
  <2>3. \A n \in DOMAIN tracked_at : tracked_at[n] \in Nat /\ now \in Nat
    BY ReliabilityAssumption DEF IInv, TypeOK
  <2> QED
    BY <1>3, <2>2, <2>3 DEF TrackInv
<1>4. UNCHANGED sendingVars => UNCHANGED <<sent_packets, sent, tracked_at, acked>> /\ now' = now
  BY DEF sendingVars
<1> QED
  BY <1>1, <1>2, <1>3, <1>4
     DEF Next, OnPacketReceived, GetAckInfo, ReceiveRawHeader, ProcessRawHeader, Tick, vars

\* From when a packet is tracked until it is acknowledged its record is there, unless
\* max_in_flight others were tracked since: what on_packet_sent evicts is never one of
\* the latest, however many packets are sent, acknowledged and overtaken meanwhile.
THEOREM RecentAreTracked == Spec => []RecentStayTracked
<1>1. IInv /\ TrackInv => RecentStayTracked
  BY DEF TrackInv
<1> QED
  BY <1>1, TrackInit, TrackStep, ReliabilityInvariance, PTL DEF Spec

-----------------------------------------------------------------------------
(* What module Connection builds on *)

\* While a new connection has sent no more packets than ack_bits has bits,
\* remote_sequence has had no room to advance by the width of the window.
ShortInv ==
  start = 0 /\ MaxPackets <= AckBitsWindow => ~skipped_window /\ ~panicked

LEMMA ShortStep ==
  ASSUME IInv, ShortInv, [Next]_vars
  PROVE  ShortInv'
<1>1. ASSUME NEW n \in Packets, Note(SeqOfPacket(n)), ~panicked, start' = start,
             start = 0, MaxPackets <= AckBitsWindow, ~skipped_window
      PROVE  ~skipped_window' /\ ~panicked'
  <2>1. TypeOK /\ InfoSound(remote_sequence, ack_bits) /\ start \in SeqNums
        /\ received \subseteq Packets
    BY ReliabilityAssumption DEF IInv, TypeOK, ReceivingInv
  <2>2. /\ Newest \in Span /\ remote_sequence = SeqOfPacket(Newest)
        /\ Newest \in Packets
    <3>1. 1 \in Packets
      BY SpanFacts DEF Packets
    <3> QED
      BY <1>1, <2>1, <3>1, NewestType DEF InfoSound, FirstRank, Newest
  <2>3. n \in Span
    BY SpanFacts DEF Span, Packets
  <2>4. SeqDiff(SeqOfPacket(n), remote_sequence) = n - Newest
    BY <2>1, <2>2, <2>3, RankDiff
  <2>5. n - Newest < AckBitsWindow /\ n - Newest \in Int /\ AckBitsWindow \in Nat
    BY <1>1, <2>2, SpanFacts, ReliabilityAssumption DEF Packets
  <2>6. SeqDiff(SeqOfPacket(n), remote_sequence) # AckBitsWindow
    BY <2>4, <2>5
  <2> QED
    BY <1>1, <2>6 DEF Note, Advance, FillIn
<1>2. ASSUME NEW n \in Packets, OnPacketReceived(n) PROVE ShortInv'
  BY <1>1, <1>2 DEF OnPacketReceived, ShortInv
<1>3. CASE ReceiveRawHeader
  <2>1. 0 = SeqOfPacket(1) /\ 1 \in Packets
    BY <1>3, RawHeaderSound, SpanFacts DEF ReceiveRawHeader, IInv, Packets
  <2>2. Note(SeqOfPacket(1)) /\ ~panicked /\ start' = start
    BY <1>3, <2>1 DEF ReceiveRawHeader
  <2> QED
    BY <1>1, <2>1, <2>2 DEF ShortInv
<1>4. CASE UNCHANGED <<start, skipped_window, panicked>>
  BY <1>4 DEF ShortInv
<1> QED
  BY <1>2, <1>3, <1>4
     DEF Next, SendPacket, GetAckInfo, ProcessAcks, ProcessRawHeader, Tick, vars,
         receivingVars

\* The link to module Connection, whose AckInfo is "the packets received, and packet
\* 0": on a new connection with no more packets than ack_bits has bits, this is what
\* the ack information on a packet covers.  (Packet 0 there is packet 1 here.)
AckInfoIsReceived ==
  start = 0 /\ MaxPackets <= AckBitsWindow =>
    {n \in Packets : Covers(remote_sequence, ack_bits, SeqOfPacket(n))} \cup {1}
      = received \cup {1}

THEOREM ConnectionAckInfo == Spec => []AckInfoIsReceived
<1>1. Init => ShortInv
  BY DEF Init, ShortInv
<1>2. IInv /\ ShortInv /\ [Next]_vars => ShortInv'
  BY ShortStep
<1>3. IInv /\ ShortInv => AckInfoIsReceived
  <2> SUFFICES ASSUME IInv, ShortInv
               PROVE  AckInfoIsReceived
    OBVIOUS
  <2> SUFFICES ASSUME ~skipped_window, ~panicked, start = 0,
                      MaxPackets <= AckBitsWindow, NEW n \in Packets, n # 1
               PROVE  Covers(remote_sequence, ack_bits, SeqOfPacket(n)) <=> n \in received
    <3>1. received \subseteq Packets
      BY DEF IInv, TypeOK
    <3> QED
      BY <3>1 DEF ShortInv, AckInfoIsReceived
  <2>1. TypeOK /\ InfoSound(remote_sequence, ack_bits) /\ start \in SeqNums
        /\ received \subseteq Packets /\ ack_bits \in SUBSET BitPositions
    BY ReliabilityAssumption DEF IInv, TypeOK, ReceivingInv
  <2>2. /\ Newest \in Span /\ remote_sequence = SeqOfPacket(Newest)
        /\ Newest \in 0 .. MaxPackets
    BY <2>1, NewestType
  <2>3. n \in Span /\ n \in Nat /\ n >= 1 /\ Newest \in Nat
    BY <2>2, SpanFacts DEF Span, Packets
  <2>4. ASSUME Covers(remote_sequence, ack_bits, SeqOfPacket(n)) PROVE n \in received
    <3>1. n = Newest \/ \E i \in ack_bits : n = Newest - i - 1
      BY <2>1, <2>4, CoversRank DEF Newest
    <3>2. Newest \in received \cup {1}
          /\ \A i \in ack_bits : Arrived(Newest - i - 1)
      BY <2>1 DEF InfoSound, Newest, FirstRank
    <3> QED
      BY <2>3, <3>1, <3>2 DEF Arrived
  <2>5. ASSUME n \in received PROVE Covers(remote_sequence, ack_bits, SeqOfPacket(n))
    <3>1. n <= Newest /\ (Newest - n \in 1 .. AckBitsWindow => Newest - n - 1 \in ack_bits)
      BY <2>5 DEF IInv, ReceivingInv, Noted
    <3>2. CASE n = Newest
      BY <2>2, <3>2 DEF Covers
    <3>3. CASE n < Newest
      <4>1. Newest - n \in 1 .. AckBitsWindow
        BY <2>2, <2>3, <3>3, SpanFacts, ReliabilityAssumption
      <4> DEFINE i == Newest - n - 1
      <4>2. i \in ack_bits /\ i + 1 \in Nat /\ Newest - (i + 1) = n
        BY <2>3, <3>1, <3>3, <4>1
      <4>3. SeqMinus(SeqOfPacket(Newest), i + 1) = SeqOfPacket(Newest - (i + 1))
        BY <2>1, <2>2, <2>3, <4>2, RankBack
      <4> HIDE DEF i
      <4> QED
        BY <2>2, <4>2, <4>3 DEF Covers
    <3> QED
      BY <2>3, <3>1, <3>2, <3>3
  <2> QED
    BY <2>4, <2>5
<1> QED
  BY <1>1, <1>2, <1>3, ReliabilityInvariance, PTL DEF Spec
=============================================================================
