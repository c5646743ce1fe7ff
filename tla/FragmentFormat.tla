--------------------------- MODULE FragmentFormat ---------------------------
(***************************************************************************)
(* How a message is cut into fragments and put together again: the header, *)
(* fragment_message and FragmentBuffer of gbnet/src/fragment.rs. The       *)
(* buffers around it, with their limits and timeouts, are in Fragments.    *)
(***************************************************************************)
EXTENDS BitBuffer, FiniteSets

CONSTANTS
  FragmentIdBytes,    \* bytes of a fragmented message's id (4)
  MaxFragmentCount,   \* MAX_FRAGMENT_COUNT
  MaxWholePayload     \* config.fragment_threshold

ASSUME FragmentFormatAssumption ==
  /\ FragmentIdBytes \in Nat \ {0}
  /\ MaxFragmentCount \in 1 .. 2 ^ ByteBits - 1
  /\ MaxWholePayload \in Nat \ {0}

-----------------------------------------------------------------------------
BigEndian(word, bytes) ==
  [i \in 1 .. bytes |-> (word \div 2 ^ (ByteBits * (bytes - i))) % 2 ^ ByteBits]

FragmentHeaderSize == FragmentIdBytes + 2
FragmentHeader(id, index, count) == BigEndian(id, FragmentIdBytes) \o <<index, count>>

\* FragmentHeader::deserialize, and what follows it.
FragmentRead(data) ==
  IF Len(data) < FragmentHeaderSize
  THEN Fail
  ELSE {[id    |-> SubSeq(data, 1, FragmentIdBytes),
         index |-> data[FragmentIdBytes + 1],
         count |-> data[FragmentIdBytes + 2],
         data  |-> SubSeq(data, FragmentHeaderSize + 1, Len(data))]}

PiecesOf(length) == (length + MaxWholePayload - 1) \div MaxWholePayload

\* data[start..end] of fragment number i, counted from 1.
PieceOf(data, i) ==
  SubSeq(data, (i - 1) * MaxWholePayload + 1, Smaller(i * MaxWholePayload, Len(data)))

\* fragment_message, which refuses what takes too many.
FragmentMessage(id, data) ==
  LET count == PiecesOf(Len(data))
  IN  IF count > MaxFragmentCount
      THEN Fail
      ELSE {[i \in 1 .. count |-> FragmentHeader(id, i - 1, count) \o PieceOf(data, i)]}

\* One after the other.
PutTogether(pieces) ==
  LET joined[n \in 0 .. Len(pieces)] == IF n = 0 THEN <<>> ELSE joined[n - 1] \o pieces[n]
  IN  joined[Len(pieces)]

\* What the buffer of a message returns when these fragments of it came in: nothing
\* before there are as many as the first says.
Reassembled(fragments) ==
  LET count == (CHOOSE f \in fragments : TRUE).count
      data(index) == (CHOOSE f \in fragments : f.index = index).data
  IN  IF Cardinality({f.index : f \in fragments}) = count
      THEN {PutTogether([i \in 1 .. count |-> data(i - 1)])}
      ELSE {}
=============================================================================
