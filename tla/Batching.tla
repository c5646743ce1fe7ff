------------------------------ MODULE Batching ------------------------------
(***************************************************************************)
(* batch_messages() and unbatch_messages() of gbnet/src/congestion.rs.     *)
(* A byte is one of Radix values (256 in the code): the count of a batch   *)
(* takes one byte and the length of a message two, most significant first. *)
(*                                                                         *)
(* The list of messages grows by one at a time; each state asks what       *)
(* becomes of the list.                                                    *)
(***************************************************************************)
EXTENDS Naturals, Sequences

CONSTANTS
  Radix,             \* values of a byte
  MaxBatchMessages,  \* MAX_BATCH_MESSAGES
  BatchSizes,        \* the max_size of callers
  Messages,          \* messages, sequences of bytes
  MaxListed          \* bound: messages in the list

\* A longer message would lose the upper digits of its length: the caller must not
\* give one, and nothing stops it.
ASSUME BatchingAssumption ==
  /\ Radix \in Nat \ {0, 1}
  /\ MaxBatchMessages \in 1 .. Radix - 1
  /\ BatchSizes \subseteq Nat
  /\ \A m \in Messages : m \in Seq(0 .. Radix - 1) /\ Len(m) < Radix * Radix
  /\ MaxListed \in Nat

VARIABLES max_size, messages

batchingVars == <<max_size, messages>>

-----------------------------------------------------------------------------
HeaderSize == 1     \* BATCH_HEADER_SIZE
LengthSize == 2     \* BATCH_LENGTH_SIZE

Entry(m) == <<(Len(m) \div Radix) % Radix, Len(m) % Radix>> \o m

\* A finished batch: its count as a byte, and its entries.
Finished(packing) == <<packing.count % Radix>> \o packing.entries

\* The batch under construction is closed, if it has a message.
Flushed(packing) ==
  IF packing.count = 0
  THEN packing
  ELSE [batches |-> Append(packing.batches, Finished(packing)), entries |-> <<>>, count |-> 0]

Overflows(packing, m) ==
  HeaderSize + Len(packing.entries) + LengthSize + Len(m) > max_size

CountExceeded(packing) == packing.count > MaxBatchMessages
CountReached(packing) == packing.count = MaxBatchMessages

\* One turn of the loop.
Packed(packing, m) ==
  LET room  == IF Overflows(packing, m) THEN Flushed(packing) ELSE packing
      added == [batches |-> room.batches, entries |-> room.entries \o Entry(m),
                count |-> room.count + 1]
  IN  IF CountReached(added) THEN Flushed(added) ELSE added

NoPacking == [batches |-> <<>>, entries |-> <<>>, count |-> 0]

\* The batches and the one under construction after each turn.
Packings(list) ==
  LET packing[i \in 0 .. Len(list)] ==
        IF i = 0 THEN NoPacking ELSE Packed(packing[i - 1], list[i])
  IN  packing

BatchMessages(list) == Flushed(Packings(list)[Len(list)]).batches

-----------------------------------------------------------------------------
\* An Option is a set: of what was read, or empty.
Malformed == {}

\* One turn of the loop that reads a batch; reading.offset bytes have been read.
Unpacked(data, reading) ==
  IF reading.offset + LengthSize > Len(data)
  THEN Malformed
  ELSE LET length == data[reading.offset + 1] * Radix + data[reading.offset + 2]
           begin  == reading.offset + LengthSize
       IN  IF begin + length > Len(data)
           THEN Malformed
           ELSE {[offset |-> begin + length,
                  messages |-> Append(reading.messages, SubSeq(data, begin + 1, begin + length))]}

\* What has been read after each turn, for as many turns as there are messages.
Readings(data) ==
  LET readings[turn \in 0 .. data[1]] ==
        IF turn = 0
        THEN {[offset |-> HeaderSize, messages |-> <<>>]}
        ELSE UNION {Unpacked(data, r) : r \in readings[turn - 1]}
  IN  readings

\* unbatch_messages(data)
UnbatchMessages(data) ==
  IF data = <<>> THEN Malformed ELSE {r.messages : r \in Readings(data)[data[1]]}

-----------------------------------------------------------------------------
AddMessage(m) ==
  /\ Len(messages) < MaxListed
  /\ messages' = Append(messages, m)
  /\ UNCHANGED max_size

BatchingInit == max_size \in BatchSizes /\ messages = <<>>

BatchingNext == \E m \in Messages : AddMessage(m)

-----------------------------------------------------------------------------
(* Properties *)

BatchingTypeOK == max_size \in BatchSizes /\ messages \in Seq(Messages)

\* What the first batches yield, one after the other.
Joined(options) ==
  LET joined[k \in 0 .. Len(options)] ==
        IF k = 0 THEN <<>> ELSE joined[k - 1] \o CHOOSE list \in options[k] : TRUE
  IN  joined

\* A batch without its last byte.
CutShort(data) == SubSeq(data, 1, Len(data) - 1)

\* Unbatching every batch yields the messages that were batched, in their order, a
\* batch that lost its last byte is refused, and only a message that does not fit
\* by itself is in a batch larger than max_size.
BatchesRoundTrip ==
  LET batches == BatchMessages(messages)
      inEach  == [i \in 1 .. Len(batches) |-> UnbatchMessages(batches[i])]
  IN  /\ \A i \in 1 .. Len(batches) : inEach[i] # Malformed
      /\ Joined(inEach)[Len(batches)] = messages
      /\ \A i \in 1 .. Len(batches) :
           /\ Len(batches[i]) > max_size => \A list \in inEach[i] : Len(list) = 1
           /\ UnbatchMessages(CutShort(batches[i])) = Malformed
=============================================================================
