------------------------------ MODULE BitBuffer -----------------------------
(***************************************************************************)
(* BitBuffer of gbnet/src/serialize/mod.rs: numbers written with any width *)
(* into a vector of bytes, most significant bit first, and read back.      *)
(*                                                                         *)
(* A byte has ByteBits bits and a word, the number a caller hands over, at *)
(* most WordBits (8 and 64 in the code). Both are the sets of their bits   *)
(* that are 1, the least significant being 0: | is union, & intersection.  *)
(* Operations take a buffer, a record of the structure's fields, and       *)
(* return the next one. One that fails returns no result: nobody goes on   *)
(* with a buffer after an error.                                           *)
(***************************************************************************)
EXTENDS Naturals, Sequences

CONSTANTS
  ByteBits,      \* bits of a byte
  WordBits,      \* bits of a word, MAX_BIT_WIDTH
  Widths,        \* widths a caller asks for
  Words,         \* words a caller writes
  MaxWrites      \* bound: writes to a buffer

ASSUME BitBufferAssumption ==
  /\ ByteBits \in Nat \ {0}
  /\ WordBits \in Nat /\ WordBits >= ByteBits
  /\ Widths \subseteq Nat
  /\ Words \subseteq SUBSET (0 .. WordBits - 1)
  /\ MaxWrites \in Nat

VARIABLES
  writer,    \* the buffer written
  meter,     \* a measure-only buffer to which the same is written
  written    \* history: the numbers written, with their widths

bitBufferVars == <<writer, meter, written>>

-----------------------------------------------------------------------------
Fail == {}

NewBuffer ==
  [buffer |-> <<>>, bit_pos |-> 0, read_pos |-> 0, unpadded_length |-> 0, measure_only |-> FALSE]

Measure == [NewBuffer EXCEPT !.measure_only = TRUE]

FromBytes(bytes) == [NewBuffer EXCEPT !.buffer = bytes]

SerializedSizeBytes(b) == (b.unpadded_length + ByteBits - 1) \div ByteBits

IsWhole(n) == n % ByteBits = 0

Smaller(m, n) == IF m < n THEN m ELSE n

Advanced(b, bits) ==
  [b EXCEPT !.bit_pos = @ + bits, !.unpadded_length = @ + bits]

\* The bits number from .. from + count - 1 of n, shifted down; and n shifted up.
BitsOf(n, from, count) == {k \in 0 .. count - 1 : from + k \in n}
Lifted(n, by) == {k + by : k \in n}

Masked(n, bits) == n \cap (0 .. bits - 1)

\* write_bytes_fast: at a byte boundary whole bytes are pushed.
WriteBytesFast(b, value, bytes) ==
  IF b.measure_only
  THEN Advanced(b, bytes * ByteBits)
  ELSE [Advanced(b, bytes * ByteBits) EXCEPT
          !.buffer = @ \o [i \in 1 .. bytes |-> BitsOf(value, ByteBits * (bytes - i), ByteBits)]]

Extended(bytes, index) ==
  bytes \o [i \in 1 .. (IF index < Len(bytes) THEN 0 ELSE index + 1 - Len(bytes)) |-> {}]

\* The byte at hand, where a buffer is written or read, and what is left of it.
ByteAt(pos) == pos \div ByteBits
LeftAt(pos) == ByteBits - (pos % ByteBits)

\* One turn of the loop of write_bits_optimized: fill what is left of the byte at hand.
PutChunk(put, value) ==
  LET available == LeftAt(put.bit_pos)
      count     == Smaller(put.remaining, available)
      shift     == put.remaining - count
      chunk     == Lifted(BitsOf(value, shift, count), available - count)
      bytes     == Extended(put.bytes, ByteAt(put.bit_pos))
  IN  [bytes     |-> [bytes EXCEPT ![ByteAt(put.bit_pos) + 1] = @ \cup chunk],
       bit_pos   |-> put.bit_pos + count,
       remaining |-> shift]

\* After each turn: at most as many as there are bits.
Chunks(b, value, bits) ==
  LET put[turn \in 0 .. bits] ==
        IF turn = 0
        THEN [bytes |-> b.buffer, bit_pos |-> b.bit_pos, remaining |-> bits]
        ELSE LET before == put[turn - 1]
             IN  IF before.remaining = 0 THEN before ELSE PutChunk(before, value)
  IN  put

WriteBitsOptimized(b, value, bits) ==
  IF b.measure_only
  THEN Advanced(b, bits)
  ELSE [Advanced(b, bits) EXCEPT !.buffer = Chunks(b, value, bits)[bits].bytes]

\* write_bit: sets or clears the bit at bit_pos.
WriteBit(b, bit) ==
  IF b.measure_only
  THEN Advanced(b, 1)
  ELSE LET index == ByteAt(b.bit_pos)
           place == LeftAt(b.bit_pos) - 1
           bytes == Extended(b.buffer, index)
       IN  [Advanced(b, 1) EXCEPT
              !.buffer = [bytes EXCEPT ![index + 1] =
                            IF bit THEN @ \cup {place} ELSE @ \ {place}]]

FastWriteAnywhere(b, bits) == IsWhole(bits)
FastWrite(b, bits) == IsWhole(b.bit_pos) /\ IsWhole(bits)

\* write_bits: a wider value is cut off at the width.
WriteBits(b, value, bits) ==
  IF bits > WordBits THEN Fail
  ELSE IF bits = 0 THEN {b}
  ELSE IF FastWrite(b, bits) THEN {WriteBytesFast(b, Masked(value, bits), bits \div ByteBits)}
  ELSE {WriteBitsOptimized(b, Masked(value, bits), bits)}

\* flush(TRUE): zeros up to the next byte boundary, which takes less than a byte.
Padding(b) ==
  LET padded[turn \in 0 .. ByteBits] ==
        IF turn = 0
        THEN b
        ELSE LET before == padded[turn - 1]
             IN  IF IsWhole(before.bit_pos) THEN before ELSE WriteBit(before, FALSE)
  IN  padded
PaddedToByte(b) == Padding(b)[ByteBits]

IntoBytes(b) == PaddedToByte(b).buffer

-----------------------------------------------------------------------------
Result(value, b) == {[value |-> value, buffer |-> b]}

ReadBytesFast(b, bytes) ==
  LET start == b.read_pos \div ByteBits
  IN  IF start + bytes > Len(b.buffer)
      THEN Fail
      ELSE Result(UNION {Lifted(b.buffer[start + i], ByteBits * (bytes - i)) : i \in 1 .. bytes},
                  [b EXCEPT !.read_pos = @ + bytes * ByteBits])

\* One turn of the loop of read_bits_optimized.
TakeChunk(bytes, took) ==
  LET available == LeftAt(took.read_pos)
      count     == Smaller(took.remaining, available)
      shift     == took.remaining - count
  IN  IF ByteAt(took.read_pos) >= Len(bytes)
      THEN Fail
      ELSE {[value     |-> took.value \cup Lifted(BitsOf(bytes[ByteAt(took.read_pos) + 1],
                                                         available - count, count), shift),
             read_pos  |-> took.read_pos + count,
             remaining |-> shift]}

Takings(b, bits) ==
  LET take[turn \in 0 .. bits] ==
        IF turn = 0
        THEN {[value |-> {}, read_pos |-> b.read_pos, remaining |-> bits]}
        ELSE UNION {IF took.remaining = 0 THEN {took} ELSE TakeChunk(b.buffer, took) :
                    took \in take[turn - 1]}
  IN  take

ReadBitsOptimized(b, bits) ==
  UNION {Result(took.value, [b EXCEPT !.read_pos = took.read_pos]) : took \in Takings(b, bits)[bits]}

ReadBit(b) ==
  LET index == ByteAt(b.read_pos)
  IN  IF index >= Len(b.buffer)
      THEN Fail
      ELSE Result((LeftAt(b.read_pos) - 1) \in b.buffer[index + 1], [b EXCEPT !.read_pos = @ + 1])

FastRead(b, bits) == IsWhole(b.read_pos) /\ IsWhole(bits)

ReadBits(b, bits) ==
  IF bits > WordBits THEN Fail
  ELSE IF bits = 0 THEN Result({}, b)
  ELSE IF FastRead(b, bits) THEN ReadBytesFast(b, bits \div ByteBits)
  ELSE ReadBitsOptimized(b, bits)

-----------------------------------------------------------------------------
\* The user of the buffer, who also measures what it writes.
Write(value, bits) ==
  /\ Len(written) < MaxWrites
  /\ \E b \in WriteBits(writer, value, bits), m \in WriteBits(meter, value, bits) :
       /\ writer' = b
       /\ meter' = m
       /\ written' = Append(written, [value |-> value, bits |-> bits])

WriteOneBit(bit) ==
  /\ Len(written) < MaxWrites
  /\ writer' = WriteBit(writer, bit)
  /\ meter' = WriteBit(meter, bit)
  /\ written' = Append(written, [value |-> IF bit THEN {0} ELSE {}, bits |-> 1])

BitBufferInit == writer = NewBuffer /\ meter = Measure /\ written = <<>>

BitBufferNext ==
  \/ \E value \in Words, bits \in Widths : Write(value, bits)
  \/ \E bit \in BOOLEAN : WriteOneBit(bit)

-----------------------------------------------------------------------------
(* Properties *)

BitBufferTypeOK ==
  /\ writer.buffer \in Seq(SUBSET (0 .. ByteBits - 1))
  /\ Len(writer.buffer) = SerializedSizeBytes(writer)
  /\ meter.buffer = <<>>
  /\ meter.bit_pos = writer.bit_pos /\ meter.unpadded_length = writer.unpadded_length

\* The readers that have read the first numbers as they were written.
ReadsAll(reader, numbers) ==
  LET readers[i \in 0 .. Len(numbers)] ==
        IF i = 0 THEN {reader}
        ELSE UNION {{r.buffer : r \in {x \in ReadBits(b, numbers[i].bits) :
                                        x.value = Masked(numbers[i].value, numbers[i].bits)}} :
                    b \in readers[i - 1]}
  IN  readers[Len(numbers)]

\* Whatever widths and alignments were mixed, through the fast path, the slow path
\* or bit by bit, the numbers read back from the bytes are those written, what
\* remains is less than a byte of zeros, and one bit more than that cannot be read.
BitsReadBack ==
  LET bytes == IntoBytes(writer)
      rest  == Len(bytes) * ByteBits - writer.bit_pos
  IN  /\ Len(bytes) = SerializedSizeBytes(meter)
      /\ rest < ByteBits
      /\ \E reader \in ReadsAll(FromBytes(bytes), written) :
           /\ \E last \in ReadBits(reader, rest) : last.value = {}
           /\ ReadBits(reader, rest + 1) = Fail
           /\ rest = 0 => ReadBit(reader) = Fail
=============================================================================
