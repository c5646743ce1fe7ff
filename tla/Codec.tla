------------------------------- MODULE Codec --------------------------------
(***************************************************************************)
(* The wire form of messages: the impls of serialize/primitives.rs and     *)
(* serialize/collections.rs and the code that #[derive(NetworkSerialize)]  *)
(* of gbnet_macros/src/lib.rs generates, in its two modes, bit-packed and  *)
(* byte-aligned.                                                           *)
(*                                                                         *)
(* A type is a record with a field kind:                                   *)
(*   int     u8 .. u64, i8 .. i64: capacity bits, signed or not (but a     *)
(*           derived field of type i8 does not compile in byte mode)       *)
(*   bool    0 or 1                     float   its bit pattern            *)
(*   list    Vec of a type; a String is a list of bytes                    *)
(*   tuple   a tuple, and an array: n times the same type                  *)
(*   option  of a type: {} or {value}                                      *)
(*   struct  fields, named or not                                          *)
(*   enum    variants, each with its #[variant_id] and fields              *)
(* A value of a tuple or struct is a sequence, that of an enum names its   *)
(* variant. A field carries its attributes; an absent one is {}. #[bits]   *)
(* and #[max_len] stand for the container's defaults too. #[with] is left  *)
(* out: it hands over to the application's functions.                      *)
(***************************************************************************)
EXTENDS BitBuffer, Integers, SequencesExt

CONSTANTS
  DefaultMaxLen,         \* DEFAULT_MAX_LEN, and that of the impls
  LengthBytes,           \* bytes of a length in byte mode
  MaxDeserializeLength,  \* MAX_DESERIALIZE_LENGTH
  Typed,                 \* the application's messages, with their types
  MaxSerialized          \* bound: messages in a stream

ASSUME CodecAssumption ==
  /\ DefaultMaxLen \in Nat /\ MaxDeserializeLength \in Nat
  /\ LengthBytes \in Nat \ {0}
  /\ MaxSerialized \in Nat

VARIABLES
  trait,       \* the one the application uses: "bit" for BitSerialize, "byte" for
               \* ByteAlignedSerialize
  stream,      \* in bit mode: the buffer messages are serialized into
  bytestream,  \* in byte mode: the bytes
  sent,        \* history: the messages in the stream
  refused      \* history: the message refused last

codecVars == <<trait, stream, bytestream, sent, refused>>

-----------------------------------------------------------------------------
(* Attributes and widths *)

Number(capacity, signed) == [kind |-> "int", capacity |-> capacity, signed |-> signed]
Byte == Number(ByteBits, FALSE)

\* A type's fields and variants as they are declared, without attributes and with.
Boolean == [kind |-> "bool"]
List(type) == [kind |-> "list", of |-> type]
Option(type) == [kind |-> "option", of |-> type]
Field(type) == [type |-> type, bits |-> {}, max_len |-> {}, skip_if |-> {}, byte_align |-> FALSE,
                no_serialize |-> FALSE]
Sized(type, bits) == [Field(type) EXCEPT !.bits = {bits}]
Hidden(type) == [Field(type) EXCEPT !.no_serialize = TRUE]
Struct(fields) == [kind |-> "struct", named |-> TRUE, fields |-> fields]
Tuple(fields) == [kind |-> "struct", named |-> FALSE, fields |-> fields]
Variant(id, named, fields) == [id |-> id, named |-> named, fields |-> fields]

\* Least number of bits that hold n: 64 minus the leading zeros.
BitLength(n) == CHOOSE k \in 0 .. WordBits : n < 2 ^ k /\ (k > 0 => n >= 2 ^ (k - 1))

\* A number's bits, and the number that has these bits.
BitsIn(n) == {k \in 0 .. WordBits - 1 : (n \div 2 ^ k) % 2 = 1}
WordOf(bits) == MapThenSumSet(LAMBDA k : 2 ^ k, bits)

\* The u64 a number is cast to, and the number a u64 is cast to.
AsWord(v) == v % 2 ^ WordBits
AsType(type, word) ==
  LET low == word % 2 ^ type.capacity
  IN  IF type.signed /\ low >= 2 ^ (type.capacity - 1) THEN low - 2 ^ type.capacity ELSE low

IsNumber(type) == type.kind \in {"int", "float", "bool"}

\* get_field_bit_width: 0 for whatever is not a number.
FieldBits(field) ==
  IF field.bits # {} THEN CHOOSE n \in field.bits : TRUE
  ELSE IF field.type.kind = "bool" THEN 1
  ELSE IF IsNumber(field.type) THEN field.type.capacity
  ELSE 0

MaxLen(field) ==
  IF field.max_len = {} THEN DefaultMaxLen ELSE CHOOSE n \in field.max_len : TRUE

LenBitsShort(max) == IF max = 0 THEN 0 ELSE BitLength(max - 1)
LenBits(max) == IF max = 0 THEN 0 ELSE BitLength(max)

\* enum_variant_bits
VariantBits(type) ==
  IF type.bits # {} THEN CHOOSE n \in type.bits : TRUE
  ELSE IF Len(type.variants) = 1 THEN 1
  ELSE BitLength(Len(type.variants) - 1)

VariantId(type, i) ==
  LET pinned == type.variants[i].id
  IN  IF pinned = {} THEN i - 1 ELSE CHOOSE n \in pinned : TRUE

\* The arms of a match are tried in order.
VariantsWithId(type, id) == {i \in 1 .. Len(type.variants) : VariantId(type, i) = id}
FirstVariant(type, id) ==
  {i \in VariantsWithId(type, id) : \A j \in VariantsWithId(type, id) : i <= j}

SerializedFields(fields) == SelectSeq(fields, LAMBDA f : ~f.no_serialize)

RECURSIVE DefaultOf(_)
DefaultOf(type) ==
  CASE IsNumber(type)         -> 0
    [] type.kind = "list"     -> <<>>
    [] type.kind = "option"   -> {}
    [] type.kind = "tuple"    -> [i \in 1 .. Len(type.of) |-> DefaultOf(type.of[i])]
    [] type.kind = "struct"   -> [i \in 1 .. Len(type.fields) |-> DefaultOf(type.fields[i].type)]

\* The positions of the fields that are serialized.
SerializedAt(fields) == SelectSeq([i \in 1 .. Len(fields) |-> i], LAMBDA i : ~fields[i].no_serialize)

\* The value built of what was read: named fields find their places; the others are
\* listed first, the defaults of those not serialized after them.
Rebuilt(fields, named, read) ==
  LET at    == SerializedAt(fields)
      place == [i \in 1 .. Len(fields) |-> {k \in 1 .. Len(at) : at[k] = i}]
      default(i) == DefaultOf(fields[i].type)
      skipped == SelectSeq([i \in 1 .. Len(fields) |-> i], LAMBDA i : fields[i].no_serialize)
  IN  IF named
      THEN [i \in 1 .. Len(fields) |->
              IF place[i] = {} THEN default(i) ELSE read[CHOOSE k \in place[i] : TRUE]]
      ELSE read \o [k \in 1 .. Len(skipped) |-> default(skipped[k])]

-----------------------------------------------------------------------------
(* Bit mode, writing: the list of writes a value asks for *)

PutBits(value, width) == <<[write |-> "bits", value |-> value, width |-> width]>>
PutBit(bit) == <<[write |-> "bit", value |-> bit, width |-> 1]>>
Align == <<[write |-> "align", value |-> 0, width |-> 0]>>
Refusal == <<[write |-> "refuse", value |-> 0, width |-> 0]>>

Concat(seqs) == FoldLeft(LAMBDA all, s : all \o s, <<>>, seqs)

RECURSIVE BitForm(_, _)

TupleForm(types, value) == Concat([i \in 1 .. Len(value) |-> BitForm(types[i], value[i])])

OptionForm(type, value) ==
  IF value = {} THEN PutBit(0) ELSE PutBit(1) \o BitForm(type.of, CHOOSE v \in value : TRUE)

ListForm(type, value, max) ==
  IF Len(value) > max
  THEN Refusal
  ELSE PutBits(Len(value), LenBits(max))
         \o Concat([i \in 1 .. Len(value) |-> BitForm(type.of, value[i])])

Exceeds(value, bits) == bits < WordBits /\ AsWord(value) > 2 ^ bits - 1

\* gen_bit_serialize_field
FieldBitForm(field, value) ==
  LET bits == FieldBits(field)
  IN  IF bits > 0 /\ field.type.kind = "float" THEN PutBits(value, bits)
      ELSE IF bits > 0 THEN IF Exceeds(value, bits) THEN Refusal ELSE PutBits(AsWord(value), bits)
      ELSE IF field.type.kind = "list" THEN ListForm(field.type, value, MaxLen(field))
      ELSE BitForm(field.type, value)

Aligned(field, form) == IF field.byte_align THEN Align \o form ELSE form

\* gen_field_serialize: with #[skip_if], a bit says whether the field is there.
PresentForm(field, value) ==
  LET form == Aligned(field, FieldBitForm(field, value))
  IN  IF field.skip_if = {} THEN form
      ELSE IF value \in field.skip_if THEN PutBit(0)
      ELSE PutBit(1) \o form

FieldsForm(fields, value) ==
  LET at == SerializedAt(fields)
  IN  Concat([k \in 1 .. Len(at) |-> PresentForm(fields[at[k]], value[at[k]])])

EnumForm(type, value) ==
  PutBits(VariantId(type, value.variant), VariantBits(type))
    \o FieldsForm(type.variants[value.variant].fields, value.fields)

BitForm(type, value) ==
  CASE type.kind = "int"    -> PutBits(AsWord(value), type.capacity)
    [] type.kind = "float"  -> PutBits(value, type.capacity)
    [] type.kind = "bool"   -> PutBit(value)
    [] type.kind = "list"   -> ListForm(type, value, DefaultMaxLen)
    [] type.kind = "tuple"  -> TupleForm(type.of, value)
    [] type.kind = "option" -> OptionForm(type, value)
    [] type.kind = "struct" -> FieldsForm(type.fields, value)
    [] type.kind = "enum"   -> EnumForm(type, value)

\* A write of the list; the first that is refused ends them.
Performed(b, w) ==
  CASE w.write = "bits"   -> WriteBits(b, BitsIn(w.value), w.width)
    [] w.write = "bit"    -> {WriteBit(b, w.value = 1)}
    [] w.write = "align"  -> {PaddedToByte(b)}
    [] w.write = "refuse" -> Fail

BitSerialize(type, value, b) ==
  FoldLeft(LAMBDA buffers, w : UNION {Performed(x, w) : x \in buffers}, {b}, BitForm(type, value))

-----------------------------------------------------------------------------
(* Bit mode, reading *)

RECURSIVE BitRead(_, _), SkippedToByte(_)

SkippedToByte(b) ==
  IF IsWhole(b.read_pos) THEN {b} ELSE UNION {SkippedToByte(r.buffer) : r \in ReadBit(b)}

\* Values read one after the other, each by its reader.
ReadInTurn(Reader(_, _), items, b) ==
  FoldLeft(LAMBDA readings, item :
             UNION {{[value |-> Append(r.value, x.value), buffer |-> x.buffer] :
                       x \in Reader(item, r.buffer)} : r \in readings},
           Result(<<>>, b), items)

Mapped(Op(_), readings) == {[r EXCEPT !.value = Op(r.value)] : r \in readings}

NumberRead(b, bits) == Mapped(WordOf, ReadBits(b, bits))
FlagRead(b) == Mapped(LAMBDA bit : IF bit THEN 1 ELSE 0, ReadBit(b))

ListRead(type, max, b) ==
  UNION {IF len.value > max
         THEN Fail
         ELSE ReadInTurn(BitRead, [i \in 1 .. len.value |-> type.of], len.buffer) :
         len \in NumberRead(b, LenBits(max))}

\* gen_bit_deserialize_field
FieldBitRead(field, b) ==
  LET bits == FieldBits(field)
  IN  IF bits > 0 THEN Mapped(LAMBDA word : IF field.type.kind = "int" THEN AsType(field.type, word)
                                            ELSE word,
                              NumberRead(b, bits))
      ELSE IF field.type.kind = "list" THEN ListRead(field.type, MaxLen(field), b)
      ELSE BitRead(field.type, b)

AlignedRead(field, b) ==
  UNION {FieldBitRead(field, x) : x \in IF field.byte_align THEN SkippedToByte(b) ELSE {b}}

\* gen_field_deserialize
PresentRead(field, b) ==
  IF field.skip_if = {}
  THEN AlignedRead(field, b)
  ELSE UNION {IF present.value
              THEN AlignedRead(field, present.buffer)
              ELSE Result(DefaultOf(field.type), present.buffer) :
              present \in ReadBit(b)}

FieldsRead(fields, named, b) ==
  Mapped(LAMBDA read : Rebuilt(fields, named, read),
         ReadInTurn(PresentRead, SerializedFields(fields), b))

\* A presence that is read, and the value that follows it if there is one.
OptionOf(v) == {v}
OptionRead(Reader(_, _), type, presence) ==
  UNION {IF has.value # 0
         THEN Mapped(OptionOf, Reader(type.of, has.buffer))
         ELSE Result({}, has.buffer) : has \in presence}

\* A variant's number that is read, and the fields that follow it; there may be no
\* variant with it.
EnumRead(Reader(_, _, _), type, ids) ==
  UNION {UNION {Mapped(LAMBDA read : [variant |-> i, fields |-> read],
                       Reader(type.variants[i].fields, type.variants[i].named, id.buffer)) :
                i \in FirstVariant(type, id.value)} : id \in ids}

OptionBitRead(type, b) == OptionRead(BitRead, type, FlagRead(b))
EnumBitRead(type, b) == EnumRead(FieldsRead, type, NumberRead(b, VariantBits(type)))
TupleBitRead(type, b) == ReadInTurn(BitRead, type.of, b)

BitRead(type, b) ==
  CASE type.kind = "int"    -> Mapped(LAMBDA word : AsType(type, word), NumberRead(b, type.capacity))
    [] type.kind = "float"  -> NumberRead(b, type.capacity)
    [] type.kind = "bool"   -> FlagRead(b)
    [] type.kind = "list"   -> ListRead(type, DefaultMaxLen, b)
    [] type.kind = "tuple"  -> TupleBitRead(type, b)
    [] type.kind = "option" -> OptionBitRead(type, b)
    [] type.kind = "struct" -> FieldsRead(type.fields, type.named, b)
    [] type.kind = "enum"   -> EnumBitRead(type, b)

-----------------------------------------------------------------------------
(* Byte mode: whole bytes, the least significant first *)

Digit(n, place) == (n \div 2 ^ (ByteBits * place)) % 2 ^ ByteBits
LittleEndian(word, bytes) == [i \in 1 .. bytes |-> Digit(word, i - 1)]
FromLittleEndian(bytes) == FoldRight(LAMBDA byte, word : word * 2 ^ ByteBits + byte, bytes, 0)

RECURSIVE ByteForm(_, _)

FieldsByteForm(fields, value) ==
  LET at == SerializedAt(fields)
  IN  Concat([k \in 1 .. Len(at) |-> ByteForm(fields[at[k]].type, value[at[k]])])

ListByteForm(type, value) ==
  LittleEndian(Len(value), LengthBytes)
    \o Concat([i \in 1 .. Len(value) |-> ByteForm(type.of, value[i])])

OptionByteForm(type, value) ==
  IF value = {} THEN <<0>> ELSE <<1>> \o ByteForm(type.of, CHOOSE v \in value : TRUE)

EnumByteForm(type, value) ==
  <<VariantId(type, value.variant) % 2 ^ ByteBits>>
    \o FieldsByteForm(type.variants[value.variant].fields, value.fields)

ByteForm(type, value) ==
  CASE type.kind \in {"int", "float"} -> LittleEndian(AsWord(value), type.capacity \div ByteBits)
    [] type.kind = "bool"   -> <<value>>
    [] type.kind = "list"   -> ListByteForm(type, value)
    [] type.kind = "tuple"  -> Concat([i \in 1 .. Len(value) |-> ByteForm(type.of[i], value[i])])
    [] type.kind = "option" -> OptionByteForm(type, value)
    [] type.kind = "struct" -> FieldsByteForm(type.fields, value)
    [] type.kind = "enum"   -> EnumByteForm(type, value)

TakeBytes(b, n) ==
  IF n > Len(b) THEN Fail ELSE Result(SubSeq(b, 1, n), SubSeq(b, n + 1, Len(b)))

TakeNumber(b, bytes) == Mapped(FromLittleEndian, TakeBytes(b, bytes))

RECURSIVE ByteRead(_, _)

FieldsByteRead(fields, named, b) ==
  Mapped(LAMBDA read : Rebuilt(fields, named, read),
         ReadInTurn(LAMBDA field, x : ByteRead(field.type, x), SerializedFields(fields), b))

ListByteRead(type, b) ==
  UNION {IF len.value > MaxDeserializeLength
         THEN Fail
         ELSE ReadInTurn(ByteRead, [i \in 1 .. len.value |-> type.of], len.buffer) :
         len \in TakeNumber(b, LengthBytes)}

OptionByteRead(type, b) == OptionRead(ByteRead, type, TakeNumber(b, 1))
EnumByteRead(type, b) == EnumRead(FieldsByteRead, type, TakeNumber(b, 1))
TupleByteRead(type, b) == ReadInTurn(ByteRead, type.of, b)

ByteRead(type, b) ==
  CASE type.kind \in {"int", "float"} ->
         Mapped(LAMBDA word : IF type.kind = "int" THEN AsType(type, word) ELSE word,
                TakeNumber(b, type.capacity \div ByteBits))
    [] type.kind = "bool"   -> Mapped(LAMBDA word : IF word = 0 THEN 0 ELSE 1, TakeNumber(b, 1))
    [] type.kind = "list"   -> ListByteRead(type, b)
    [] type.kind = "tuple"  -> TupleByteRead(type, b)
    [] type.kind = "option" -> OptionByteRead(type, b)
    [] type.kind = "struct" -> FieldsByteRead(type.fields, type.named, b)
    [] type.kind = "enum"   -> EnumByteRead(type, b)

-----------------------------------------------------------------------------
(* The application puts messages into one buffer; when one is refused, part of it may
   be there already, and the application begins anew. *)

SerializeBits(m) ==
  /\ trait = "bit"
  /\ Len(sent) < MaxSerialized
  /\ LET next == BitSerialize(m.type, m.value, stream)
     IN  IF next = Fail
         THEN stream' = NewBuffer /\ sent' = <<>> /\ refused' = {m}
         ELSE stream' \in next /\ sent' = Append(sent, m) /\ UNCHANGED refused
  /\ UNCHANGED <<trait, bytestream>>

SerializeBytes(m) ==
  /\ trait = "byte"
  /\ Len(sent) < MaxSerialized
  /\ bytestream' = bytestream \o ByteForm(m.type, m.value)
  /\ sent' = Append(sent, m)
  /\ UNCHANGED <<trait, stream, refused>>

CodecInit ==
  /\ trait \in {"bit", "byte"}
  /\ stream = NewBuffer /\ bytestream = <<>>
  /\ sent = <<>> /\ refused = {}

CodecNext == \E m \in Typed : SerializeBits(m) \/ SerializeBytes(m)

-----------------------------------------------------------------------------
(* Properties *)

CodecTypeOK ==
  /\ trait \in {"bit", "byte"}
  /\ sent \in Seq(Typed) /\ refused \subseteq Typed
  /\ Len(stream.buffer) = SerializedSizeBytes(stream)
  /\ \A i \in 1 .. Len(bytestream) : bytestream[i] \in 0 .. 2 ^ ByteBits - 1

\* What declares fields: a struct, and each variant of an enum.
Declarations(type) ==
  CASE type.kind = "struct" -> {type}
    [] type.kind = "enum"   -> ToSet(type.variants)
    [] OTHER                -> {}

RECURSIVE TypesIn(_)
TypesIn(type) ==
  {type} \cup UNION {TypesIn(t) : t \in
    CASE type.kind \in {"list", "option"} -> {type.of}
      [] type.kind = "tuple"              -> ToSet(type.of)
      [] OTHER -> UNION {{f.type : f \in ToSet(d.fields)} : d \in Declarations(type)}}

\* What the derived code needs and does not check: no two variants with one number, and
\* no number wider than a byte; in a tuple struct the fields that are not serialized
\* come last; #[bits] does not cut a float.
SoundEnum(type) ==
  \A i, j \in 1 .. Len(type.variants) :
    /\ VariantId(type, i) < 2 ^ ByteBits
    /\ VariantId(type, i) = VariantId(type, j) => i = j

SoundDeclaration(d) ==
  /\ d.named \/ \A i, j \in 1 .. Len(d.fields) :
                   d.fields[i].no_serialize /\ i < j => d.fields[j].no_serialize
  /\ \A f \in ToSet(d.fields) : f.type.kind = "float" => FieldBits(f) = f.type.capacity

Sound(type) ==
  \A t \in TypesIn(type) :
    /\ t.kind = "enum" => SoundEnum(t)
    /\ \A d \in Declarations(t) : SoundDeclaration(d)

IsLeftOut(field, value) ==
  field.no_serialize \/ (trait = "bit" /\ value \in field.skip_if)

\* A value with the defaults of the fields that are left out.
RECURSIVE Canonical(_, _)
CanonicalFields(fields, value) ==
  [i \in 1 .. Len(fields) |-> IF IsLeftOut(fields[i], value[i])
                              THEN DefaultOf(fields[i].type)
                              ELSE Canonical(fields[i].type, value[i])]
Canonical(type, value) ==
  CASE IsNumber(type)         -> value
    [] type.kind = "list"     -> [i \in 1 .. Len(value) |-> Canonical(type.of, value[i])]
    [] type.kind = "tuple"    -> [i \in 1 .. Len(value) |-> Canonical(type.of[i], value[i])]
    [] type.kind = "option"   -> {Canonical(type.of, v) : v \in value}
    [] type.kind = "struct"   -> CanonicalFields(type.fields, value)
    [] type.kind = "enum"     ->
         [value EXCEPT !.fields = CanonicalFields(type.variants[value.variant].fields, @)]

\* The longest list of a type, and of a field. In byte mode #[max_len] plays no part.
ListLimit == IF trait = "bit" THEN DefaultMaxLen ELSE MaxDeserializeLength
FieldLimit(field) == IF trait = "bit" THEN MaxLen(field) ELSE MaxDeserializeLength

\* In bit mode, a number that has not a whole word to itself is not negative.
NumberFits(field, value) ==
  trait = "byte" \/ FieldBits(field) = WordBits \/ value \in 0 .. 2 ^ FieldBits(field) - 1

\* Every number fits the bits of its field, and every list its length.
RECURSIVE ValueFits(_, _)
ListFits(type, value, limit) ==
  Len(value) <= limit /\ \A i \in 1 .. Len(value) : ValueFits(type.of, value[i])
FieldFits(field, value) ==
  CASE IsLeftOut(field, value)   -> TRUE
    [] IsNumber(field.type)      -> NumberFits(field, value)
    [] field.type.kind = "list"  -> ListFits(field.type, value, FieldLimit(field))
    [] OTHER                     -> ValueFits(field.type, value)
FieldsFit(fields, value) == \A i \in 1 .. Len(fields) : FieldFits(fields[i], value[i])
ValueFits(type, value) ==
  CASE IsNumber(type)         -> TRUE
    [] type.kind = "list"     -> ListFits(type, value, ListLimit)
    [] type.kind = "tuple"    -> \A i \in 1 .. Len(value) : ValueFits(type.of[i], value[i])
    [] type.kind = "option"   -> \A v \in value : ValueFits(type.of, v)
    [] type.kind = "struct"   -> FieldsFit(type.fields, value)
    [] type.kind = "enum"     -> FieldsFit(type.variants[value.variant].fields, value.fields)

\* Messages of sound types put into one stream, at whatever alignment, come out again
\* as they were, one after the other, but for the defaults of fields that are left out;
\* nothing but padding remains. In bit mode a message is refused exactly if something
\* of it does not fit, so nothing is cut off silently; in byte mode nothing is refused,
\* and a list longer than the reader accepts is not read.
MessagesRoundTrip ==
  LET expected == [i \in 1 .. Len(sent) |-> Canonical(sent[i].type, sent[i].value)]
      decoded  == IF trait = "bit"
                  THEN ReadInTurn(LAMBDA m, b : BitRead(m.type, b), sent, FromBytes(IntoBytes(stream)))
                  ELSE ReadInTurn(LAMBDA m, b : ByteRead(m.type, b), sent, bytestream)
      allSound == \A i \in 1 .. Len(sent) : Sound(sent[i].type)
      allFit   == \A i \in 1 .. Len(sent) : ValueFits(sent[i].type, sent[i].value)
  IN  /\ allSound /\ trait = "bit" =>
           /\ allFit
           /\ \E r \in decoded : r.value = expected /\ r.buffer.read_pos = stream.bit_pos
      /\ allSound /\ trait = "byte" =>
           (allFit <=> \E r \in decoded : r.value = expected /\ r.buffer = <<>>)
      /\ \A m \in refused : ~ValueFits(m.type, m.value)
=============================================================================
