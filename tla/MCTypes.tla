------------------------------ MODULE MCTypes -------------------------------
(***************************************************************************)
(* The application's types and messages, and the packets, with which TLC   *)
(* checks Codec and Packets: bytes of four bits and words of twelve.       *)
(***************************************************************************)
EXTENDS Packets

u4 == Number(4, FALSE)
\* i8 and i12 take two and three bytes here, as i16 and i32 do. The code derived for a
\* signed field of one byte does not compile in byte mode, so there is none among these.
i8 == Number(8, TRUE)
i12 == Number(12, TRUE)

\* A number narrower than its type, one of a whole type, a bool.
Player == Struct(<<Sized(u4, 3), Field(i8), Field(Boolean)>>)

\* Every attribute: a default that is skipped, at a byte boundary; a field that is not
\* serialized; a list whose length has two bits.
Inventory ==
  Struct(<<Field(Boolean), [Field(i8) EXCEPT !.skip_if = {0}, !.byte_align = TRUE],
           Hidden(u4), [Field(List(u4)) EXCEPT !.max_len = {2}]>>)

Pair == Option([kind |-> "tuple", of |-> <<i8, Boolean>>])

\* Implicit and pinned variant numbers, named and tuple variants, a list of options.
Command ==
  [kind |-> "enum", bits |-> {3}, variants |->
    << Variant({}, TRUE, <<>>),
       Variant({5}, FALSE, <<Field(i12), Hidden(u4)>>),
       Variant({}, TRUE, <<Field(List(Option(u4)))>>) >>]

\* Declarations that are not sound: two variants with one number, a tuple struct with a
\* hidden field in front, a float in too few bits.
Clash ==
  [kind |-> "enum", bits |-> {}, variants |-> <<Variant({1}, TRUE, <<>>), Variant({}, TRUE, <<>>)>>]
Shuffled == Tuple(<<Hidden(u4), Field(u4)>>)
Cut == Struct(<<Sized([kind |-> "float", capacity |-> 8], 4)>>)

\* Values that fit their types, and values that do not.
Valued(type, values) == {[type |-> type, value |-> v] : v \in values}
MCTyped ==
  Valued(Player, {<<5, 100, 1>>, <<8, 0, 0>>, <<7, -1, 0>>})
    \cup Valued(Inventory, {<<1, 100, 9, <<15, 1>>>>, <<0, 0, 3, <<>>>>, <<1, 1, 0, <<1, 2, 3>>>>})
    \cup Valued(Pair, {{<<-8, 1>>}, {}})
    \cup Valued(Command, {[variant |-> 1, fields |-> <<>>], [variant |-> 2, fields |-> <<-3, 1>>],
                             [variant |-> 3, fields |-> << << {}, {7} >> >>]})
    \cup Valued(List(List(u4)), {<< <<1>>, <<>>, <<15, 0>> >>, << <<>>, <<>>, <<>>, <<>> >>})
    \cup Valued(Clash, {[variant |-> 2, fields |-> <<>>]})
    \cup Valued(Shuffled, {<<1, 2>>})
    \cup Valued(Cut, {<<16>>})
    \cup Valued(List(u4), {<<1, 2, 3, 4, 5>>})

MCWords == { {}, {0, 2, 9, 11}, 0 .. 11 }

-----------------------------------------------------------------------------
\* Messages that go whole, in two and in three fragments, and one that needs too many,
\* each with its number.
MCChannelData == {<<9>>, <<0, 4>>, <<1, 2, 3>>, <<4, 5, 6, 7, 8>>, <<1, 1, 1, 1, 1, 1, 1>>}

\* Room for everything; not even for the longest whole message; for the last fragments but
\* not for full ones; for whole messages only.
MCSizeLimits ==
  { [channel |-> 6, default |-> 6], [channel |-> 1, default |-> 1],
    [channel |-> 5, default |-> 5], [channel |-> 6, default |-> 2] }

MCAckFields == {[ack |-> 0, ack_bits |-> 0], [ack |-> 15, ack_bits |-> 2565]}

\* Types whose packets end at a byte boundary and between two, one with a payload.
MCControlPackets ==
  { [type |-> [variant |-> v, fields |-> f], payload |-> <<>>] :
      <<v, f>> \in {<<1, <<>>>>, <<5, <<15>>>>, <<9, <<5>>>>, <<14, <<4095, 1>>>>} }
    \cup { [type |-> [variant |-> 10, fields |-> <<9>>], payload |-> <<0, 0>>] }
=============================================================================
