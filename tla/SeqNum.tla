------------------------------- MODULE SeqNum -------------------------------
(***************************************************************************)
(* Circular sequence numbers (gbnet/src/util.rs).  The code fixes the     *)
(* width to 16 bits; here half the space is a parameter, so that small     *)
(* instances wrap around and the theorems hold for every width.            *)
(***************************************************************************)
EXTENDS Integers

CONSTANT HalfRange                       \* SEQUENCE_HALF_RANGE, 32768 in the code

\* With a space of only two numbers SeqGreater(SeqNext(1), 1) fails.
ASSUME HalfRangeAssumption == HalfRange \in Nat /\ HalfRange > 1

FullRange == 2 * HalfRange

SeqNums == 0 .. (FullRange - 1)

\* sequence_greater_than(s1, s2)
SeqGreater(s1, s2) ==
  \/ s1 > s2 /\ s1 - s2 <= HalfRange
  \/ s1 < s2 /\ s2 - s1 > HalfRange

\* sequence_diff(s1, s2)
SeqDiff(s1, s2) ==
  LET diff == s1 - s2
  IN  IF diff > HalfRange THEN diff - FullRange
      ELSE IF diff < -HalfRange THEN diff + FullRange
      ELSE diff

\* A slip to check the properties against: no wrap-around.
SeqPlusUnwrapped(s, k) == s + k

\* s.wrapping_add(k) and s.wrapping_sub(k), for k within one turn
SeqPlus(s, k)  == IF s + k < FullRange THEN s + k ELSE s + k - FullRange
SeqMinus(s, k) == IF s >= k THEN s - k ELSE s - k + FullRange

SeqNext(s) == SeqPlus(s, 1)

\* How many increments lead from one number to another.
SeqDistance(from, to) == SeqMinus(to, from)
=============================================================================
