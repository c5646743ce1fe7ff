---------------------------- MODULE SeqNum_proofs ---------------------------
(***************************************************************************)
(* Facts about circular sequence numbers, for every width.                 *)
(***************************************************************************)
EXTENDS SeqNum, TLAPS

\* sequence_greater_than is a strict comparison: of two different numbers exactly
\* one is the greater, also when they are exactly half the space apart.
THEOREM GreaterTotal ==
  ASSUME NEW a \in SeqNums, NEW b \in SeqNums
  PROVE  /\ ~SeqGreater(a, a)
         /\ a # b => (SeqGreater(a, b) <=> ~SeqGreater(b, a))
BY HalfRangeAssumption DEF SeqNums, SeqGreater, FullRange

\* sequence_diff agrees with sequence_greater_than, is antisymmetric and stays
\* within half the space, so `sequence_diff(..) as u64` after a comparison never
\* converts a negative number (reliability.rs:151, 159 and 343).
THEOREM DiffSign ==
  ASSUME NEW a \in SeqNums, NEW b \in SeqNums
  PROVE  /\ SeqDiff(a, b) \in -HalfRange .. HalfRange
         /\ SeqGreater(a, b) <=> SeqDiff(a, b) > 0
         /\ SeqDiff(a, b) = -SeqDiff(b, a)
BY HalfRangeAssumption DEF SeqNums, SeqGreater, SeqDiff, FullRange

\* Going k steps forward from s.
LEMMA PlusType ==
  ASSUME NEW s \in SeqNums, NEW k \in 0 .. FullRange
  PROVE  SeqPlus(s, k) \in SeqNums
BY HalfRangeAssumption DEF SeqNums, SeqPlus, FullRange

LEMMA MinusType ==
  ASSUME NEW s \in SeqNums, NEW k \in 0 .. FullRange - 1
  PROVE  SeqMinus(s, k) \in SeqNums
BY HalfRangeAssumption DEF SeqNums, SeqMinus, FullRange

LEMMA PlusPlus ==
  ASSUME NEW s \in SeqNums, NEW i \in Nat, NEW j \in Nat, i + j < FullRange
  PROVE  SeqPlus(SeqPlus(s, i), j) = SeqPlus(s, i + j)
BY HalfRangeAssumption DEF SeqNums, SeqPlus, FullRange

LEMMA PlusInjective ==
  ASSUME NEW s \in SeqNums, NEW i \in 0 .. FullRange - 1, NEW j \in 0 .. FullRange - 1,
         SeqPlus(s, i) = SeqPlus(s, j)
  PROVE  i = j
BY HalfRangeAssumption DEF SeqNums, SeqPlus, FullRange

LEMMA DistancePlus ==
  ASSUME NEW s \in SeqNums, NEW i \in 0 .. FullRange - 1
  PROVE  SeqDistance(s, SeqPlus(s, i)) = i
BY HalfRangeAssumption DEF SeqNums, SeqPlus, SeqDistance, SeqMinus, FullRange

\* Within a window of fewer than half the space, numbers compare as they were issued.
THEOREM WindowOrder ==
  ASSUME NEW s \in SeqNums, NEW i \in 0 .. HalfRange - 1, NEW j \in 0 .. HalfRange - 1
  PROVE  SeqGreater(SeqPlus(s, i), SeqPlus(s, j)) <=> i > j
BY HalfRangeAssumption DEF SeqNums, SeqPlus, SeqGreater, FullRange
=============================================================================
