---------------------------- MODULE Wire_proofs -----------------------------
(***************************************************************************)
(* Proofs that what is written into bytes is read back from them: the      *)
(* messages of a batch, the numbers of a BitBuffer, and a message that was *)
(* cut into fragments.                                                     *)
(***************************************************************************)
EXTENDS Batching, FragmentFormat, FiniteSetTheorems, SequenceTheorems, WellFoundedInduction, TLAPS

-----------------------------------------------------------------------------
(* Loops: induction over the turns, and the values a loop goes through *)

LEMMA FirstTurn ==
  ASSUME NEW S \in SUBSET Nat, S # {}
  PROVE  \E j \in S : \A k \in S : j <= k
<1>1. PICK j \in S : \A k \in S : ~(<<k, j>> \in OpToRel(<, Nat))
  BY NatLessThanWellFounded, WFMin, Zenon
<1>2. \A k \in S : ~(k < j)
  BY <1>1 DEF OpToRel
<1> QED
  BY <1>2

\* Induction over the turns of a loop, over the set G of those after which it is as
\* it should be.
LEMMA EveryTurn ==
  ASSUME NEW n \in Nat, NEW G, 0 \in G, \A i \in 0 .. n - 1 : i \in G => i + 1 \in G
  PROVE  \A i \in 0 .. n : i \in G
<1> DEFINE Bad == {i \in 0 .. n : i \notin G}
<1>1. SUFFICES ASSUME Bad # {} PROVE FALSE
  OBVIOUS
<1>2. PICK j \in Bad : \A k \in Bad : j <= k
  <2>1. Bad \in SUBSET Nat
    OBVIOUS
  <2> HIDE DEF Bad
  <2> QED
    BY <1>1, <2>1, FirstTurn
<1>3. j \in 1 .. n /\ j - 1 \notin Bad
  BY <1>2
<1>4. j - 1 \in 0 .. n - 1 /\ j - 1 \in G /\ (j - 1) + 1 = j
  BY <1>3
<1> QED
  BY <1>2, <1>4

\* f goes from start, in n turns, each of them by next.
Turns(f, n, start, next) ==
  f[0] = start /\ \A i \in 1 .. n : f[i] = next[<<f[i - 1], i>>]

\* A function that is defined from its value one turn before exists.
LEMMA TurnsDefined ==
  ASSUME NEW n \in Nat, NEW S, NEW start \in S, NEW next \in [S \X (1 .. n) -> S]
  PROVE  \E f \in [0 .. n -> S] : Turns(f, n, start, next)
<1> DEFINE G == {m \in 0 .. n : \E f \in [0 .. m -> S] : Turns(f, m, start, next)}
<1>1. 0 \in G
  <2>1. [i \in 0 .. 0 |-> start] \in [0 .. 0 -> S]
    OBVIOUS
  <2>2. Turns([i \in 0 .. 0 |-> start], 0, start, next)
    BY DEF Turns
  <2>3. \E f \in [0 .. 0 -> S] : Turns(f, 0, start, next)
    BY <2>1, <2>2
  <2> QED
    BY <2>3
<1>2. ASSUME NEW m \in 0 .. n - 1, m \in G PROVE m + 1 \in G
  <2>1. PICK f \in [0 .. m -> S] : Turns(f, m, start, next)
    BY <1>2
  <2> DEFINE g == [i \in 0 .. m + 1 |-> IF i <= m THEN f[i] ELSE next[<<f[m], i>>]]
  <2>2. g \in [0 .. m + 1 -> S]
    OBVIOUS
  <2>3. ASSUME NEW i \in 1 .. m + 1 PROVE g[i] = next[<<g[i - 1], i>>]
    <3>1. i - 1 \in 0 .. m /\ g[i - 1] = f[i - 1]
      OBVIOUS
    <3>2. CASE i <= m
      BY <2>1, <3>1, <3>2 DEF Turns
    <3>3. CASE i = m + 1
      BY <3>1, <3>3
    <3> QED
      BY <3>2, <3>3
  <2>4. g[0] = start
    BY <2>1 DEF Turns
  <2>5. Turns(g, m + 1, start, next)
    BY <2>3, <2>4 DEF Turns
  <2> HIDE DEF g
  <2>6. \E h \in [0 .. m + 1 -> S] : Turns(h, m + 1, start, next)
    BY <2>2, <2>5
  <2> QED
    BY <2>6
<1> HIDE DEF G
<1>3. n \in G
  BY <1>1, <1>2, EveryTurn
<1> QED
  BY <1>3 DEF G

-----------------------------------------------------------------------------
(* Batching: one entry of a batch *)

LEMMA Digits ==
  ASSUME NEW n \in Nat, n < Radix * Radix
  PROVE  /\ n \div Radix \in Nat /\ n \div Radix < Radix
         /\ n % Radix \in Nat
         /\ (n \div Radix) * Radix + (n % Radix) = n
<1>1. Radix \in Nat /\ Radix > 1
  BY BatchingAssumption
<1> DEFINE q == n \div Radix
           r == n % Radix
<1>2. q \in Nat /\ r \in Nat /\ Radix * q + r = n /\ Radix * q = q * Radix
  BY <1>1
<1> HIDE DEF q, r
<1>3. q < Radix
  <2> SUFFICES ASSUME q >= Radix PROVE FALSE
    BY <1>1, <1>2
  <2>1. Radix * q >= Radix * Radix
    BY <1>1, <1>2
  <2> QED
    BY <1>1, <1>2, <2>1
<1>4. q * Radix + r = n
  BY <1>2
<1> QED
  BY <1>2, <1>3, <1>4, Zenon DEF q, r

LEMMA MessageIs ==
  ASSUME NEW m \in Messages
  PROVE  m \in Seq(Nat) /\ Len(m) \in Nat /\ Len(m) < Radix * Radix
<1>1. m \in Seq(0 .. Radix - 1) /\ Len(m) < Radix * Radix
  BY BatchingAssumption
<1>2. 0 .. Radix - 1 \subseteq Nat
  OBVIOUS
<1> QED
  BY <1>1, <1>2, SeqMonotonic, LenProperties

LEMMA EntryIs ==
  ASSUME NEW m \in Messages
  PROVE  /\ Entry(m) \in Seq(Nat) /\ Len(Entry(m)) = LengthSize + Len(m)
         /\ Entry(m)[1] * Radix + Entry(m)[2] = Len(m)
         /\ \A x \in 1 .. Len(m) : Entry(m)[LengthSize + x] = m[x]
<1> DEFINE q == Len(m) \div Radix
           r == Len(m) % Radix
           digits == <<q % Radix, r>>
<1>1. m \in Seq(Nat) /\ Len(m) \in Nat
  BY MessageIs
<1>2. q \in Nat /\ q < Radix /\ r \in Nat /\ q * Radix + r = Len(m)
  BY <1>1, MessageIs, Digits, Zenon
<1> HIDE DEF q, r
<1>3. q % Radix = q
  <2>1. Radix \in Nat
    BY BatchingAssumption
  <2> QED
    BY <1>2, <2>1
<1>4. digits \in Seq(Nat) /\ Len(digits) = 2 /\ digits[1] = q /\ digits[2] = r
  BY <1>2, <1>3
<1>5. Entry(m) = digits \o m
  BY DEF Entry, q, r
<1> HIDE DEF digits
<1>6. /\ Entry(m) \in Seq(Nat) /\ Len(Entry(m)) = 2 + Len(m)
      /\ \A x \in 1 .. 2 + Len(m) : Entry(m)[x] = IF x <= 2 THEN digits[x] ELSE m[x - 2]
  <2>1. /\ digits \o m \in Seq(Nat) /\ Len(digits \o m) = Len(digits) + Len(m)
        /\ \A x \in 1 .. Len(digits) + Len(m) :
             (digits \o m)[x] = IF x <= Len(digits) THEN digits[x] ELSE m[x - Len(digits)]
    BY <1>1, <1>4, ConcatProperties, Zenon
  <2> DEFINE whole == digits \o m
  <2>2. Entry(m) = whole
    BY <1>5
  <2> HIDE DEF whole
  <2>3. Len(digits) = 2
    BY <1>4
  <2>4. /\ whole \in Seq(Nat) /\ Len(whole) = 2 + Len(m)
        /\ \A x \in 1 .. 2 + Len(m) : whole[x] = IF x <= 2 THEN digits[x] ELSE m[x - 2]
    BY <2>1, <2>3 DEF whole
  <2> QED
    BY <2>2, <2>4
<1>7. /\ Entry(m)[1] = q /\ Entry(m)[2] = r
      /\ \A x \in 1 .. Len(m) : Entry(m)[2 + x] = m[x]
  BY <1>1, <1>4, <1>6, SMTT(30)
<1>8. LengthSize = 2
  BY DEF LengthSize
<1> QED
  BY <1>2, <1>6, <1>7, <1>8, Zenon

PackingSet == [batches : Seq(Seq(Nat)), entries : Seq(Nat), count : Nat]

LEMMA FlushedType ==
  ASSUME NEW p \in PackingSet
  PROVE  Flushed(p) \in PackingSet
<1>1. p.count % Radix \in Nat
  BY BatchingAssumption DEF PackingSet
<1>2. Finished(p) \in Seq(Nat)
  BY <1>1 DEF Finished, PackingSet
<1>3. Append(p.batches, Finished(p)) \in Seq(Seq(Nat))
  BY <1>2 DEF PackingSet
<1> QED
  BY <1>3 DEF Flushed, PackingSet

LEMMA PackedType ==
  ASSUME NEW p \in PackingSet, NEW m \in Messages
  PROVE  Packed(p, m) \in PackingSet
<1> DEFINE room == IF Overflows(p, m) THEN Flushed(p) ELSE p
           added == [batches |-> room.batches, entries |-> room.entries \o Entry(m),
                     count |-> room.count + 1]
<1>1. room \in PackingSet
  BY FlushedType
<1> HIDE DEF room
<1>2. added \in PackingSet
  <2>1. room.entries \o Entry(m) \in Seq(Nat)
    BY <1>1, EntryIs, ConcatProperties DEF PackingSet
  <2> QED
    BY <1>1, <2>1 DEF PackingSet
<1>3. Packed(p, m) = IF CountReached(added) THEN Flushed(added) ELSE added
  BY DEF Packed, room
<1> QED
  BY <1>2, <1>3, FlushedType

\* The batches after each turn, and the one under construction.
LEMMA PackingsAre ==
  ASSUME NEW list \in Seq(Messages)
  PROVE  /\ Packings(list) \in [0 .. Len(list) -> PackingSet]
         /\ Packings(list)[0] = NoPacking
         /\ \A i \in 1 .. Len(list) : Packings(list)[i] = Packed(Packings(list)[i - 1], list[i])
<1> DEFINE n == Len(list)
           next == [x \in PackingSet \X (1 .. n) |-> Packed(x[1], list[x[2]])]
           IsThat(f) == f = [i \in 0 .. n |-> IF i = 0 THEN NoPacking ELSE Packed(f[i - 1], list[i])]
<1>1. n \in Nat /\ \A i \in 1 .. n : list[i] \in Messages
  BY ElementOfSeq
<1>2. NoPacking \in PackingSet
  BY DEF NoPacking, PackingSet
<1>3. next \in [PackingSet \X (1 .. n) -> PackingSet]
  <2>1. \A x \in PackingSet \X (1 .. n) : Packed(x[1], list[x[2]]) \in PackingSet
    BY <1>1, PackedType
  <2> QED
    BY <2>1
<1> HIDE DEF n
<1>4. PICK f \in [0 .. n -> PackingSet] : Turns(f, n, NoPacking, next)
  <2> HIDE DEF next
  <2> QED
    BY <1>1, <1>2, <1>3, TurnsDefined, Zenon
<1>5. ASSUME NEW i \in 1 .. n PROVE f[i] = Packed(f[i - 1], list[i])
  <2>1. i - 1 \in 0 .. n /\ f[i - 1] \in PackingSet
    BY <1>1
  <2> QED
    BY <1>4, <2>1 DEF Turns
<1>6. IsThat(f)
  <2>1. \A i \in 0 .. n : f[i] = IF i = 0 THEN NoPacking ELSE Packed(f[i - 1], list[i])
    BY <1>1, <1>4, <1>5 DEF Turns
  <2> QED
    BY <2>1
<1>7. Packings(list) = CHOOSE g : IsThat(g)
  BY DEF Packings, n
<1> HIDE DEF IsThat
<1>8. IsThat(Packings(list))
  BY <1>6, <1>7
<1> DEFINE p == Packings(list)
<1> HIDE DEF p
<1>9. p = [i \in 0 .. n |-> IF i = 0 THEN NoPacking ELSE Packed(p[i - 1], list[i])]
  BY <1>8 DEF IsThat, p
<1>10. p[0] = NoPacking /\ \A i \in 1 .. n : p[i] = Packed(p[i - 1], list[i])
  BY <1>1, <1>9
<1> DEFINE G == {i \in 0 .. n : p[i] \in PackingSet}
<1>11. 0 \in G
  BY <1>1, <1>2, <1>10
<1>12. ASSUME NEW i \in 0 .. n - 1, i \in G PROVE i + 1 \in G
  <2>1. i + 1 \in 1 .. n /\ (i + 1) - 1 = i
    BY <1>1
  <2>2. p[i + 1] = Packed(p[i], list[i + 1])
    BY <1>10, <2>1
  <2> QED
    BY <1>1, <1>12, <2>1, <2>2, PackedType
<1> HIDE DEF G
<1>13. \A i \in 0 .. n : i \in G
  BY <1>1, <1>11, <1>12, EveryTurn
<1>14. \A i \in 0 .. n : p[i] \in PackingSet
  BY <1>13 DEF G
<1> QED
  BY <1>9, <1>10, <1>14 DEF p, n

-----------------------------------------------------------------------------
(* Batching: what the batches hold *)

\* Behind the first begin bytes of e is the entry of m.
EntryAt(e, begin, m) ==
  /\ begin + LengthSize + Len(m) <= Len(e)
  /\ e[begin + 1] * Radix + e[begin + 2] = Len(m)
  /\ \A x \in 1 .. Len(m) : e[begin + LengthSize + x] = m[x]

\* The bytes e are the entries of the messages number from + 1 .. to, one after the
\* other; that of message j ends at at[j].
EntriesAt(e, list, from, to, at) ==
  /\ at[from] = 0 /\ at[to] = Len(e)
  /\ \A j \in from + 1 .. to : /\ at[j] = at[j - 1] + LengthSize + Len(list[j])
                               /\ EntryAt(e, at[j - 1], list[j])

Holds(e, list, from, to) == \E at \in [from .. to -> Nat] : EntriesAt(e, list, from, to, at)

LEMMA NoEntries ==
  ASSUME NEW list, NEW i \in Nat
  PROVE  Holds(<<>>, list, i, i)
<1> DEFINE at == [j \in i .. i |-> 0]
<1>1. at \in [i .. i -> Nat]
  OBVIOUS
<1>2. EntriesAt(<<>>, list, i, i, at)
  BY DEF EntriesAt
<1> QED
  BY <1>1, <1>2 DEF Holds

LEMMA ConcatBytes ==
  ASSUME NEW s \in Seq(Nat), NEW t \in Seq(Nat)
  PROVE  /\ s \o t \in Seq(Nat)
         /\ Len(s) \in Nat /\ Len(t) \in Nat /\ Len(s \o t) = Len(s) + Len(t)
         /\ \A i \in 1 .. Len(s) : (s \o t)[i] = s[i]
         /\ \A i \in 1 .. Len(t) : (s \o t)[Len(s) + i] = t[i]
<1> DEFINE both == s \o t
<1>1. Len(s) \in Nat /\ Len(t) \in Nat
  BY LenProperties
<1>2. /\ both \in Seq(Nat) /\ Len(both) = Len(s) + Len(t)
      /\ \A i \in 1 .. Len(s) + Len(t) : both[i] = IF i <= Len(s) THEN s[i] ELSE t[i - Len(s)]
  BY ConcatProperties, Zenon
<1> HIDE DEF both
<1>3. ASSUME NEW i \in 1 .. Len(s) PROVE both[i] = s[i]
  BY <1>1, <1>2
<1>4. ASSUME NEW i \in 1 .. Len(t) PROVE both[Len(s) + i] = t[i]
  <2>1. /\ Len(s) + i \in 1 .. Len(s) + Len(t) /\ (Len(s) + i) - Len(s) = i
        /\ ~(Len(s) + i <= Len(s))
    BY <1>1
  <2> QED
    BY <1>2, <2>1
<1> QED
  BY <1>1, <1>2, <1>3, <1>4 DEF both

LEMMA EntriesGrow ==
  ASSUME NEW e \in Seq(Nat), NEW list \in Seq(Messages), NEW from \in Nat, NEW to \in Nat,
         from <= to, to < Len(list), Holds(e, list, from, to)
  PROVE  Holds(e \o Entry(list[to + 1]), list, from, to + 1)
<1> DEFINE m == list[to + 1]
           x == Entry(m)
           e2 == e \o x
<1>1. PICK at \in [from .. to -> Nat] : EntriesAt(e, list, from, to, at)
  BY DEF Holds
<1>2. Len(list) \in Nat /\ to + 1 \in 1 .. Len(list) /\ m \in Messages
  BY LenProperties, ElementOfSeq
<1>3. \A j \in 1 .. Len(list) : list[j] \in Messages /\ Len(list[j]) \in Nat
  BY ElementOfSeq, MessageIs
<1> HIDE DEF m
<1>4. x \in Seq(Nat) /\ Len(x) = 2 + Len(m) /\ Len(m) \in Nat
  BY <1>2, EntryIs, MessageIs DEF LengthSize
<1>10. x[1] * Radix + x[2] = Len(m) /\ \A y \in 1 .. Len(m) : x[2 + y] = m[y]
  BY <1>2, EntryIs, Zenon DEF LengthSize
<1> HIDE DEF x
<1>5. e2 \in Seq(Nat) /\ Len(e) \in Nat /\ Len(e2) = Len(e) + Len(x)
  BY <1>4, ConcatBytes
<1>11. /\ \A i \in 1 .. Len(e) : e2[i] = e[i]
       /\ \A i \in 1 .. Len(x) : e2[Len(e) + i] = x[i]
  BY <1>4, ConcatBytes
<1> HIDE DEF e2
<1>12. Len(e2) \in Nat /\ Len(e) <= Len(e2)
  BY <1>4, <1>5
<1> DEFINE at2 == [j \in from .. to + 1 |-> IF j <= to THEN at[j] ELSE Len(e2)]
<1>6. at2 \in [from .. to + 1 -> Nat]
  BY <1>4, <1>5
<1>7. ASSUME NEW j \in from + 1 .. to + 1
      PROVE  at2[j] = at2[j - 1] + LengthSize + Len(list[j]) /\ EntryAt(e2, at2[j - 1], list[j])
  <2>1. CASE j <= to
    <3>1. j \in from + 1 .. to /\ j - 1 \in from .. to /\ j \in 1 .. Len(list)
      BY <2>1, <1>2
    <3>2. at2[j] = at[j] /\ at2[j - 1] = at[j - 1] /\ at[j - 1] \in Nat
      BY <3>1
    <3>3. at[j] = at[j - 1] + LengthSize + Len(list[j]) /\ EntryAt(e, at[j - 1], list[j])
      BY <1>1, <3>1 DEF EntriesAt
    <3>4. EntryAt(e2, at[j - 1], list[j])
      <4> DEFINE b == at[j - 1]
                 l == Len(list[j])
      <4>1. b \in Nat /\ l \in Nat /\ b + 2 + l <= Len(e)
        BY <1>3, <3>1, <3>2, <3>3 DEF EntryAt, LengthSize
      <4> HIDE DEF b, l
      <4>2. b + 1 \in 1 .. Len(e) /\ b + 2 \in 1 .. Len(e) /\ b + 2 + l <= Len(e2)
        BY <1>5, <1>12, <4>1
      <4>3. \A y \in 1 .. l : b + 2 + y \in 1 .. Len(e)
        <5> DEFINE size == Len(e)
        <5>1. size \in Nat /\ b + 2 + l <= size
          BY <1>5, <4>1
        <5> HIDE DEF size
        <5> QED
          BY <4>1, <5>1 DEF size
      <4>4. /\ e2[b + 1] = e[b + 1] /\ e2[b + 2] = e[b + 2]
            /\ \A y \in 1 .. l : e2[b + 2 + y] = e[b + 2 + y]
        BY <1>11, <4>2, <4>3, Zenon
      <4> QED
        BY <3>3, <4>2, <4>4, Zenon DEF EntryAt, LengthSize, b, l
    <3> QED
      BY <3>2, <3>3, <3>4
  <2>2. CASE j = to + 1
    <3>1. at2[j] = Len(e2) /\ at2[j - 1] = at[to] /\ at[to] = Len(e) /\ list[j] = m
      BY <1>1, <2>2 DEF EntriesAt, m
    <3>2. EntryAt(e2, Len(e), m)
      <4>1. 1 \in 1 .. Len(x) /\ 2 \in 1 .. Len(x) /\ Len(e) + 2 + Len(m) <= Len(e2)
        BY <1>4, <1>5
      <4>2. \A y \in 1 .. Len(m) : 2 + y \in 1 .. Len(x) /\ Len(e) + (2 + y) = Len(e) + 2 + y
        BY <1>4, <1>5
      <4>3. /\ e2[Len(e) + 1] = x[1] /\ e2[Len(e) + 2] = x[2]
            /\ \A y \in 1 .. Len(m) : e2[Len(e) + 2 + y] = x[2 + y]
        BY <1>11, <4>1, <4>2, Zenon
      <4> QED
        BY <1>10, <4>1, <4>3, Zenon DEF EntryAt, LengthSize
    <3>3. Len(e2) = Len(e) + LengthSize + Len(m)
      BY <1>4, <1>5 DEF LengthSize
    <3> QED
      BY <3>1, <3>2, <3>3
  <2> QED
    BY <2>1, <2>2
<1>8. EntriesAt(e2, list, from, to + 1, at2)
  <2>1. at2[from] = 0 /\ at2[to + 1] = Len(e2)
    BY <1>1 DEF EntriesAt
  <2> HIDE DEF at2
  <2> QED
    BY <1>7, <2>1 DEF EntriesAt
<1> HIDE DEF at2
<1> QED
  BY <1>6, <1>8 DEF Holds, e2, x, m

\* A batch of the messages number from + 1 .. to.
BatchOf(data, list, from, to) ==
  /\ from < to /\ to - from <= MaxBatchMessages
  /\ \E e \in Seq(Nat) : data = <<to - from>> \o e /\ Holds(e, list, from, to)
  /\ Len(data) > max_size => to - from = 1

\* The batches and the one under construction after i turns of batch_messages: batch k
\* ends with message cut[k].
CutInto(p, list, i, cut) ==
  /\ cut[0] = 0 /\ cut[Len(p.batches)] + p.count = i
  /\ \A k \in 1 .. Len(p.batches) : BatchOf(p.batches[k], list, cut[k - 1], cut[k])
  /\ Holds(p.entries, list, cut[Len(p.batches)], i)

PackedSoFar(p, list, i) ==
  /\ \E cut \in [0 .. Len(p.batches) -> 0 .. i] : CutInto(p, list, i, cut)
  /\ p.count <= MaxBatchMessages
  /\ HeaderSize + Len(p.entries) > max_size => p.count <= 1

LEMMA FlushKeepsCuts ==
  ASSUME NEW p \in PackingSet, NEW list \in Seq(Messages), NEW i \in 0 .. Len(list),
         PackedSoFar(p, list, i)
  PROVE  PackedSoFar(Flushed(p), list, i) /\ Flushed(p).count = 0
<1>1. CASE p.count = 0
  BY <1>1 DEF Flushed
<1>2. CASE p.count # 0
  <2> DEFINE n == Len(p.batches)
             d == <<p.count>> \o p.entries
             q == Flushed(p)
  <2>1. PICK cut \in [0 .. n -> 0 .. i] : CutInto(p, list, i, cut)
    BY DEF PackedSoFar
  <2>2. /\ p.batches \in Seq(Seq(Nat)) /\ p.entries \in Seq(Nat)
        /\ p.count \in Nat /\ p.count > 0 /\ i \in Nat
    BY <1>2, LenProperties DEF PackingSet
  <2>3. n \in Nat
    BY <2>2, LenProperties
  <2>4. p.count % Radix = p.count
    <3> DEFINE c == p.count
    <3>1. c \in Nat /\ c <= MaxBatchMessages
      BY <2>2 DEF PackedSoFar
    <3> HIDE DEF c
    <3>2. c % Radix = c
      BY <3>1, BatchingAssumption
    <3> QED
      BY <3>2 DEF c
  <2>5. q = [batches |-> Append(p.batches, d), entries |-> <<>>, count |-> 0]
    BY <1>2, <2>4 DEF Flushed, Finished
  <2>6. /\ <<p.count>> \in Seq(Nat) /\ Len(<<p.count>>) = 1
    BY <2>2
  <2>7. d \in Seq(Nat) /\ Len(d) = 1 + Len(p.entries) /\ Len(p.entries) \in Nat
    <3> HIDE DEF d
    <3>1. /\ d \in Seq(Nat) /\ Len(d) = Len(<<p.count>>) + Len(p.entries)
          /\ Len(p.entries) \in Nat
      BY <2>2, <2>6, ConcatBytes, Zenon DEF d
    <3> QED
      BY <2>6, <3>1
  <2> HIDE DEF d
  <2>8. /\ Len(Append(p.batches, d)) = n + 1 /\ Append(p.batches, d)[n + 1] = d
        /\ \A k \in 1 .. n : Append(p.batches, d)[k] = p.batches[k]
    BY <2>2, <2>7, AppendProperties
  <2>9. /\ q.batches = Append(p.batches, d) /\ q.entries = <<>> /\ q.count = 0
    BY <2>5
  <2> HIDE DEF q, n
  <2> DEFINE cut2 == [k \in 0 .. n + 1 |-> IF k <= n THEN cut[k] ELSE i]
  <2>10. cut2 \in [0 .. n + 1 -> 0 .. i] /\ cut2[0] = 0 /\ cut2[n + 1] = i
    BY <2>1, <2>2, <2>3 DEF CutInto
  <2>11. BatchOf(d, list, cut[n], i)
    <3>1. cut[n] + p.count = i /\ Holds(p.entries, list, cut[n], i) /\ cut[n] \in Nat
      BY <2>1, <2>3 DEF CutInto, n
    <3>2. i - cut[n] = p.count
      BY <2>2, <3>1
    <3>3. p.count <= MaxBatchMessages /\ (HeaderSize + Len(p.entries) > max_size => p.count <= 1)
      BY DEF PackedSoFar
    <3>4. Len(d) > max_size => p.count = 1
      BY <2>2, <2>7, <3>3 DEF HeaderSize
    <3>5. cut[n] < i
      BY <2>2, <3>1
    <3> QED
      BY <2>2, <3>1, <3>2, <3>3, <3>4, <3>5 DEF BatchOf, d
  <2>12. ASSUME NEW k \in 1 .. n + 1
         PROVE  BatchOf(q.batches[k], list, cut2[k - 1], cut2[k])
    <3>1. CASE k <= n
      <4>1. k \in 1 .. n /\ cut2[k] = cut[k] /\ cut2[k - 1] = cut[k - 1]
        BY <2>3, <3>1
      <4>2. BatchOf(p.batches[k], list, cut[k - 1], cut[k])
        BY <2>1, <4>1 DEF CutInto, n
      <4> QED
        BY <2>8, <2>9, <4>1, <4>2
    <3>2. CASE k = n + 1
      <4>1. cut2[k] = i /\ cut2[k - 1] = cut[n]
        BY <2>3, <3>2
      <4> QED
        BY <2>8, <2>9, <2>11, <3>2, <4>1
    <3> QED
      BY <2>3, <3>1, <3>2
  <2> HIDE DEF cut2
  <2>13. Holds(q.entries, list, cut2[n + 1], i)
    BY <2>2, <2>9, <2>10, NoEntries
  <2>14. CutInto(q, list, i, cut2)
    BY <2>2, <2>8, <2>9, <2>10, <2>12, <2>13 DEF CutInto
  <2>15. q.count <= MaxBatchMessages /\ q.count <= 1
    BY <2>9, BatchingAssumption
  <2>16. \E c \in [0 .. Len(q.batches) -> 0 .. i] : CutInto(q, list, i, c)
    BY <2>8, <2>9, <2>10, <2>14
  <2> QED
    BY <2>9, <2>15, <2>16 DEF PackedSoFar, q
<1> QED
  BY <1>1, <1>2

LEMMA PackKeepsCuts ==
  ASSUME NEW p \in PackingSet, NEW list \in Seq(Messages), NEW i \in 0 .. Len(list) - 1,
         PackedSoFar(p, list, i), p.count < MaxBatchMessages
  PROVE  LET q == Packed(p, list[i + 1])
         IN  PackedSoFar(q, list, i + 1) /\ q.count < MaxBatchMessages
<1> DEFINE m == list[i + 1]
           room == IF Overflows(p, m) THEN Flushed(p) ELSE p
           added == [batches |-> room.batches, entries |-> room.entries \o Entry(m),
                     count |-> room.count + 1]
           n == Len(room.batches)
<1>1. /\ Len(list) \in Nat /\ i \in Nat /\ i \in 0 .. Len(list) /\ i + 1 \in 0 .. Len(list)
      /\ i < Len(list) /\ m \in Messages
  <2>1. Len(list) \in Nat
    BY LenProperties
  <2>2. i + 1 \in 1 .. Len(list)
    BY <2>1
  <2> QED
    BY <2>1, <2>2, ElementOfSeq
<1> HIDE DEF m
<1>2. room \in PackingSet /\ PackedSoFar(room, list, i) /\ room.count < MaxBatchMessages
      /\ (room.count = 0 \/ ~Overflows(room, m))
  <2>1. Flushed(p) \in PackingSet /\ PackedSoFar(Flushed(p), list, i) /\ Flushed(p).count = 0
    BY <1>1, FlushedType, FlushKeepsCuts
  <2> QED
    BY <2>1, BatchingAssumption
<1> HIDE DEF room
<1>3. /\ room.batches \in Seq(Seq(Nat)) /\ room.entries \in Seq(Nat) /\ room.count \in Nat
      /\ n \in Nat
  BY <1>2, LenProperties DEF PackingSet
<1>4. /\ Entry(m) \in Seq(Nat) /\ Len(Entry(m)) = LengthSize + Len(m) /\ Len(m) \in Nat
  BY <1>1, EntryIs, MessageIs
<1> DEFINE e == room.entries \o Entry(m)
<1>5. /\ e \in Seq(Nat) /\ Len(room.entries) \in Nat
      /\ Len(e) = Len(room.entries) + LengthSize + Len(m)
  <2>1. /\ e \in Seq(Nat) /\ Len(room.entries) \in Nat
        /\ Len(e) = Len(room.entries) + Len(Entry(m))
    BY <1>3, <1>4, ConcatBytes, Zenon
  <2> DEFINE a == Len(room.entries)
             b == Len(m)
  <2>2. Len(e) = a + (LengthSize + b) /\ a \in Nat /\ b \in Nat
    BY <1>4, <2>1, Zenon
  <2> HIDE DEF a, b, e
  <2>3. a + (LengthSize + b) = a + LengthSize + b
    BY <2>2 DEF LengthSize
  <2> QED
    BY <2>1, <2>2, <2>3, Zenon DEF a, b
<1>6. /\ added.batches = room.batches /\ added.entries = e /\ added.count = room.count + 1
      /\ added \in PackingSet
  <2> HIDE DEF e
  <2>1. added = [batches |-> room.batches, entries |-> e, count |-> room.count + 1]
    BY DEF e
  <2> HIDE DEF added
  <2>2. room.count + 1 \in Nat /\ room.batches \in Seq(Seq(Nat))
    BY <1>3 DEF PackingSet
  <2> QED
    BY <1>5, <2>1, <2>2 DEF PackingSet
<1> HIDE DEF added, e
<1>7. PICK cut \in [0 .. n -> 0 .. i] : CutInto(room, list, i, cut)
  BY <1>2 DEF PackedSoFar
<1>8. cut[n] \in Nat /\ cut[n] <= i /\ cut[n] + room.count = i
  BY <1>1, <1>3, <1>7 DEF CutInto
<1>9. Holds(e, list, cut[n], i + 1)
  <2>1. Holds(room.entries, list, cut[n], i)
    BY <1>7 DEF CutInto
  <2> QED
    BY <1>1, <1>3, <1>8, <2>1, EntriesGrow DEF e, m
<1>10. CutInto(added, list, i + 1, cut)
  <2>1. cut[n] + (room.count + 1) = i + 1
    BY <1>1, <1>3, <1>8
  <2> QED
    BY <1>6, <1>7, <1>9, <2>1 DEF CutInto
<1>11. cut \in [0 .. n -> 0 .. i + 1]
  BY <1>1
<1>12. HeaderSize + Len(e) > max_size => room.count + 1 <= 1
  <2>1. room.count = 0 \/ ~(HeaderSize + Len(room.entries) + LengthSize + Len(m) > max_size)
    BY <1>2 DEF Overflows
  <2>2. HeaderSize + Len(e) = HeaderSize + Len(room.entries) + LengthSize + Len(m)
    BY <1>4, <1>5 DEF HeaderSize, LengthSize, e
  <2> QED
    BY <2>1, <2>2
<1>13. room.count + 1 <= MaxBatchMessages /\ MaxBatchMessages \in Nat /\ MaxBatchMessages > 0
  BY <1>2, <1>3, BatchingAssumption
<1>14. PackedSoFar(added, list, i + 1)
  BY <1>6, <1>10, <1>11, <1>12, <1>13 DEF PackedSoFar
<1>15. Packed(p, m) = IF CountReached(added) THEN Flushed(added) ELSE added
  BY DEF Packed, added, room, e
<1>16. PackedSoFar(Packed(p, m), list, i + 1) /\ Packed(p, m).count < MaxBatchMessages
  <2>1. CASE CountReached(added)
    BY <1>1, <1>6, <1>13, <1>14, <1>15, <2>1, FlushKeepsCuts
  <2>2. CASE ~CountReached(added)
    <3>1. room.count + 1 # MaxBatchMessages
      BY <1>6, <2>2 DEF CountReached
    <3> QED
      BY <1>3, <1>6, <1>13, <1>14, <1>15, <2>2, <3>1
  <2> QED
    BY <2>1, <2>2
<1> QED
  BY <1>16 DEF m

\* The batches hold the messages of the list, each of them those behind the former.
BatchesHold(batches, list, cut) ==
  /\ cut[0] = 0 /\ cut[Len(batches)] = Len(list)
  /\ \A k \in 1 .. Len(batches) : BatchOf(batches[k], list, cut[k - 1], cut[k])

LEMMA BatchesAre ==
  ASSUME NEW list \in Seq(Messages)
  PROVE  /\ BatchMessages(list) \in Seq(Seq(Nat))
         /\ \E cut \in [0 .. Len(BatchMessages(list)) -> 0 .. Len(list)] :
              BatchesHold(BatchMessages(list), list, cut)
<1> DEFINE n == Len(list)
           p == Packings(list)
           G == {i \in 0 .. n : PackedSoFar(p[i], list, i) /\ p[i].count < MaxBatchMessages}
<1>1. n \in Nat
  BY LenProperties
<1>2. /\ \A i \in 0 .. n : p[i] \in PackingSet
      /\ p[0] = NoPacking /\ \A i \in 1 .. n : p[i] = Packed(p[i - 1], list[i])
  BY PackingsAre
<1> HIDE DEF p
<1>3. 0 \in G
  <2> DEFINE cut == [k \in 0 .. 0 |-> 0]
  <2>1. NoPacking.batches = <<>> /\ NoPacking.entries = <<>> /\ NoPacking.count = 0
    BY DEF NoPacking
  <2>2. cut \in [0 .. 0 -> 0 .. 0] /\ cut[0] = 0
    OBVIOUS
  <2> HIDE DEF cut
  <2>3. CutInto(NoPacking, list, 0, cut)
    BY <2>1, <2>2, NoEntries DEF CutInto
  <2>4. 0 <= MaxBatchMessages /\ 0 < MaxBatchMessages /\ 0 <= 1
    BY BatchingAssumption
  <2>5. PackedSoFar(NoPacking, list, 0)
    BY <2>1, <2>2, <2>3, <2>4 DEF PackedSoFar
  <2> QED
    BY <1>1, <1>2, <2>1, <2>4, <2>5
<1>4. ASSUME NEW i \in 0 .. n - 1, i \in G PROVE i + 1 \in G
  <2>1. i + 1 \in 1 .. n /\ (i + 1) - 1 = i /\ i \in 0 .. n /\ i + 1 \in 0 .. n
    BY <1>1
  <2>2. p[i + 1] = Packed(p[i], list[i + 1]) /\ p[i] \in PackingSet
    BY <1>2, <2>1
  <2>3. PackedSoFar(p[i], list, i) /\ p[i].count < MaxBatchMessages
    BY <1>4
  <2>4. PackedSoFar(p[i + 1], list, i + 1) /\ p[i + 1].count < MaxBatchMessages
    BY <2>2, <2>3, PackKeepsCuts
  <2> QED
    BY <2>1, <2>4
<1> HIDE DEF G
<1>5. n \in G
  <2>1. \A i \in 0 .. n : i \in G
    BY <1>1, <1>3, <1>4, EveryTurn
  <2> QED
    BY <1>1, <2>1
<1>6. p[n] \in PackingSet /\ PackedSoFar(p[n], list, n)
  BY <1>1, <1>2, <1>5 DEF G
<1> DEFINE q == Flushed(p[n])
<1>7. q \in PackingSet /\ PackedSoFar(q, list, n) /\ q.count = 0
  BY <1>1, <1>6, FlushedType, FlushKeepsCuts
<1>8. BatchMessages(list) = q.batches
  BY DEF BatchMessages, p
<1> HIDE DEF q
<1>9. PICK cut \in [0 .. Len(q.batches) -> 0 .. n] : CutInto(q, list, n, cut)
  BY <1>7 DEF PackedSoFar
<1>10. q.batches \in Seq(Seq(Nat)) /\ Len(q.batches) \in Nat
  BY <1>7, LenProperties DEF PackingSet
<1>11. cut[Len(q.batches)] = n
  <2> DEFINE k == Len(q.batches)
  <2>1. cut[k] + q.count = n
    BY <1>9, Zenon DEF CutInto
  <2>2. k \in 0 .. k
    BY <1>10
  <2> HIDE DEF k
  <2>3. cut[k] \in 0 .. n
    BY <1>9, <2>2 DEF k
  <2> QED
    BY <1>1, <1>7, <2>1, <2>3 DEF k
<1>12. BatchesHold(q.batches, list, cut)
  BY <1>9, <1>11 DEF BatchesHold, CutInto
<1> QED
  BY <1>8, <1>9, <1>10, <1>12

-----------------------------------------------------------------------------
(* Batching: reading a batch *)

LEMMA SliceIs ==
  ASSUME NEW S, NEW s \in Seq(S), NEW from \in Nat, NEW to \in Nat, from <= to, to <= Len(s)
  PROVE  LET slice == SubSeq(s, from + 1, to)
         IN  /\ slice \in Seq(S) /\ Len(slice) = to - from
             /\ \A i \in 1 .. to - from : slice[i] = s[from + i]
<1> DEFINE first == from + 1
           slice == SubSeq(s, first, to)
<1>1. Len(s) \in Nat /\ first \in Nat /\ 1 <= first /\ first <= to + 1 /\ to <= Len(s)
  BY LenProperties
<1> HIDE DEF first
<1>2. \A i \in first .. to : s[i] \in S
  BY <1>1, ElementOfSeq
<1>3. /\ slice \in Seq(S) /\ Len(slice) = (IF first <= to THEN to - first + 1 ELSE 0)
      /\ \A i \in 1 .. to - first + 1 : slice[i] = s[first + i - 1]
  BY <1>1, <1>2, SubSeqProperties
<1> HIDE DEF slice
<1>4. Len(slice) = to - from /\ to - first + 1 = to - from
  BY <1>1, <1>3 DEF first
<1>5. \A i \in 1 .. to - from : first + i - 1 = from + i
  BY DEF first
<1> QED
  BY <1>3, <1>4, <1>5 DEF slice, first

ReadingSet == [offset : Nat, messages : Seq(Seq(Nat))]

\* The bytes of data are those of a batch with the entries e, as far as they go.
BeginsBatch(data, e) ==
  Len(data) <= HeaderSize + Len(e) /\ \A x \in 1 .. Len(data) - 1 : data[HeaderSize + x] = e[x]

LEMMA UnpackedType ==
  ASSUME NEW data \in Seq(Nat), NEW r \in ReadingSet
  PROVE  Unpacked(data, r) \in SUBSET ReadingSet
<1> DEFINE begin == r.offset + LengthSize
           length == data[r.offset + 1] * Radix + data[r.offset + 2]
           part == SubSeq(data, begin + 1, begin + length)
<1>1. r.offset \in Nat /\ r.messages \in Seq(Seq(Nat)) /\ begin \in Nat /\ Len(data) \in Nat
  BY LenProperties DEF ReadingSet, LengthSize
<1>2. CASE begin > Len(data)
  BY <1>2 DEF Unpacked, Malformed
<1>3. CASE begin <= Len(data)
  <2>1. length \in Nat
    <3>1. r.offset + 1 \in 1 .. Len(data) /\ r.offset + 2 \in 1 .. Len(data)
      BY <1>1, <1>3 DEF LengthSize
    <3> DEFINE a == data[r.offset + 1]
               b == data[r.offset + 2]
    <3>2. a \in Nat /\ b \in Nat /\ Radix \in Nat
      BY <3>1, ElementOfSeq, BatchingAssumption
    <3> HIDE DEF a, b
    <3>3. a * Radix + b \in Nat
      BY <3>2
    <3> QED
      BY <3>3, Zenon DEF a, b
  <2> HIDE DEF length
  <2>2. CASE begin + length > Len(data)
    BY <1>3, <2>2 DEF Unpacked, Malformed, length
  <2>3. CASE begin + length <= Len(data)
    <3>1. part \in Seq(Nat)
      <4> HIDE DEF begin
      <4>1. begin + 1 \in Int /\ begin + length \in Int
        BY <1>1, <2>1
      <4>2. \A i \in begin + 1 .. begin + length : data[i] \in Nat
        BY <1>1, <2>1, <2>3, ElementOfSeq
      <4> QED
        BY <4>1, <4>2, SubSeqProperties
    <3>2. Append(r.messages, part) \in Seq(Seq(Nat)) /\ begin + length \in Nat
      <4> HIDE DEF part, begin
      <4> QED
        BY <1>1, <2>1, <3>1, AppendProperties
    <3> HIDE DEF part
    <3>3. [offset |-> begin + length, messages |-> Append(r.messages, part)] \in ReadingSet
      BY <3>2 DEF ReadingSet
    <3>4. Unpacked(data, r) = {[offset |-> begin + length, messages |-> Append(r.messages, part)]}
               \/ Unpacked(data, r) = {}
      BY DEF Unpacked, Malformed, length, part
    <3> QED
      BY <3>3, <3>4
  <2> QED
    BY <1>1, <2>1, <2>2, <2>3
<1> QED
  BY <1>1, <1>2, <1>3

\* What has been read after each turn.
LEMMA ReadingsAre ==
  ASSUME NEW data \in Seq(Nat), data # <<>>
  PROVE  /\ data[1] \in Nat
         /\ Readings(data)[0] = {[offset |-> HeaderSize, messages |-> <<>>]}
         /\ \A i \in 1 .. data[1] :
              Readings(data)[i] = UNION {Unpacked(data, r) : r \in Readings(data)[i - 1]}
<1> DEFINE n == data[1]
           start == {[offset |-> HeaderSize, messages |-> <<>>]}
           step(rs) == UNION {Unpacked(data, r) : r \in rs}
           S == SUBSET ReadingSet
           next == [x \in S \X (1 .. n) |-> step(x[1])]
           IsThat(f) == f = [i \in 0 .. n |-> IF i = 0 THEN start ELSE step(f[i - 1])]
<1>1. n \in Nat
  <2>1. Len(data) \in Nat \ {0}
    BY EmptySeq
  <2>2. 1 \in 1 .. Len(data)
    BY <2>1
  <2> QED
    BY <2>2, ElementOfSeq
<1> HIDE DEF n
<1>2. start \in S
  <2>1. <<>> \in Seq(Seq(Nat)) /\ HeaderSize \in Nat
    BY EmptySeq DEF HeaderSize
  <2> QED
    BY <2>1 DEF ReadingSet
<1>3. ASSUME NEW rs \in S PROVE step(rs) \in S
  BY UnpackedType
<1>4. next \in [S \X (1 .. n) -> S]
  <2> HIDE DEF step, S
  <2>1. \A x \in S \X (1 .. n) : step(x[1]) \in S
    BY <1>3
  <2> QED
    BY <2>1
<1> HIDE DEF S, start, step
<1>5. PICK f \in [0 .. n -> S] : Turns(f, n, start, next)
  <2> HIDE DEF next
  <2> QED
    BY <1>1, <1>2, <1>4, TurnsDefined, Zenon
<1>6. ASSUME NEW i \in 1 .. n PROVE f[i] = step(f[i - 1])
  <2>1. i - 1 \in 0 .. n /\ f[i - 1] \in S
    BY <1>1
  <2> QED
    BY <1>5, <2>1 DEF Turns
<1>7. IsThat(f)
  <2>1. \A i \in 0 .. n : f[i] = IF i = 0 THEN start ELSE step(f[i - 1])
    BY <1>1, <1>5, <1>6 DEF Turns
  <2> QED
    BY <2>1
<1>8. Readings(data) = CHOOSE g : IsThat(g)
  BY DEF Readings, n, start, step
<1> HIDE DEF IsThat
<1>9. IsThat(Readings(data))
  BY <1>7, <1>8
<1> DEFINE p == Readings(data)
<1> HIDE DEF p
<1>10. p = [i \in 0 .. n |-> IF i = 0 THEN start ELSE step(p[i - 1])]
  BY <1>9 DEF IsThat, p
<1>11. p[0] = start /\ \A i \in 1 .. n : p[i] = step(p[i - 1])
  BY <1>1, <1>10
<1> QED
  BY <1>1, <1>11 DEF p, n, start, step

LEMMA UnpackedEntry ==
  ASSUME NEW data \in Seq(Nat), NEW e \in Seq(Nat), BeginsBatch(data, e),
         NEW m \in Messages, NEW b \in Nat, EntryAt(e, b, m), NEW read
  PROVE  LET r   == [offset |-> HeaderSize + b, messages |-> read]
             end == HeaderSize + b + LengthSize + Len(m)
         IN  /\ end <= Len(data) =>
                  Unpacked(data, r) = {[offset |-> end, messages |-> Append(read, m)]}
             /\ end > Len(data) => Unpacked(data, r) = {}
<1> DEFINE r == [offset |-> HeaderSize + b, messages |-> read]
           end == HeaderSize + b + LengthSize + Len(m)
           l == Len(m)
           n == Len(data)
           offset == HeaderSize + b
           begin == offset + LengthSize
           length == data[offset + 1] * Radix + data[offset + 2]
           part == SubSeq(data, begin + 1, begin + length)
<1>1. m \in Seq(Nat) /\ l \in Nat /\ n \in Nat /\ Len(e) \in Nat
  BY MessageIs, LenProperties
<1>2. n <= 1 + Len(e) /\ \A x \in 1 .. n - 1 : data[1 + x] = e[x]
  BY DEF BeginsBatch, HeaderSize
<1>3. /\ b + 2 + l <= Len(e) /\ e[b + 1] * Radix + e[b + 2] = l
      /\ \A x \in 1 .. l : e[b + 2 + x] = m[x]
  BY Zenon DEF EntryAt, LengthSize
<1> HIDE DEF l, n
<1>4. /\ offset = 1 + b /\ begin = 3 + b /\ end = 3 + b + l
  BY <1>1 DEF HeaderSize, LengthSize, l
<1>5. /\ r.offset = offset /\ r.messages = read
  OBVIOUS
<1> HIDE DEF r, offset, begin, end
<1>6. Unpacked(data, r) = IF begin > n THEN {}
                          ELSE IF begin + length > n THEN {}
                          ELSE {[offset |-> begin + length, messages |-> Append(read, part)]}
  BY <1>5 DEF Unpacked, Malformed, begin, offset, n
<1>7. CASE begin > n
  <2>1. end > n /\ ~(end <= n)
    BY <1>1, <1>4, <1>7
  <2> QED
    BY <1>6, <1>7, <2>1 DEF r, end, n, offset
<1>8. CASE begin <= n
  <2>1. length = l
    <3>1. b + 1 \in 1 .. n - 1 /\ b + 2 \in 1 .. n - 1
      BY <1>1, <1>4, <1>8
    <3>2. 1 + (b + 1) = offset + 1 /\ 1 + (b + 2) = offset + 2
      BY <1>4
    <3>4. data[1 + (b + 1)] = e[b + 1] /\ data[1 + (b + 2)] = e[b + 2]
      BY <1>2, <3>1, Zenon
    <3>3. data[offset + 1] = e[b + 1] /\ data[offset + 2] = e[b + 2]
      BY <3>2, <3>4
    <3> QED
      BY <1>3, <3>3, Zenon
  <2> HIDE DEF length
  <2>2. begin + length = end
    BY <1>1, <1>4, <2>1
  <2>3. CASE end > n
    <3>1. ~(end <= n) /\ ~(begin > n)
      BY <1>1, <1>4, <1>8, <2>3
    <3> QED
      BY <1>6, <2>2, <2>3, <3>1, Zenon DEF r, end, n, offset
  <2>4. CASE end <= n
    <3>1. part = m
      <4> DEFINE to == begin + length
      <4>1. begin \in Nat /\ to \in Nat /\ begin <= to /\ to <= Len(data) /\ to - begin = l
        BY <1>1, <1>4, <2>1, <2>4 DEF n
      <4>2. part = SubSeq(data, begin + 1, to)
        OBVIOUS
      <4> HIDE DEF part, to
      <4>3. /\ part \in Seq(Nat) /\ Len(part) = l /\ \A i \in 1 .. l : part[i] = data[begin + i]
        <5> HIDE DEF begin
        <5>1. /\ part \in Seq(Nat) /\ Len(part) = to - begin
              /\ \A i \in 1 .. to - begin : part[i] = data[begin + i]
          BY <4>1, <4>2, SliceIs, Zenon DEF n
        <5> QED
          BY <4>1, <5>1, Zenon
      <4>5. ASSUME NEW i \in 1 .. l PROVE part[i] = m[i]
        <5>1. /\ b + 2 + i \in 1 .. n - 1 /\ begin + i = 1 + (b + 2 + i)
          <6>1. begin = 3 + b /\ 3 + b + l <= n
            BY <1>4, <2>4
          <6> HIDE DEF begin
          <6> QED
            BY <1>1, <6>1
        <5>2. part[i] = data[1 + (b + 2 + i)]
          BY <4>3, <5>1
        <5> QED
          BY <1>2, <1>3, <5>1, <5>2, Zenon
      <4> QED
        BY <1>1, <4>3, <4>5, SeqEqual DEF l
    <3>2. ~(end > n) /\ ~(begin > n)
      BY <1>1, <1>4, <1>8, <2>4
    <3> HIDE DEF part
    <3> QED
      BY <1>6, <2>2, <2>4, <3>1, <3>2, Zenon DEF r, end, n, offset
  <2> QED
    BY <1>1, <1>4, <2>3, <2>4
<1> QED
  BY <1>1, <1>4, <1>7, <1>8

LEMMA SliceGrows ==
  ASSUME NEW S, NEW s \in Seq(S), NEW from \in Nat, NEW to \in Nat, NEW next \in Nat,
         from <= to, next = to + 1, next <= Len(s)
  PROVE  Append(SubSeq(s, from + 1, to), s[next]) = SubSeq(s, from + 1, next)
<1> DEFINE slice == SubSeq(s, from + 1, to)
           longer == SubSeq(s, from + 1, next)
           l == to - from
<1>1. /\ Len(s) \in Nat /\ to <= Len(s) /\ from <= next /\ l \in Nat /\ next - from = l + 1
      /\ next \in 1 .. Len(s) /\ from + (l + 1) = next
  BY LenProperties
<1>2. slice \in Seq(S) /\ Len(slice) = l /\ \A k \in 1 .. l : slice[k] = s[from + k]
  BY <1>1, SliceIs
<1>3. longer \in Seq(S) /\ Len(longer) = next - from
      /\ \A k \in 1 .. next - from : longer[k] = s[from + k]
  BY <1>1, SliceIs
<1>4. s[next] \in S
  BY <1>1, ElementOfSeq
<1> HIDE DEF slice, longer, l
<1> DEFINE x == s[next]
           appended == Append(slice, x)
<1> HIDE DEF x
<1>5. /\ appended \in Seq(S) /\ Len(appended) = Len(slice) + 1
      /\ \A k \in 1 .. Len(slice) : appended[k] = slice[k]
      /\ appended[Len(slice) + 1] = x
  BY <1>2, <1>4, AppendProperties DEF x
<1> HIDE DEF appended
<1>6. /\ appended \in Seq(S) /\ Len(appended) = l + 1 /\ appended[l + 1] = s[next]
      /\ \A k \in 1 .. l : appended[k] = slice[k]
  BY <1>2, <1>5 DEF x
<1>7. ASSUME NEW k \in 1 .. l + 1 PROVE appended[k] = longer[k]
  <2>1. CASE k \in 1 .. l
    BY <1>1, <1>2, <1>3, <1>6, <2>1
  <2>2. CASE k = l + 1
    BY <1>1, <1>3, <1>6, <2>2
  <2> QED
    BY <1>1, <2>1, <2>2
<1>8. Len(longer) = l + 1
  BY <1>1, <1>3
<1>9. appended = longer
  BY <1>3, <1>6, <1>7, <1>8, SeqEqual
<1> QED
  BY <1>9 DEF appended, x, slice, longer

\* data is the beginning of a batch with the entries e of the messages from + 1 .. to.
BatchAt(data, e, list, from, to, at) ==
  /\ data \in Seq(Nat) /\ data # <<>> /\ e \in Seq(Nat) /\ BeginsBatch(data, e)
  /\ from < to /\ to <= Len(list) /\ data[1] = to - from
  /\ at \in [from .. to -> Nat] /\ EntriesAt(e, list, from, to, at)

\* Message last is the one that turn t reads, and the bytes of the batch last so far.
Reaches(data, from, to, at, t, last) ==
  t \in 0 .. to - from /\ last = from + t /\ HeaderSize + at[last] <= Len(data)

\* Turn t leaves a reading of the messages from + 1 .. last.
HasRead(data, list, from, at, t, last) ==
  Readings(data)[t] =
    {[offset |-> HeaderSize + at[last], messages |-> SubSeq(list, from + 1, last)]}

\* While the bytes last, each turn reads the next message.
LEMMA ReadsInTurn ==
  ASSUME NEW data, NEW e, NEW list \in Seq(Messages), NEW from \in Nat, NEW to \in Nat,
         NEW at, BatchAt(data, e, list, from, to, at),
         NEW t, NEW last, Reaches(data, from, to, at, t, last)
  PROVE  HasRead(data, list, from, at, t, last)
<1> DEFINE n == Len(data)
           R == Readings(data)
           Reading(j) == [offset |-> HeaderSize + at[j], messages |-> SubSeq(list, from + 1, j)]
           G == {i \in 0 .. t : R[i] = {Reading(from + i)}}
<1>8. /\ data \in Seq(Nat) /\ data # <<>> /\ e \in Seq(Nat) /\ BeginsBatch(data, e)
      /\ from < to /\ to <= Len(list) /\ data[1] = to - from
      /\ at \in [from .. to -> Nat] /\ EntriesAt(e, list, from, to, at)
      /\ t \in 0 .. to - from /\ last = from + t /\ HeaderSize + at[last] <= Len(data)
  BY DEF BatchAt, Reaches
<1> USE <1>8
<1>1. n \in Nat /\ Len(list) \in Nat /\ t \in Nat
  BY LenProperties
<1>2. /\ R[0] = {[offset |-> HeaderSize, messages |-> <<>>]}
      /\ \A i \in 1 .. t : R[i] = UNION {Unpacked(data, r) : r \in R[i - 1]}
  <2>1. /\ R[0] = {[offset |-> HeaderSize, messages |-> <<>>]}
        /\ \A i \in 1 .. data[1] : R[i] = UNION {Unpacked(data, r) : r \in R[i - 1]}
    BY ReadingsAre, Zenon
  <2>2. \A i \in 1 .. t : i \in 1 .. data[1]
    OBVIOUS
  <2> QED
    BY <2>1, <2>2, Zenon
<1> HIDE DEF n, R
<1>3. \A j \in from + 1 .. to : /\ at[j] = at[j - 1] + LengthSize + Len(list[j])
                                /\ EntryAt(e, at[j - 1], list[j])
                                /\ at[j] \in Nat /\ at[j - 1] \in Nat
                                /\ list[j] \in Messages /\ Len(list[j]) \in Nat
  <2> SUFFICES ASSUME NEW j \in from + 1 .. to
               PROVE  /\ at[j] = at[j - 1] + LengthSize + Len(list[j])
                      /\ EntryAt(e, at[j - 1], list[j])
                      /\ at[j] \in Nat /\ at[j - 1] \in Nat
                      /\ list[j] \in Messages /\ Len(list[j]) \in Nat
    OBVIOUS
  <2>1. j \in from .. to /\ j - 1 \in from .. to /\ j \in 1 .. Len(list)
    BY <1>1
  <2>2. list[j] \in Messages
    BY <2>1, ElementOfSeq
  <2> QED
    BY <2>1, <2>2, MessageIs DEF EntriesAt
<1>4. ASSUME NEW i \in 0 .. t
      PROVE  HeaderSize + at[from + i] <= n
  <2> DEFINE B == {k \in 0 .. t : HeaderSize + at[from + (t - k)] <= n}
  <2>1. 0 \in B
    <3>1. from + (t - 0) = from + t
      BY <1>1
    <3> QED
      BY <1>1, <3>1 DEF n
  <2>2. ASSUME NEW k \in 0 .. t - 1, k \in B PROVE k + 1 \in B
    <3> DEFINE j == from + (t - k)
               l == Len(list[j])
               b == at[j - 1]
    <3>1. j \in from + 1 .. to /\ j - 1 = from + (t - (k + 1)) /\ k + 1 \in 0 .. t
      BY <1>1
    <3>2. HeaderSize + at[j] <= n
      BY <2>2
    <3>3. at[j] = b + LengthSize + l /\ b \in Nat /\ l \in Nat
      BY <1>3, <3>1
    <3>4. HeaderSize + b <= n
      <4> HIDE DEF b, l, j
      <4> QED
        BY <1>1, <3>2, <3>3 DEF HeaderSize, LengthSize
    <3> QED
      BY <3>1, <3>4
  <2> HIDE DEF B
  <2>3. \A k \in 0 .. t : k \in B
    BY <1>1, <2>1, <2>2, EveryTurn
  <2>4. t - i \in 0 .. t /\ from + (t - (t - i)) = from + i
    BY <1>1
  <2> QED
    BY <2>3, <2>4 DEF B
<1>5. 0 \in G
  <2>1. at[from] = 0 /\ from + 0 = from
    BY DEF EntriesAt
  <2>2. SubSeq(list, from + 1, from) = <<>>
    BY SubSeqEmpty
  <2>3. Reading(from) = [offset |-> HeaderSize, messages |-> <<>>]
    BY <2>1, <2>2 DEF HeaderSize
  <2> HIDE DEF Reading
  <2>4. R[0] = {Reading(from + 0)}
    BY <1>2, <2>1, <2>3, Zenon
  <2> QED
    BY <1>1, <2>4
<1>6. ASSUME NEW i \in 0 .. t - 1, i \in G PROVE i + 1 \in G
  <2> DEFINE k == from + i
             j == from + (i + 1)
             m == list[j]
             b == at[k]
             read == SubSeq(list, from + 1, k)
             end == HeaderSize + b + LengthSize + Len(m)
  <2>1. /\ i + 1 \in 1 .. t /\ (i + 1) - 1 = i /\ i + 1 \in 0 .. t
        /\ j \in from + 1 .. to /\ j - 1 = k /\ j = k + 1 /\ j <= Len(list)
        /\ k \in Nat /\ j \in Nat /\ from <= k
    BY <1>1
  <2>2. R[i] = {Reading(k)}
    BY <1>6
  <2>3. HeaderSize + at[j] <= n
    BY <1>4, <2>1
  <2> HIDE DEF j, k
  <2>4. /\ at[j] = b + LengthSize + Len(m) /\ EntryAt(e, b, m)
        /\ b \in Nat /\ m \in Messages /\ Len(m) \in Nat
    <3>1. j \in from + 1 .. to /\ at[j - 1] = b
      BY <2>1
    <3> HIDE DEF b
    <3> QED
      BY <1>3, <3>1, Zenon
  <2>5. Append(read, m) = SubSeq(list, from + 1, j)
    <3>1. k < Len(list) /\ j = k + 1 /\ list \in Seq(Messages) /\ from \in Nat
      BY <1>1, <2>1
    <3> QED
      BY <2>1, <3>1, SliceGrows, ZenonT(30)
  <2>6. R[i + 1] = Unpacked(data, Reading(k))
    <3>1. R[i + 1] = UNION {Unpacked(data, x) : x \in R[i]}
      <4>1. i + 1 \in 1 .. t /\ (i + 1) - 1 = i
        BY <1>1, <2>1
      <4>2. R[i + 1] = UNION {Unpacked(data, x) : x \in R[(i + 1) - 1]}
        BY <1>2, <4>1, Zenon
      <4> QED
        BY <4>1, <4>2, Zenon
    <3> HIDE DEF Reading
    <3> QED
      BY <2>2, <3>1
  <2>7. Reading(k) = [offset |-> HeaderSize + b, messages |-> read]
    OBVIOUS
  <2> HIDE DEF b, m, read, Reading
  <2>8. end = HeaderSize + at[j] /\ end <= n
    BY <2>3, <2>4 DEF HeaderSize, LengthSize
  <2>9. Unpacked(data, Reading(k)) = {[offset |-> end, messages |-> Append(read, m)]}
    <3>1. Unpacked(data, [offset |-> HeaderSize + b, messages |-> read])
            = {[offset |-> end, messages |-> Append(read, m)]}
      BY <2>4, <2>8, UnpackedEntry, Zenon DEF n
    <3> QED
      BY <2>7, <3>1, Zenon
  <2>10. R[i + 1] = {Reading(j)}
    BY <2>5, <2>6, <2>8, <2>9 DEF Reading
  <2> QED
    BY <2>1, <2>10 DEF j
<1>7. t \in G
  <2> HIDE DEF G
  <2>1. \A i \in 0 .. t : i \in G
    BY <1>1, <1>5, <1>6, EveryTurn
  <2> QED
    BY <1>1, <2>1
<1> QED
  BY <1>7 DEF R, G, HasRead

\* A batch is read, and one that lost its last byte is not.
LEMMA BatchRead ==
  ASSUME NEW data \in Seq(Nat), NEW list \in Seq(Messages), NEW from \in Nat, NEW to \in Nat,
         to <= Len(list), BatchOf(data, list, from, to)
  PROVE  /\ UnbatchMessages(data) = {SubSeq(list, from + 1, to)}
         /\ UnbatchMessages(CutShort(data)) = {}
<1>1. PICK e \in Seq(Nat) : data = <<to - from>> \o e /\ Holds(e, list, from, to)
  BY DEF BatchOf
<1>2. PICK at \in [from .. to -> Nat] : EntriesAt(e, list, from, to, at)
  BY <1>1 DEF Holds
<1> DEFINE c == to - from
           n == Len(data)
           short == CutShort(data)
<1>3. /\ from < to /\ c \in Nat /\ c \in 0 .. c /\ c - 1 \in 0 .. c /\ c \in 1 .. c
      /\ from + c = to /\ from + (c - 1) = to - 1
  BY DEF BatchOf
<1>4. /\ n = 1 + Len(e) /\ Len(e) \in Nat /\ data[1] = c
      /\ \A x \in 1 .. Len(e) : data[1 + x] = e[x]
  <2>1. <<c>> \in Seq(Nat) /\ Len(<<c>>) = 1 /\ <<c>>[1] = c /\ 1 \in 1 .. 1
    BY <1>3
  <2> DEFINE head == <<c>>
  <2> HIDE DEF c, head, n
  <2>2. data = head \o e
    BY <1>1 DEF c, head
  <2>3. head \in Seq(Nat) /\ Len(head) = 1 /\ head[1] = c
    BY <2>1 DEF head
  <2>4. /\ Len(e) \in Nat /\ Len(data) = Len(head) + Len(e)
        /\ \A x \in 1 .. Len(head) : data[x] = head[x]
        /\ \A x \in 1 .. Len(e) : data[Len(head) + x] = e[x]
    BY <2>2, <2>3, ConcatBytes, Zenon
  <2> QED
    BY <2>1, <2>3, <2>4, Zenon DEF n
<1>5. at[to] = Len(e) /\ at[to] \in Nat /\ at[to - 1] \in Nat /\ Len(list[to]) \in Nat
      /\ at[to] = at[to - 1] + LengthSize + Len(list[to]) /\ EntryAt(e, at[to - 1], list[to])
      /\ list[to] \in Messages
  <2>1. to \in from + 1 .. to /\ to - 1 \in from .. to /\ to \in from .. to /\ to \in 1 .. Len(list)
    BY <1>3, LenProperties
  <2>2. list[to] \in Messages
    BY <2>1, ElementOfSeq
  <2> QED
    BY <1>2, <2>1, <2>2, MessageIs DEF EntriesAt
<1>6. UnbatchMessages(data) = {SubSeq(list, from + 1, to)}
  <2>1. data # <<>> /\ BeginsBatch(data, e)
    <3>1. n > 0
      BY <1>4
    <3>2. HeaderSize + Len(e) = n /\ n - 1 = Len(e) /\ n <= n
      BY <1>4 DEF HeaderSize
    <3> QED
      BY <1>4, <3>1, <3>2 DEF BeginsBatch, HeaderSize
  <2>2. HeaderSize + at[to] <= n
    BY <1>3, <1>4, <1>5 DEF HeaderSize
  <2> HIDE DEF c, n
  <2>3. Readings(data)[c] =
          {[offset |-> HeaderSize + at[to], messages |-> SubSeq(list, from + 1, to)]}
    <3>1. c \in 0 .. to - from /\ to = from + c /\ data[1] = to - from
      BY <1>3, <1>4 DEF c
    <3>2. BatchAt(data, e, list, from, to, at)
      BY <1>2, <1>3, <2>1, <3>1, Zenon DEF BatchAt
    <3>3. Reaches(data, from, to, at, c, to)
      BY <2>2, <3>1, Zenon DEF Reaches, n
    <3>4. HasRead(data, list, from, at, c, to)
      BY <3>2, <3>3, ReadsInTurn, Zenon
    <3> QED
      BY <3>4, Zenon DEF HasRead
  <2>4. UnbatchMessages(data) = {r.messages : r \in Readings(data)[c]}
    BY <1>4, <2>1 DEF UnbatchMessages
  <2> DEFINE slice == SubSeq(list, from + 1, to)
  <2> HIDE DEF slice
  <2>5. Readings(data)[c] = {[offset |-> HeaderSize + at[to], messages |-> slice]}
    BY <2>3 DEF slice
  <2>6. UnbatchMessages(data) = {slice}
    BY <2>4, <2>5
  <2> QED
    BY <2>6 DEF slice
<1>7. UnbatchMessages(short) = {}
  <2>1. short \in Seq(Nat) /\ Len(short) = Len(e) /\ \A x \in 1 .. Len(e) : short[x] = data[x]
    <3> DEFINE k == n - 1
    <3>1. 0 \in Nat /\ k \in Nat /\ 0 <= k /\ k <= Len(data) /\ k - 0 = Len(e) /\ 0 + 1 = 1
      BY <1>4
    <3>2. short = SubSeq(data, 0 + 1, k)
      BY DEF CutShort
    <3> HIDE DEF k, short
    <3>3. short \in Seq(Nat) /\ Len(short) = k - 0 /\ \A x \in 1 .. k - 0 : short[x] = data[0 + x]
      BY <3>1, <3>2, SliceIs
    <3>4. \A x \in 1 .. k - 0 : 0 + x = x
      BY <3>1
    <3> QED
      BY <3>1, <3>3, <3>4
  <2> HIDE DEF short
  <2>2. Len(e) >= 2
    BY <1>5 DEF LengthSize
  <2>3. short # <<>> /\ short[1] = c
    BY <1>4, <2>1, <2>2
  <2>4. BeginsBatch(short, e)
    <3>1. Len(short) <= HeaderSize + Len(e)
      BY <1>4, <2>1 DEF HeaderSize
    <3>2. ASSUME NEW x \in 1 .. Len(short) - 1 PROVE short[HeaderSize + x] = e[x]
      <4>1. 1 + x \in 1 .. Len(e) /\ x \in 1 .. Len(e)
        BY <1>4, <2>1
      <4> QED
        BY <1>4, <2>1, <4>1 DEF HeaderSize
    <3> QED
      BY <3>1, <3>2 DEF BeginsBatch
  <2> DEFINE b == at[to - 1]
             m == list[to]
             end == HeaderSize + b + LengthSize + Len(m)
             read == SubSeq(list, from + 1, to - 1)
             r == [offset |-> HeaderSize + b, messages |-> read]
  <2>5. HeaderSize + b <= Len(short) /\ end > Len(short)
    <3> DEFINE l == Len(m)
               all == Len(e)
    <3>1. b \in Nat /\ l \in Nat /\ all = b + LengthSize + l /\ Len(short) = all
      BY <1>5, <2>1
    <3> HIDE DEF b, l, all
    <3>2. HeaderSize + b <= all /\ HeaderSize + b + LengthSize + l > all
      BY <3>1 DEF HeaderSize, LengthSize
    <3> QED
      BY <3>1, <3>2 DEF l
  <2>6. Readings(short)[c - 1] = {r}
    <3> DEFINE t == c - 1
               last == to - 1
    <3>1. t \in 0 .. to - from /\ last = from + t /\ short[1] = to - from
      BY <1>3, <2>3
    <3> HIDE DEF t, last, c
    <3>2. HeaderSize + at[last] <= Len(short)
      BY <2>5 DEF last
    <3>3. Readings(short)[t] =
            {[offset |-> HeaderSize + at[last], messages |-> SubSeq(list, from + 1, last)]}
      <4>1. BatchAt(short, e, list, from, to, at)
        BY <1>2, <1>3, <2>1, <2>3, <2>4, <3>1, Zenon DEF BatchAt
      <4>2. Reaches(short, from, to, at, t, last)
        BY <3>1, <3>2, Zenon DEF Reaches
      <4>3. HasRead(short, list, from, at, t, last)
        BY <4>1, <4>2, ReadsInTurn, Zenon
      <4> QED
        BY <4>3, Zenon DEF HasRead
    <3> QED
      BY <3>3, Zenon DEF t, last
  <2>7. Readings(short)[c] = UNION {Unpacked(short, x) : x \in Readings(short)[c - 1]}
    BY <1>3, <2>1, <2>3, ReadingsAre
  <2>8. Unpacked(short, r) = {}
    <3> HIDE DEF b, m, read
    <3> QED
      BY <1>5, <2>1, <2>4, <2>5, UnpackedEntry DEF b, m
  <2> HIDE DEF r
  <2>9. Readings(short)[c] = {}
    BY <2>6, <2>7, <2>8
  <2> QED
    BY <2>3, <2>9 DEF UnbatchMessages, Malformed
<1> QED
  BY <1>6, <1>7

LEMMA JoinedSlices ==
  ASSUME NEW list \in Seq(Messages), NEW n \in Nat, NEW cut \in [0 .. n -> 0 .. Len(list)],
         cut[0] = 0, \A k \in 1 .. n : cut[k - 1] < cut[k],
         NEW options, Len(options) = n,
         \A k \in 1 .. n : options[k] = {SubSeq(list, cut[k - 1] + 1, cut[k])}
  PROVE  Joined(options)[n] = SubSeq(list, 1, cut[n])
<1> DEFINE begin(k) == SubSeq(list, 1, cut[k])
           chosen(k) == CHOOSE x \in options[k] : TRUE
           IsThat(f) == f = [k \in 0 .. n |-> IF k = 0 THEN <<>>
                                              ELSE f[k - 1] \o chosen(k)]
           f0 == [k \in 0 .. n |-> begin(k)]
<1>1. begin(0) = <<>>
  BY SubSeqEmpty
<1>2. ASSUME NEW k \in 1 .. n
      PROVE  begin(k - 1) \o chosen(k) = begin(k)
  <2> DEFINE a == cut[k - 1]
             b == cut[k]
             slice == SubSeq(list, a + 1, b)
  <2>1. /\ a \in 1 - 1 .. Len(list) /\ b \in a .. Len(list) /\ 1 \in 1 .. Len(list) + 1
    <3>1. k \in 0 .. n /\ k - 1 \in 0 .. n /\ a < b /\ Len(list) \in Nat
      BY LenProperties
    <3>2. a \in 0 .. Len(list) /\ b \in 0 .. Len(list)
      BY <3>1
    <3> HIDE DEF a, b
    <3> QED
      BY <3>1, <3>2
  <2> HIDE DEF a, b
  <2>2. SubSeq(list, 1, a) \o slice = SubSeq(list, 1, b)
    BY <2>1, ConcatAdjacentSubSeq
  <2> HIDE DEF slice
  <2>3. options[k] = {slice}
    BY DEF slice, a, b
  <2>4. chosen(k) = slice
    BY <2>3
  <2> QED
    BY <2>2, <2>4 DEF a, b
<1> HIDE DEF begin
<1>3. IsThat(f0)
  <2>1. \A k \in 0 .. n : f0[k] = IF k = 0 THEN <<>>
                                  ELSE f0[k - 1] \o chosen(k)
    <3> SUFFICES ASSUME NEW k \in 0 .. n
                 PROVE  f0[k] = IF k = 0 THEN <<>>
                                ELSE f0[k - 1] \o chosen(k)
      OBVIOUS
    <3>1. CASE k = 0
      BY <1>1, <3>1
    <3>2. CASE k # 0
      <4>1. k \in 1 .. n /\ k - 1 \in 0 .. n /\ f0[k - 1] = begin(k - 1) /\ f0[k] = begin(k)
        BY <3>2
      <4> QED
        BY <1>2, <3>2, <4>1
    <3> QED
      BY <3>1, <3>2
  <2> QED
    BY <2>1
<1>4. Joined(options) = CHOOSE g : IsThat(g)
  BY DEF Joined
<1> HIDE DEF IsThat, chosen
<1>5. IsThat(Joined(options))
  BY <1>3, <1>4
<1> DEFINE p == Joined(options)
<1> HIDE DEF p
<1>6. p = [k \in 0 .. n |-> IF k = 0 THEN <<>>
                            ELSE p[k - 1] \o chosen(k)]
  BY <1>5 DEF IsThat, p
<1>7. p[0] = <<>> /\ \A k \in 1 .. n : p[k] = p[k - 1] \o chosen(k)
  <2>1. 0 \in 0 .. n /\ \A k \in 1 .. n : k \in 0 .. n /\ k # 0
    OBVIOUS
  <2>2. \A k \in 0 .. n : p[k] = IF k = 0 THEN <<>> ELSE p[k - 1] \o chosen(k)
    BY <1>6, Zenon
  <2> QED
    BY <2>1, <2>2, Zenon
<1> DEFINE G == {k \in 0 .. n : p[k] = begin(k)}
<1>8. 0 \in G
  BY <1>1, <1>7
<1>9. ASSUME NEW k \in 0 .. n - 1, k \in G PROVE k + 1 \in G
  <2>1. k + 1 \in 1 .. n /\ (k + 1) - 1 = k /\ p[k] = begin(k)
    BY <1>9
  <2>2. p[k + 1] = p[k] \o chosen(k + 1)
    BY <1>7, <2>1
  <2>3. begin(k) \o chosen(k + 1) = begin(k + 1)
    BY <1>2, <2>1
  <2>4. p[k + 1] = begin(k + 1) /\ k + 1 \in 0 .. n
    BY <2>1, <2>2, <2>3
  <2> QED
    BY <2>4
<1> HIDE DEF G
<1>10. \A k \in 0 .. n : k \in G
  BY <1>8, <1>9, EveryTurn
<1>11. p[n] = begin(n)
  BY <1>10 DEF G
<1> QED
  BY <1>11 DEF p, begin

LEMMA ReadBackFromBatches ==
  ASSUME messages \in Seq(Messages)
  PROVE  BatchesRoundTrip
<1> DEFINE batches == BatchMessages(messages)
           n == Len(batches)
           inEach == [i \in 1 .. n |-> UnbatchMessages(batches[i])]
<1>1. batches \in Seq(Seq(Nat)) /\ n \in Nat /\ Len(messages) \in Nat
  BY BatchesAre, LenProperties
<1>2. PICK cut \in [0 .. n -> 0 .. Len(messages)] : BatchesHold(batches, messages, cut)
  BY BatchesAre
<1> DEFINE slice(i) == SubSeq(messages, cut[i - 1] + 1, cut[i])
<1> HIDE DEF batches, n
<1>3. ASSUME NEW i \in 1 .. n
      PROVE  /\ BatchOf(batches[i], messages, cut[i - 1], cut[i])
             /\ cut[i - 1] < cut[i]
             /\ UnbatchMessages(batches[i]) = {slice(i)}
             /\ UnbatchMessages(CutShort(batches[i])) = {}
             /\ Len(batches[i]) > max_size => Len(slice(i)) = 1
  <2>1. /\ i \in 0 .. n /\ i - 1 \in 0 .. n
    BY <1>1
  <2> DEFINE a == cut[i - 1]
             b == cut[i]
  <2>2. a \in Nat /\ b \in Nat /\ b <= Len(messages)
    BY <1>1, <2>1
  <2>3. batches[i] \in Seq(Nat)
    BY <1>1, ElementOfSeq DEF n
  <2>4. BatchOf(batches[i], messages, a, b)
    BY <1>2 DEF BatchesHold, n
  <2> HIDE DEF a, b
  <2>5. a < b /\ (Len(batches[i]) > max_size => b - a = 1)
    BY <2>4 DEF BatchOf
  <2>6. /\ UnbatchMessages(batches[i]) = {SubSeq(messages, a + 1, b)}
        /\ UnbatchMessages(CutShort(batches[i])) = {}
    BY <2>2, <2>3, <2>4, BatchRead
  <2>7. Len(SubSeq(messages, a + 1, b)) = b - a
    BY <2>2, <2>5, SliceIs
  <2> QED
    BY <2>4, <2>5, <2>6, <2>7 DEF a, b
<1> HIDE DEF slice
<1>4. \A i \in 1 .. n : inEach[i] = {slice(i)}
  BY <1>3
<1>5. Len(inEach) = n
  BY <1>1
<1>6. cut[0] = 0 /\ cut[n] = Len(messages)
  BY <1>2 DEF BatchesHold, n
<1> HIDE DEF inEach
<1>7. Joined(inEach)[n] = messages
  <2>1. \A k \in 1 .. n : inEach[k] = {SubSeq(messages, cut[k - 1] + 1, cut[k])}
    BY <1>4 DEF slice
  <2>2. \A k \in 1 .. n : cut[k - 1] < cut[k]
    BY <1>3
  <2>3. Joined(inEach)[n] = SubSeq(messages, 1, cut[n])
    BY <1>1, <1>5, <1>6, <2>1, <2>2, JoinedSlices
  <2> QED
    BY <1>6, <2>3, SubSeqFull
<1>8. \A i \in 1 .. n :
        /\ inEach[i] # {}
        /\ Len(batches[i]) > max_size => \A list \in inEach[i] : Len(list) = 1
        /\ UnbatchMessages(CutShort(batches[i])) = {}
  BY <1>3, <1>4
<1> QED
  BY <1>7, <1>8 DEF BatchesRoundTrip, Malformed, batches, n, inEach

BatchingSpec == BatchingInit /\ [][BatchingNext]_batchingVars

LEMMA BatchingTypeStep ==
  ASSUME BatchingTypeOK, [BatchingNext]_batchingVars
  PROVE  BatchingTypeOK'
<1>1. CASE UNCHANGED batchingVars
  BY <1>1 DEF BatchingTypeOK, batchingVars
<1>2. ASSUME NEW m \in Messages, AddMessage(m) PROVE BatchingTypeOK'
  BY <1>2, AppendProperties DEF AddMessage, BatchingTypeOK
<1> QED
  BY <1>1, <1>2 DEF BatchingNext

\* The list of messages and the size of packets keep their types.
LEMMA BatchingTypes == BatchingSpec => []BatchingTypeOK
<1>1. BatchingInit => BatchingTypeOK
  BY EmptySeq DEF BatchingInit, BatchingTypeOK
<1> QED
  BY <1>1, BatchingTypeStep, PTL DEF BatchingSpec

\* Whatever the messages, the size of the packets and the limit of a batch,
\* unbatch_messages() reads from the batches of batch_messages() the messages that were
\* batched, in their order, and nothing from a batch that lost its last byte.
THEOREM BatchesAlwaysRoundTrip == BatchingSpec => []BatchesRoundTrip
<1>1. BatchingTypeOK => BatchesRoundTrip
  BY ReadBackFromBatches DEF BatchingTypeOK
<1> QED
  BY <1>1, BatchingTypes, PTL

-----------------------------------------------------------------------------
(* Bits: the place of a bit in a stream of bytes *)

LEMMA BitsAssumed ==
  /\ ByteBits \in Nat /\ ByteBits > 0
  /\ WordBits \in Nat /\ WordBits >= ByteBits
  BY BitBufferAssumption

LEMMA BytesGrow ==
  ASSUME NEW m \in Nat, NEW n \in Nat
  PROVE  /\ ByteBits * m \in Nat
         /\ ByteBits * (m + 1) = ByteBits * m + ByteBits
         /\ ByteBits * (m + n) = ByteBits * m + ByteBits * n
         /\ m <= n => ByteBits * m <= ByteBits * n
         /\ m < n => ByteBits * m + ByteBits <= ByteBits * n
<1>1. ByteBits \in Nat /\ ByteBits > 0
  BY BitsAssumed
<1>2. /\ ByteBits * m \in Nat /\ ByteBits * (m + 1) = ByteBits * m + ByteBits
      /\ ByteBits * (m + n) = ByteBits * m + ByteBits * n
  BY <1>1
<1>3. ASSUME m <= n PROVE ByteBits * m <= ByteBits * n
  <2>1. PICK d \in Nat : n = m + d
    <3>1. n - m \in Nat /\ n = m + (n - m)
      BY <1>3
    <3> QED
      BY <3>1
  <2>2. ByteBits * n = ByteBits * m + ByteBits * d /\ ByteBits * d \in Nat
    BY <1>1, <2>1
  <2> QED
    BY <1>2, <2>2
<1>4. ASSUME m < n PROVE ByteBits * m + ByteBits <= ByteBits * n
  <2>1. PICK d \in Nat : n = m + 1 + d
    <3>1. n - m - 1 \in Nat /\ n = m + 1 + (n - m - 1)
      BY <1>4
    <3> QED
      BY <3>1
  <2>2. ByteBits * n = ByteBits * m + ByteBits + ByteBits * d /\ ByteBits * d \in Nat
    BY <1>1, <2>1
  <2> QED
    BY <1>1, <1>2, <2>2
<1> QED
  BY <1>2, <1>3, <1>4

LEMMA Place ==
  ASSUME NEW p \in Nat
  PROVE  /\ ByteAt(p) \in Nat /\ LeftAt(p) \in 1 .. ByteBits
         /\ p + LeftAt(p) = ByteBits * ByteAt(p) + ByteBits
         /\ ByteBits * ByteAt(p) \in Nat
<1>1. ByteBits \in Nat /\ ByteBits > 0
  BY BitsAssumed
<1> DEFINE q == p \div ByteBits
           r == p % ByteBits
<1>2. q \in Nat /\ r \in 0 .. ByteBits - 1 /\ p = ByteBits * q + r /\ ByteBits * q \in Nat
  BY <1>1
<1> HIDE DEF q, r
<1>3. ByteAt(p) = q /\ LeftAt(p) = ByteBits - r
  BY DEF ByteAt, LeftAt, q, r
<1> QED
  BY <1>1, <1>2, <1>3

LEMMA PlaceIs ==
  ASSUME NEW p \in Nat, NEW q \in Nat, NEW l \in 1 .. ByteBits,
         p + l = ByteBits * q + ByteBits
  PROVE  ByteAt(p) = q /\ LeftAt(p) = l
<1> DEFINE i == ByteAt(p)
           j == LeftAt(p)
<1>1. /\ i \in Nat /\ j \in 1 .. ByteBits /\ p + j = ByteBits * i + ByteBits
      /\ ByteBits * i \in Nat
  BY Place
<1>2. ByteBits \in Nat /\ ByteBits * q \in Nat
  BY BitsAssumed, BytesGrow
<1> HIDE DEF i, j
<1>3. ~(i < q)
  <2> SUFFICES ASSUME i < q PROVE FALSE
    OBVIOUS
  <2>1. ByteBits * i + ByteBits <= ByteBits * q
    BY <1>1, BytesGrow
  <2> QED
    BY <1>1, <1>2, <2>1
<1>4. ~(q < i)
  <2> SUFFICES ASSUME q < i PROVE FALSE
    OBVIOUS
  <2>1. ByteBits * q + ByteBits <= ByteBits * i
    BY <1>1, BytesGrow
  <2> QED
    BY <1>1, <1>2, <2>1
<1>5. i = q
  BY <1>1, <1>3, <1>4
<1>6. j = l
  BY <1>1, <1>2, <1>5
<1> QED
  BY <1>5, <1>6 DEF i, j

\* What is before the end of so many bytes is in one of them.
LEMMA PlaceWithin ==
  ASSUME NEW p \in Nat, NEW n \in Nat
  PROVE  p < ByteBits * n <=> ByteAt(p) < n
<1> DEFINE i == ByteAt(p)
           j == LeftAt(p)
<1>1. /\ i \in Nat /\ j \in 1 .. ByteBits /\ p + j = ByteBits * i + ByteBits
      /\ ByteBits * i \in Nat /\ ByteBits \in Nat /\ ByteBits * n \in Nat
  BY Place, BitsAssumed, BytesGrow
<1> HIDE DEF i, j
<1>2. i < n => ByteBits * i + ByteBits <= ByteBits * n
  BY <1>1, BytesGrow
<1>3. n <= i => ByteBits * n <= ByteBits * i
  BY <1>1, BytesGrow
<1>4. p < ByteBits * n <=> i < n
  BY <1>1, <1>2, <1>3
<1> QED
  BY <1>4 DEF i

Bytes == Seq(SUBSET (0 .. ByteBits - 1))

\* The bits of a stream of bytes that are 1.
Ones(bytes) == {p \in 0 .. ByteBits * Len(bytes) - 1 : LeftAt(p) - 1 \in bytes[ByteAt(p) + 1]}

\* The positions of the bits of a byte that begins and ends there.
InByte(begin, end, S) == {p \in begin .. end - 1 : end - 1 - p \in S}

\* The bytes after bits of one of them are set.
WithBits(bytes, index, S) == [bytes EXCEPT ![index + 1] = @ \cup S]

LEMMA OnesSet ==
  ASSUME NEW bytes \in Bytes, NEW i \in Nat, i < Len(bytes), NEW S \in SUBSET (0 .. ByteBits - 1),
         NEW begin, begin = ByteBits * i, NEW end, end = begin + ByteBits
  PROVE  /\ WithBits(bytes, i, S) \in Bytes /\ Len(WithBits(bytes, i, S)) = Len(bytes)
         /\ Ones(WithBits(bytes, i, S)) = Ones(bytes) \cup InByte(begin, end, S)
<1> DEFINE new == [bytes EXCEPT ![i + 1] = @ \cup S]
           n == Len(bytes)
           added == {p \in begin .. end - 1 : end - 1 - p \in S}
<1>1. n \in Nat /\ bytes \in [1 .. n -> SUBSET (0 .. ByteBits - 1)] /\ i + 1 \in 1 .. n
  BY LenProperties DEF Bytes
<1>2. new \in [1 .. n -> SUBSET (0 .. ByteBits - 1)]
  BY <1>1
<1>3. new \in Bytes /\ Len(new) = n
  <2>1. new \in Seq(SUBSET (0 .. ByteBits - 1))
    BY <1>1, <1>2, SeqDef
  <2> QED
    BY <1>1, <1>2, <2>1, LenProperties DEF Bytes
<1>4. /\ ByteBits \in Nat /\ ByteBits > 0 /\ begin \in Nat /\ end <= ByteBits * n
      /\ ByteBits * n \in Nat
  BY <1>1, BitsAssumed, BytesGrow
<1>5. ASSUME NEW p \in 0 .. ByteBits * n - 1
      PROVE  p \in Ones(new) <=> p \in Ones(bytes) \/ p \in added
  <2> DEFINE q == ByteAt(p)
             l == LeftAt(p)
  <2>1. /\ p \in Nat /\ q \in Nat /\ l \in 1 .. ByteBits /\ p + l = ByteBits * q + ByteBits
        /\ q < n /\ ByteBits * q \in Nat
    <3>1. p \in Nat /\ p < ByteBits * n
      BY <1>4
    <3>2. q < n
      BY <1>1, <3>1, PlaceWithin
    <3> QED
      BY <3>1, <3>2, Place
  <2>2. /\ p \in Ones(new) <=> l - 1 \in new[q + 1]
        /\ p \in Ones(bytes) <=> l - 1 \in bytes[q + 1]
    BY <1>3 DEF Ones
  <2> HIDE DEF q, l
  <2>3. CASE q = i
    <3>1. new[q + 1] = bytes[q + 1] \cup S
      BY <1>1, <2>3
    <3>2. p \in begin .. end - 1 /\ l - 1 = end - 1 - p
      BY <1>4, <2>1, <2>3
    <3> QED
      BY <2>2, <3>1, <3>2
  <2>4. CASE q # i
    <3>1. new[q + 1] = bytes[q + 1]
      BY <1>1, <2>1, <2>4
    <3>2. p \notin begin .. end - 1
      <4> SUFFICES ASSUME p \in begin .. end - 1 PROVE FALSE
        OBVIOUS
      <4>1. end - p \in 1 .. ByteBits /\ p + (end - p) = ByteBits * i + ByteBits
        BY <1>4
      <4>2. ByteAt(p) = i
        BY <2>1, <4>1, PlaceIs
      <4> QED
        BY <2>4, <4>2 DEF q
    <3> QED
      BY <2>2, <3>1, <3>2
  <2> QED
    BY <2>3, <2>4
<1>6. added \subseteq 0 .. ByteBits * n - 1
  BY <1>4
<1>7. Ones(new) \subseteq 0 .. ByteBits * n - 1 /\ Ones(bytes) \subseteq 0 .. ByteBits * n - 1
  BY <1>3 DEF Ones
<1> HIDE DEF added, new
<1>8. Ones(new) = Ones(bytes) \cup added
  BY <1>5, <1>6, <1>7
<1> QED
  BY <1>3, <1>8 DEF added, InByte, WithBits, new

LEMMA BytesJoined ==
  ASSUME NEW s \in Bytes, NEW t \in Bytes
  PROVE  /\ s \o t \in Bytes
         /\ Len(s) \in Nat /\ Len(t) \in Nat /\ Len(s \o t) = Len(s) + Len(t)
         /\ \A i \in 1 .. Len(s) : (s \o t)[i] = s[i]
         /\ \A i \in 1 .. Len(t) : (s \o t)[Len(s) + i] = t[i]
<1> DEFINE both == s \o t
<1>1. Len(s) \in Nat /\ Len(t) \in Nat
  BY LenProperties DEF Bytes
<1>2. /\ both \in Bytes /\ Len(both) = Len(s) + Len(t)
      /\ \A i \in 1 .. Len(s) + Len(t) : both[i] = IF i <= Len(s) THEN s[i] ELSE t[i - Len(s)]
  BY ConcatProperties, Zenon DEF Bytes
<1> HIDE DEF both
<1>3. ASSUME NEW i \in 1 .. Len(s) PROVE both[i] = s[i]
  BY <1>1, <1>2
<1>4. ASSUME NEW i \in 1 .. Len(t) PROVE both[Len(s) + i] = t[i]
  <2>1. /\ Len(s) + i \in 1 .. Len(s) + Len(t) /\ (Len(s) + i) - Len(s) = i
        /\ ~(Len(s) + i <= Len(s))
    BY <1>1
  <2> QED
    BY <1>2, <2>1
<1> QED
  BY <1>1, <1>2, <1>3, <1>4 DEF both

LEMMA OnesJoined ==
  ASSUME NEW s \in Bytes, NEW t \in Bytes
  PROVE  Ones(s \o t) = Ones(s) \cup {ByteBits * Len(s) + p : p \in Ones(t)}
<1> DEFINE both == s \o t
           m == Len(s)
           n == Len(t)
           begin == ByteBits * m
           moved == {begin + p : p \in Ones(t)}
<1>1. /\ both \in Bytes /\ m \in Nat /\ n \in Nat /\ Len(both) = m + n
      /\ \A i \in 1 .. m : both[i] = s[i]
      /\ \A i \in 1 .. n : both[m + i] = t[i]
  BY BytesJoined, Zenon
<1> HIDE DEF both, m, n
<1>2. /\ ByteBits \in Nat /\ ByteBits > 0 /\ begin \in Nat /\ ByteBits * n \in Nat
      /\ ByteBits * (m + n) = begin + ByteBits * n
  BY <1>1, BitsAssumed, BytesGrow
<1>3. /\ Ones(both) = {p \in 0 .. begin + ByteBits * n - 1 : LeftAt(p) - 1 \in both[ByteAt(p) + 1]}
      /\ Ones(s) = {p \in 0 .. begin - 1 : LeftAt(p) - 1 \in s[ByteAt(p) + 1]}
      /\ Ones(t) = {p \in 0 .. ByteBits * n - 1 : LeftAt(p) - 1 \in t[ByteAt(p) + 1]}
  BY <1>1, <1>2 DEF Ones, m, n
<1>4. ASSUME NEW p \in 0 .. begin - 1
      PROVE  p \in Ones(both) <=> p \in Ones(s)
  <2>1. p \in Nat /\ ByteAt(p) \in Nat
    BY <1>2, Place
  <2>2. ByteAt(p) < m
    BY <1>1, <1>2, <2>1, PlaceWithin
  <2>3. both[ByteAt(p) + 1] = s[ByteAt(p) + 1]
    BY <1>1, <2>1, <2>2
  <2> QED
    BY <1>2, <1>3, <2>1, <2>3
<1>5. ASSUME NEW p \in 0 .. ByteBits * n - 1
      PROVE  begin + p \in Ones(both) <=> p \in Ones(t)
  <2> DEFINE q == ByteAt(p)
             l == LeftAt(p)
  <2>1. p \in Nat /\ p < ByteBits * n
    BY <1>2
  <2>2. /\ q \in Nat /\ l \in 1 .. ByteBits /\ p + l = ByteBits * q + ByteBits
        /\ ByteBits * q \in Nat
    BY <2>1, Place
  <2>3. q < n
    BY <1>1, <2>1, PlaceWithin
  <2> HIDE DEF q, l
  <2>4. ByteBits * (m + q) = begin + ByteBits * q
    BY <1>1, <2>2, BytesGrow
  <2>5. /\ m + q \in Nat /\ begin + p \in Nat
        /\ (begin + p) + l = ByteBits * (m + q) + ByteBits
    BY <1>1, <1>2, <2>1, <2>2, <2>4
  <2>6. ByteAt(begin + p) = m + q /\ LeftAt(begin + p) = l
    BY <2>2, <2>5, PlaceIs
  <2>7. both[(m + q) + 1] = t[q + 1]
    <3>1. q + 1 \in 1 .. n /\ (m + q) + 1 = m + (q + 1)
      BY <1>1, <2>2, <2>3
    <3> QED
      BY <1>1, <3>1
  <2>8. begin + p \in Ones(both) <=> l - 1 \in both[(m + q) + 1]
    <3>1. begin + p \in 0 .. begin + ByteBits * n - 1
      BY <1>2
    <3> QED
      BY <1>3, <2>6, <3>1
  <2>9. p \in Ones(t) <=> l - 1 \in t[q + 1]
    BY <1>3 DEF q, l
  <2> QED
    BY <2>7, <2>8, <2>9
<1>6. ASSUME NEW p \in 0 .. begin + ByteBits * n - 1, ~(p < begin)
      PROVE  p \in Ones(both) <=> p \in moved
  <2>1. /\ p - begin \in 0 .. ByteBits * n - 1 /\ begin + (p - begin) = p
        /\ \A x \in 0 .. ByteBits * n - 1 : begin + x = p => x = p - begin
    BY <1>2, <1>6
  <2>2. p \in Ones(both) <=> p - begin \in Ones(t)
    BY <1>5, <2>1
  <2>3. \A x \in Ones(t) : x \in 0 .. ByteBits * n - 1
    BY <1>3
  <2> HIDE DEF begin
  <2> QED
    BY <2>1, <2>2, <2>3
<1>7. /\ Ones(both) \subseteq 0 .. begin + ByteBits * n - 1
      /\ Ones(s) \subseteq 0 .. begin - 1
      /\ moved \subseteq begin .. begin + ByteBits * n - 1
  <2>1. \A x \in Ones(t) : begin + x \in begin .. begin + ByteBits * n - 1
    BY <1>2, <1>3
  <2> QED
    BY <1>3, <2>1
<1> HIDE DEF moved
<1>8. ASSUME NEW p \in 0 .. begin + ByteBits * n - 1
      PROVE  p \in Ones(both) <=> p \in Ones(s) \/ p \in moved
  <2>1. CASE p < begin
    BY <1>2, <1>4, <1>7, <2>1
  <2>2. CASE ~(p < begin)
    BY <1>2, <1>6, <1>7, <2>2
  <2> QED
    BY <2>1, <2>2
<1> HIDE DEF begin
<1>9. ASSUME NEW p \in Ones(s) \cup moved PROVE p \in 0 .. begin + ByteBits * n - 1
  <2>1. p \in 0 .. begin - 1 \/ p \in begin .. begin + ByteBits * n - 1
    BY <1>7
  <2> QED
    BY <1>2, <2>1
<1>10. Ones(both) = Ones(s) \cup moved
  BY <1>7, <1>8, <1>9
<1> QED
  BY <1>10 DEF both, moved, begin, m

\* Bytes of zeros have no ones.
LEMMA OnesOfZeros ==
  ASSUME NEW k \in Nat
  PROVE  LET zeros == [i \in 1 .. k |-> {}]
         IN  zeros \in Bytes /\ Len(zeros) = k /\ Ones(zeros) = {}
<1> DEFINE zeros == [i \in 1 .. k |-> {}]
<1>1. zeros \in [1 .. k -> SUBSET (0 .. ByteBits - 1)]
  OBVIOUS
<1>2. zeros \in Bytes /\ Len(zeros) = k
  <2>1. zeros \in Seq(SUBSET (0 .. ByteBits - 1))
    BY <1>1, SeqDef
  <2> QED
    BY <1>1, <2>1, LenProperties DEF Bytes
<1>3. ASSUME NEW p \in Ones(zeros) PROVE FALSE
  <2>1. p \in 0 .. ByteBits * k - 1 /\ LeftAt(p) - 1 \in zeros[ByteAt(p) + 1]
    BY <1>2 DEF Ones
  <2>2. p \in Nat /\ p < ByteBits * k
    <3>1. ByteBits * k \in Nat
      BY BytesGrow
    <3> QED
      BY <2>1, <3>1
  <2>3. ByteAt(p) \in Nat /\ ByteAt(p) < k
    BY <2>2, Place, PlaceWithin
  <2>4. ByteAt(p) + 1 \in 1 .. k
    BY <2>3
  <2> QED
    BY <2>1, <2>4
<1> QED
  BY <1>2, <1>3

\* The bits of a number, the most significant first, in whole bytes.
LEMMA OnesOfNumber ==
  ASSUME NEW n \in Nat, NEW value \in SUBSET Nat
  PROVE  LET pushed == [i \in 1 .. n |-> BitsOf(value, ByteBits * (n - i), ByteBits)]
         IN  /\ pushed \in Bytes /\ Len(pushed) = n
             /\ Ones(pushed) = {p \in 0 .. ByteBits * n - 1 : ByteBits * n - 1 - p \in value}
<1> DEFINE pushed == [i \in 1 .. n |-> BitsOf(value, ByteBits * (n - i), ByteBits)]
<1>1. pushed \in [1 .. n -> SUBSET (0 .. ByteBits - 1)]
  BY DEF BitsOf
<1>2. pushed \in Bytes /\ Len(pushed) = n
  <2>1. pushed \in Seq(SUBSET (0 .. ByteBits - 1))
    BY <1>1, SeqDef
  <2> HIDE DEF pushed
  <2> QED
    BY <1>1, <2>1, LenProperties DEF Bytes
<1>3. ByteBits \in Nat /\ ByteBits * n \in Nat
  BY BitsAssumed, BytesGrow
<1>4. ASSUME NEW p \in 0 .. ByteBits * n - 1
      PROVE  LeftAt(p) - 1 \in pushed[ByteAt(p) + 1] <=> ByteBits * n - 1 - p \in value
  <2> DEFINE q == ByteAt(p)
             l == LeftAt(p)
             i == q + 1
             from == ByteBits * (n - i)
  <2>1. p \in Nat /\ p < ByteBits * n
    BY <1>3
  <2>2. /\ q \in Nat /\ l \in 1 .. ByteBits /\ p + l = ByteBits * q + ByteBits
        /\ ByteBits * q \in Nat
    BY <2>1, Place
  <2>3. q < n
    BY <2>1, PlaceWithin
  <2> HIDE DEF q, l
  <2>4. i \in 1 .. n /\ n - i \in Nat /\ i \in Nat /\ (n - i) + i = n
    BY <2>2, <2>3
  <2>5. from \in Nat /\ ByteBits * n = from + (ByteBits * q + ByteBits)
    <3>1. ByteBits * ((n - i) + i) = from + ByteBits * i /\ from \in Nat
      BY <2>4, BytesGrow
    <3>2. ByteBits * i = ByteBits * q + ByteBits
      BY <2>2, BytesGrow
    <3> QED
      BY <2>4, <3>1, <3>2
  <2>6. pushed[i] = {k \in 0 .. ByteBits - 1 : from + k \in value}
    BY <2>4 DEF BitsOf
  <2> HIDE DEF from, pushed
  <2>7. l - 1 \in 0 .. ByteBits - 1 /\ from + (l - 1) = ByteBits * n - 1 - p
    BY <1>3, <2>1, <2>2, <2>5
  <2>8. l - 1 \in pushed[i] <=> ByteBits * n - 1 - p \in value
    BY <2>6, <2>7
  <2> QED
    BY <2>8 DEF q, l
<1> HIDE DEF pushed
<1>5. Ones(pushed) = {p \in 0 .. ByteBits * n - 1 : ByteBits * n - 1 - p \in value}
  BY <1>2, <1>4 DEF Ones
<1> QED
  BY <1>2, <1>5 DEF pushed

-----------------------------------------------------------------------------
(* Bits: what is put at the end of the bytes *)

\* A number of so many bits, the most significant first, from a position on.
Spelled(pos, bits, value) == {p \in pos .. (pos + bits) - 1 : (pos + bits) - 1 - p \in value}

\* The bytes hold what is before a position, and no byte more than that takes.
Filled(bytes, pos) ==
  /\ bytes \in Bytes /\ pos \in Nat
  /\ pos <= ByteBits * Len(bytes) /\ ByteBits * Len(bytes) < pos + ByteBits
  /\ Ones(bytes) \subseteq 0 .. pos - 1

\* With room for the byte at hand.
LEMMA ExtendedIs ==
  ASSUME NEW bytes, NEW pos, Filled(bytes, pos)
  PROVE  LET more == Extended(bytes, ByteAt(pos))
         IN  more \in Bytes /\ Len(more) = ByteAt(pos) + 1 /\ Ones(more) = Ones(bytes)
<1> DEFINE i == ByteAt(pos)
           n == Len(bytes)
           k == IF i < n THEN 0 ELSE i + 1 - n
           zeros == [x \in 1 .. k |-> {}]
<1>1. bytes \in Bytes /\ pos \in Nat /\ n \in Nat /\ i \in Nat
  BY Place, LenProperties DEF Filled, Bytes
<1>8. /\ pos < ByteBits * i + ByteBits /\ ByteBits * i <= pos
      /\ pos <= ByteBits * n /\ ByteBits * n < pos + ByteBits
  <2>1. pos <= ByteBits * n /\ ByteBits * n < pos + ByteBits
    BY DEF Filled
  <2>2. i \in Nat /\ LeftAt(pos) \in 1 .. ByteBits /\ pos + LeftAt(pos) = ByteBits * i + ByteBits
    BY <1>1, Place
  <2> HIDE DEF i, n
  <2>3. ByteBits * i \in Nat /\ ByteBits \in Nat
    BY <2>2, BytesGrow, BitsAssumed
  <2> QED
    BY <1>1, <2>1, <2>2, <2>3
<1> HIDE DEF n, i
<1>2. n <= i + 1 /\ i <= n
  <2>1. /\ ByteBits \in Nat /\ ByteBits > 0 /\ ByteBits * n \in Nat /\ ByteBits * i \in Nat
    BY <1>1, BitsAssumed, BytesGrow
  <2>3. ASSUME n < i PROVE FALSE
    <3>1. ByteBits * n + ByteBits <= ByteBits * i
      BY <1>1, <2>3, BytesGrow
    <3> QED
      BY <1>1, <1>8, <2>1, <3>1
  <2>4. ASSUME i + 1 < n PROVE FALSE
    <3>1. i + 1 \in Nat /\ ByteBits * (i + 1) = ByteBits * i + ByteBits
      BY <1>1, BytesGrow
    <3>2. ByteBits * (i + 1) + ByteBits <= ByteBits * n
      BY <1>1, <2>4, <3>1, BytesGrow
    <3> QED
      BY <1>1, <1>8, <2>1, <3>1, <3>2
  <2> QED
    BY <1>1, <2>3, <2>4
<1>3. k \in Nat /\ n + k = i + 1
  BY <1>1, <1>2
<1>4. Extended(bytes, ByteAt(pos)) = bytes \o zeros
  BY DEF Extended, i, n
<1> HIDE DEF k
<1>5. zeros \in Bytes /\ Len(zeros) = k /\ Ones(zeros) = {}
  BY <1>3, OnesOfZeros
<1> HIDE DEF zeros
<1>6. bytes \o zeros \in Bytes /\ Len(bytes \o zeros) = n + k
  BY <1>1, <1>5, BytesJoined DEF n
<1>7. Ones(bytes \o zeros) = Ones(bytes)
  <2>1. Ones(bytes \o zeros) = Ones(bytes) \cup {ByteBits * Len(bytes) + p : p \in Ones(zeros)}
    BY <1>1, <1>5, OnesJoined
  <2> QED
    BY <1>5, <2>1
<1> QED
  BY <1>3, <1>4, <1>6, <1>7 DEF i

\* What is put at a position within the byte at hand.
LEMMA ByteFilled ==
  ASSUME NEW bytes, NEW pos, Filled(bytes, pos), NEW value \in SUBSET Nat,
         NEW bits \in 1 .. LeftAt(pos), NEW S \in SUBSET (0 .. ByteBits - 1),
         \A k \in 0 .. ByteBits - 1 :
           k \in S <=> k - (LeftAt(pos) - bits) \in (value \cap 0 .. bits - 1)
  PROVE  LET new == WithBits(Extended(bytes, ByteAt(pos)), ByteAt(pos), S)
         IN  Filled(new, pos + bits) /\ Ones(new) = Ones(bytes) \cup Spelled(pos, bits, value)
<1> DEFINE i == ByteAt(pos)
           l == LeftAt(pos)
           more == Extended(bytes, i)
           new == WithBits(more, i, S)
           begin == ByteBits * i
           end == begin + ByteBits
<1>1. /\ bytes \in Bytes /\ pos \in Nat /\ i \in Nat /\ l \in 1 .. ByteBits
      /\ pos + l = end /\ begin \in Nat /\ ByteBits \in Nat /\ ByteBits > 0
  <2>1. pos \in Nat /\ bytes \in Bytes
    BY DEF Filled
  <2> QED
    BY <2>1, Place, BitsAssumed
<1>2. more \in Bytes /\ Len(more) = i + 1 /\ Ones(more) = Ones(bytes)
  BY ExtendedIs
<1>3. Ones(bytes) \subseteq 0 .. pos - 1
  BY DEF Filled
<1> HIDE DEF i, more
<1>4. /\ new \in Bytes /\ Len(new) = i + 1
      /\ Ones(new) = Ones(bytes) \cup InByte(begin, end, S)
  <2>1. i \in Nat /\ i < Len(more) /\ more \in Bytes
    BY <1>1, <1>2
  <2>2. begin = ByteBits * i /\ end = begin + ByteBits
    OBVIOUS
  <2>3. new = WithBits(more, i, S)
    OBVIOUS
  <2> HIDE DEF begin, end, new
  <2>4. /\ new \in Bytes /\ Len(new) = Len(more)
        /\ Ones(new) = Ones(more) \cup InByte(begin, end, S)
    BY <2>1, <2>2, <2>3, OnesSet
  <2> QED
    BY <1>2, <2>4
<1>5. end = ByteBits * (i + 1)
  BY <1>1, BytesGrow
<1>6. \A k \in 0 .. ByteBits - 1 : k \in S <=> k - (l - bits) \in value /\ k - (l - bits) \in 0 .. bits - 1
  OBVIOUS
<1>7. bits \in 1 .. l
  OBVIOUS
<1> HIDE DEF l, end, begin
<1>8. InByte(begin, end, S) = Spelled(pos, bits, value)
  <2>0. end = begin + ByteBits /\ bits \in Nat /\ pos + bits <= end /\ begin <= pos /\ l \in Nat
    BY <1>1, <1>7 DEF end
  <2>1. ASSUME NEW p \in begin .. end - 1
        PROVE  end - 1 - p \in S <=> p \in Spelled(pos, bits, value)
    <3>1. /\ end - 1 - p \in 0 .. ByteBits - 1 /\ (end - 1 - p) - (l - bits) = (pos + bits) - 1 - p
          /\ p \in Nat
      BY <1>1, <1>7, <2>0
    <3>2. end - 1 - p \in S <=> (pos + bits) - 1 - p \in value /\ (pos + bits) - 1 - p \in 0 .. bits - 1
      BY <1>6, <3>1
    <3>3. (pos + bits) - 1 - p \in 0 .. bits - 1 <=> p \in pos .. (pos + bits) - 1
      BY <1>1, <2>0, <3>1
    <3> QED
      BY <3>2, <3>3 DEF Spelled
  <2>2. \A p \in Spelled(pos, bits, value) : p \in begin .. end - 1
    BY <1>1, <2>0 DEF Spelled
  <2> QED
    BY <2>1, <2>2 DEF InByte
<1>9. Ones(new) = Ones(bytes) \cup Spelled(pos, bits, value)
  BY <1>4, <1>8
<1>10. Filled(new, pos + bits)
  <2>1. /\ pos + bits \in Nat /\ pos + bits <= end /\ end < pos + bits + ByteBits
    BY <1>1, <1>7
  <2>2. \A p \in Ones(bytes) \cup Spelled(pos, bits, value) : p \in 0 .. (pos + bits) - 1
    BY <1>1, <1>3, <1>7 DEF Spelled
  <2> HIDE DEF new
  <2> QED
    BY <1>4, <1>5, <1>9, <2>1, <2>2 DEF Filled
<1> QED
  BY <1>9, <1>10 DEF more, i

\* The part that is before a position of a number that ends at another.
SpelledTo(from, to, end, value) == {p \in from .. to - 1 : end - 1 - p \in value}

\* The loop of write_bits_optimized, for a number of so many bits from a position on.
Putting(put, bytes, pos, bits, value) ==
  /\ put \in [bytes : Bytes, bit_pos : Nat, remaining : Nat]
  /\ put.bit_pos + put.remaining = pos + bits /\ pos <= put.bit_pos
  /\ Filled(put.bytes, put.bit_pos)
  /\ Ones(put.bytes) = Ones(bytes) \cup SpelledTo(pos, put.bit_pos, pos + bits, value)

LEMMA ChunkPut ==
  ASSUME NEW bytes, NEW pos \in Nat, NEW bits \in Nat, NEW value \in SUBSET Nat,
         NEW put, Putting(put, bytes, pos, bits, value), put.remaining > 0
  PROVE  /\ Putting(PutChunk(put, value), bytes, pos, bits, value)
         /\ PutChunk(put, value).remaining < put.remaining
<1> DEFINE at        == put.bit_pos
           left      == put.remaining
           available == LeftAt(at)
           count     == Smaller(left, available)
           shift     == left - count
           put_bits  == BitsOf(value, shift, count)
           chunk     == Lifted(put_bits, available - count)
           new       == WithBits(Extended(put.bytes, ByteAt(at)), ByteAt(at), chunk)
<1>1. /\ at \in Nat /\ left \in Nat /\ left > 0 /\ at + left = pos + bits /\ pos <= at
      /\ Filled(put.bytes, at) /\ ByteBits \in Nat
      /\ Ones(put.bytes) = Ones(bytes) \cup SpelledTo(pos, at, pos + bits, value)
  BY BitsAssumed DEF Putting
<1>2. PutChunk(put, value) = [bytes |-> new, bit_pos |-> at + count, remaining |-> shift]
  BY DEF PutChunk, WithBits
<1> HIDE DEF new, at, left
<1>3. /\ available \in 1 .. ByteBits /\ count \in 1 .. available /\ count <= left
      /\ shift \in Nat /\ shift + count = left
  <2>1. available \in 1 .. ByteBits
    BY <1>1, Place
  <2> HIDE DEF available
  <2> QED
    BY <1>1, <2>1 DEF Smaller
<1> HIDE DEF available, count, shift
<1>4. put_bits \in SUBSET (0 .. count - 1) /\ \A k \in 0 .. count - 1 : k \in put_bits <=> shift + k \in value
  BY DEF BitsOf
<1> HIDE DEF put_bits
<1>5. /\ chunk \in SUBSET (0 .. ByteBits - 1)
      /\ \A k \in 0 .. ByteBits - 1 : k \in chunk <=> k - (available - count) \in (put_bits \cap 0 .. count - 1)
  <2>1. ASSUME NEW k \in Nat, k < count
        PROVE  k + (available - count) \in 0 .. ByteBits - 1
    <3>1. /\ ByteBits \in Nat /\ available \in Nat /\ count \in Nat
          /\ available <= ByteBits /\ count <= available
      BY <1>1, <1>3
    <3> QED
      BY <2>1, <3>1
  <2>2. ASSUME NEW x \in chunk PROVE x \in 0 .. ByteBits - 1
    <3>1. PICK k \in put_bits : x = k + (available - count)
      BY DEF Lifted
    <3>2. k \in Nat /\ k < count
      BY <1>3, <1>4, <3>1
    <3> QED
      BY <2>1, <3>1, <3>2
  <2>3. ASSUME NEW k \in 0 .. ByteBits - 1
        PROVE  k \in chunk <=> k - (available - count) \in (put_bits \cap 0 .. count - 1)
    <3>1. \A x \in put_bits : k = x + (available - count) <=> x = k - (available - count)
      <4>1. \A x \in put_bits : x \in Int
        BY <1>3, <1>4
      <4> QED
        BY <1>1, <1>3, <4>1
    <3>2. k \in chunk <=> \E x \in put_bits : k = x + (available - count)
      BY DEF Lifted
    <3> HIDE DEF chunk
    <3> QED
      BY <1>4, <3>1, <3>2
  <2> QED
    BY <2>2, <2>3
<1> HIDE DEF chunk
<1>6. Filled(new, at + count) /\ Ones(new) = Ones(put.bytes) \cup Spelled(at, count, put_bits)
  <2>1. put_bits \in SUBSET Nat
    BY <1>3, <1>4
  <2>2. count \in 1 .. LeftAt(at)
    BY <1>3 DEF available
  <2>3. \A k \in 0 .. ByteBits - 1 : k \in chunk <=> k - (LeftAt(at) - count) \in (put_bits \cap 0 .. count - 1)
    BY <1>5 DEF available
  <2> QED
    BY <1>1, <1>5, <2>1, <2>2, <2>3, ByteFilled DEF new
<1>7. SpelledTo(pos, at, pos + bits, value) \cup Spelled(at, count, put_bits)
        = SpelledTo(pos, at + count, pos + bits, value)
  <2>1. ASSUME NEW p \in at .. (at + count) - 1
        PROVE  (at + count) - 1 - p \in put_bits <=> (pos + bits) - 1 - p \in value
    <3>1. (at + count) - 1 - p \in 0 .. count - 1 /\ shift + ((at + count) - 1 - p) = (pos + bits) - 1 - p
      BY <1>1, <1>3
    <3> QED
      BY <1>4, <3>1
  <2>2. ASSUME NEW p PROVE p \in pos .. (at + count) - 1 <=> p \in pos .. at - 1 \/ p \in at .. (at + count) - 1
    BY <1>1, <1>3
  <2>3. ASSUME NEW p
        PROVE  p \in Spelled(at, count, put_bits) <=> p \in at .. (at + count) - 1 /\ (pos + bits) - 1 - p \in value
    BY <2>1 DEF Spelled
  <2>4. ASSUME NEW p
        PROVE  p \in SpelledTo(pos, at, pos + bits, value) <=> p \in pos .. at - 1 /\ (pos + bits) - 1 - p \in value
    BY DEF SpelledTo
  <2>5. ASSUME NEW p
        PROVE  p \in SpelledTo(pos, at + count, pos + bits, value)
                 <=> p \in pos .. (at + count) - 1 /\ (pos + bits) - 1 - p \in value
    BY Zenon DEF SpelledTo
  <2> QED
    BY <2>2, <2>3, <2>4, <2>5, Zenon
<1>8. PutChunk(put, value) \in [bytes : Bytes, bit_pos : Nat, remaining : Nat]
  <2>1. new \in Bytes
    BY <1>6 DEF Filled
  <2>2. at + count \in Nat
    BY <1>1, <1>3
  <2> QED
    BY <1>2, <1>3, <2>1, <2>2
<1>9. /\ PutChunk(put, value).bytes = new /\ PutChunk(put, value).bit_pos = at + count
      /\ PutChunk(put, value).remaining = shift
  BY <1>2
<1>10. (at + count) + shift = pos + bits /\ pos <= at + count /\ shift < left
  BY <1>1, <1>3
<1>11. Ones(new) = Ones(bytes) \cup SpelledTo(pos, at + count, pos + bits, value)
  BY <1>1, <1>6, <1>7, Zenon
<1>12. Putting(PutChunk(put, value), bytes, pos, bits, value)
  BY <1>6, <1>8, <1>9, <1>10, <1>11 DEF Putting
<1> QED
  BY <1>9, <1>10, <1>12 DEF left

\* After the loop of write_bits_optimized the number is spelled behind the bytes.
LEMMA ChunksPut ==
  ASSUME NEW b, NEW bits \in Nat, NEW value \in SUBSET Nat, Filled(b.buffer, b.bit_pos)
  PROVE  LET bytes == Chunks(b, value, bits)[bits].bytes
         IN  /\ Filled(bytes, b.bit_pos + bits)
             /\ Ones(bytes) = Ones(b.buffer) \cup Spelled(b.bit_pos, bits, value)
<1> DEFINE S == {put \in [bytes : Bytes, bit_pos : Nat, remaining : Nat] :
                   Putting(put, b.buffer, b.bit_pos, bits, value)}
           start == [bytes |-> b.buffer, bit_pos |-> b.bit_pos, remaining |-> bits]
           Turn(put) == IF put.remaining = 0 THEN put ELSE PutChunk(put, value)
           next == [x \in S \X (1 .. bits) |-> Turn(x[1])]
           IsThat(f) == f = [turn \in 0 .. bits |-> IF turn = 0 THEN start ELSE Turn(f[turn - 1])]
<1>1. b.buffer \in Bytes /\ b.bit_pos \in Nat
  BY DEF Filled
<1>2. start \in S /\ start.remaining = bits
  <2>1. SpelledTo(b.bit_pos, b.bit_pos, b.bit_pos + bits, value) = {}
    BY <1>1 DEF SpelledTo
  <2>2. Ones(b.buffer) = Ones(b.buffer) \cup SpelledTo(b.bit_pos, b.bit_pos, b.bit_pos + bits, value)
    BY <2>1
  <2>3. start \in [bytes : Bytes, bit_pos : Nat, remaining : Nat]
    BY <1>1
  <2>4. Putting(start, b.buffer, b.bit_pos, bits, value)
    BY <1>1, <2>2, <2>3 DEF Putting
  <2> QED
    BY <2>3, <2>4
<1>3. ASSUME NEW put \in S
      PROVE  /\ Turn(put) \in S /\ put.remaining \in Nat
             /\ Turn(put).remaining \in Nat
             /\ Turn(put).remaining < put.remaining \/ Turn(put).remaining = 0
  <2>1. Putting(put, b.buffer, b.bit_pos, bits, value) /\ put.remaining \in Nat
    BY DEF Putting
  <2>2. CASE put.remaining = 0
    BY <2>1, <2>2
  <2>3. CASE put.remaining # 0
    <3>1. put.remaining > 0
      BY <2>1, <2>3
    <3>2. /\ Putting(PutChunk(put, value), b.buffer, b.bit_pos, bits, value)
          /\ PutChunk(put, value).remaining < put.remaining
      BY <1>1, <2>1, <3>1, ChunkPut
    <3>3. PutChunk(put, value) \in [bytes : Bytes, bit_pos : Nat, remaining : Nat]
      BY <3>2 DEF Putting
    <3> QED
      BY <2>1, <2>3, <3>2, <3>3
  <2> QED
    BY <2>2, <2>3
<1> HIDE DEF start, Turn
<1>4. next \in [S \X (1 .. bits) -> S]
  BY <1>3
<1>5. \A x \in S, i \in 1 .. bits : next[<<x, i>>] = Turn(x)
  OBVIOUS
<1> HIDE DEF S
<1>6. PICK f \in [0 .. bits -> S] : Turns(f, bits, start, next)
  <2> HIDE DEF next
  <2> QED
    BY <1>2, <1>4, TurnsDefined, Zenon
<1> HIDE DEF next
<1>7. f[0] = start /\ \A i \in 1 .. bits : f[i] = Turn(f[i - 1])
  <2>1. \A i \in 1 .. bits : f[i - 1] \in S
    BY <1>6
  <2> QED
    BY <1>5, <1>6, <2>1 DEF Turns
<1>8. IsThat(f)
  BY <1>6, <1>7
<1>9. Chunks(b, value, bits) = CHOOSE g : IsThat(g)
  BY DEF Chunks, Turn, start
<1> HIDE DEF IsThat
<1>10. IsThat(Chunks(b, value, bits))
  BY <1>8, <1>9
<1> DEFINE put == Chunks(b, value, bits)
<1> HIDE DEF put
<1>11. put = [turn \in 0 .. bits |-> IF turn = 0 THEN start ELSE Turn(put[turn - 1])]
  BY <1>10 DEF IsThat, put
<1>12. put[0] = start /\ \A i \in 1 .. bits : put[i] = Turn(put[i - 1])
  BY <1>11
<1> DEFINE H == {i \in 0 .. bits : put[i] \in S /\ (put[i].remaining + i <= bits \/ put[i].remaining = 0)}
<1>13. 0 \in H
  BY <1>2, <1>12
<1>14. ASSUME NEW i \in 0 .. bits - 1, i \in H PROVE i + 1 \in H
  <2>1. i + 1 \in 1 .. bits /\ (i + 1) - 1 = i /\ i + 1 \in 0 .. bits /\ i \in Nat
    OBVIOUS
  <2>2. put[i + 1] = Turn(put[i]) /\ put[i] \in S
    BY <1>12, <1>14, <2>1
  <2>3. put[i].remaining + i <= bits \/ put[i].remaining = 0
    BY <1>14
  <2>4. /\ put[i + 1] \in S /\ put[i].remaining \in Nat /\ put[i + 1].remaining \in Nat
        /\ put[i + 1].remaining < put[i].remaining \/ put[i + 1].remaining = 0
    BY <1>3, <2>2
  <2>5. put[i + 1].remaining + (i + 1) <= bits \/ put[i + 1].remaining = 0
    BY <2>1, <2>3, <2>4
  <2> QED
    BY <2>1, <2>4, <2>5
<1> HIDE DEF H
<1>15. \A i \in 0 .. bits : i \in H
  BY <1>13, <1>14, EveryTurn
<1>16. put[bits] \in S /\ (put[bits].remaining + bits <= bits \/ put[bits].remaining = 0)
  BY <1>15 DEF H
<1>17. /\ put[bits].remaining = 0 /\ put[bits].bit_pos = b.bit_pos + bits
       /\ Filled(put[bits].bytes, put[bits].bit_pos)
       /\ Ones(put[bits].bytes)
            = Ones(b.buffer) \cup SpelledTo(b.bit_pos, put[bits].bit_pos, b.bit_pos + bits, value)
  <2>1. /\ put[bits].remaining \in Nat /\ put[bits].bit_pos \in Nat
        /\ put[bits].bit_pos + put[bits].remaining = b.bit_pos + bits
        /\ Filled(put[bits].bytes, put[bits].bit_pos)
        /\ Ones(put[bits].bytes)
             = Ones(b.buffer) \cup SpelledTo(b.bit_pos, put[bits].bit_pos, b.bit_pos + bits, value)
    BY <1>16 DEF S, Putting
  <2>2. put[bits].remaining = 0
    BY <1>16, <2>1
  <2>3. put[bits].bit_pos = b.bit_pos + bits
    BY <1>1, <2>1, <2>2
  <2> QED
    BY <2>1, <2>2, <2>3
<1>18. SpelledTo(b.bit_pos, b.bit_pos + bits, b.bit_pos + bits, value) = Spelled(b.bit_pos, bits, value)
  BY DEF SpelledTo, Spelled
<1> QED
  BY <1>17, <1>18 DEF put

-----------------------------------------------------------------------------
(* Bits: what the operations write *)

Buffers ==
  [buffer : Bytes, bit_pos : Nat, read_pos : Nat, unpadded_length : Nat, measure_only : BOOLEAN]

\* c is b and so many bits more.
Further(b, c, bits) ==
  /\ c \in Buffers /\ c.measure_only = b.measure_only /\ c.read_pos = b.read_pos
  /\ c.bit_pos = b.bit_pos + bits /\ c.unpadded_length = b.unpadded_length + bits

\* c is b behind which a number is written.
Written(b, c, bits, value) ==
  /\ Further(b, c, bits)
  /\ Filled(c.buffer, c.bit_pos)
  /\ Ones(c.buffer) = Ones(b.buffer) \cup Spelled(b.bit_pos, bits, value)

LEMMA AdvancedIs ==
  ASSUME NEW b \in Buffers, NEW bits \in Nat, NEW bytes \in Bytes
  PROVE  /\ Further(b, Advanced(b, bits), bits) /\ Advanced(b, bits).buffer = b.buffer
         /\ Further(b, [Advanced(b, bits) EXCEPT !.buffer = bytes], bits)
         /\ [Advanced(b, bits) EXCEPT !.buffer = bytes].buffer = bytes
<1>1. /\ b.bit_pos \in Nat /\ b.read_pos \in Nat /\ b.unpadded_length \in Nat
      /\ b.measure_only \in BOOLEAN /\ b.buffer \in Bytes
  BY DEF Buffers
<1>2. b.bit_pos + bits \in Nat /\ b.unpadded_length + bits \in Nat
  BY <1>1
<1> DEFINE pos == b.bit_pos + bits
           length == b.unpadded_length + bits
           Next(s) == [buffer |-> s, bit_pos |-> pos, read_pos |-> b.read_pos,
                       unpadded_length |-> length, measure_only |-> b.measure_only]
<1>3. Advanced(b, bits) = Next(b.buffer)
  <2>1. b = [buffer |-> b.buffer, bit_pos |-> b.bit_pos, read_pos |-> b.read_pos,
             unpadded_length |-> b.unpadded_length, measure_only |-> b.measure_only]
    BY DEF Buffers
  <2>2. Advanced(b, bits) = [b EXCEPT !.bit_pos = pos, !.unpadded_length = length]
    BY DEF Advanced
  <2> HIDE DEF pos, length
  <2> QED
    BY <2>1, <2>2
<1>4. [Advanced(b, bits) EXCEPT !.buffer = bytes] = Next(bytes)
  BY <1>3
<1>5. ASSUME NEW s \in Bytes PROVE Further(b, Next(s), bits) /\ Next(s).buffer = s
  <2>1. /\ Next(s).measure_only = b.measure_only /\ Next(s).read_pos = b.read_pos
        /\ Next(s).bit_pos = pos /\ Next(s).unpadded_length = length /\ Next(s).buffer = s
    OBVIOUS
  <2>2. Next(s) \in Buffers
    <3> HIDE DEF pos, length
    <3>1. pos \in Nat /\ length \in Nat
      BY <1>2 DEF pos, length
    <3> QED
      BY <1>1, <3>1 DEF Buffers
  <2> QED
    BY <2>1, <2>2 DEF Further
<1> HIDE DEF Next
<1> QED
  BY <1>1, <1>3, <1>4, <1>5

LEMMA FurtherNone ==
  ASSUME NEW b \in Buffers
  PROVE  Further(b, b, 0)
<1>1. b.bit_pos \in Nat /\ b.unpadded_length \in Nat
  BY DEF Buffers
<1>2. b.bit_pos + 0 = b.bit_pos /\ b.unpadded_length + 0 = b.unpadded_length
  BY <1>1
<1> QED
  BY <1>2 DEF Further

LEMMA WholeIs ==
  ASSUME NEW p \in Nat
  PROVE  IsWhole(p) <=> ByteBits * ByteAt(p) = p
BY BitsAssumed DEF IsWhole, ByteAt

LEMMA WholeFilled ==
  ASSUME NEW bytes, NEW pos, Filled(bytes, pos), IsWhole(pos)
  PROVE  ByteBits * Len(bytes) = pos
<1> DEFINE n == Len(bytes)
           i == ByteAt(pos)
<1>1. /\ n \in Nat /\ pos \in Nat /\ pos <= ByteBits * n /\ ByteBits * n < pos + ByteBits
  BY LenProperties DEF Filled, Bytes
<1>2. i \in Nat /\ ByteBits * i = pos
  BY <1>1, Place, WholeIs
<1> HIDE DEF n, i
<1>3. ByteBits \in Nat /\ ByteBits * n \in Nat /\ ByteBits * i \in Nat
  BY <1>1, <1>2, BitsAssumed, BytesGrow
<1>4. ~(i < n)
  <2> SUFFICES ASSUME i < n PROVE FALSE
    OBVIOUS
  <2>1. ByteBits * i + ByteBits <= ByteBits * n
    BY <1>1, <1>2, BytesGrow
  <2> QED
    BY <1>1, <1>2, <1>3, <2>1
<1>5. n <= i => ByteBits * n <= ByteBits * i
  BY <1>1, <1>2, BytesGrow
<1> QED
  BY <1>1, <1>2, <1>3, <1>4, <1>5 DEF n

Pushed(value, n) == [i \in 1 .. n |-> BitsOf(value, ByteBits * (n - i), ByteBits)]

\* Whole bytes pushed at a byte boundary.
LEMMA PushedIs ==
  ASSUME NEW bytes, NEW pos, Filled(bytes, pos), IsWhole(pos), NEW n \in Nat, NEW value \in SUBSET Nat
  PROVE  /\ Filled(bytes \o Pushed(value, n), pos + ByteBits * n)
         /\ Ones(bytes \o Pushed(value, n)) = Ones(bytes) \cup Spelled(pos, ByteBits * n, value)
<1> DEFINE pushed == Pushed(value, n)
           both == bytes \o pushed
           m == Len(bytes)
           bits == ByteBits * n
<1>1. /\ bytes \in Bytes /\ m \in Nat /\ pos \in Nat /\ ByteBits * m = pos /\ bits \in Nat
      /\ ByteBits \in Nat /\ ByteBits > 0 /\ Ones(bytes) \subseteq 0 .. pos - 1
  BY WholeFilled, LenProperties, BitsAssumed, BytesGrow DEF Filled, Bytes
<1>2. /\ pushed \in Bytes /\ Len(pushed) = n
      /\ Ones(pushed) = {p \in 0 .. bits - 1 : bits - 1 - p \in value}
  BY OnesOfNumber DEF Pushed
<1> HIDE DEF pushed
<1>3. both \in Bytes /\ Len(both) = m + n /\ Ones(both) = Ones(bytes) \cup {ByteBits * m + p : p \in Ones(pushed)}
  BY <1>1, <1>2, BytesJoined, OnesJoined
<1>4. ByteBits * (m + n) = pos + bits
  BY <1>1, BytesGrow
<1> HIDE DEF both, m, bits
<1>5. {ByteBits * m + p : p \in Ones(pushed)} = Spelled(pos, bits, value)
  <2>1. ASSUME NEW p \in Ones(pushed) PROVE pos + p \in Spelled(pos, bits, value)
    <3>1. p \in 0 .. bits - 1 /\ bits - 1 - p \in value
      BY <1>2
    <3>2. pos + p \in pos .. (pos + bits) - 1 /\ (pos + bits) - 1 - (pos + p) = bits - 1 - p
      BY <1>1, <3>1
    <3> QED
      BY <3>1, <3>2 DEF Spelled
  <2>2. ASSUME NEW p \in Spelled(pos, bits, value) PROVE p - pos \in Ones(pushed) /\ pos + (p - pos) = p
    <3>1. p \in pos .. (pos + bits) - 1 /\ (pos + bits) - 1 - p \in value
      BY DEF Spelled
    <3>2. /\ p - pos \in 0 .. bits - 1 /\ bits - 1 - (p - pos) = (pos + bits) - 1 - p
          /\ pos + (p - pos) = p
      BY <1>1, <3>1
    <3> QED
      BY <1>2, <3>1, <3>2
  <2> QED
    BY <1>1, <2>1, <2>2
<1>6. Ones(both) = Ones(bytes) \cup Spelled(pos, bits, value)
  BY <1>3, <1>5
<1>7. Filled(both, pos + bits)
  <2>1. \A p \in Spelled(pos, bits, value) : p \in 0 .. (pos + bits) - 1
    BY <1>1 DEF Spelled
  <2>2. \A p \in Ones(bytes) : p \in 0 .. (pos + bits) - 1
    BY <1>1
  <2>3. pos + bits \in Nat /\ pos + bits <= pos + bits /\ pos + bits < (pos + bits) + ByteBits
    BY <1>1
  <2>4. ByteBits * Len(both) = pos + bits
    BY <1>3, <1>4
  <2>5. Ones(both) \subseteq 0 .. (pos + bits) - 1
    BY <1>6, <2>1, <2>2
  <2> QED
    BY <1>3, <2>3, <2>4, <2>5 DEF Filled
<1> QED
  BY <1>6, <1>7 DEF both, bits, pushed

LEMMA SpelledMasked ==
  ASSUME NEW pos \in Nat, NEW bits \in Nat, NEW value
  PROVE  /\ Spelled(pos, bits, Masked(value, bits)) = Spelled(pos, bits, value)
         /\ Masked(value, bits) \in SUBSET Nat
<1>1. \A p \in pos .. (pos + bits) - 1 : (pos + bits) - 1 - p \in 0 .. bits - 1
  OBVIOUS
<1>2. \A p \in pos .. (pos + bits) - 1 :
        (pos + bits) - 1 - p \in Masked(value, bits) <=> (pos + bits) - 1 - p \in value
  BY <1>1 DEF Masked
<1> QED
  BY <1>2 DEF Spelled, Masked

LEMMA BitsWritten ==
  ASSUME NEW b \in Buffers, ~b.measure_only, Filled(b.buffer, b.bit_pos), NEW value, NEW bits \in Nat,
         NEW c \in WriteBits(b, value, bits)
  PROVE  Written(b, c, bits, value)
<1> DEFINE mask == Masked(value, bits)
           pos  == b.bit_pos
<1>1. pos \in Nat /\ b.buffer \in Bytes
  BY DEF Buffers
<1>2. mask \in SUBSET Nat /\ Spelled(pos, bits, mask) = Spelled(pos, bits, value)
  BY <1>1, SpelledMasked
<1>3. CASE bits = 0
  <2>1. c = b
    BY <1>3 DEF WriteBits, Fail
  <2>2. Spelled(pos, bits, value) = {} /\ pos + bits = pos
    BY <1>1, <1>3 DEF Spelled
  <2>3. Further(b, b, bits)
    BY <1>3, FurtherNone
  <2> QED
    BY <2>1, <2>2, <2>3 DEF Written
<1>4. CASE bits # 0 /\ FastWrite(b, bits)
  <2> DEFINE n == bits \div ByteBits
             pushed == Pushed(mask, n)
             bytes == b.buffer \o pushed
  <2>1. c = WriteBytesFast(b, mask, n)
    BY <1>4 DEF WriteBits, Fail
  <2>2. IsWhole(pos) /\ n \in Nat /\ ByteBits * n = bits /\ n * ByteBits = bits
    <3>1. IsWhole(bits) /\ IsWhole(pos)
      BY <1>4 DEF FastWrite
    <3>2. ByteAt(bits) \in Nat /\ ByteBits * ByteAt(bits) = bits /\ ByteBits \in Nat
      BY <3>1, WholeIs, Place, BitsAssumed
    <3>3. ByteBits * ByteAt(bits) = ByteAt(bits) * ByteBits
      BY <3>2
    <3> QED
      BY <3>1, <3>2, <3>3 DEF ByteAt
  <2>3. c = [Advanced(b, bits) EXCEPT !.buffer = Advanced(b, bits).buffer \o pushed]
    BY <2>1, <2>2 DEF WriteBytesFast, Pushed
  <2> HIDE DEF n, mask
  <2>4. Filled(bytes, pos + bits) /\ Ones(bytes) = Ones(b.buffer) \cup Spelled(pos, bits, mask)
    BY <1>2, <2>2, PushedIs
  <2> HIDE DEF pushed
  <2>5. bytes \in Bytes
    BY <2>4 DEF Filled
  <2> HIDE DEF bytes
  <2>6. c = [Advanced(b, bits) EXCEPT !.buffer = bytes]
    BY <1>1, <2>3, <2>5, AdvancedIs DEF bytes
  <2>7. Further(b, c, bits) /\ c.buffer = bytes
    BY <2>5, <2>6, AdvancedIs
  <2> QED
    BY <1>2, <2>4, <2>7 DEF Written, Further
<1>5. CASE bits # 0 /\ ~FastWrite(b, bits)
  <2> DEFINE bytes == Chunks(b, mask, bits)[bits].bytes
  <2>1. c = [Advanced(b, bits) EXCEPT !.buffer = bytes]
    BY <1>5 DEF WriteBits, Fail, WriteBitsOptimized
  <2> HIDE DEF mask
  <2>2. Filled(bytes, pos + bits) /\ Ones(bytes) = Ones(b.buffer) \cup Spelled(pos, bits, mask)
    BY <1>2, ChunksPut
  <2> HIDE DEF bytes
  <2>3. bytes \in Bytes
    BY <2>2 DEF Filled
  <2>4. Further(b, c, bits) /\ c.buffer = bytes
    BY <2>1, <2>3, AdvancedIs
  <2> QED
    BY <1>2, <2>2, <2>4 DEF Written, Further
<1> QED
  BY <1>3, <1>4, <1>5

LEMMA BitWritten ==
  ASSUME NEW b \in Buffers, ~b.measure_only, Filled(b.buffer, b.bit_pos), NEW bit \in BOOLEAN
  PROVE  Written(b, WriteBit(b, bit), 1, IF bit THEN {0} ELSE {})
<1> DEFINE pos   == b.bit_pos
           index == ByteAt(pos)
           place == LeftAt(pos) - 1
           more  == Extended(b.buffer, index)
           value == IF bit THEN {0} ELSE {}
           S     == IF bit THEN {place} ELSE {}
           bytes == WithBits(more, index, S)
<1>1. pos \in Nat /\ b.buffer \in Bytes /\ ByteBits \in Nat /\ ByteBits > 0
  BY BitsAssumed DEF Buffers
<1>2. /\ index \in Nat /\ place \in 0 .. ByteBits - 1 /\ LeftAt(pos) = place + 1
      /\ pos + LeftAt(pos) = ByteBits * index + ByteBits /\ ByteBits * index \in Nat
  <2> DEFINE l == LeftAt(pos)
  <2>1. /\ index \in Nat /\ l \in 1 .. ByteBits /\ pos + l = ByteBits * index + ByteBits
        /\ ByteBits * index \in Nat
    BY <1>1, Place
  <2> HIDE DEF l, index, pos
  <2>2. l - 1 \in 0 .. ByteBits - 1 /\ l = (l - 1) + 1
    BY <1>1, <2>1
  <2> QED
    BY <2>1, <2>2 DEF l
<1>3. more \in Bytes /\ Len(more) = index + 1 /\ Ones(more) = Ones(b.buffer)
  BY ExtendedIs
<1> HIDE DEF index, place, more
<1>4. more[index + 1] \ {place} = more[index + 1]
  <2>1. pos \notin Ones(b.buffer)
    BY <1>1 DEF Filled
  <2>2. pos \in 0 .. ByteBits * Len(more) - 1
    <3>1. ByteBits * (index + 1) = ByteBits * index + ByteBits
      BY <1>2, BytesGrow
    <3>2. LeftAt(pos) \in Nat /\ LeftAt(pos) > 0
      BY <1>1, <1>2
    <3> HIDE DEF pos
    <3> QED
      BY <1>1, <1>2, <1>3, <3>1, <3>2
  <2>3. place \notin more[index + 1]
    <3>1. LeftAt(pos) - 1 = place /\ ByteAt(pos) = index
      BY <1>1, <1>2 DEF index
    <3> QED
      BY <1>3, <2>1, <2>2, <3>1 DEF Ones
  <2> QED
    BY <2>3
<1>5. WriteBit(b, bit) = [Advanced(b, 1) EXCEPT !.buffer = bytes]
  <2>1. WriteBit(b, bit) = [Advanced(b, 1) EXCEPT
            !.buffer = [more EXCEPT ![index + 1] = IF bit THEN more[index + 1] \cup {place} ELSE more[index + 1] \ {place}]]
    BY DEF WriteBit, index, place, more
  <2>2. (IF bit THEN more[index + 1] \cup {place} ELSE more[index + 1] \ {place}) = more[index + 1] \cup S
    BY <1>4
  <2> QED
    BY <2>1, <2>2 DEF WithBits
<1>6. Filled(bytes, pos + 1) /\ Ones(bytes) = Ones(b.buffer) \cup Spelled(pos, 1, value)
  <2>1. value \in SUBSET Nat /\ S \in SUBSET (0 .. ByteBits - 1) /\ 1 \in 1 .. LeftAt(pos)
    BY <1>1, <1>2
  <2>2. \A k \in 0 .. ByteBits - 1 : k \in S <=> k - (LeftAt(pos) - 1) \in (value \cap 0 .. 1 - 1)
    BY <1>1, <1>2
  <2> HIDE DEF value, S, pos
  <2> QED
    BY <2>1, <2>2, ByteFilled DEF more, index, pos
<1> HIDE DEF bytes
<1>7. bytes \in Bytes
  BY <1>6 DEF Filled
<1>8. Further(b, WriteBit(b, bit), 1) /\ WriteBit(b, bit).buffer = bytes
  BY <1>5, <1>7, AdvancedIs
<1> QED
  BY <1>6, <1>8 DEF Written, Further

\* A buffer that only measures.
LEMMA BitsMeasured ==
  ASSUME NEW b \in Buffers, b.measure_only, NEW value, NEW bits \in Nat, NEW bit \in BOOLEAN
  PROVE  /\ \A c \in WriteBits(b, value, bits) : Further(b, c, bits) /\ c.buffer = b.buffer
         /\ Further(b, WriteBit(b, bit), 1) /\ WriteBit(b, bit).buffer = b.buffer
<1>1. b.buffer \in Bytes
  BY DEF Buffers
<1>2. Further(b, WriteBit(b, bit), 1) /\ WriteBit(b, bit).buffer = b.buffer
  BY <1>1, AdvancedIs DEF WriteBit
<1>3. ASSUME NEW c \in WriteBits(b, value, bits) PROVE Further(b, c, bits) /\ c.buffer = b.buffer
  <2>1. CASE bits = 0
    <3>1. c = b
      BY <1>3, <2>1 DEF WriteBits, Fail
    <3> QED
      BY <2>1, <3>1, FurtherNone
  <2>2. CASE bits # 0
    <3>1. c = Advanced(b, bits)
      <4>1. CASE FastWrite(b, bits)
        <5>1. IsWhole(bits)
          BY <4>1 DEF FastWrite
        <5>2. ByteAt(bits) \in Nat /\ ByteBits * ByteAt(bits) = bits /\ ByteBits \in Nat
          BY <5>1, WholeIs, Place, BitsAssumed
        <5>3. ByteBits * ByteAt(bits) = ByteAt(bits) * ByteBits
          BY <5>2
        <5>4. (bits \div ByteBits) * ByteBits = bits
          BY <5>2, <5>3 DEF ByteAt
        <5> QED
          BY <1>3, <2>2, <4>1, <5>4 DEF WriteBits, Fail, WriteBytesFast
      <4>2. CASE ~FastWrite(b, bits)
        BY <1>3, <2>2, <4>2 DEF WriteBits, Fail, WriteBitsOptimized
      <4> QED
        BY <4>1, <4>2
    <3> QED
      BY <1>1, <3>1, AdvancedIs
  <2> QED
    BY <2>1, <2>2
<1> QED
  BY <1>2, <1>3

-----------------------------------------------------------------------------
(* Bits: padding to a byte *)

LEMMA FilledLength ==
  ASSUME NEW bytes, NEW pos, Filled(bytes, pos), NEW n \in Nat,
         pos <= ByteBits * n, ByteBits * n < pos + ByteBits
  PROVE  Len(bytes) = n
<1> DEFINE m == Len(bytes)
<1>1. m \in Nat /\ pos \in Nat /\ pos <= ByteBits * m /\ ByteBits * m < pos + ByteBits
  BY LenProperties DEF Filled, Bytes
<1> HIDE DEF m
<1>2. ByteBits \in Nat /\ ByteBits * m \in Nat /\ ByteBits * n \in Nat
  BY <1>1, BitsAssumed, BytesGrow
<1>3. m < n => ByteBits * m + ByteBits <= ByteBits * n
  BY <1>1, BytesGrow
<1>4. n < m => ByteBits * n + ByteBits <= ByteBits * m
  BY <1>1, BytesGrow
<1>5. m = n
  BY <1>1, <1>2, <1>3, <1>4
<1> QED
  BY <1>5 DEF m

LEMMA FilledSize ==
  ASSUME NEW bytes, NEW pos, Filled(bytes, pos)
  PROVE  (pos + ByteBits - 1) \div ByteBits = Len(bytes)
<1> DEFINE n == Len(bytes)
           l == (ByteBits * n + 1) - pos
           p == pos + (ByteBits - 1)
<1>1. n \in Nat /\ pos \in Nat /\ pos <= ByteBits * n /\ ByteBits * n < pos + ByteBits
  BY LenProperties DEF Filled, Bytes
<1> HIDE DEF n
<1>2. ByteBits \in Nat /\ ByteBits > 0 /\ ByteBits * n \in Nat
  BY <1>1, BitsAssumed, BytesGrow
<1>3. l \in 1 .. ByteBits /\ p + l = ByteBits * n + ByteBits /\ p \in Nat
  BY <1>1, <1>2
<1> HIDE DEF l
<1>4. ByteAt(p) = n
  <2> HIDE DEF p
  <2> QED
    BY <1>1, <1>3, PlaceIs
<1> QED
  BY <1>4 DEF ByteAt, n

\* What padding to a byte leaves of a buffer.
Padded(b, c) ==
  /\ c \in Buffers /\ ~c.measure_only /\ Filled(c.buffer, c.bit_pos)
  /\ Len(c.buffer) = Len(b.buffer) /\ Ones(c.buffer) = Ones(b.buffer)

LEMMA OneZero ==
  ASSUME NEW b, NEW c, Padded(b, c), ~IsWhole(c.bit_pos)
  PROVE  Padded(b, WriteBit(c, FALSE)) /\ WriteBit(c, FALSE).bit_pos = c.bit_pos + 1
<1> DEFINE d == WriteBit(c, FALSE)
           pos == c.bit_pos
           n == Len(c.buffer)
<1>1. c \in Buffers /\ ~c.measure_only /\ Filled(c.buffer, pos) /\ pos \in Nat /\ n \in Nat
  BY LenProperties DEF Padded, Filled, Bytes
<1>2. Written(c, d, 1, {})
  BY <1>1, BitWritten
<1> HIDE DEF d
<1>3. Spelled(pos, 1, {}) = {}
  BY DEF Spelled
<1>4. /\ d \in Buffers /\ d.measure_only = c.measure_only /\ d.bit_pos = pos + 1
      /\ Filled(d.buffer, pos + 1) /\ Ones(d.buffer) = Ones(c.buffer)
  BY <1>2, <1>3 DEF Written, Further
<1>5. pos <= ByteBits * n /\ ByteBits * n < pos + ByteBits
  BY DEF Padded, Filled
<1>6. pos # ByteBits * n
  <2> SUFFICES ASSUME pos = ByteBits * n PROVE FALSE
    OBVIOUS
  <2>1. ByteBits \in Nat /\ ByteBits > 0
    BY BitsAssumed
  <2> HIDE DEF pos, n
  <2>2. ByteBits \in 1 .. ByteBits /\ pos + ByteBits = ByteBits * n + ByteBits
    BY <2>1
  <2>3. ByteAt(pos) = n
    BY <1>1, <2>2, PlaceIs
  <2> QED
    BY <1>1, <2>3, WholeIs DEF pos
<1>7. Len(d.buffer) = n
  <2>1. ByteBits \in Nat /\ ByteBits * n \in Nat
    BY <1>1, BitsAssumed, BytesGrow
  <2> HIDE DEF pos, n
  <2>2. pos + 1 <= ByteBits * n /\ ByteBits * n < (pos + 1) + ByteBits
    BY <1>1, <1>5, <1>6, <2>1
  <2> QED
    BY <1>1, <1>4, <2>2, FilledLength
<1> QED
  BY <1>1, <1>4, <1>7 DEF Padded, d

LEMMA PaddingIs ==
  ASSUME NEW b \in Buffers, ~b.measure_only, Filled(b.buffer, b.bit_pos)
  PROVE  /\ Padded(b, PaddedToByte(b))
         /\ PaddedToByte(b).bit_pos = ByteBits * Len(b.buffer)
<1> DEFINE S == {c \in Buffers : Padded(b, c)}
           Turn(c) == IF IsWhole(c.bit_pos) THEN c ELSE WriteBit(c, FALSE)
           next == [x \in S \X (1 .. ByteBits) |-> Turn(x[1])]
           IsThat(f) == f = [turn \in 0 .. ByteBits |-> IF turn = 0 THEN b ELSE Turn(f[turn - 1])]
<1>1. b.bit_pos \in Nat /\ b \in S /\ ByteBits \in Nat
  BY BitsAssumed DEF Padded, Buffers
<1>2. ASSUME NEW c \in S
      PROVE  /\ Turn(c) \in S /\ c.bit_pos \in Nat
             /\ IF IsWhole(c.bit_pos) THEN Turn(c) = c ELSE Turn(c).bit_pos = c.bit_pos + 1
  <2>1. Padded(b, c) /\ c.bit_pos \in Nat
    BY DEF Buffers
  <2>2. CASE IsWhole(c.bit_pos)
    BY <2>1, <2>2
  <2>3. CASE ~IsWhole(c.bit_pos)
    <3>1. Padded(b, WriteBit(c, FALSE)) /\ WriteBit(c, FALSE).bit_pos = c.bit_pos + 1
      BY <2>1, <2>3, OneZero
    <3> QED
      BY <2>1, <2>3, <3>1 DEF Padded
  <2> QED
    BY <2>2, <2>3
<1> HIDE DEF Turn
<1>3. next \in [S \X (1 .. ByteBits) -> S]
  BY <1>2
<1>4. \A x \in S, i \in 1 .. ByteBits : next[<<x, i>>] = Turn(x)
  OBVIOUS
<1> HIDE DEF S
<1>5. PICK f \in [0 .. ByteBits -> S] : Turns(f, ByteBits, b, next)
  <2> HIDE DEF next
  <2> QED
    BY <1>1, <1>3, TurnsDefined, Zenon
<1> HIDE DEF next
<1>6. f[0] = b /\ \A i \in 1 .. ByteBits : f[i] = Turn(f[i - 1])
  <2>1. \A i \in 1 .. ByteBits : f[i - 1] \in S
    BY <1>1, <1>5
  <2> QED
    BY <1>4, <1>5, <2>1 DEF Turns
<1>7. IsThat(f)
  BY <1>1, <1>5, <1>6
<1>8. Padding(b) = CHOOSE g : IsThat(g)
  BY DEF Padding, Turn
<1> HIDE DEF IsThat
<1>9. IsThat(Padding(b))
  BY <1>7, <1>8
<1> DEFINE p == Padding(b)
<1> HIDE DEF p
<1>10. p = [turn \in 0 .. ByteBits |-> IF turn = 0 THEN b ELSE Turn(p[turn - 1])]
  BY <1>9 DEF IsThat, p
<1>11. p[0] = b /\ \A i \in 1 .. ByteBits : p[i] = Turn(p[i - 1])
  <2>1. 0 \in 0 .. ByteBits /\ \A i \in 1 .. ByteBits : i \in 0 .. ByteBits /\ i # 0
    BY <1>1
  <2> HIDE DEF Turn
  <2> QED
    BY <1>10, <2>1, Zenon
<1> DEFINE H == {i \in 0 .. ByteBits : p[i] \in S /\ (IsWhole(p[i].bit_pos) \/ p[i].bit_pos = b.bit_pos + i)}
<1>12. 0 \in H
  BY <1>1, <1>11
<1>13. ASSUME NEW i \in 0 .. ByteBits - 1, i \in H PROVE i + 1 \in H
  <2>1. i + 1 \in 1 .. ByteBits /\ (i + 1) - 1 = i /\ i + 1 \in 0 .. ByteBits /\ i \in Nat
    BY <1>1
  <2>2. p[i + 1] = Turn(p[i]) /\ p[i] \in S
    BY <1>11, <1>13, <2>1
  <2>3. IsWhole(p[i].bit_pos) \/ p[i].bit_pos = b.bit_pos + i
    BY <1>13
  <2>4. /\ p[i + 1] \in S
        /\ IF IsWhole(p[i].bit_pos) THEN p[i + 1] = p[i] ELSE p[i + 1].bit_pos = p[i].bit_pos + 1
    BY <1>2, <2>2
  <2>5. IsWhole(p[i + 1].bit_pos) \/ p[i + 1].bit_pos = b.bit_pos + (i + 1)
    BY <1>1, <2>1, <2>3, <2>4
  <2> QED
    BY <2>1, <2>4, <2>5
<1> HIDE DEF H
<1>14. \A i \in 0 .. ByteBits : i \in H
  BY <1>1, <1>12, <1>13, EveryTurn
<1> DEFINE last == p[ByteBits]
<1>15. last \in S /\ (IsWhole(last.bit_pos) \/ last.bit_pos = b.bit_pos + ByteBits)
  BY <1>1, <1>14 DEF H
<1> HIDE DEF last
<1>16. Padded(b, last)
  BY <1>15 DEF S
<1>17. IsWhole(last.bit_pos)
  <2> SUFFICES ASSUME last.bit_pos = b.bit_pos + ByteBits PROVE FALSE
    BY <1>15
  <2> DEFINE n == Len(b.buffer)
  <2>1. last.bit_pos <= ByteBits * n /\ ByteBits * n < b.bit_pos + ByteBits /\ n \in Nat
    BY <1>16, LenProperties DEF Padded, Filled, Bytes
  <2> HIDE DEF n
  <2>2. ByteBits * n \in Nat
    BY <2>1, BytesGrow
  <2> QED
    BY <1>1, <2>1, <2>2
<1>18. last.bit_pos = ByteBits * Len(b.buffer)
  BY <1>16, <1>17, WholeFilled DEF Padded
<1> QED
  BY <1>16, <1>18 DEF last, p, PaddedToByte

\* The bytes made of a buffer.
LEMMA IntoBytesIs ==
  ASSUME NEW b \in Buffers, ~b.measure_only, Filled(b.buffer, b.bit_pos)
  PROVE  /\ IntoBytes(b) \in Bytes /\ Len(IntoBytes(b)) = Len(b.buffer)
         /\ Ones(IntoBytes(b)) = Ones(b.buffer)
BY PaddingIs DEF IntoBytes, Padded, Filled

-----------------------------------------------------------------------------
(* Bits: what is read *)

\* The part of a number of so many bits from a position on that is above the lowest.
NumberAbove(bytes, pos, bits, lowest) ==
  {k \in lowest .. bits - 1 : (pos + bits) - 1 - k \in Ones(bytes)}

NumberAt(bytes, pos, bits) == NumberAbove(bytes, pos, bits, 0)

\* The loop of read_bits_optimized, for a number of so many bits from a position on.
TakingSet == [value : SUBSET Nat, read_pos : Nat, remaining : Nat]

Taking(took, bytes, pos, bits) ==
  /\ took \in TakingSet
  /\ took.read_pos + took.remaining = pos + bits /\ pos <= took.read_pos
  /\ took.value = NumberAbove(bytes, pos, bits, took.remaining)
  /\ took.remaining = bits \/ took.read_pos <= ByteBits * Len(bytes)

LEMMA ChunkTaken ==
  ASSUME NEW bytes \in Bytes, NEW pos \in Nat, NEW bits \in Nat,
         NEW took, Taking(took, bytes, pos, bits), took.remaining > 0
  PROVE  /\ \A t \in TakeChunk(bytes, took) :
              Taking(t, bytes, pos, bits) /\ t.remaining < took.remaining
         /\ took.read_pos < ByteBits * Len(bytes) => TakeChunk(bytes, took) # {}
<1> DEFINE at        == took.read_pos
           left      == took.remaining
           index     == ByteAt(at)
           available == LeftAt(at)
           count     == Smaller(left, available)
           shift     == left - count
           byte      == bytes[index + 1]
           got       == BitsOf(byte, available - count, count)
           n         == Len(bytes)
           next      == [value |-> took.value \cup Lifted(got, shift), read_pos |-> at + count,
                         remaining |-> shift]
<1>1. /\ at \in Nat /\ left \in Nat /\ left > 0 /\ at + left = pos + bits /\ pos <= at
      /\ took.value \in SUBSET Nat /\ took.value = NumberAbove(bytes, pos, bits, left)
      /\ n \in Nat
  BY LenProperties DEF Taking, TakingSet, Bytes
<1>2. TakeChunk(bytes, took) = IF index >= n THEN {} ELSE {next}
  BY DEF TakeChunk, Fail
<1> HIDE DEF next, at, left
<1>3. /\ index \in Nat /\ available \in 1 .. ByteBits /\ at + available = ByteBits * index + ByteBits
      /\ ByteBits * index \in Nat /\ ByteBits \in Nat /\ ByteBits * n \in Nat
  BY <1>1, Place, BitsAssumed, BytesGrow
<1>4. at < ByteBits * n <=> index < n
  BY <1>1, PlaceWithin
<1> HIDE DEF index, available
<1>5. /\ count \in 1 .. available /\ count <= left /\ shift \in Nat /\ shift + count = left
  BY <1>1, <1>3 DEF Smaller
<1> HIDE DEF count, shift
<1>6. got \subseteq 0 .. count - 1 /\ \A j \in 0 .. count - 1 : j \in got <=> (available - count) + j \in byte
  BY DEF BitsOf
<1> HIDE DEF got, byte, n
<1>7. ASSUME index < n
      PROVE  Taking(next, bytes, pos, bits) /\ next.remaining < left
  <2>1. at + count <= ByteBits * n
    <3>1. ByteBits * index + ByteBits <= ByteBits * n
      BY <1>1, <1>3, <1>7, BytesGrow
    <3> QED
      BY <1>1, <1>3, <1>5, <3>1
  <2>2. ASSUME NEW j \in 0 .. count - 1
        PROVE  /\ j + shift \in shift .. left - 1
               /\ j \in got <=> (pos + bits) - 1 - (j + shift) \in Ones(bytes)
    <3> DEFINE p == (pos + bits) - 1 - (j + shift)
               l == (available - count) + 1 + j
    <3>1. j \in Nat /\ j < count /\ count - 1 - j \in Nat
      BY <1>3, <1>5
    <3>2. /\ j + shift \in shift .. left - 1 /\ p = at + (count - 1 - j) /\ p \in Nat
          /\ p < at + count
      BY <1>1, <1>5, <3>1
    <3>3. /\ l \in 1 .. ByteBits /\ p + l = ByteBits * index + ByteBits
          /\ l - 1 = (available - count) + j
      BY <1>1, <1>3, <1>5, <3>1, <3>2
    <3>4. p < ByteBits * n
      BY <1>1, <1>3, <1>5, <2>1, <3>2
    <3> HIDE DEF p, l
    <3>5. ByteAt(p) = index /\ LeftAt(p) = l
      BY <1>3, <3>2, <3>3, PlaceIs, ZenonT(40)
    <3>6. p \in 0 .. ByteBits * n - 1
      BY <1>3, <3>2, <3>4
    <3>7. p \in Ones(bytes) <=> l - 1 \in byte
      BY <3>5, <3>6 DEF Ones, byte, n
    <3> QED
      BY <1>6, <3>2, <3>3, <3>7 DEF p
  <2>3. ASSUME NEW k \in shift .. left - 1
        PROVE  k \in Lifted(got, shift) <=> (pos + bits) - 1 - k \in Ones(bytes)
    <3>1. k - shift \in 0 .. count - 1 /\ (k - shift) + shift = k
      BY <1>1, <1>5
    <3>2. \A j \in got : j + shift = k <=> j = k - shift
      <4>1. \A j \in got : j \in Nat
        BY <1>3, <1>5, <1>6
      <4> QED
        BY <1>5, <4>1
    <3>3. k \in Lifted(got, shift) <=> k - shift \in got
      <4>1. k \in Lifted(got, shift) <=> \E j \in got : j + shift = k
        BY Zenon DEF Lifted
      <4> QED
        BY <3>2, <4>1
    <3> QED
      BY <2>2, <3>1, <3>3
  <2>4. ASSUME NEW k \in Lifted(got, shift) PROVE k \in shift .. left - 1
    <3>1. PICK j \in got : k = j + shift
      BY DEF Lifted
    <3> QED
      BY <1>6, <2>2, <3>1
  <2>5. left <= bits
    BY <1>1
  <2>6. next.value = NumberAbove(bytes, pos, bits, shift)
    <3>1. ASSUME NEW k PROVE k \in shift .. bits - 1 <=> k \in shift .. left - 1 \/ k \in left .. bits - 1
      BY <1>1, <1>5, <2>5
    <3>2. ASSUME NEW k
          PROVE  k \in NumberAbove(bytes, pos, bits, left)
                   <=> k \in left .. bits - 1 /\ (pos + bits) - 1 - k \in Ones(bytes)
      BY Zenon DEF NumberAbove
    <3>3. ASSUME NEW k
          PROVE  k \in NumberAbove(bytes, pos, bits, shift)
                   <=> k \in shift .. bits - 1 /\ (pos + bits) - 1 - k \in Ones(bytes)
      BY Zenon DEF NumberAbove
    <3>4. ASSUME NEW k
          PROVE  k \in Lifted(got, shift)
                   <=> k \in shift .. left - 1 /\ (pos + bits) - 1 - k \in Ones(bytes)
      BY <2>3, <2>4
    <3>5. next.value = NumberAbove(bytes, pos, bits, left) \cup Lifted(got, shift)
      BY <1>1 DEF next
    <3>6. NumberAbove(bytes, pos, bits, left) \cup Lifted(got, shift) = NumberAbove(bytes, pos, bits, shift)
      BY <3>1, <3>2, <3>3, <3>4, Zenon
    <3> QED
      BY <3>5, <3>6
  <2>7. next \in TakingSet
    <3>1. \A k \in Lifted(got, shift) : k \in Nat
      BY <1>5, <2>4
    <3>2. at + count \in Nat
      BY <1>1, <1>5
    <3> QED
      BY <1>1, <1>5, <3>1, <3>2 DEF next, TakingSet
  <2>8. next.read_pos = at + count /\ next.remaining = shift
    BY DEF next
  <2>9. (at + count) + shift = pos + bits /\ pos <= at + count /\ shift < left
    BY <1>1, <1>5
  <2> QED
    BY <2>1, <2>6, <2>7, <2>8, <2>9 DEF Taking, n
<1>8. ASSUME NEW t \in TakeChunk(bytes, took)
      PROVE  Taking(t, bytes, pos, bits) /\ t.remaining < left
  <2>1. index < n /\ t = next
    BY <1>1, <1>2, <1>3
  <2> QED
    BY <1>7, <2>1
<1>9. at < ByteBits * n => TakeChunk(bytes, took) # {}
  BY <1>1, <1>2, <1>3, <1>4
<1> QED
  BY <1>8, <1>9 DEF at, left, n

LastTaking(b, bits) ==
  [value |-> NumberAt(b.buffer, b.read_pos, bits), read_pos |-> b.read_pos + bits, remaining |-> 0]

\* After the loop the number has been read, if there are bytes enough.
LEMMA TakingsTake ==
  ASSUME NEW b \in Buffers, NEW bits \in Nat, bits > 0
  PROVE  Takings(b, bits)[bits] =
           IF b.read_pos + bits <= ByteBits * Len(b.buffer)
           THEN {LastTaking(b, bits)} ELSE {}
<1> DEFINE bytes == b.buffer
           pos == b.read_pos
           S == SUBSET {took \in TakingSet : Taking(took, bytes, pos, bits)}
           start == {[value |-> {}, read_pos |-> pos, remaining |-> bits]}
           One(took) == IF took.remaining = 0 THEN {took} ELSE TakeChunk(bytes, took)
           Turn(T) == UNION {One(took) : took \in T}
           next == [x \in S \X (1 .. bits) |-> Turn(x[1])]
           IsThat(f) == f = [turn \in 0 .. bits |-> IF turn = 0 THEN start ELSE Turn(f[turn - 1])]
<1>1. bytes \in Bytes /\ pos \in Nat /\ Len(bytes) \in Nat /\ ByteBits * Len(bytes) \in Nat
  <2>1. bytes \in Bytes /\ pos \in Nat /\ Len(bytes) \in Nat
    BY LenProperties DEF Buffers, Bytes
  <2> QED
    BY <2>1, BytesGrow
<1>2. start \in S
  <2> DEFINE took == [value |-> {}, read_pos |-> pos, remaining |-> bits]
  <2>1. NumberAbove(bytes, pos, bits, bits) = {}
    BY DEF NumberAbove
  <2>2. took \in TakingSet /\ Taking(took, bytes, pos, bits)
    BY <1>1, <2>1 DEF Taking, TakingSet
  <2> QED
    BY <2>2
<1>3. ASSUME NEW took \in TakingSet, Taking(took, bytes, pos, bits)
      PROVE  /\ One(took) \in S /\ took.remaining \in Nat
             /\ \A t \in One(took) : t.remaining = 0 \/ t.remaining < took.remaining
             /\ pos + bits <= ByteBits * Len(bytes) => One(took) # {}
  <2>1. /\ took.remaining \in Nat /\ took.read_pos \in Nat
        /\ took.read_pos + took.remaining = pos + bits
    BY <1>3 DEF TakingSet, Taking
  <2>2. CASE took.remaining = 0
    BY <1>3, <2>1, <2>2
  <2>3. CASE took.remaining # 0
    <3>1. took.remaining > 0
      BY <2>1, <2>3
    <3>2. \A t \in TakeChunk(bytes, took) : Taking(t, bytes, pos, bits) /\ t.remaining < took.remaining
      BY <1>1, <1>3, <3>1, ChunkTaken
    <3>3. took.read_pos < ByteBits * Len(bytes) => TakeChunk(bytes, took) # {}
      BY <1>1, <1>3, <3>1, ChunkTaken
    <3>4. pos + bits <= ByteBits * Len(bytes) => took.read_pos < ByteBits * Len(bytes)
      BY <1>1, <2>1, <3>1
    <3>5. \A t \in TakeChunk(bytes, took) : t \in TakingSet
      BY <3>2 DEF Taking
    <3> QED
      BY <2>1, <2>3, <3>2, <3>3, <3>4, <3>5
  <2> QED
    BY <2>2, <2>3
<1> HIDE DEF start, One
<1>4. ASSUME NEW T \in S
      PROVE  /\ Turn(T) \in S
             /\ \A t \in Turn(T) : \E took \in T : t \in One(took)
             /\ \A took \in T : One(took) \subseteq Turn(T)
  <2>1. \A took \in T : One(took) \in S
    BY <1>3
  <2> QED
    BY <2>1
<1> HIDE DEF Turn
<1>5. next \in [S \X (1 .. bits) -> S]
  BY <1>4
<1>6. \A x \in S, i \in 1 .. bits : next[<<x, i>>] = Turn(x)
  OBVIOUS
<1> DEFINE SS == S
<1>7. /\ start \in SS /\ next \in [SS \X (1 .. bits) -> SS]
      /\ \A x \in SS, i \in 1 .. bits : next[<<x, i>>] = Turn(x)
  BY <1>2, <1>5, <1>6
<1> HIDE DEF SS, next
<1>8. PICK f \in [0 .. bits -> SS] : Turns(f, bits, start, next)
  BY <1>7, TurnsDefined, Zenon
<1>9. f[0] = start /\ \A i \in 1 .. bits : f[i] = Turn(f[i - 1])
  <2>1. \A i \in 1 .. bits : f[i - 1] \in SS
    BY <1>8
  <2> QED
    BY <1>7, <1>8, <2>1 DEF Turns
<1>10. IsThat(f)
  BY <1>8, <1>9
<1>11. Takings(b, bits) = CHOOSE g : IsThat(g)
  BY DEF Takings, Turn, One, start
<1> HIDE DEF IsThat
<1>12. IsThat(Takings(b, bits))
  BY <1>10, <1>11
<1> DEFINE take == Takings(b, bits)
<1> HIDE DEF take
<1>13. take = [turn \in 0 .. bits |-> IF turn = 0 THEN start ELSE Turn(take[turn - 1])]
  BY <1>12 DEF IsThat, take
<1>14. take[0] = start /\ \A i \in 1 .. bits : take[i] = Turn(take[i - 1])
  <2>1. 0 \in 0 .. bits /\ \A i \in 1 .. bits : i \in 0 .. bits /\ i # 0
    OBVIOUS
  <2> QED
    BY <1>13, <2>1, Zenon
<1> DEFINE Room == pos + bits <= ByteBits * Len(bytes)
           Done(t, i) == t.remaining = 0 \/ t.remaining + i <= bits
           H == {i \in 0 .. bits : /\ take[i] \in SS
                                   /\ \A t \in take[i] : Done(t, i)
                                   /\ Room => take[i] # {}}
<1>15. 0 \in H
  <2>1. 0 \in 0 .. bits /\ take[0] \in SS
    BY <1>7, <1>14
  <2>2. take[0] # {} /\ \A t \in take[0] : t.remaining = bits
    BY <1>14 DEF start
  <2>3. \A t \in take[0] : Done(t, 0)
    BY <2>2
  <2> HIDE DEF Done, Room
  <2> QED
    BY <2>1, <2>2, <2>3
<1>16. ASSUME NEW i \in 0 .. bits - 1, i \in H PROVE i + 1 \in H
  <2>1. i + 1 \in 1 .. bits /\ (i + 1) - 1 = i /\ i + 1 \in 0 .. bits /\ i \in Nat
    OBVIOUS
  <2>2. take[i + 1] = Turn(take[i]) /\ take[i] \in SS
    BY <1>14, <1>16, <2>1
  <2>3. (\A t \in take[i] : Done(t, i)) /\ (Room => take[i] # {})
    BY <1>16
  <2> DEFINE T == take[i]
  <2> HIDE DEF T
  <2>4. T \in S /\ take[i + 1] = Turn(T)
    BY <2>2 DEF SS, T
  <2>5. take[i + 1] \in SS
    BY <1>4, <2>4 DEF SS
  <2>6. \A took \in T : took \in TakingSet /\ Taking(took, bytes, pos, bits) /\ took.remaining \in Nat
    <3>1. \A took \in T : took \in TakingSet /\ Taking(took, bytes, pos, bits)
      BY <2>4
    <3> QED
      BY <1>3, <3>1
  <2>7. ASSUME NEW t \in take[i + 1] PROVE Done(t, i + 1)
    <3>1. PICK took \in T : t \in One(took)
      BY <1>4, <2>4
    <3>2. t.remaining = 0 \/ t.remaining < took.remaining
      BY <1>3, <2>6, <3>1
    <3>3. Done(took, i) /\ took.remaining \in Nat
      BY <2>3, <2>6 DEF T
    <3>4. t.remaining \in Nat
      BY <2>5 DEF SS, TakingSet
    <3> QED
      BY <2>1, <3>2, <3>3, <3>4
  <2>8. ASSUME Room PROVE take[i + 1] # {}
    <3>1. PICK took \in T : TRUE
      BY <2>3, <2>8 DEF T
    <3>2. One(took) # {}
      BY <1>3, <2>6, <2>8
    <3> QED
      BY <1>4, <2>4, <3>2
  <2> HIDE DEF Done, Room
  <2> QED
    BY <2>1, <2>5, <2>7, <2>8
<1> HIDE DEF H
<1>17. \A i \in 0 .. bits : i \in H
  BY <1>15, <1>16, EveryTurn
<1>18. take[bits] \in SS /\ (\A t \in take[bits] : Done(t, bits)) /\ (Room => take[bits] # {})
  BY <1>17 DEF H
<1> DEFINE last == [value |-> NumberAt(bytes, pos, bits), read_pos |-> pos + bits, remaining |-> 0]
<1>19. ASSUME NEW t \in take[bits] PROVE Room /\ t = last
  <2>1. t \in TakingSet /\ Taking(t, bytes, pos, bits) /\ Done(t, bits)
    BY <1>18 DEF SS
  <2>2. t.remaining \in Nat /\ t.read_pos \in Nat
    BY <2>1 DEF TakingSet
  <2>3. t.remaining = 0
    BY <2>1, <2>2
  <2>4. t.read_pos + t.remaining = pos + bits /\ t.value = NumberAbove(bytes, pos, bits, t.remaining)
    BY <2>1 DEF Taking
  <2>5. t.read_pos = pos + bits /\ t.value = NumberAt(bytes, pos, bits)
    BY <1>1, <2>2, <2>3, <2>4 DEF NumberAt
  <2>6. t.read_pos <= ByteBits * Len(bytes)
    BY <2>1, <2>3 DEF Taking
  <2>7. t = [value |-> t.value, read_pos |-> t.read_pos, remaining |-> t.remaining]
    BY <2>1 DEF TakingSet
  <2>8. t = last
    BY <2>3, <2>5, <2>7, Zenon
  <2> QED
    BY <2>5, <2>6, <2>8
<1> HIDE DEF last, Room
<1>20. take[bits] = IF Room THEN {last} ELSE {}
  BY <1>18, <1>19
<1> QED
  BY <1>20 DEF last, Room, take, LastTaking

JoinedBytes(bytes, start, n) == UNION {Lifted(bytes[start + i], ByteBits * (n - i)) : i \in 1 .. n}

\* Whole bytes read at a byte boundary.
LEMMA WholeBytesRead ==
  ASSUME NEW bytes \in Bytes, NEW start \in Nat, NEW n \in Nat, start + n <= Len(bytes)
  PROVE  JoinedBytes(bytes, start, n) = NumberAt(bytes, ByteBits * start, ByteBits * n)
<1> DEFINE pos == ByteBits * start
           bits == ByteBits * n
           size == ByteBits * Len(bytes)
           Part(i) == Lifted(bytes[start + i], ByteBits * (n - i))
           number == NumberAt(bytes, pos, bits)
<1>1. /\ ByteBits \in Nat /\ ByteBits > 0 /\ pos \in Nat /\ bits \in Nat /\ size \in Nat
      /\ pos + bits <= size /\ Len(bytes) \in Nat
  <2>1. Len(bytes) \in Nat /\ start + n \in Nat
    BY LenProperties DEF Bytes
  <2> QED
    BY <2>1, BitsAssumed, BytesGrow
<1>2. \A i \in 1 .. n : bytes[start + i] \in SUBSET (0 .. ByteBits - 1)
  <2>1. ASSUME NEW i \in 1 .. n PROVE start + i \in 1 .. Len(bytes)
    BY <1>1
  <2> QED
    BY <2>1, ElementOfSeq DEF Bytes
<1>3. ASSUME NEW i \in 1 .. n, NEW y \in 0 .. ByteBits - 1
      PROVE  /\ y + ByteBits * (n - i) \in 0 .. bits - 1
             /\ y \in bytes[start + i] <=> y + ByteBits * (n - i) \in number
  <2> DEFINE above == ByteBits * (n - i)
             before == ByteBits * (start + (i - 1))
             x == y + above
             p == (pos + bits) - 1 - x
  <2>1. /\ n - i \in Nat /\ i - 1 \in Nat /\ start + (i - 1) \in Nat /\ start + (i - 1) < Len(bytes)
        /\ (start + (i - 1)) + 1 = start + i /\ (start + (i - 1)) + (n - i) + 1 = start + n
    BY <1>1
  <2>2. above \in Nat /\ before \in Nat
    BY <2>1, BytesGrow
  <2>3. pos + bits = before + ByteBits + above
    <3>1. ByteBits * (start + n) = pos + bits
      BY BytesGrow
    <3>2. ByteBits * ((start + (i - 1)) + 1) = before + ByteBits /\ (start + (i - 1)) + 1 \in Nat
      BY <2>1, BytesGrow
    <3>3. ByteBits * (((start + (i - 1)) + 1) + (n - i)) = ByteBits * ((start + (i - 1)) + 1) + above
      BY <2>1, <3>2, BytesGrow
    <3>4. ((start + (i - 1)) + 1) + (n - i) = start + n
      BY <1>1
    <3> QED
      BY <3>1, <3>2, <3>3, <3>4
  <2>4. above + ByteBits <= bits
    <3>1. ByteBits * ((n - i) + 1) = above + ByteBits
      BY <2>1, BytesGrow
    <3>2. (n - i) + 1 \in Nat /\ (n - i) + 1 <= n
      BY <1>1
    <3> QED
      BY <3>1, <3>2, BytesGrow
  <2> HIDE DEF pos, bits, size, above, before
  <2>5. /\ x \in 0 .. bits - 1 /\ p \in Nat /\ p + (y + 1) = before + ByteBits
        /\ y + 1 \in 1 .. ByteBits /\ p \in 0 .. size - 1
    BY <1>1, <2>2, <2>3, <2>4
  <2> HIDE DEF p, x
  <2>6. ByteAt(p) = start + (i - 1) /\ LeftAt(p) = y + 1
    BY <2>1, <2>5, PlaceIs DEF before
  <2>7. p \in Ones(bytes) <=> y \in bytes[start + i]
    <3>1. LeftAt(p) - 1 = y /\ ByteAt(p) + 1 = start + i
      BY <2>1, <2>6
    <3>2. p \in Ones(bytes) <=> LeftAt(p) - 1 \in bytes[ByteAt(p) + 1]
      BY <2>5 DEF Ones, size
    <3> QED
      BY <3>1, <3>2
  <2>8. x \in number <=> p \in Ones(bytes)
    BY <2>5 DEF NumberAt, NumberAbove, p
  <2> QED
    BY <2>5, <2>7, <2>8 DEF x, above
<1>4. ASSUME NEW x \in number
      PROVE  \E i \in 1 .. n, y \in 0 .. ByteBits - 1 : x = y + ByteBits * (n - i)
  <2> DEFINE q == ByteAt(x)
             l == LeftAt(x)
             i == n - q
             y == ByteBits - l
  <2>1. x \in Nat /\ x < bits
    BY <1>1 DEF NumberAt, NumberAbove
  <2>2. /\ q \in Nat /\ l \in 1 .. ByteBits /\ x + l = ByteBits * q + ByteBits
        /\ ByteBits * q \in Nat /\ q < n
    BY <2>1, Place, PlaceWithin
  <2> HIDE DEF q, l
  <2>3. i \in 1 .. n /\ n - i = q
    BY <2>2
  <2> HIDE DEF i
  <2>4. y \in 0 .. ByteBits - 1 /\ x = y + ByteBits * q
    BY <1>1, <2>1, <2>2
  <2> QED
    BY <2>3, <2>4
<1>5. ASSUME NEW i \in 1 .. n, NEW x
      PROVE  x \in Part(i) <=> \E y \in bytes[start + i] : x = y + ByteBits * (n - i)
  BY Zenon DEF Lifted
<1> HIDE DEF number, Part
<1>6. ASSUME NEW i \in 1 .. n, NEW x \in Part(i) PROVE x \in number
  <2>1. PICK y \in bytes[start + i] : x = y + ByteBits * (n - i)
    BY <1>5
  <2> QED
    BY <1>2, <1>3, <2>1
<1>7. ASSUME NEW x \in number PROVE \E i \in 1 .. n : x \in Part(i)
  <2>1. PICK i \in 1 .. n, y \in 0 .. ByteBits - 1 : x = y + ByteBits * (n - i)
    BY <1>4
  <2>2. y \in bytes[start + i]
    BY <1>3, <2>1
  <2> QED
    BY <1>5, <2>1, <2>2
<1>8. UNION {Part(i) : i \in 1 .. n} = number
  BY <1>6, <1>7
<1> QED
  BY <1>8 DEF Part, number, JoinedBytes

\* What reading so many bits results in, when there are so many.
ReadFrom(b, bits) ==
  Result(NumberAt(b.buffer, b.read_pos, bits), [b EXCEPT !.read_pos = b.read_pos + bits])

LEMMA BitsRead ==
  ASSUME NEW b \in Buffers, NEW bits \in Nat, bits <= WordBits,
         b.read_pos <= ByteBits * Len(b.buffer)
  PROVE  ReadBits(b, bits) =
           IF b.read_pos + bits <= ByteBits * Len(b.buffer)
           THEN ReadFrom(b, bits) ELSE {}
<1> DEFINE bytes == b.buffer
           pos == b.read_pos
           size == ByteBits * Len(bytes)
           next == [b EXCEPT !.read_pos = pos + bits]
<1>1. /\ bytes \in Bytes /\ pos \in Nat /\ Len(bytes) \in Nat /\ size \in Nat /\ ByteBits \in Nat
      /\ WordBits \in Nat
  <2>1. bytes \in Bytes /\ pos \in Nat /\ Len(bytes) \in Nat
    BY LenProperties DEF Buffers, Bytes
  <2> QED
    BY <2>1, BytesGrow, BitsAssumed
<1>2. CASE bits = 0
  <2>1. ReadBits(b, bits) = Result({}, b)
    BY <1>1, <1>2 DEF ReadBits
  <2>2. next = b
    <3>1. pos + bits = pos
      BY <1>1, <1>2
    <3> QED
      BY <3>1 DEF Buffers
  <2>3. NumberAt(bytes, pos, bits) = {}
    BY <1>2 DEF NumberAt, NumberAbove
  <2>4. pos + bits <= size
    BY <1>1, <1>2
  <2> QED
    BY <2>1, <2>2, <2>3, <2>4 DEF ReadFrom
<1>3. CASE bits # 0 /\ FastRead(b, bits)
  <2> DEFINE n == bits \div ByteBits
             start == pos \div ByteBits
             parts == JoinedBytes(bytes, start, n)
  <2>1. ReadBits(b, bits) = IF start + n > Len(bytes) THEN {}
                            ELSE Result(parts, [b EXCEPT !.read_pos = pos + n * ByteBits])
    <3>1. ReadBits(b, bits) = ReadBytesFast(b, n)
      BY <1>1, <1>3 DEF ReadBits
    <3> QED
      BY <3>1 DEF ReadBytesFast, Fail, JoinedBytes
  <2>2. n \in Nat /\ start \in Nat /\ ByteBits * n = bits /\ n * ByteBits = bits /\ ByteBits * start = pos
    <3>1. IsWhole(bits) /\ IsWhole(pos)
      BY <1>3 DEF FastRead
    <3>2. ByteAt(bits) \in Nat /\ ByteBits * ByteAt(bits) = bits
      BY <3>1, WholeIs, Place
    <3>3. ByteBits * ByteAt(bits) = ByteAt(bits) * ByteBits
      BY <1>1, <3>2
    <3>4. ByteAt(pos) \in Nat /\ ByteBits * ByteAt(pos) = pos
      BY <1>1, <3>1, WholeIs, Place
    <3> QED
      BY <3>2, <3>3, <3>4 DEF ByteAt
  <2> HIDE DEF n, start
  <2>3. pos + bits <= size <=> start + n <= Len(bytes)
    <3>1. ByteBits * (start + n) = pos + bits /\ start + n \in Nat
      <4>1. ByteBits * (start + n) = ByteBits * start + ByteBits * n
        BY <2>2, BytesGrow
      <4> QED
        BY <2>2, <4>1
    <3>2. start + n <= Len(bytes) => ByteBits * (start + n) <= size
      BY <1>1, <3>1, BytesGrow
    <3>3. Len(bytes) < start + n => size + ByteBits <= ByteBits * (start + n)
      BY <1>1, <3>1, BytesGrow
    <3>4. ByteBits > 0
      BY BitsAssumed
    <3> QED
      BY <1>1, <2>2, <3>1, <3>2, <3>3, <3>4
  <2>4. ~(start + n > Len(bytes)) <=> start + n <= Len(bytes)
    BY <1>1, <2>2
  <2>5. start + n <= Len(bytes) => parts = NumberAt(bytes, pos, bits)
    BY <1>1, <2>2, WholeBytesRead
  <2> HIDE DEF parts
  <2>6. pos + n * ByteBits = pos + bits
    BY <2>2
  <2> QED
    BY <2>1, <2>3, <2>4, <2>5, <2>6 DEF ReadFrom
<1>4. CASE bits # 0 /\ ~FastRead(b, bits)
  <2> DEFINE Read(t) == Result(t.value, [b EXCEPT !.read_pos = t.read_pos])
             took == LastTaking(b, bits)
  <2>1. ReadBits(b, bits) = UNION {Read(t) : t \in Takings(b, bits)[bits]}
    BY <1>1, <1>4 DEF ReadBits, ReadBitsOptimized
  <2>2. Takings(b, bits)[bits] = IF pos + bits <= size THEN {took} ELSE {}
    <3>1. bits > 0
      BY <1>4
    <3> QED
      BY <3>1, TakingsTake
  <2>3. Read(took) = ReadFrom(b, bits)
    BY DEF ReadFrom, LastTaking
  <2> HIDE DEF took, Read
  <2>4. UNION {Read(t) : t \in {took}} = Read(took) /\ UNION {Read(t) : t \in {}} = {}
    OBVIOUS
  <2> QED
    BY <2>1, <2>2, <2>3, <2>4
<1> QED
  BY <1>2, <1>3, <1>4

-----------------------------------------------------------------------------
(* Bits: what is written is read back *)

BitBufferSpec == BitBufferInit /\ [][BitBufferNext]_bitBufferVars

Numbers == [value : SUBSET Nat, bits : 0 .. WordBits]

\* The numbers are spelled in the bytes, one after the other; that of number i ends at at[i].
SpelledAll(bytes, numbers, at) ==
  /\ at[0] = 0
  /\ \A i \in 1 .. Len(numbers) :
       /\ at[i] = at[i - 1] + numbers[i].bits /\ at[i] <= at[Len(numbers)]
       /\ NumberAt(bytes, at[i - 1], numbers[i].bits) = Masked(numbers[i].value, numbers[i].bits)

\* The inductive invariant.
BitBufferIInv ==
  /\ writer \in Buffers /\ ~writer.measure_only
  /\ Filled(writer.buffer, writer.bit_pos) /\ writer.unpadded_length = writer.bit_pos
  /\ meter \in Buffers /\ meter.measure_only /\ meter.buffer = <<>>
  /\ meter.bit_pos = writer.bit_pos /\ meter.unpadded_length = writer.bit_pos
  /\ written \in Seq(Numbers)
  /\ \E at \in [0 .. Len(written) -> Nat] :
       SpelledAll(writer.buffer, written, at) /\ at[Len(written)] = writer.bit_pos

\* The bytes have one number more, behind all others.
SpelledBehind(bytes, more, end, bits, value) ==
  /\ Ones(more) = Ones(bytes) \cup Spelled(end, bits, value)
  /\ Ones(bytes) \subseteq 0 .. end - 1

\* It leaves the numbers before as they are.
LEMMA NumberStays ==
  ASSUME NEW bytes, NEW more, NEW end \in Nat, NEW bits \in Nat, NEW value,
         SpelledBehind(bytes, more, end, bits, value)
  PROVE  \A pos \in Nat, width \in Nat :
           pos + width <= end => NumberAt(more, pos, width) = NumberAt(bytes, pos, width)
<1> SUFFICES ASSUME NEW pos \in Nat, NEW width \in Nat, pos + width <= end
             PROVE  NumberAt(more, pos, width) = NumberAt(bytes, pos, width)
  OBVIOUS
<1>1. \A k \in 0 .. width - 1 : (pos + width) - 1 - k \notin Spelled(end, bits, value)
  BY DEF Spelled
<1>2. \A k \in 0 .. width - 1 : (pos + width) - 1 - k \in Ones(more) <=> (pos + width) - 1 - k \in Ones(bytes)
  BY <1>1 DEF SpelledBehind
<1> QED
  BY <1>2 DEF NumberAt, NumberAbove

LEMMA NumberWritten ==
  ASSUME NEW bytes, NEW more, NEW end \in Nat, NEW bits \in Nat, NEW value,
         SpelledBehind(bytes, more, end, bits, value)
  PROVE  NumberAt(more, end, bits) = Masked(value, bits)
<1>1. ASSUME NEW k \in 0 .. bits - 1
      PROVE  (end + bits) - 1 - k \in Ones(more) <=> k \in value
  <2> DEFINE p == (end + bits) - 1 - k
  <2>1. p \in end .. (end + bits) - 1 /\ p \notin 0 .. end - 1 /\ (end + bits) - 1 - p = k
    OBVIOUS
  <2> HIDE DEF p
  <2>2. p \in Ones(more) <=> p \in Spelled(end, bits, value)
    BY <2>1 DEF SpelledBehind
  <2>3. p \in Spelled(end, bits, value) <=> k \in value
    BY <2>1 DEF Spelled
  <2> QED
    BY <2>2, <2>3 DEF p
<1> QED
  BY <1>1 DEF NumberAt, NumberAbove, Masked

\* One number more.
LEMMA SpelledOneMore ==
  ASSUME BitBufferIInv, NEW number \in Numbers, written' = Append(written, number),
         Written(writer, writer', number.bits, number.value),
         Further(meter, meter', number.bits), meter'.buffer = meter.buffer
  PROVE  BitBufferIInv'
<1> DEFINE n == Len(written)
           end == writer.bit_pos
           bits == number.bits
           next == end + bits
<1>1. PICK at \in [0 .. n -> Nat] : SpelledAll(writer.buffer, written, at) /\ at[n] = end
  BY DEF BitBufferIInv
<1>2. /\ writer \in Buffers /\ ~writer.measure_only /\ Filled(writer.buffer, end)
      /\ writer.unpadded_length = end /\ meter.measure_only /\ meter.buffer = <<>>
      /\ meter.bit_pos = end /\ meter.unpadded_length = end
      /\ written \in Seq(Numbers) /\ n \in Nat /\ end \in Nat /\ bits \in 0 .. WordBits
      /\ bits \in Nat
  <2>1. bits \in 0 .. WordBits
    BY DEF Numbers
  <2>2. bits \in Nat
    BY <2>1, BitsAssumed
  <2> QED
    BY <2>1, <2>2, LenProperties DEF BitBufferIInv, Filled
<1>3. /\ writer' \in Buffers /\ ~writer'.measure_only /\ writer'.bit_pos = next
      /\ writer'.unpadded_length = next /\ Filled(writer'.buffer, next)
      /\ Ones(writer'.buffer) = Ones(writer.buffer) \cup Spelled(end, bits, number.value)
  BY <1>2 DEF Written, Further
<1>4. /\ meter' \in Buffers /\ meter'.measure_only /\ meter'.buffer = <<>>
      /\ meter'.bit_pos = next /\ meter'.unpadded_length = next
  BY <1>2 DEF Further
<1>5. /\ written' \in Seq(Numbers) /\ Len(written') = n + 1 /\ written'[n + 1] = number
      /\ \A i \in 1 .. n : written'[i] = written[i]
  BY <1>2, AppendProperties
<1> DEFINE old == writer.buffer
           more == writer'.buffer
           spelled == number.value
<1> HIDE DEF old, more, spelled
<1>12. SpelledBehind(old, more, end, bits, spelled) /\ end \in Nat /\ bits \in Nat
  BY <1>2, <1>3 DEF old, more, spelled, Filled, SpelledBehind
<1>13. \A pos \in Nat, width \in Nat :
         pos + width <= end => NumberAt(more, pos, width) = NumberAt(old, pos, width)
  BY <1>12, NumberStays, SMTT(30)
<1> DEFINE new == [i \in 0 .. n + 1 |-> IF i <= n THEN at[i] ELSE next]
<1>6. next \in Nat /\ end <= next
  BY <1>2
<1>7. new \in [0 .. n + 1 -> Nat] /\ new[n + 1] = next /\ \A i \in 0 .. n : new[i] = at[i]
  <2> HIDE DEF next, n, end
  <2> QED
    BY <1>1, <1>2, <1>6
<1> HIDE DEF new, n, end, bits
<1>8. ASSUME NEW i \in 1 .. n + 1
      PROVE  /\ new[i] = new[i - 1] + written'[i].bits /\ new[i] <= new[n + 1]
             /\ NumberAt(writer'.buffer, new[i - 1], written'[i].bits)
                  = Masked(written'[i].value, written'[i].bits)
  <2>1. CASE i = n + 1
    <3>1. i - 1 = n /\ new[i - 1] = end /\ new[i] = next /\ written'[i] = number
      BY <1>1, <1>2, <1>5, <1>7, <2>1
    <3>2. NumberAt(more, end, bits) = Masked(spelled, bits)
      BY <1>12, NumberWritten
    <3>3. NumberAt(writer'.buffer, end, bits) = Masked(number.value, bits)
      BY <3>2 DEF more, spelled
    <3>4. next = end + bits /\ next <= next
      BY <1>6
    <3> QED
      BY <1>7, <3>1, <3>3, <3>4 DEF bits
  <2>2. CASE i # n + 1
    <3>1. i \in 1 .. n /\ i \in 0 .. n /\ i - 1 \in 0 .. n
      BY <1>2, <2>2
    <3>2. new[i] = at[i] /\ new[i - 1] = at[i - 1] /\ written'[i] = written[i]
      BY <1>5, <1>7, <3>1
    <3>3. /\ at[i] = at[i - 1] + written[i].bits /\ at[i] <= end
          /\ NumberAt(writer.buffer, at[i - 1], written[i].bits)
               = Masked(written[i].value, written[i].bits)
      BY <1>1, <3>1 DEF SpelledAll, n
    <3>4. written[i].bits \in Nat
      <4>1. written[i] \in Numbers
        BY <1>2, <3>1, ElementOfSeq DEF n
      <4>2. written[i].bits \in 0 .. WordBits
        BY <4>1 DEF Numbers
      <4> QED
        BY <4>2, BitsAssumed
    <3>5. at[i - 1] \in Nat /\ at[i] \in Nat
      BY <1>1, <3>1
    <3>6. NumberAt(writer'.buffer, at[i - 1], written[i].bits)
            = NumberAt(writer.buffer, at[i - 1], written[i].bits)
      <4>1. at[i - 1] + written[i].bits <= end
        BY <3>3
      <4> DEFINE pos == at[i - 1]
                 width == written[i].bits
      <4>2. pos \in Nat /\ width \in Nat /\ pos + width <= end
        BY <3>4, <3>5, <4>1
      <4> HIDE DEF pos, width
      <4>3. NumberAt(more, pos, width) = NumberAt(old, pos, width)
        BY <1>13, <4>2
      <4> QED
        BY <4>3 DEF pos, width, more, old
    <3>7. at[i] <= next
      BY <1>2, <1>6, <3>3, <3>5
    <3> QED
      BY <1>7, <3>2, <3>3, <3>6, <3>7
  <2> QED
    BY <2>1, <2>2
<1>9. new[0] = 0
  <2>1. 0 \in 0 .. n /\ at[0] = 0
    BY <1>1, <1>2 DEF SpelledAll
  <2> QED
    BY <1>7, <2>1
<1>10. SpelledAll(writer'.buffer, written', new) /\ new[Len(written')] = writer'.bit_pos
  BY <1>3, <1>5, <1>7, <1>8, <1>9 DEF SpelledAll
<1>11. \E a \in [0 .. Len(written') -> Nat] :
         SpelledAll(writer'.buffer, written', a) /\ a[Len(written')] = writer'.bit_pos
  BY <1>5, <1>7, <1>10
<1> QED
  BY <1>3, <1>4, <1>5, <1>11 DEF BitBufferIInv

LEMMA BitBufferInitially == BitBufferInit => BitBufferIInv
<1> SUFFICES ASSUME BitBufferInit PROVE BitBufferIInv
  OBVIOUS
<1>1. writer = NewBuffer /\ meter = Measure /\ written = <<>>
  BY DEF BitBufferInit
<1>2. <<>> \in Bytes /\ Len(<<>>) = 0 /\ Ones(<<>>) = {} /\ ByteBits * 0 = 0
  <2>1. ByteBits * 0 = 0
    BY BitsAssumed
  <2>2. <<>> \in Bytes /\ Len(<<>>) = 0
    BY EmptySeq DEF Bytes
  <2> QED
    BY <2>1, <2>2 DEF Ones
<1>3. Filled(<<>>, 0)
  <2>1. 0 \in Nat /\ 0 <= ByteBits * Len(<<>>) /\ ByteBits * Len(<<>>) < 0 + ByteBits
    BY <1>2, BitsAssumed
  <2> QED
    BY <1>2, <2>1 DEF Filled
<1>4. NewBuffer \in Buffers /\ Measure \in Buffers /\ Measure.measure_only
  BY <1>2 DEF NewBuffer, Measure, Buffers
<1>5. /\ NewBuffer.buffer = <<>> /\ NewBuffer.bit_pos = 0 /\ NewBuffer.unpadded_length = 0
      /\ ~NewBuffer.measure_only
      /\ Measure.buffer = <<>> /\ Measure.bit_pos = 0 /\ Measure.unpadded_length = 0
  BY DEF NewBuffer, Measure
<1> DEFINE at == [i \in 0 .. 0 |-> 0]
<1>6. at \in [0 .. Len(written) -> Nat] /\ at[0] = 0 /\ at[Len(written)] = 0
  BY <1>1, <1>2
<1> HIDE DEF at
<1>7. SpelledAll(writer.buffer, written, at)
  BY <1>1, <1>2, <1>6 DEF SpelledAll
<1>8. written \in Seq(Numbers)
  BY <1>1
<1> QED
  BY <1>1, <1>3, <1>4, <1>5, <1>6, <1>7, <1>8 DEF BitBufferIInv

LEMMA BitBufferStep == BitBufferIInv /\ [BitBufferNext]_bitBufferVars => BitBufferIInv'
<1> SUFFICES ASSUME BitBufferIInv, [BitBufferNext]_bitBufferVars PROVE BitBufferIInv'
  OBVIOUS
<1>1. /\ writer \in Buffers /\ ~writer.measure_only /\ Filled(writer.buffer, writer.bit_pos)
      /\ meter \in Buffers /\ meter.measure_only
  BY DEF BitBufferIInv
<1>2. ASSUME NEW value \in Words, NEW bits \in Widths, Write(value, bits) PROVE BitBufferIInv'
  <2> DEFINE number == [value |-> value, bits |-> bits]
  <2>1. bits \in Nat /\ value \in SUBSET Nat
    BY BitBufferAssumption
  <2>2. /\ writer' \in WriteBits(writer, value, bits) /\ meter' \in WriteBits(meter, value, bits)
        /\ written' = Append(written, number)
    BY <1>2 DEF Write
  <2>3. bits \in 0 .. WordBits
    BY <2>1, <2>2, BitsAssumed DEF WriteBits, Fail
  <2>4. number \in Numbers /\ number.bits = bits /\ number.value = value
    BY <2>1, <2>3 DEF Numbers
  <2>5. Written(writer, writer', bits, value)
    <3> DEFINE b == writer
               c == writer'
    <3>1. b \in Buffers /\ ~b.measure_only /\ Filled(b.buffer, b.bit_pos) /\ c \in WriteBits(b, value, bits)
      BY <1>1, <2>2
    <3> HIDE DEF b, c
    <3>2. Written(b, c, bits, value)
      BY <2>1, <3>1, BitsWritten
    <3> QED
      BY <3>2 DEF b, c
  <2>6. Further(meter, meter', bits) /\ meter'.buffer = meter.buffer
    BY <1>1, <2>1, <2>2, BitsMeasured, ZenonT(40)
  <2> HIDE DEF number
  <2> QED
    BY <2>2, <2>4, <2>5, <2>6, SpelledOneMore
<1>3. ASSUME NEW bit \in BOOLEAN, WriteOneBit(bit) PROVE BitBufferIInv'
  <2> DEFINE value == IF bit THEN {0} ELSE {}
             number == [value |-> value, bits |-> 1]
  <2>1. /\ writer' = WriteBit(writer, bit) /\ meter' = WriteBit(meter, bit)
        /\ written' = Append(written, number)
    BY <1>3 DEF WriteOneBit
  <2>2. value \in SUBSET Nat /\ 1 \in 0 .. WordBits
    BY BitsAssumed
  <2>3. Written(writer, writer', 1, value)
    BY <1>1, <2>1, BitWritten
  <2>4. Further(meter, meter', 1) /\ meter'.buffer = meter.buffer
    BY <1>1, <2>1, BitsMeasured
  <2> HIDE DEF value
  <2>5. number \in Numbers /\ number.bits = 1 /\ number.value = value
    BY <2>2 DEF Numbers
  <2> HIDE DEF number
  <2> QED
    BY <2>1, <2>3, <2>4, <2>5, SpelledOneMore
<1>4. CASE UNCHANGED bitBufferVars
  BY <1>4 DEF bitBufferVars, BitBufferIInv
<1> QED
  BY <1>2, <1>3, <1>4 DEF BitBufferNext

\* A buffer over some bytes of which so many bits were read.
ReaderAt(bytes, pos) == [FromBytes(bytes) EXCEPT !.read_pos = pos]

\* A buffer by its fields, and one of them replaced.
BufferOf(bytes, end, pos, length, measuring) ==
  [buffer |-> bytes, bit_pos |-> end, read_pos |-> pos, unpadded_length |-> length,
   measure_only |-> measuring]

LEMMA BufferReplaced ==
  ASSUME NEW bytes, NEW end, NEW pos, NEW length, NEW measuring, NEW s, NEW p
  PROVE  /\ [BufferOf(bytes, end, pos, length, measuring) EXCEPT !.buffer = s]
              = BufferOf(s, end, pos, length, measuring)
         /\ [BufferOf(bytes, end, pos, length, measuring) EXCEPT !.read_pos = p]
              = BufferOf(bytes, end, p, length, measuring)
BY DEF BufferOf

LEMMA ReaderIs ==
  ASSUME NEW bytes \in Bytes, NEW pos \in Nat
  PROVE  /\ ReaderAt(bytes, pos) \in Buffers /\ ReaderAt(bytes, pos).buffer = bytes
         /\ ReaderAt(bytes, pos).read_pos = pos
         /\ \A next \in Nat : [ReaderAt(bytes, pos) EXCEPT !.read_pos = next] = ReaderAt(bytes, next)
         /\ ReaderAt(bytes, 0) = FromBytes(bytes)
<1> DEFINE no == FALSE
           At(p) == BufferOf(bytes, 0, p, 0, no)
<1>0. no \in BOOLEAN
  OBVIOUS
<1>1. FromBytes(bytes) = At(0)
  <2>1. NewBuffer = BufferOf(<<>>, 0, 0, 0, no)
    BY DEF NewBuffer, BufferOf
  <2> HIDE DEF no
  <2>2. [BufferOf(<<>>, 0, 0, 0, no) EXCEPT !.buffer = bytes] = At(0)
    BY BufferReplaced
  <2> QED
    BY <2>1, <2>2 DEF FromBytes
<1> HIDE DEF no
<1>2. \A p \in Nat : ReaderAt(bytes, p) = At(p)
  BY <1>1, BufferReplaced DEF ReaderAt
<1>3. At(pos) \in Buffers /\ At(pos).buffer = bytes /\ At(pos).read_pos = pos
  BY <1>0 DEF Buffers, BufferOf
<1>4. \A next \in Nat : [At(pos) EXCEPT !.read_pos = next] = At(next)
  BY BufferReplaced
<1> HIDE DEF At
<1> QED
  BY <1>1, <1>2, <1>3, <1>4

LEMMA ReaderReads ==
  ASSUME NEW bytes \in Bytes, NEW pos \in Nat, NEW bits \in Nat, bits <= WordBits,
         pos <= ByteBits * Len(bytes)
  PROVE  ReadBits(ReaderAt(bytes, pos), bits) =
           IF pos + bits <= ByteBits * Len(bytes)
           THEN Result(NumberAt(bytes, pos, bits), ReaderAt(bytes, pos + bits)) ELSE {}
<1> DEFINE b == ReaderAt(bytes, pos)
<1>1. /\ b \in Buffers /\ b.buffer = bytes /\ b.read_pos = pos
      /\ \A next \in Nat : [b EXCEPT !.read_pos = next] = ReaderAt(bytes, next)
  BY ReaderIs
<1>2. pos + bits \in Nat
  OBVIOUS
<1> HIDE DEF b
<1>3. [b EXCEPT !.read_pos = b.read_pos + bits] = ReaderAt(bytes, pos + bits)
  BY <1>1, <1>2
<1>4. ReadFrom(b, bits) = Result(NumberAt(bytes, pos, bits), ReaderAt(bytes, pos + bits))
  BY <1>1, <1>3 DEF ReadFrom
<1>5. ReadBits(b, bits) = IF pos + bits <= ByteBits * Len(bytes) THEN ReadFrom(b, bits) ELSE {}
  BY <1>1, BitsRead
<1> QED
  BY <1>4, <1>5 DEF b

\* The readers that go on from b when they read a number as it was written.
GoOn(b, number) ==
  {r.buffer : r \in {x \in ReadBits(b, number.bits) : x.value = Masked(number.value, number.bits)}}

LEMMA NumberReadBack ==
  ASSUME NEW bytes \in Bytes, NEW pos \in Nat, NEW number, number.bits \in Nat,
         number.bits <= WordBits, pos + number.bits <= ByteBits * Len(bytes),
         NumberAt(bytes, pos, number.bits) = Masked(number.value, number.bits)
  PROVE  GoOn(ReaderAt(bytes, pos), number) = {ReaderAt(bytes, pos + number.bits)}
<1> DEFINE next == ReaderAt(bytes, pos + number.bits)
           value == NumberAt(bytes, pos, number.bits)
           r == [value |-> value, buffer |-> next]
<1>1. pos <= ByteBits * Len(bytes)
  <2>1. Len(bytes) \in Nat
    BY LenProperties DEF Bytes
  <2>2. ByteBits * Len(bytes) \in Nat
    BY <2>1, BytesGrow
  <2> QED
    BY <2>2
<1>2. ReadBits(ReaderAt(bytes, pos), number.bits) = {r}
  BY <1>1, ReaderReads DEF Result
<1>3. r.value = value /\ r.buffer = next
  OBVIOUS
<1> HIDE DEF r, next
<1> QED
  BY <1>2, <1>3 DEF GoOn, next

LEMMA AllReadBack ==
  ASSUME NEW bytes \in Bytes, NEW numbers \in Seq(Numbers),
         NEW at \in [0 .. Len(numbers) -> Nat], SpelledAll(bytes, numbers, at),
         at[Len(numbers)] <= ByteBits * Len(bytes)
  PROVE  ReadsAll(FromBytes(bytes), numbers) = {ReaderAt(bytes, at[Len(numbers)])}
<1> DEFINE n == Len(numbers)
           start == {FromBytes(bytes)}
           size == ByteBits * Len(bytes)
           Turn(T, number) == UNION {GoOn(b, number) : b \in T}
           f == [i \in 0 .. n |-> {ReaderAt(bytes, at[i])}]
           IsThat(g) == g = [i \in 0 .. n |-> IF i = 0 THEN start ELSE Turn(g[i - 1], numbers[i])]
<1>1. n \in Nat /\ size \in Nat
  <2>1. n \in Nat /\ Len(bytes) \in Nat
    BY LenProperties DEF Bytes
  <2> QED
    BY <2>1, BytesGrow
<1>2. ASSUME NEW i \in 1 .. n
      PROVE  Turn({ReaderAt(bytes, at[i - 1])}, numbers[i]) = {ReaderAt(bytes, at[i])}
  <2>1. numbers[i].bits \in Nat /\ numbers[i].bits <= WordBits
    <3>1. numbers[i] \in Numbers
      BY ElementOfSeq
    <3>2. numbers[i].bits \in 0 .. WordBits
      BY <3>1 DEF Numbers
    <3> QED
      BY <3>2, BitsAssumed
  <2>2. /\ at[i] = at[i - 1] + numbers[i].bits /\ at[i] <= at[n]
        /\ NumberAt(bytes, at[i - 1], numbers[i].bits) = Masked(numbers[i].value, numbers[i].bits)
    BY DEF SpelledAll
  <2>3. at[i - 1] \in Nat /\ at[i] \in Nat /\ at[n] \in Nat
    BY <1>1
  <2>4. at[i - 1] + numbers[i].bits <= size
    BY <1>1, <2>2, <2>3
  <2>5. GoOn(ReaderAt(bytes, at[i - 1]), numbers[i]) = {ReaderAt(bytes, at[i - 1] + numbers[i].bits)}
    BY <2>1, <2>2, <2>3, <2>4, NumberReadBack
  <2>6. Turn({ReaderAt(bytes, at[i - 1])}, numbers[i]) = GoOn(ReaderAt(bytes, at[i - 1]), numbers[i])
    OBVIOUS
  <2> QED
    BY <2>2, <2>5, <2>6
<1> HIDE DEF Turn
<1>3. start = {ReaderAt(bytes, at[0])}
  <2>1. at[0] = 0
    BY DEF SpelledAll
  <2> QED
    BY <2>1, ReaderIs
<1> HIDE DEF start
<1>4. IsThat(f)
  <2>1. \A i \in 1 .. n : i - 1 \in 0 .. n /\ i \in 0 .. n
    BY <1>1
  <2>2. \A i \in 1 .. n : f[i - 1] = {ReaderAt(bytes, at[i - 1])}
    BY <2>1
  <2>3. \A i \in 0 .. n : {ReaderAt(bytes, at[i])} = IF i = 0 THEN start ELSE Turn(f[i - 1], numbers[i])
    <3> TAKE i \in 0 .. n
    <3>1. CASE i = 0
      BY <1>3, <3>1
    <3>2. CASE i # 0
      <4>1. i \in 1 .. n
        BY <1>1, <3>2
      <4>2. Turn(f[i - 1], numbers[i]) = {ReaderAt(bytes, at[i])}
        BY <1>2, <2>2, <4>1
      <4> QED
        BY <3>2, <4>2
    <3> QED
      BY <3>1, <3>2
  <2> QED
    BY <2>3
<1> DEFINE g == CHOOSE h : IsThat(h)
<1>5. ReadsAll(FromBytes(bytes), numbers) = g[n]
  BY DEF ReadsAll, Turn, GoOn, start
<1> HIDE DEF IsThat
<1>6. IsThat(g)
  BY <1>4
<1> HIDE DEF g, f
<1>7. g = [i \in 0 .. n |-> IF i = 0 THEN start ELSE Turn(g[i - 1], numbers[i])]
  BY <1>6 DEF IsThat
<1>8. g[0] = start /\ \A i \in 1 .. n : g[i] = Turn(g[i - 1], numbers[i])
  <2>1. 0 \in 0 .. n /\ \A i \in 1 .. n : i \in 0 .. n /\ i # 0
    BY <1>1
  <2> QED
    BY <1>7, <2>1, Zenon
<1> DEFINE H == {i \in 0 .. n : g[i] = {ReaderAt(bytes, at[i])}}
<1>9. 0 \in H
  BY <1>1, <1>3, <1>8
<1>10. ASSUME NEW i \in 0 .. n - 1, i \in H PROVE i + 1 \in H
  <2>1. i + 1 \in 1 .. n /\ (i + 1) - 1 = i /\ i + 1 \in 0 .. n
    BY <1>1
  <2>2. g[i] = {ReaderAt(bytes, at[i])}
    BY <1>10
  <2>3. g[i + 1] = Turn(g[(i + 1) - 1], numbers[i + 1])
    BY <1>8, <2>1
  <2>4. Turn({ReaderAt(bytes, at[(i + 1) - 1])}, numbers[i + 1]) = {ReaderAt(bytes, at[i + 1])}
    BY <1>2, <2>1
  <2> QED
    BY <2>1, <2>2, <2>3, <2>4
<1> HIDE DEF H
<1>11. n \in H
  <2>1. \A i \in 0 .. n : i \in H
    BY <1>1, <1>9, <1>10, EveryTurn
  <2> QED
    BY <1>1, <2>1
<1> QED
  BY <1>5, <1>11 DEF H

LEMMA ReadBackWhenSpelled == BitBufferIInv => BitsReadBack
<1> SUFFICES ASSUME BitBufferIInv PROVE BitsReadBack
  OBVIOUS
<1> DEFINE bytes == IntoBytes(writer)
           end == writer.bit_pos
           rest == Len(bytes) * ByteBits - end
           size == ByteBits * Len(bytes)
           n == Len(written)
           reader == ReaderAt(bytes, end)
<1>1. PICK at \in [0 .. n -> Nat] : SpelledAll(writer.buffer, written, at) /\ at[n] = end
  BY DEF BitBufferIInv
<1>2. /\ writer \in Buffers /\ ~writer.measure_only /\ Filled(writer.buffer, end)
      /\ written \in Seq(Numbers) /\ meter.unpadded_length = end
  BY DEF BitBufferIInv
<1>3. /\ bytes \in Bytes /\ Len(bytes) = Len(writer.buffer) /\ Ones(bytes) = Ones(writer.buffer)
  BY <1>2, IntoBytesIs
<1>4. /\ end \in Nat /\ Len(bytes) \in Nat /\ end <= size /\ size < end + ByteBits
      /\ Ones(bytes) \subseteq 0 .. end - 1
  BY <1>2, <1>3, LenProperties DEF Filled, Bytes
<1>5. Len(bytes) = SerializedSizeBytes(meter)
  BY <1>2, <1>3, FilledSize DEF SerializedSizeBytes
<1> HIDE DEF bytes, end
<1>6. /\ ByteBits \in Nat /\ ByteBits > 0 /\ WordBits \in Nat /\ WordBits >= ByteBits
      /\ size \in Nat /\ Len(bytes) * ByteBits = size
  <2>1. /\ ByteBits \in Nat /\ ByteBits > 0 /\ WordBits \in Nat /\ WordBits >= ByteBits
    BY BitsAssumed
  <2>2. size \in Nat
    BY <1>4, BytesGrow
  <2> QED
    BY <1>4, <2>1, <2>2
<1>7. rest \in Nat /\ rest = size - end /\ rest < ByteBits
  BY <1>4, <1>6
<1>8. ReadsAll(FromBytes(bytes), written) = {reader}
  <2>1. SpelledAll(bytes, written, at)
    BY <1>1, <1>3 DEF SpelledAll, NumberAt, NumberAbove
  <2>2. at[n] <= size
    BY <1>1, <1>4
  <2> QED
    BY <1>1, <1>2, <1>3, <2>1, <2>2, AllReadBack
<1> HIDE DEF rest, size
<1>9. ReadBits(reader, rest) = Result(NumberAt(bytes, end, rest), ReaderAt(bytes, end + rest))
  <2>1. rest <= WordBits /\ end + rest <= size
    BY <1>4, <1>6, <1>7
  <2> QED
    BY <1>3, <1>4, <1>7, <2>1, ReaderReads DEF size
<1>10. NumberAt(bytes, end, rest) = {}
  <2>1. \A k \in 0 .. rest - 1 : (end + rest) - 1 - k \notin 0 .. end - 1
    BY <1>4, <1>7
  <2> QED
    BY <1>4, <2>1 DEF NumberAt, NumberAbove
<1>11. ReadBits(reader, rest + 1) = Fail
  <2>1. rest + 1 \in Nat /\ rest + 1 <= WordBits /\ ~(end + (rest + 1) <= size)
    BY <1>4, <1>6, <1>7
  <2> QED
    BY <1>3, <1>4, <2>1, ReaderReads DEF size, Fail
<1>12. rest = 0 => ReadBit(reader) = Fail
  <2> SUFFICES ASSUME rest = 0 PROVE ReadBit(reader) = Fail
    OBVIOUS
  <2>1. ~(end < size)
    BY <1>4, <1>6, <1>7
  <2>2. ByteAt(end) \in Nat /\ ~(ByteAt(end) < Len(bytes))
    BY <1>4, <2>1, Place, PlaceWithin DEF size
  <2>3. reader.read_pos = end /\ reader.buffer = bytes
    BY <1>3, <1>4, ReaderIs
  <2>4. ByteAt(reader.read_pos) >= Len(reader.buffer)
    BY <1>4, <2>2, <2>3
  <2> HIDE DEF reader
  <2> QED
    BY <2>4 DEF ReadBit
<1> HIDE DEF reader
<1>13. \E last \in ReadBits(reader, rest) : last.value = {}
  BY <1>9, <1>10 DEF Result
<1> QED
  BY <1>5, <1>7, <1>8, <1>11, <1>12, <1>13 DEF BitsReadBack, bytes, rest, end

\* The inductive invariant: whatever was written, with write_bits() of any width or
\* write_bit(), the numbers stand in the bytes one after the other, most significant
\* bit first, behind them there are only zeros, no byte more than they take is used, and
\* the measuring buffer is at the same position.
THEOREM BitBufferInvariance == BitBufferSpec => []BitBufferIInv
BY BitBufferInitially, BitBufferStep, PTL DEF BitBufferSpec

\* The buffer of BitBuffer is as long as serialized_size_bytes() says, and a buffer that
\* only measures holds nothing and counts the same bits.
THEOREM BitBufferTypeCorrect == BitBufferSpec => []BitBufferTypeOK
<1>1. BitBufferIInv => BitBufferTypeOK
  <2> SUFFICES ASSUME BitBufferIInv PROVE BitBufferTypeOK
    OBVIOUS
  <2>1. writer.buffer \in Seq(SUBSET (0 .. ByteBits - 1))
    BY DEF BitBufferIInv, Filled, Bytes
  <2>2. Len(writer.buffer) = SerializedSizeBytes(writer)
    BY FilledSize DEF BitBufferIInv, SerializedSizeBytes
  <2> QED
    BY <2>1, <2>2 DEF BitBufferTypeOK, BitBufferIInv
<1> QED
  BY <1>1, BitBufferInvariance, PTL

\* For every width of a byte and a word, and every sequence of widths and alignments:
\* read_bits() reads from the bytes of into_bytes() the numbers that were written, cut off
\* at their widths; the padding is less than a byte and zero, and nothing can be read
\* behind it. The two paths of write_bits() and of read_bits() agree.
THEOREM BitsAlwaysReadBack == BitBufferSpec => []BitsReadBack
BY ReadBackWhenSpelled, BitBufferInvariance, PTL

-----------------------------------------------------------------------------
(* FragmentFormat: a message is cut into fragments and put together again *)

LEMMA PiecesAre ==
  ASSUME NEW length \in Nat, length > 0
  PROVE  /\ PiecesOf(length) \in Nat /\ PiecesOf(length) >= 1
         /\ (PiecesOf(length) - 1) * MaxWholePayload < length
         /\ length <= PiecesOf(length) * MaxWholePayload
<1> DEFINE M == MaxWholePayload
           q == PiecesOf(length)
<1>1. M \in Nat /\ M > 0
  BY FragmentFormatAssumption
<1>2. /\ q \in Int /\ M * q <= length + M - 1 /\ length + M - 1 < M * q + M
  BY <1>1 DEF PiecesOf
<1> HIDE DEF M, q
<1>3. q >= 1
  <2> SUFFICES ASSUME q <= 0 PROVE FALSE
    BY <1>2
  <2>1. M * q <= 0
    BY <1>1, <1>2
  <2> QED
    BY <1>1, <1>2, <2>1
<1>4. M * q = q * M /\ (q - 1) * M = q * M - M
  BY <1>1, <1>2
<1>5. q * M \in Int /\ (q - 1) * M < length /\ length <= q * M
  BY <1>1, <1>2, <1>4
<1> QED
  BY <1>2, <1>3, <1>5 DEF M, q

\* Where the pieces end.
EndOfPiece(data, i) == Smaller(i * MaxWholePayload, Len(data))

LEMMA PieceIs ==
  ASSUME NEW S, NEW data \in Seq(S), Len(data) > 0, NEW i \in 1 .. PiecesOf(Len(data))
  PROVE  /\ EndOfPiece(data, i - 1) = (i - 1) * MaxWholePayload
         /\ EndOfPiece(data, i) \in 0 .. Len(data)
         /\ EndOfPiece(data, i - 1) \in 0 .. Len(data)
         /\ EndOfPiece(data, i - 1) < EndOfPiece(data, i)
         /\ EndOfPiece(data, i) <= EndOfPiece(data, i - 1) + MaxWholePayload
         /\ PieceOf(data, i) \in Seq(S)
         /\ PieceOf(data, i) = SubSeq(data, EndOfPiece(data, i - 1) + 1, EndOfPiece(data, i))
         /\ Len(PieceOf(data, i)) \in 1 .. MaxWholePayload
<1> DEFINE M == MaxWholePayload
           l == Len(data)
           c == PiecesOf(l)
           from == EndOfPiece(data, i - 1)
           to == EndOfPiece(data, i)
<1>1. M \in Nat /\ M > 0 /\ l \in Nat /\ l > 0
  BY FragmentFormatAssumption, LenProperties
<1>2. c \in Nat /\ (c - 1) * M < l /\ l <= c * M /\ i \in 1 .. c
  BY <1>1, PiecesAre
<1> HIDE DEF c
<1>3. i - 1 \in Nat /\ (i - 1) * M \in Nat /\ i * M = (i - 1) * M + M
  BY <1>1, <1>2
<1>4. (i - 1) * M <= (c - 1) * M
  <2>1. c - i \in Nat /\ c - 1 = (i - 1) + (c - i)
    BY <1>2
  <2>2. ((i - 1) + (c - i)) * M = (i - 1) * M + (c - i) * M /\ (c - i) * M \in Nat
    BY <1>1, <1>2, <2>1
  <2> QED
    BY <1>3, <2>1, <2>2
<1>5. (i - 1) * M < l
  <2>1. (c - 1) * M \in Int
    BY <1>1, <1>2
  <2> QED
    BY <1>1, <1>2, <1>3, <1>4, <2>1
<1> DEFINE begin == (i - 1) * M
<1>6. begin \in Nat /\ i * M = begin + M /\ begin < l
  BY <1>3, <1>5
<1> HIDE DEF begin
<1>7. from = begin
  BY <1>1, <1>6 DEF EndOfPiece, Smaller, begin
<1>8. to \in Nat /\ to <= l /\ begin < to /\ to <= begin + M
  BY <1>1, <1>6 DEF EndOfPiece, Smaller
<1>9. PieceOf(data, i) = SubSeq(data, begin + 1, to)
  BY DEF PieceOf, EndOfPiece, begin
<1> HIDE DEF M, l, from, to
<1>10. PieceOf(data, i) \in Seq(S) /\ Len(PieceOf(data, i)) = to - begin
  BY <1>6, <1>8, <1>9, SliceIs DEF l
<1> QED
  <2>1. /\ from = begin /\ from \in 0 .. l /\ to \in 0 .. l /\ from < to /\ to <= from + M
        /\ Len(PieceOf(data, i)) \in 1 .. M
    BY <1>1, <1>6, <1>7, <1>8, <1>10
  <2> QED
    BY <1>7, <1>9, <1>10, <2>1 DEF M, l, from, to, begin

\* Pieces that lie side by side in a list are put together as they lay.
LEMMA PiecesJoin ==
  ASSUME NEW S, NEW list \in Seq(S), NEW n \in Nat, NEW cut \in [0 .. n -> 0 .. Len(list)],
         cut[0] = 0, \A k \in 1 .. n : cut[k - 1] < cut[k],
         NEW pieces, Len(pieces) = n,
         \A k \in 1 .. n : pieces[k] = SubSeq(list, cut[k - 1] + 1, cut[k])
  PROVE  PutTogether(pieces) = SubSeq(list, 1, cut[n])
<1> DEFINE begin(k) == SubSeq(list, 1, cut[k])
           IsThat(f) == f = [k \in 0 .. n |-> IF k = 0 THEN <<>> ELSE f[k - 1] \o pieces[k]]
           p == CHOOSE g : IsThat(g)
           f0 == [k \in 0 .. n |-> begin(k)]
<1>1. begin(0) = <<>>
  BY SubSeqEmpty
<1>2. ASSUME NEW k \in 1 .. n PROVE begin(k - 1) \o pieces[k] = begin(k)
  <2> DEFINE a == cut[k - 1]
             b == cut[k]
  <2>1. k \in 0 .. n /\ k - 1 \in 0 .. n /\ a < b /\ Len(list) \in Nat
    BY LenProperties
  <2>2. a \in 0 .. Len(list) /\ b \in 0 .. Len(list)
    BY <2>1
  <2> HIDE DEF a, b
  <2>3. a \in 1 - 1 .. Len(list) /\ b \in a .. Len(list) /\ 1 \in 1 .. Len(list) + 1
    BY <2>1, <2>2
  <2>4. SubSeq(list, 1, a) \o SubSeq(list, a + 1, b) = SubSeq(list, 1, b)
    BY <2>3, ConcatAdjacentSubSeq
  <2> QED
    BY <2>4 DEF a, b
<1> HIDE DEF begin
<1>3. IsThat(f0)
  <2>1. ASSUME NEW k \in 0 .. n
        PROVE  f0[k] = IF k = 0 THEN <<>> ELSE f0[k - 1] \o pieces[k]
    <3>1. CASE k = 0
      BY <1>1, <3>1
    <3>2. CASE k # 0
      <4>1. k \in 1 .. n /\ k - 1 \in 0 .. n /\ f0[k - 1] = begin(k - 1) /\ f0[k] = begin(k)
        BY <3>2
      <4> QED
        BY <1>2, <3>2, <4>1
    <3> QED
      BY <3>1, <3>2
  <2> QED
    BY <2>1
<1>4. PutTogether(pieces) = p[n]
  BY DEF PutTogether
<1> HIDE DEF f0
<1>5. IsThat(p)
  BY <1>3
<1> HIDE DEF p
<1>6. p[0] = <<>> /\ \A k \in 1 .. n : p[k] = p[k - 1] \o pieces[k]
  <2>1. 0 \in 0 .. n /\ \A k \in 1 .. n : k \in 0 .. n /\ k # 0
    OBVIOUS
  <2>2. \A k \in 0 .. n : p[k] = IF k = 0 THEN <<>> ELSE p[k - 1] \o pieces[k]
    BY <1>5, Zenon
  <2> QED
    BY <2>1, <2>2, Zenon
<1> HIDE DEF IsThat
<1> DEFINE G == {k \in 0 .. n : p[k] = begin(k)}
<1>7. 0 \in G
  BY <1>1, <1>6
<1>8. ASSUME NEW k \in 0 .. n - 1, k \in G PROVE k + 1 \in G
  <2>1. k + 1 \in 1 .. n /\ (k + 1) - 1 = k /\ p[k] = begin(k)
    BY <1>8
  <2>2. p[k + 1] = p[k] \o pieces[k + 1]
    BY <1>6, <2>1
  <2>3. begin(k) \o pieces[k + 1] = begin(k + 1)
    BY <1>2, <2>1
  <2>4. p[k + 1] = begin(k + 1) /\ k + 1 \in 0 .. n
    BY <2>1, <2>2, <2>3
  <2> QED
    BY <2>4
<1> HIDE DEF G
<1>9. \A k \in 0 .. n : k \in G
  BY <1>7, <1>8, EveryTurn
<1>10. p[n] = begin(n)
  BY <1>9 DEF G
<1> QED
  BY <1>4, <1>10 DEF begin

\* The pieces of a message are the message.
LEMMA MessageFromPieces ==
  ASSUME NEW S, NEW data \in Seq(S), Len(data) > 0, NEW pieces,
         Len(pieces) = PiecesOf(Len(data)),
         \A i \in 1 .. PiecesOf(Len(data)) : pieces[i] = PieceOf(data, i)
  PROVE  PutTogether(pieces) = data
<1> DEFINE l == Len(data)
           n == PiecesOf(l)
           cut == [k \in 0 .. n |-> EndOfPiece(data, k)]
<1>1. l \in Nat /\ l > 0
  BY LenProperties
<1>2. n \in Nat /\ n >= 1 /\ l <= n * MaxWholePayload /\ MaxWholePayload \in Nat
  BY <1>1, PiecesAre, FragmentFormatAssumption
<1>3. ASSUME NEW i \in 1 .. n
      PROVE  /\ EndOfPiece(data, i) \in 0 .. l /\ EndOfPiece(data, i - 1) \in 0 .. l
             /\ EndOfPiece(data, i - 1) < EndOfPiece(data, i)
             /\ PieceOf(data, i) = SubSeq(data, EndOfPiece(data, i - 1) + 1, EndOfPiece(data, i))
  BY PieceIs
<1>4. EndOfPiece(data, 0) = 0 /\ EndOfPiece(data, n) = l
  <2>1. 0 * MaxWholePayload = 0 /\ n * MaxWholePayload \in Nat
    BY <1>2
  <2> QED
    BY <1>1, <1>2, <2>1 DEF EndOfPiece, Smaller
<1> HIDE DEF n, l
<1>5. cut \in [0 .. n -> 0 .. l]
  <2>1. ASSUME NEW k \in 0 .. n PROVE EndOfPiece(data, k) \in 0 .. l
    <3>1. CASE k = 0
      BY <1>1, <1>4, <3>1
    <3>2. CASE k \in 1 .. n
      BY <1>3, <3>2
    <3> QED
      BY <3>1, <3>2
  <2> QED
    BY <2>1
<1>6. /\ cut[0] = 0 /\ cut[n] = l /\ \A k \in 1 .. n : cut[k - 1] < cut[k]
      /\ \A k \in 1 .. n : pieces[k] = SubSeq(data, cut[k - 1] + 1, cut[k])
  <2>1. ASSUME NEW k \in 0 .. n PROVE cut[k] = EndOfPiece(data, k)
    OBVIOUS
  <2> HIDE DEF cut
  <2>2. 0 \in 0 .. n /\ n \in 0 .. n
    BY <1>2
  <2>3. ASSUME NEW k \in 1 .. n
        PROVE  cut[k - 1] < cut[k] /\ pieces[k] = SubSeq(data, cut[k - 1] + 1, cut[k])
    <3>1. cut[k] = EndOfPiece(data, k) /\ cut[k - 1] = EndOfPiece(data, k - 1)
      BY <1>2, <2>1
    <3>2. pieces[k] = PieceOf(data, k)
      BY DEF n, l
    <3> QED
      BY <1>3, <3>1, <3>2
  <2> QED
    BY <1>4, <2>1, <2>2, <2>3
<1> HIDE DEF cut
<1>7. Len(pieces) = n
  BY DEF n, l
<1>8. PutTogether(pieces) = SubSeq(data, 1, cut[n])
  BY <1>2, <1>5, <1>6, <1>7, PiecesJoin DEF l
<1>9. SubSeq(data, 1, l) = data
  BY SubSeqFull DEF l
<1> QED
  BY <1>6, <1>8, <1>9

\* Two sequences, one after the other.
LEMMA TwoParts ==
  ASSUME NEW S, NEW s \in Seq(S), NEW t \in Seq(S)
  PROVE  /\ s \o t \in Seq(S) /\ Len(s) \in Nat /\ Len(t) \in Nat /\ Len(s \o t) = Len(s) + Len(t)
         /\ \A i \in 1 .. Len(s) : (s \o t)[i] = s[i]
         /\ SubSeq(s \o t, Len(s) + 1, Len(s \o t)) = t
<1> DEFINE both == s \o t
           l == Len(s)
           rest == SubSeq(both, l + 1, Len(both))
<1>1. l \in Nat /\ Len(t) \in Nat
  BY LenProperties
<1>2. /\ both \in Seq(S) /\ Len(both) = l + Len(t)
      /\ \A i \in 1 .. l + Len(t) : both[i] = IF i <= l THEN s[i] ELSE t[i - l]
  BY ConcatProperties, Zenon
<1> HIDE DEF both, l
<1>3. \A i \in 1 .. l : both[i] = s[i]
  BY <1>1, <1>2
<1>4. Len(both) \in Nat /\ l <= Len(both) /\ Len(both) - l = Len(t)
  BY <1>1, <1>2
<1>5. rest \in Seq(S) /\ Len(rest) = Len(t) /\ \A i \in 1 .. Len(t) : rest[i] = both[l + i]
  <2> DEFINE to == Len(both)
  <2>1. l <= to /\ to <= Len(both) /\ to \in Nat /\ to - l = Len(t)
    BY <1>4
  <2> HIDE DEF to
  <2>2. rest = SubSeq(both, l + 1, to)
    BY DEF to
  <2>3. both \in Seq(S)
    BY <1>2
  <2> HIDE DEF rest
  <2>4. rest \in Seq(S) /\ Len(rest) = to - l /\ \A i \in 1 .. to - l : rest[i] = both[l + i]
    BY <1>1, <2>1, <2>2, <2>3, SliceIs
  <2> QED
    BY <2>1, <2>4, Zenon
<1> HIDE DEF rest
<1>6. ASSUME NEW i \in 1 .. Len(t) PROVE rest[i] = t[i]
  <2>1. l + i \in 1 .. l + Len(t) /\ ~(l + i <= l) /\ (l + i) - l = i
    BY <1>1
  <2> QED
    BY <1>2, <1>5, <2>1
<1>7. rest = t
  BY <1>5, <1>6, SeqEqual
<1> QED
  BY <1>1, <1>2, <1>3, <1>7 DEF both, l, rest

\* FragmentHeader::deserialize, of what serialize and fragment_message made.
LEMMA FragmentReadBack ==
  ASSUME NEW S, NEW piece \in Seq(S), NEW id, NEW index, NEW count
  PROVE  LET fragment == FragmentHeader(id, index, count) \o piece
         IN  /\ Len(fragment) = FragmentHeaderSize + Len(piece)
             /\ FragmentRead(fragment) = {[id    |-> BigEndian(id, FragmentIdBytes),
                                           index |-> index, count |-> count, data |-> piece]}
<1> DEFINE n == FragmentIdBytes
           word == BigEndian(id, n)
           D == S \cup {index, count} \cup {word[i] : i \in 1 .. n}
           tail == <<index, count>>
           header == word \o tail
           fragment == header \o piece
<1>1. n \in Nat
  BY FragmentFormatAssumption
<1>2. word \in Seq(D) /\ Len(word) = n
  <2>1. DOMAIN word = 1 .. n
    BY DEF BigEndian
  <2>2. word = [i \in 1 .. n |-> word[i]]
    BY DEF BigEndian
  <2> HIDE DEF word
  <2>3. word \in [1 .. n -> D]
    BY <2>2
  <2> HIDE DEF D
  <2> QED
    BY <1>1, <2>1, <2>3, SeqDef, LenProperties
<1> HIDE DEF word
<1>3. tail \in Seq(D) /\ Len(tail) = 2 /\ tail[1] = index /\ tail[2] = count
  OBVIOUS
<1>4. piece \in Seq(D)
  BY SeqMonotonic
<1> HIDE DEF D, tail
<1>5. header \in Seq(D) /\ Len(header) = n + 2
  <2>1. header \in Seq(D) /\ Len(header) = Len(word) + Len(tail)
    BY <1>2, <1>3, TwoParts, ZenonT(40)
  <2> QED
    BY <1>2, <1>3, <2>1
<1>6. /\ \A i \in 1 .. n : header[i] = word[i]
      /\ SubSeq(header, n + 1, n + 2) = tail
  <2>1. /\ \A i \in 1 .. Len(word) : header[i] = word[i]
        /\ SubSeq(header, Len(word) + 1, Len(header)) = tail
    BY <1>2, <1>3, TwoParts, ZenonT(40)
  <2> QED
    BY <1>2, <1>5, <2>1, Zenon
<1>7. header[n + 1] = index /\ header[n + 2] = count
  <2> DEFINE to == n + 2
  <2>1. n <= to /\ to <= Len(header) /\ to \in Nat /\ 1 \in 1 .. to - n /\ 2 \in 1 .. to - n
    BY <1>1, <1>5
  <2>2. tail = SubSeq(header, n + 1, to)
    BY <1>6
  <2> HIDE DEF to
  <2>3. \A i \in 1 .. to - n : tail[i] = header[n + i]
    BY <1>1, <1>5, <2>1, <2>2, SliceIs
  <2>4. tail[1] = header[n + 1] /\ tail[2] = header[n + 2]
    <3>1. tail[1] = header[n + 1]
      BY <2>1, <2>3
    <3>2. tail[2] = header[n + 2]
      BY <2>1, <2>3
    <3> QED
      BY <3>1, <3>2
  <2> QED
    BY <1>3, <2>4
<1> HIDE DEF header
<1>8. /\ fragment \in Seq(D) /\ Len(piece) \in Nat /\ Len(fragment) = n + 2 + Len(piece)
      /\ \A i \in 1 .. n + 2 : fragment[i] = header[i]
      /\ SubSeq(fragment, (n + 2) + 1, Len(fragment)) = piece
  <2>1. /\ fragment \in Seq(D) /\ Len(piece) \in Nat /\ Len(fragment) = Len(header) + Len(piece)
        /\ \A i \in 1 .. Len(header) : fragment[i] = header[i]
        /\ SubSeq(fragment, Len(header) + 1, Len(fragment)) = piece
    BY <1>4, <1>5, TwoParts, ZenonT(40)
  <2> QED
    BY <1>5, <2>1, Zenon
<1> HIDE DEF fragment
<1>9. fragment[n + 1] = index /\ fragment[n + 2] = count
  <2>1. n + 1 \in 1 .. n + 2 /\ n + 2 \in 1 .. n + 2
    BY <1>1
  <2> QED
    BY <1>7, <1>8, <2>1
<1>10. SubSeq(fragment, 1, n) = word
  <2> DEFINE first == SubSeq(fragment, 0 + 1, n)
  <2>1. n <= Len(fragment) /\ n - 0 = n
    BY <1>1, <1>8
  <2>2. first \in Seq(D) /\ Len(first) = n /\ \A i \in 1 .. n : first[i] = fragment[0 + i]
    BY <1>1, <1>8, <2>1, SliceIs
  <2> HIDE DEF first
  <2>3. \A i \in 1 .. n : first[i] = word[i]
    <3>1. ASSUME NEW i \in 1 .. n PROVE first[i] = word[i]
      <4>1. i \in 1 .. n + 2 /\ 0 + i = i
        BY <1>1
      <4> QED
        BY <1>6, <1>8, <2>2, <4>1
    <3> QED
      BY <3>1
  <2>4. first = word
    BY <1>2, <2>2, <2>3, SeqEqual
  <2> QED
    BY <2>4 DEF first
<1>11. FragmentHeaderSize = n + 2 /\ ~(Len(fragment) < FragmentHeaderSize)
  BY <1>1, <1>8 DEF FragmentHeaderSize
<1>12. FragmentRead(fragment) = {[id |-> word, index |-> index, count |-> count, data |-> piece]}
  BY <1>8, <1>9, <1>10, <1>11 DEF FragmentRead
<1> QED
  BY <1>8, <1>11, <1>12 DEF fragment, header, tail, word, FragmentHeader

\* What is read of a fragment of a message, at whatever place.
Arrival(id, data, i) ==
  [id    |-> BigEndian(id, FragmentIdBytes),
   index |-> i - 1,
   count |-> PiecesOf(Len(data)),
   data  |-> PieceOf(data, i)]

LEMMA ArrivalsAssemble ==
  ASSUME NEW S, NEW data \in Seq(S), Len(data) > 0, NEW id,
         NEW arrived \in SUBSET (1 .. PiecesOf(Len(data))), arrived # {},
         NEW fragments,
         \A f : f \in fragments <=> \E i \in arrived : f = Arrival(id, data, i)
  PROVE  Reassembled(fragments) = IF arrived = 1 .. PiecesOf(Len(data)) THEN {data} ELSE {}
<1> DEFINE n == PiecesOf(Len(data))
           indices == {f.index : f \in fragments}
           count == (CHOOSE f \in fragments : TRUE).count
           dataOf(index) == (CHOOSE f \in fragments : f.index = index).data
           pieces == [i \in 1 .. n |-> dataOf(i - 1)]
<1>1. n \in Nat /\ n >= 1
  BY LenProperties, PiecesAre
<1>2. ASSUME NEW i \in arrived
      PROVE  /\ Arrival(id, data, i).index = i - 1 /\ Arrival(id, data, i).count = n
             /\ Arrival(id, data, i).data = PieceOf(data, i)
             /\ i \in 1 .. n
  BY DEF Arrival
<1>3. count = n
  <2>1. fragments # {} /\ \A f \in fragments : f.count = n
    BY <1>2
  <2> QED
    BY <2>1
<1>4. indices = {i - 1 : i \in arrived} /\ indices \in SUBSET (0 .. n - 1)
  <2>1. indices = {i - 1 : i \in arrived}
    BY <1>2
  <2>2. \A i \in arrived : i - 1 \in 0 .. n - 1
    BY <1>1, <1>2
  <2> QED
    BY <2>1, <2>2
<1>5. Cardinality(indices) = n <=> arrived = 1 .. n
  <2>1. IsFiniteSet(0 .. n - 1) /\ Cardinality(0 .. n - 1) = n
    <3>1. 0 \in Int /\ n - 1 \in Int /\ ~(0 > n - 1) /\ (n - 1) - 0 + 1 = n
      BY <1>1
    <3> DEFINE last == n - 1
    <3> HIDE DEF last
    <3>2. /\ IsFiniteSet(0 .. last) /\ Cardinality(0 .. last) = IF 0 > last THEN 0 ELSE last - 0 + 1
      BY <3>1, FS_Interval DEF last
    <3> QED
      BY <3>1, <3>2 DEF last
  <2>2. Cardinality(indices) = n <=> indices = 0 .. n - 1
    <3> HIDE DEF indices
    <3>1. Cardinality(0 .. n - 1) = Cardinality(indices) => 0 .. n - 1 = indices
      BY <1>4, <2>1, FS_Subset
    <3> QED
      BY <2>1, <3>1
  <2>3. indices = 0 .. n - 1 <=> arrived = 1 .. n
    <3> HIDE DEF n, indices
    <3>1. ASSUME indices = 0 .. n - 1, NEW i \in 1 .. n PROVE i \in arrived
      <4>1. i - 1 \in indices
        BY <1>1, <3>1
      <4>2. PICK j \in arrived : i - 1 = j - 1
        BY <1>4, <4>1
      <4>3. j \in 1 .. n
        BY DEF n
      <4> QED
        BY <1>1, <4>2, <4>3
    <3>2. arrived \subseteq 1 .. n
      BY DEF n
    <3>3. ASSUME arrived = 1 .. n, NEW k \in 0 .. n - 1 PROVE k \in indices
      <4>1. k + 1 \in arrived /\ (k + 1) - 1 = k
        BY <1>1, <3>3
      <4> QED
        BY <1>4, <4>1
    <3> QED
      BY <1>4, <3>1, <3>2, <3>3
  <2> QED
    BY <2>2, <2>3
<1>6. ASSUME arrived = 1 .. n PROVE PutTogether(pieces) = data
  <2>1. ASSUME NEW i \in 1 .. n PROVE dataOf(i - 1) = PieceOf(data, i)
    <3> DEFINE it == Arrival(id, data, i)
    <3>1. it \in fragments /\ it.index = i - 1 /\ it.data = PieceOf(data, i)
      BY <1>2, <1>6
    <3>2. ASSUME NEW f \in fragments, f.index = i - 1 PROVE f = it
      <4>1. PICK j \in arrived : f = Arrival(id, data, j)
        OBVIOUS
      <4>2. j - 1 = i - 1 /\ j \in Int /\ i \in Int
        BY <1>2, <3>2, <4>1
      <4>3. j = i
        BY <4>2
      <4> QED
        BY <4>1, <4>3
    <3> HIDE DEF it
    <3>3. (CHOOSE f \in fragments : f.index = i - 1) = it
      BY <3>1, <3>2
    <3> QED
      BY <3>1, <3>3
  <2> HIDE DEF dataOf
  <2>2. Len(pieces) = n /\ \A i \in 1 .. n : pieces[i] = PieceOf(data, i)
    BY <1>1, <2>1
  <2> HIDE DEF pieces
  <2> QED
    BY <2>2, MessageFromPieces
<1>7. Reassembled(fragments) = IF Cardinality(indices) = count
                               THEN {PutTogether([i \in 1 .. count |-> dataOf(i - 1)])} ELSE {}
  BY DEF Reassembled
<1> HIDE DEF indices, count, dataOf
<1>8. Reassembled(fragments) = IF arrived = 1 .. n THEN {PutTogether(pieces)} ELSE {}
  BY <1>3, <1>5, <1>7
<1> HIDE DEF pieces, n
<1>9. Reassembled(fragments) = IF arrived = 1 .. n THEN {data} ELSE {}
  BY <1>6, <1>8
<1> QED
  BY <1>9 DEF n

\* fragment_message refuses a message only if it does not fit into as many fragments as
\* can be counted. Otherwise every fragment has a part of it and is no longer than it
\* may be; of the fragments that arrive, in whatever order and however often, the
\* receiver makes the message if they are all there, and nothing of it before.
THEOREM FragmentsReassemble ==
  ASSUME NEW S, NEW data \in Seq(S), Len(data) > 0, NEW id
  PROVE  /\ FragmentMessage(id, data) = Fail <=> Len(data) > MaxFragmentCount * MaxWholePayload
         /\ \A f \in FragmentMessage(id, data) :
              /\ Len(f) \in 1 .. MaxFragmentCount
              /\ \A i \in 1 .. Len(f) :
                   Len(f[i]) \in FragmentHeaderSize + 1 .. FragmentHeaderSize + MaxWholePayload
              /\ \A arrived \in (SUBSET (1 .. Len(f))) \ {{}} :
                   Reassembled(UNION {FragmentRead(f[i]) : i \in arrived})
                     = IF arrived = 1 .. Len(f) THEN {data} ELSE {}
<1> DEFINE n == PiecesOf(Len(data))
           M == MaxWholePayload
           cut == [i \in 1 .. n |-> FragmentHeader(id, i - 1, n) \o PieceOf(data, i)]
<1>1. /\ Len(data) \in Nat /\ n \in Nat /\ n >= 1
      /\ (n - 1) * M < Len(data) /\ Len(data) <= n * M
  BY LenProperties, PiecesAre
<1>2. FragmentMessage(id, data) = IF n > MaxFragmentCount THEN {} ELSE {cut}
  BY DEF FragmentMessage, Fail
<1>3. M \in Nat /\ M > 0 /\ MaxFragmentCount \in Nat /\ FragmentHeaderSize \in Nat
  <2>1. MaxFragmentCount \in 1 .. 2 ^ ByteBits - 1 /\ FragmentIdBytes \in Nat /\ M \in Nat /\ M > 0
    BY FragmentFormatAssumption
  <2> QED
    BY <2>1 DEF FragmentHeaderSize
<1>4. n > MaxFragmentCount <=> Len(data) > MaxFragmentCount * M
  <2> HIDE DEF n, M
  <2>1. ASSUME n > MaxFragmentCount PROVE Len(data) > MaxFragmentCount * M
    <3>1. n - 1 - MaxFragmentCount \in Nat /\ MaxFragmentCount + (n - 1 - MaxFragmentCount) = n - 1
      BY <1>1, <1>3, <2>1
    <3>2. MaxFragmentCount * M <= (n - 1) * M
      BY <1>1, <1>3, <3>1
    <3>3. MaxFragmentCount * M \in Nat /\ (n - 1) * M \in Nat
      BY <1>1, <1>3
    <3> QED
      BY <1>1, <3>2, <3>3
  <2>2. ASSUME n <= MaxFragmentCount PROVE Len(data) <= MaxFragmentCount * M
    <3>1. n * M <= MaxFragmentCount * M
      BY <1>1, <1>3, <2>2
    <3>2. MaxFragmentCount * M \in Nat /\ n * M \in Nat
      BY <1>1, <1>3
    <3> QED
      BY <1>1, <3>1, <3>2
  <2>3. MaxFragmentCount * M \in Nat
    BY <1>3
  <2> QED
    BY <1>1, <1>3, <2>1, <2>2, <2>3
<1>5. Len(cut) = n /\ \A i \in 1 .. n : cut[i] = FragmentHeader(id, i - 1, n) \o PieceOf(data, i)
  BY <1>1
<1> HIDE DEF cut
<1>6. ASSUME NEW i \in 1 .. n
      PROVE  /\ FragmentRead(cut[i]) = {Arrival(id, data, i)}
             /\ Len(cut[i]) \in FragmentHeaderSize + 1 .. FragmentHeaderSize + M
  <2>1. PieceOf(data, i) \in Seq(S) /\ Len(PieceOf(data, i)) \in 1 .. M
    BY PieceIs
  <2>2. /\ Len(cut[i]) = FragmentHeaderSize + Len(PieceOf(data, i))
        /\ FragmentRead(cut[i]) = {[id |-> BigEndian(id, FragmentIdBytes), index |-> i - 1,
                                    count |-> n, data |-> PieceOf(data, i)]}
    <3>1. cut[i] = FragmentHeader(id, i - 1, n) \o PieceOf(data, i)
      BY <1>5
    <3> HIDE DEF n
    <3> QED
      BY <2>1, <3>1, FragmentReadBack
  <2>3. FragmentRead(cut[i]) = {Arrival(id, data, i)}
    BY <2>2 DEF Arrival
  <2> QED
    BY <1>3, <2>1, <2>2, <2>3
<1>7. ASSUME NEW arrived \in (SUBSET (1 .. Len(cut))) \ {{}}
      PROVE  Reassembled(UNION {FragmentRead(cut[i]) : i \in arrived})
               = IF arrived = 1 .. Len(cut) THEN {data} ELSE {}
  <2> DEFINE all == UNION {FragmentRead(cut[i]) : i \in arrived}
             arrivals == {Arrival(id, data, i) : i \in arrived}
  <2>1. arrived \subseteq 1 .. n /\ arrived # {} /\ Len(cut) = n
    BY <1>5, <1>7
  <2>2. all = arrivals
    <3>1. ASSUME NEW i \in arrived PROVE FragmentRead(cut[i]) = {Arrival(id, data, i)}
      BY <1>6, <2>1
    <3>2. all \subseteq arrivals
      BY <3>1
    <3>3. arrivals \subseteq all
      BY <3>1
    <3> QED
      BY <3>2, <3>3
  <2> HIDE DEF all
  <2>3. Reassembled(arrivals) = IF arrived = 1 .. n THEN {data} ELSE {}
    <3>1. arrived \in SUBSET (1 .. PiecesOf(Len(data)))
      BY <2>1
    <3>2. \A f : f \in arrivals <=> \E i \in arrived : f = Arrival(id, data, i)
      OBVIOUS
    <3> HIDE DEF arrivals, n
    <3>3. Reassembled(arrivals) = IF arrived = 1 .. PiecesOf(Len(data)) THEN {data} ELSE {}
      BY <2>1, <3>1, <3>2, ArrivalsAssemble
    <3> QED
      BY <3>3 DEF n
  <2> HIDE DEF n, arrivals
  <2>4. CASE arrived = 1 .. n
    BY <2>1, <2>2, <2>3, <2>4 DEF all
  <2>5. CASE arrived # 1 .. n
    BY <2>1, <2>2, <2>3, <2>5 DEF all
  <2> QED
    BY <2>4, <2>5
<1>8. ASSUME NEW i \in 1 .. Len(cut)
      PROVE  Len(cut[i]) \in FragmentHeaderSize + 1 .. FragmentHeaderSize + MaxWholePayload
  BY <1>5, <1>6
<1> HIDE DEF n
<1> DEFINE Sound(f) ==
      /\ Len(f) \in 1 .. MaxFragmentCount
      /\ \A i \in 1 .. Len(f) :
           Len(f[i]) \in FragmentHeaderSize + 1 .. FragmentHeaderSize + MaxWholePayload
      /\ \A arrived \in (SUBSET (1 .. Len(f))) \ {{}} :
           Reassembled(UNION {FragmentRead(f[i]) : i \in arrived})
             = IF arrived = 1 .. Len(f) THEN {data} ELSE {}
<1>9. ASSUME n <= MaxFragmentCount PROVE Sound(cut)
  <2>1. Len(cut) \in 1 .. MaxFragmentCount
    BY <1>1, <1>3, <1>5, <1>9
  <2> QED
    BY <1>7, <1>8, <2>1, Zenon
<1> HIDE DEF Sound
<1>10. \A f \in FragmentMessage(id, data) : Sound(f)
  BY <1>1, <1>2, <1>3, <1>9
<1>11. FragmentMessage(id, data) = Fail <=> Len(data) > MaxFragmentCount * MaxWholePayload
  BY <1>2, <1>4 DEF Fail
<1> QED
  BY <1>10, <1>11 DEF Sound
=============================================================================
