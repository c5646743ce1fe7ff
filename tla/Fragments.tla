----------------------------- MODULE Fragments ------------------------------
(***************************************************************************)
(* The reassembly of fragmented messages, FragmentAssembler of             *)
(* gbnet/src/fragment.rs, with its running total of the bytes it holds.    *)
(*                                                                         *)
(* A fragment is its header and the size of its data.  Fragments may       *)
(* arrive in any order, any number of times, or never, and a header may    *)
(* hold any numbers: an index its count has no room for, a count of 0.     *)
(* Times are the ages of the buffers; buffers made within a tick have the  *)
(* same age, and the iteration order of the map then decides which one is  *)
(* the oldest.                                                             *)
(*                                                                         *)
(* The debug assertion of cleanup() stops no behaviour here, as in a       *)
(* release build; SizeTracked is what it asserts.                          *)
(***************************************************************************)
EXTENDS Naturals, FiniteSets, Functions

CONSTANTS
  Fragment,         \* the fragments sent: records [id, index, count, size]
  FragmentTimeout,
  MaxBufferSize,
  MaxRepeats        \* bound: fragments processed without being stored

ASSUME FragmentsAssumption ==
  /\ \A p \in Fragment : /\ DOMAIN p = {"id", "index", "count", "size"}
                         /\ p.count \in Nat
                         /\ p.index \in Nat
                         /\ p.size \in Nat
  /\ FragmentTimeout \in Nat
  /\ MaxBufferSize \in Nat
  /\ MaxRepeats \in Nat

VARIABLES
  buffers,              \* message id -> [count, fragments (index -> size), age]
  current_buffer_size,
  repeated,             \* history: bytes of the fragments processed but not stored
  repeats               \* history: how many such fragments

fragmentsVars == <<buffers, current_buffer_size, repeated, repeats>>

-----------------------------------------------------------------------------
\* A map with one more entry, or another value for one it has.
Put(f, k, v) == [x \in DOMAIN f \cup {k} |-> IF x = k THEN v ELSE f[x]]

\* The bytes a buffer holds, one by one, and those of several buffers.
BytesIn(id, buffer) ==
  UNION {{<<id, i, byte>> : byte \in 1 .. buffer.fragments[i]} : i \in DOMAIN buffer.fragments}
BytesOf(ids) == UNION {BytesIn(id, buffers[id]) : id \in ids}

\* FragmentBuffer::total_size, of one buffer and of several.
TotalSize(id, buffer) == Cardinality(BytesIn(id, buffer))
SizeOf(ids) == Cardinality(BytesOf(ids))

SaturatingSub(a, b) == IF a >= b THEN a - b ELSE 0

IsComplete(buffer) == Cardinality(DOMAIN buffer.fragments) = buffer.count

\* What cleanup() leaves.
Live == {id \in DOMAIN buffers : buffers[id].age < FragmentTimeout}
SizeAfterCleanup ==
  SaturatingSub(current_buffer_size, SizeOf(DOMAIN buffers \ Live))

Cleanup ==
  /\ buffers' = Restrict(buffers, Live)
  /\ current_buffer_size' = SizeAfterCleanup
  /\ UNCHANGED <<repeated, repeats>>

\* The choices of expire_oldest() before a fragment of this size is taken in.
Oldest == {id \in Live : \A other \in Live : buffers[id].age >= buffers[other].age}
Expirable(size) ==
  IF SizeAfterCleanup + size > MaxBufferSize /\ Live # {}
  THEN {{id} : id \in Oldest}
  ELSE {{}}

\* The total after expire_oldest().
AfterExpiryKept(expired) == SizeAfterCleanup
AfterExpiry(expired) == SaturatingSub(SizeAfterCleanup, SizeOf(expired))

BufferOf(p, ids) ==
  IF p.id \in ids
  THEN buffers[p.id]
  ELSE [count |-> p.count, fragments |-> [i \in {} |-> 0], age |-> 0]

\* FragmentBuffer::insert(): the buffer after it, and whether it returns true.  A
\* fragment of no message of that many is neither stored nor looked at any further,
\* so a buffer for no fragments at all stays until it times out.
Inserted(p, buffer) ==
  IF p.index >= buffer.count \/ p.index \in DOMAIN buffer.fragments
  THEN buffer
  ELSE [buffer EXCEPT !.fragments = Put(@, p.index, p.size)]
Completes(p, buffer) == p.index < buffer.count /\ IsComplete(Inserted(p, buffer))

\* A fragment that does not fit the buffer of its message is dropped.
DropMismatched(p) ==
  /\ p.id \in Live
  /\ buffers[p.id].count # p.count
  /\ Cleanup

\* Every other fragment is added to the total, also one that is not stored.
Take(p) ==
  /\ p.id \in Live => buffers[p.id].count = p.count
  /\ \E expired \in Expirable(p.size) :
       LET kept   == Live \ expired
           before == BufferOf(p, kept)
           buffer == Inserted(p, before)
           stored == buffer # before
           total  == AfterExpiry(expired) + p.size
       IN  /\ \/ /\ Completes(p, before)
                 /\ buffers' = Restrict(buffers, kept \ {p.id})
                 /\ current_buffer_size' = SaturatingSub(total, TotalSize(p.id, buffer))
              \/ /\ ~Completes(p, before)
                 /\ buffers' = Put(Restrict(buffers, kept), p.id, buffer)
                 /\ current_buffer_size' = total
           /\ stored \/ repeats < MaxRepeats
           /\ repeated' = IF stored THEN repeated ELSE repeated + p.size
           /\ repeats' = IF stored THEN repeats ELSE repeats + 1

ProcessFragment(p) == DropMismatched(p) \/ Take(p)

FragmentsTick ==
  /\ buffers' = [id \in DOMAIN buffers |->
                   [buffers[id] EXCEPT !.age = IF @ < FragmentTimeout THEN @ + 1 ELSE @]]
  /\ UNCHANGED <<current_buffer_size, repeated, repeats>>

FragmentsInit ==
  /\ buffers = [id \in {} |-> 0]
  /\ current_buffer_size = 0
  /\ repeated = 0
  /\ repeats = 0

FragmentsNext ==
  \/ \E p \in Fragment : ProcessFragment(p)
  \/ Cleanup
  \/ FragmentsTick

FragmentsSpec == FragmentsInit /\ [][FragmentsNext]_fragmentsVars

-----------------------------------------------------------------------------
(* Properties *)

FragmentsTypeOK ==
  /\ \A id \in DOMAIN buffers :
       /\ \E p \in Fragment : p.id = id /\ p.count = buffers[id].count
       /\ DOMAIN buffers[id].fragments \subseteq 0 .. (buffers[id].count - 1)
       /\ buffers[id].age \in 0 .. FragmentTimeout
       /\ IsComplete(buffers[id]) => buffers[id].count = 0
  /\ current_buffer_size \in Nat
  /\ repeated \in Nat
  /\ repeats \in 0 .. MaxRepeats

\* The running total never falls short of what is held, and what it is too large by is
\* the size of every fragment ever processed without being stored, through completions,
\* timeouts and evictions.
SizeAccounted == current_buffer_size = SizeOf(DOMAIN buffers) + repeated

\* A message that is not overdue loses the fragments it has only by being completed, or
\* by being the oldest when there is no room for one more fragment beside all that is
\* held and all that was processed without being stored: expire_oldest never throws
\* away a message to make up for bytes of messages that are gone.
KeepsFragments(id) ==
  /\ id \in DOMAIN buffers'
  /\ DOMAIN buffers[id].fragments \subseteq DOMAIN buffers'[id].fragments

LiveMessagesKept ==
  [][ \A p \in Fragment : ProcessFragment(p) =>
        \A id \in Live :
          \/ KeepsFragments(id)
          \/ id = p.id /\ Completes(p, buffers[id])
          \/ /\ id \in Oldest
             /\ SizeOf(Live) + repeated + p.size > MaxBufferSize ]_fragmentsVars

\* What cleanup() asserts in a debug build ("Fragment buffer size tracking drifted"):
\* once the overdue messages are gone, the running total is the bytes held.
SizeTracked == SizeAfterCleanup = SizeOf(Live)
=============================================================================
