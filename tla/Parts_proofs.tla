---------------------------- MODULE Parts_proofs ----------------------------
(***************************************************************************)
(* Proofs about the parts that MCParts checks: the turns in which the      *)
(* channels of a connection send, the time an interpolated state shows,    *)
(* the search for the MTU, the token bucket of the simulator, the modes of *)
(* the congestion control, the baselines of the delta compression, connect *)
(* tokens, the rate limiter, the bytes of the fragments, who is relevant   *)
(* to an observer, and the type invariants of these parts.                 *)
(*                                                                         *)
(* The parts share no state, and each theorem is about one of them alone.  *)
(***************************************************************************)
EXTENDS Fragments, MtuDiscovery, Congestion, Delta, Security, Interpolation, Sending,
        Simulator, Interest, SequenceTheorems, FiniteSetTheorems, WellFoundedInduction, TLAPS

-----------------------------------------------------------------------------
(* The turns of a tick (Sending) *)

SendingSpec == SendingInit /\ [][SendingNext]_sendingVars

\* The loop leaves a channel when it is empty or when the gates close; once they are
\* closed, nothing opens them before the tick is over.
TurnInv ==
  /\ turn \in {Idle} \cup SendChannels
  /\ DOMAIN send_buffers = SendChannels
  /\ turn # Idle =>
       \/ \A before \in 1 .. turn - 1 : send_buffers[before] = <<>>
       \/ ~GateOpenFor(PacketMtu)

LEMMA TurnStep ==
  ASSUME TurnInv, SendingNext
  PROVE  TurnInv'
<1> USE SendingAssumption DEF Idle, SendChannels
<1>1. CASE StartTick
  <2>1. turn' = 1 /\ 1 \in SendChannels /\ send_buffers' = send_buffers
    BY <1>1 DEF StartTick
  <2> QED
    BY <2>1 DEF TurnInv
<1>2. ASSUME NEW c \in SendChannels, SendFrom(c) PROVE TurnInv'
  <2>1. /\ turn = c /\ turn' = c /\ GateOpen(c) /\ c \in Nat
        /\ DOMAIN send_buffers' = SendChannels
        /\ \A d \in SendChannels \ {c} : send_buffers'[d] = send_buffers[d]
    BY <1>2 DEF SendFrom, TurnInv
  <2>2. \A before \in 1 .. c - 1 : send_buffers[before] = <<>> /\ before # c
    BY <2>1 DEF TurnInv, GateOpen
  <2> QED
    BY <2>1, <2>2 DEF TurnInv
<1>3. CASE NextChannel
  <2>1. /\ turn \in SendChannels
        /\ send_buffers[turn] = <<>> \/ ~GateOpen(turn)
        /\ turn' = IF turn = ChannelCount THEN Idle ELSE turn + 1
    BY <1>3 DEF NextChannel, TurnInv
  <2>2. send_buffers' = send_buffers /\ (GateOpenFor(PacketMtu) <=> GateOpenFor(PacketMtu)')
    BY <1>3 DEF NextChannel, GateOpenFor, WithinRate, WithinBudget, WithinWindow, Paced,
                windowVars
  <2>3. CASE turn = ChannelCount
    BY <2>1, <2>2, <2>3 DEF TurnInv
  <2>4. CASE turn # ChannelCount
    <3>1. turn' = turn + 1 /\ turn' \in SendChannels
      BY <2>1, <2>4
    <3>2. \A before \in 1 .. turn' - 1 : before = turn \/ before \in 1 .. turn - 1
      BY <2>1, <3>1
    <3> QED
      BY <2>1, <2>2, <3>1, <3>2 DEF TurnInv, GateOpen
  <2> QED
    BY <2>3, <2>4
<1>4. CASE turn = Idle /\ turn' = turn /\ DOMAIN send_buffers' = SendChannels
  BY <1>4 DEF TurnInv
<1>5. SendingNext => DOMAIN send_buffers' = SendChannels
  BY DEF SendingNext, SendingTick, StartTick, SendFrom, NextChannel, SendMessage,
         Acknowledge, LoseTracked, ResetConnection, TurnInv
<1> QED
  BY <1>1, <1>2, <1>3, <1>4, <1>5
     DEF SendingNext, SendingTick, SendMessage, Acknowledge, LoseTracked, ResetConnection

\* A message of a channel leaves only when the channels before it in priority have
\* nothing left, for every number of channels and whatever the sizes of the messages,
\* the rate, the budget and the window: the loop of update_tick.
THEOREM PriorityAlwaysKept == SendingSpec => PriorityKept
<1> DEFINE A == \A c \in SendChannels :
                  SendFrom(c) => \A before \in 1 .. c - 1 : send_buffers[before] = <<>>
<1>1. SendingInit => TurnInv
  BY DEF SendingInit, TurnInv
<1>2. TurnInv /\ [SendingNext]_sendingVars => TurnInv'
  <2>1. TurnInv /\ UNCHANGED sendingVars => TurnInv'
    BY DEF TurnInv, sendingVars, GateOpenFor, WithinRate, WithinBudget, WithinWindow, Paced
  <2> QED
    BY <2>1, TurnStep
<1>3. TurnInv /\ [SendingNext]_sendingVars => [A]_sendingVars
  <2> SUFFICES ASSUME TurnInv, NEW c \in SendChannels, SendFrom(c)
               PROVE  \A before \in 1 .. c - 1 : send_buffers[before] = <<>>
    OBVIOUS
  <2> QED
    BY DEF TurnInv, SendFrom, GateOpen, Idle, SendChannels
<1> HIDE DEF A
<1>4. SendingSpec => [][A]_sendingVars
  BY <1>1, <1>2, <1>3, PTL DEF SendingSpec
<1> QED
  BY <1>4 DEF A, PriorityKept

-----------------------------------------------------------------------------
(* The time that is shown (Interpolation) *)

InterpolationSpec == InterpolationInit /\ [][InterpolationNext]_interpolationVars

Increasing(s) == \A i, j \in 1 .. Len(s) : i < j => s[i] < s[j]

\* What was shown last is not beyond the newest snapshot, and beyond the oldest only
\* as far as the clock was.  The buffer may move on under it; its two ends only grow.
ShownInv ==
  /\ snapshot_buffer \in Seq(Int)
  /\ Len(snapshot_buffer) <= 2 * BufferDepth
  /\ Increasing(snapshot_buffer)
  /\ render_time \in Int
  /\ \A v, w \in shown : v = w
  /\ \A v \in shown :
       /\ v \in Int
       /\ Len(snapshot_buffer) >= 2
       /\ v <= NewestSnapshot
       /\ v <= render_time - PlaybackDelay \/ v <= OldestSnapshot

LEMMA FirstOf ==
  ASSUME NEW S \in SUBSET Nat, S # {}
  PROVE  \E j \in S : \A k \in S : j <= k
<1>1. PICK j \in S : \A k \in S : ~(<<k, j>> \in OpToRel(<, Nat))
  BY NatLessThanWellFounded, WFMin, Zenon
<1>2. \A k \in S : ~(k < j)
  BY <1>1 DEF OpToRel
<1> QED
  BY <1>2

\* A moment between the oldest and the newest snapshot lies between two neighbours.
LEMMA BracketedBetween ==
  ASSUME ShownInv, Len(snapshot_buffer) >= 2, NEW target \in Int
  PROVE  Bracketed(target) <=> OldestSnapshot <= target /\ target <= NewestSnapshot
<1> DEFINE n == Len(snapshot_buffer)
<1>1. n \in Nat /\ n >= 2 /\ \A i \in 1 .. n : snapshot_buffer[i] \in Int
  BY ElementOfSeq, LenProperties DEF ShownInv
<1>2. \A i \in 1 .. n : /\ OldestSnapshot <= snapshot_buffer[i]
                        /\ snapshot_buffer[i] <= NewestSnapshot
  BY <1>1 DEF ShownInv, Increasing, OldestSnapshot, NewestSnapshot
<1>3. ASSUME Bracketed(target)
      PROVE  OldestSnapshot <= target /\ target <= NewestSnapshot
  <2>1. PICK i \in 1 .. n - 1 : snapshot_buffer[i] <= target
                                /\ target <= snapshot_buffer[i + 1]
    BY <1>3 DEF Bracketed
  <2>2. i \in 1 .. n /\ i + 1 \in 1 .. n /\ 1 \in 1 .. n
    BY <1>1, <2>1
  <2> QED
    BY <1>1, <1>2, <2>1, <2>2 DEF OldestSnapshot, NewestSnapshot
<1>4. ASSUME OldestSnapshot <= target, target <= NewestSnapshot
      PROVE  Bracketed(target)
  <2> DEFINE S == {i \in 2 .. n : target <= snapshot_buffer[i]}
  <2>1. S \in SUBSET Nat /\ n \in S
    BY <1>1, <1>4 DEF NewestSnapshot
  <2>2. PICK j \in S : \A k \in S : j <= k
    BY <2>1, FirstOf
  <2>3. j \in 2 .. n /\ target <= snapshot_buffer[j]
    BY <2>2
  <2>4. snapshot_buffer[j - 1] <= target
    <3>1. CASE j = 2
      BY <1>4, <3>1 DEF OldestSnapshot
    <3>2. CASE j # 2
      <4>1. j - 1 \in 2 .. n /\ j - 1 \notin S
        BY <1>1, <2>2, <2>3, <3>2
      <4> QED
        BY <1>1, <4>1
    <3> QED
      BY <3>1, <3>2
  <2>5. j - 1 \in 1 .. n - 1 /\ (j - 1) + 1 = j
    BY <1>1, <2>3
  <2> QED
    BY <2>3, <2>4, <2>5 DEF Bracketed
<1> QED
  BY <1>3, <1>4

LEMMA PushKeepsShown ==
  ASSUME ShownInv, NEW timestamp \in Timestamps, Push(timestamp)
  PROVE  ShownInv'
<1> USE InterpolationAssumption
<1> DEFINE b == snapshot_buffer
           a == Append(b, timestamp)
           n == Len(b)
           c == Bounded(a)
           d == IF n + 1 > 2 * BufferDepth THEN n + 1 - 2 * BufferDepth ELSE 0
<1>0. n \in Nat /\ n <= 2 * BufferDepth /\ BufferDepth \in Nat /\ BufferDepth >= 1
  BY LenProperties DEF ShownInv
<1>1. /\ b \in Seq(Int) /\ n \in Nat /\ n <= 2 * BufferDepth
      /\ timestamp \in Int /\ b \in [1 .. n -> Int]
      /\ b # <<>> <=> n > 0
  BY LenProperties, EmptySeq DEF ShownInv
<1>2. /\ a \in Seq(Int) /\ Len(a) = n + 1 /\ a[n + 1] = timestamp
      /\ \A i \in 1 .. n : a[i] = b[i]
  BY <1>1, AppendProperties
<1>3. n > 0 => timestamp > b[n]
  BY <1>1 DEF Push, Newer, NewestSnapshot
<1>4. Increasing(a)
  <2>1. \A i \in 1 .. n : b[i] <= b[n] /\ b[i] \in Int
    BY <1>1 DEF ShownInv, Increasing
  <2>2. \A i \in 1 .. n : b[i] < timestamp
    BY <1>1, <1>3, <2>1
  <2> QED
    BY <1>1, <1>2, <2>2 DEF ShownInv, Increasing
<1> HIDE InterpolationAssumption
<1> HIDE DEF n
<1>5. /\ d \in {0, 1} /\ (d = 1 => n = 2 * BufferDepth)
      /\ (n + 1 > 2 * BufferDepth <=> d = 1)
  BY <1>0
<1>6. /\ c \in Seq(Int) /\ Len(c) = n + 1 - d
      /\ \A i \in 1 .. n + 1 - d : c[i] = a[i + d]
  <2>1. CASE n + 1 > 2 * BufferDepth
    <3>1. c = SubSeq(a, d + 1, n + 1)
      <4>1. d + 1 = n + 1 - 2 * BufferDepth + 1
        BY <1>0, <1>5, <2>1
      <4>2. Len(a) = n + 1
        BY <1>2
      <4> HIDE DEF a, d
      <4>3. Len(a) > 2 * BufferDepth
        BY <2>1, <4>2
      <4>4. c = SubSeq(a, Len(a) - 2 * BufferDepth + 1, Len(a))
        BY <4>3, Zenon DEF Bounded
      <4>5. Len(a) - 2 * BufferDepth + 1 = d + 1
        BY <1>0, <4>1, <4>2
      <4> HIDE DEF c
      <4> QED
        BY <4>2, <4>4, <4>5
    <3>2. \A i \in d + 1 .. n + 1 : a[i] \in Int
      BY <1>1, <1>2, <1>5, ElementOfSeq
    <3> HIDE DEF a, c, d
    <3>3. /\ SubSeq(a, d + 1, n + 1) \in Seq(Int)
          /\ Len(SubSeq(a, d + 1, n + 1)) = IF d + 1 <= n + 1 THEN n + 1 - (d + 1) + 1 ELSE 0
          /\ \A i \in 1 .. n + 1 - (d + 1) + 1 : SubSeq(a, d + 1, n + 1)[i] = a[d + 1 + i - 1]
      BY <1>1, <1>5, <3>2, SubSeqProperties
    <3>4. \A i \in 1 .. n + 1 - d : d + 1 + i - 1 = i + d
      BY <1>1, <1>5
    <3> QED
      BY <1>1, <1>5, <3>1, <3>3, <3>4
  <2>2. CASE ~(n + 1 > 2 * BufferDepth)
    BY <1>0, <1>2, <1>5, <2>2 DEF Bounded
  <2> QED
    BY <2>1, <2>2
<1>7. snapshot_buffer' = c /\ render_time' = render_time /\ shown' = shown
  BY DEF Push
<1> HIDE DEF a, c, d
<1>8. \A i \in 1 .. n + 1 - d : i + d \in 1 .. n + 1
  BY <1>1, <1>5
<1>9. Increasing(c)
  <2> SUFFICES ASSUME NEW i \in 1 .. n + 1 - d, NEW j \in 1 .. n + 1 - d, i < j
               PROVE  c[i] < c[j]
    BY <1>6 DEF Increasing
  <2>1. i + d \in 1 .. n + 1 /\ j + d \in 1 .. n + 1 /\ i + d < j + d
    BY <1>0, <1>5
  <2> QED
    BY <1>2, <1>4, <1>6, <2>1 DEF Increasing
<1>10. ASSUME NEW v \in shown
       PROVE  /\ v \in Int /\ Len(c) >= 2 /\ v <= c[Len(c)]
              /\ v <= render_time - PlaybackDelay \/ v <= c[1]
  <2>1. /\ v \in Int /\ n >= 2 /\ v <= b[n]
        /\ v <= render_time - PlaybackDelay \/ v <= b[1]
    BY <1>10 DEF ShownInv, NewestSnapshot, OldestSnapshot, n
  <2>2. Len(c) >= 2
    BY <1>1, <1>5, <1>6, <2>1
  <2>3. c[Len(c)] = timestamp /\ b[n] < timestamp
    BY <1>1, <1>2, <1>3, <1>5, <1>6, <2>1, <2>2
  <2>4. c[1] = a[1 + d] /\ 1 + d \in 1 .. n /\ c[1] = b[1 + d] /\ b[1] <= b[1 + d]
    <3>1. c[1] = a[1 + d] /\ 1 + d \in 1 .. n
      BY <1>1, <1>5, <1>6, <2>1
    <3>2. b[1] <= b[1 + d]
      BY <1>1, <2>1, <3>1 DEF ShownInv, Increasing
    <3> QED
      BY <1>2, <3>1, <3>2
  <2>5. b[1] \in Int /\ b[1 + d] \in Int /\ b[n] \in Int
    BY <1>1, <2>1, <2>4
  <2>6. v <= c[Len(c)]
    BY <1>1, <2>1, <2>3, <2>5
  <2>7. v <= render_time - PlaybackDelay \/ v <= c[1]
    BY <2>1, <2>4, <2>5
  <2> QED
    BY <2>1, <2>2, <2>6, <2>7
<1>11. Len(c) <= 2 * BufferDepth /\ render_time \in Int
  BY <1>0, <1>5, <1>6 DEF ShownInv
<1> QED
  BY <1>6, <1>7, <1>9, <1>10, <1>11 DEF ShownInv, NewestSnapshot, OldestSnapshot

LEMMA SampleGoesOn ==
  ASSUME ShownInv, Sample
  PROVE  ShownInv' /\ \A before \in shown, after \in shown' : after >= before
<1> USE InterpolationAssumption
<1>1. PICK t \in RenderTimes :
        /\ t >= render_time /\ render_time' = t
        /\ shown' = IF Len(snapshot_buffer) < 2 THEN shown ELSE {Shown(t - PlaybackDelay)}
        /\ snapshot_buffer' = snapshot_buffer
  BY DEF Sample
<1>2. CASE Len(snapshot_buffer) < 2
  <2>1. shown = {}
    BY <1>2, LenProperties DEF ShownInv
  <2> QED
    BY <1>1, <1>2, <2>1 DEF ShownInv
<1>3. CASE ~(Len(snapshot_buffer) < 2)
  <2> DEFINE target == t - PlaybackDelay
             v == Shown(target)
  <2>1. /\ Len(snapshot_buffer) \in Nat /\ Len(snapshot_buffer) >= 2
        /\ OldestSnapshot \in Int /\ NewestSnapshot \in Int
        /\ OldestSnapshot < NewestSnapshot
    <3>1. Len(snapshot_buffer) \in Nat /\ Len(snapshot_buffer) >= 2
      BY <1>3, LenProperties DEF ShownInv
    <3>2. 1 \in 1 .. Len(snapshot_buffer)
          /\ Len(snapshot_buffer) \in 1 .. Len(snapshot_buffer)
      BY <3>1
    <3> QED
      BY <3>1, <3>2, ElementOfSeq
         DEF ShownInv, Increasing, OldestSnapshot, NewestSnapshot
  <2>2. t \in Int /\ target \in Int /\ render_time \in Int /\ PlaybackDelay \in Int
        /\ render_time - PlaybackDelay <= target
    BY <1>1 DEF ShownInv
  <2>3. Bracketed(target) <=> OldestSnapshot <= target /\ target <= NewestSnapshot
    BY <2>1, <2>2, BracketedBetween
  <2> HIDE DEF target
  <2>4. \/ OldestSnapshot <= target /\ target <= NewestSnapshot /\ v = target
        \/ target > NewestSnapshot /\ v = NewestSnapshot
        \/ target < OldestSnapshot /\ v = OldestSnapshot
    BY <2>1, <2>2, <2>3 DEF Shown
  <2>5. v \in Int /\ v <= NewestSnapshot /\ (v <= target \/ v <= OldestSnapshot)
    BY <2>1, <2>2, <2>4
  <2> HIDE DEF v
  <2>6. ASSUME NEW before \in shown PROVE v >= before
    <3>1. /\ before \in Int /\ before <= NewestSnapshot
          /\ before <= render_time - PlaybackDelay \/ before <= OldestSnapshot
      BY DEF ShownInv
    <3>2. before <= target \/ before <= OldestSnapshot
      BY <2>1, <2>2, <3>1
    <3> QED
      BY <2>1, <2>2, <2>4, <3>1, <3>2
  <2>7. shown' = {v}
    BY <1>1, <1>3 DEF target, v
  <2>8. ShownInv'
    BY <1>1, <2>1, <2>2, <2>5, <2>7 DEF ShownInv, OldestSnapshot, NewestSnapshot, target
  <2> QED
    BY <2>6, <2>7, <2>8
<1> QED
  BY <1>2, <1>3

LEMMA ShownInit ==
  ASSUME InterpolationInit
  PROVE  ShownInv
BY InterpolationAssumption, EmptySeq DEF InterpolationInit, ShownInv, Increasing

LEMMA ShownStep ==
  ASSUME ShownInv, [InterpolationNext]_interpolationVars
  PROVE  /\ ShownInv'
         /\ [\A before \in shown, after \in shown' : after >= before]_interpolationVars
<1> DEFINE A == \A before \in shown, after \in shown' : after >= before
<1>1. ASSUME NEW timestamp \in Timestamps, Push(timestamp) PROVE ShownInv' /\ A
  <2>1. A
    BY <1>1 DEF Push, ShownInv
  <2> QED
    BY <1>1, <2>1, PushKeepsShown
<1>2. CASE Sample
  BY <1>2, SampleGoesOn
<1>3. CASE Reset
  BY <1>3, EmptySeq, InterpolationAssumption DEF Reset, ShownInv, Increasing
<1>4. CASE UNCHANGED interpolationVars
  BY <1>4 DEF ShownInv, OldestSnapshot, NewestSnapshot, interpolationVars
<1> QED
  BY <1>1, <1>2, <1>3, <1>4 DEF InterpolationNext

\* What is shown never goes back in the server's time until the buffer is reset,
\* whatever the depth of the buffer and the playback delay, however late or repeated
\* the snapshots and however many were dropped since the last sample: push() and
\* sample() of SnapshotBuffer.
THEOREM ShownNeverGoesBack == InterpolationSpec => NeverShownBackwards
<1> DEFINE A == \A before \in shown, after \in shown' : after >= before
<1>1. InterpolationInit => ShownInv
  BY ShownInit
<1>2. ShownInv /\ [InterpolationNext]_interpolationVars
        => ShownInv' /\ [A]_interpolationVars
  BY ShownStep
<1> HIDE DEF A
<1>3. InterpolationSpec => [][A]_interpolationVars
  BY <1>1, <1>2, PTL DEF InterpolationSpec
<1> QED
  BY <1>3 DEF A, NeverShownBackwards
-----------------------------------------------------------------------------
(* The interval of the search (MtuDiscovery) *)

\* As long as nothing declared too large was answered, every size sent has its answer,
\* has timed out, or is the one being waited for, which halves the present interval.
SearchInv ==
  /\ MtuTypeOK
  /\ probed \subseteq MinMtu .. MaxMtu
  /\ last_probe_time # NeverProbed => current_probe \in probed
  /\ answered \cap too_large = {} =>
       /\ min_mtu <= current_probe /\ current_probe <= max_mtu
       /\ \A p \in answered : p <= min_mtu
       /\ \A p \in probed : p \in answered \cup too_large \cup {current_probe}
       /\ current_probe \in probed \ (answered \cup too_large)
            => current_probe = Midpoint(min_mtu, max_mtu)

\* Halving an interval, inverted or not, stays within it.
LEMMA MidpointBetween ==
  ASSUME NEW a \in Nat, NEW b \in Nat
  PROVE  /\ Midpoint(a, b) \in Nat
         /\ a <= b => a <= Midpoint(a, b) /\ Midpoint(a, b) <= b
         /\ b <= a => b <= Midpoint(a, b) /\ Midpoint(a, b) <= a
  BY DEF Midpoint

LEMMA SearchStep ==
  ASSUME SearchInv, [MtuNext]_mtuVars
  PROVE  SearchInv'
<1> USE MtuAssumption DEF NeverProbed
<1> DEFINE Calm == answered \cap too_large = {}
<1>1. /\ min_mtu \in MinMtu .. MaxMtu /\ max_mtu \in MinMtu .. MaxMtu
      /\ current_probe \in MinMtu .. MaxMtu /\ discovered_mtu \in MinMtu .. MaxMtu
  BY DEF SearchInv, MtuTypeOK
<1>2. CASE NextProbe
  <2>3. attempts \in Nat
    BY DEF SearchInv, MtuTypeOK
  <2>1. CASE UNCHANGED <<current_probe, last_probe_time, attempts, probed>>
             /\ complete' \in BOOLEAN
    BY <1>2, <2>1 DEF NextProbe, SearchInv, MtuTypeOK
  <2>2. CASE /\ current_probe' = Midpoint(min_mtu, max_mtu)
             /\ last_probe_time' = 0 /\ ~(attempts >= MaxAttempts)
             /\ attempts' = attempts + 1
             /\ probed' = probed \cup {current_probe'}
             /\ UNCHANGED complete
    <3>1. /\ current_probe' \in MinMtu .. MaxMtu
          /\ min_mtu <= max_mtu => min_mtu <= current_probe' /\ current_probe' <= max_mtu
      <4>1. min_mtu \in Nat /\ max_mtu \in Nat
        BY <1>1
      <4>2. /\ Midpoint(min_mtu, max_mtu) \in Nat
            /\ min_mtu <= max_mtu => /\ min_mtu <= Midpoint(min_mtu, max_mtu)
                                     /\ Midpoint(min_mtu, max_mtu) <= max_mtu
            /\ max_mtu <= min_mtu => /\ max_mtu <= Midpoint(min_mtu, max_mtu)
                                     /\ Midpoint(min_mtu, max_mtu) <= min_mtu
        BY <4>1, MidpointBetween
      <4> QED
        BY <1>1, <2>2, <4>2
    <3>2. UNCHANGED <<path_mtu, min_mtu, max_mtu, discovered_mtu, answered, too_large>>
          /\ ticking' = TRUE
      BY <1>2 DEF NextProbe
    <3>3. MtuTypeOK' /\ probed' \subseteq MinMtu .. MaxMtu /\ current_probe' \in probed'
      <4>1. attempts' \in 0 .. MaxAttempts /\ last_probe_time' \in 0 .. NeverProbed
        BY <2>2, <2>3
      <4>2. probed \subseteq probed' /\ current_probe' \in probed'
        BY <2>2
      <4>3. probed' \subseteq MinMtu .. MaxMtu
        BY <2>2, <3>1 DEF SearchInv
      <4> QED
        BY <1>1, <2>2, <3>1, <3>2, <4>1, <4>2, <4>3 DEF SearchInv, MtuTypeOK
    <3>4. ASSUME Calm'
          PROVE  /\ min_mtu' <= current_probe' /\ current_probe' <= max_mtu'
                 /\ \A p \in answered' : p <= min_mtu'
                 /\ \A p \in probed' : p \in answered' \cup too_large' \cup {current_probe'}
                 /\ current_probe' = Midpoint(min_mtu', max_mtu')
      BY <1>1, <2>2, <3>1, <3>2, <3>4 DEF SearchInv
    <3> QED
      BY <3>3, <3>4 DEF SearchInv
  <2>4. complete \in BOOLEAN
    BY DEF SearchInv, MtuTypeOK
  <2> QED
    BY <1>2, <2>1, <2>2, <2>4, Zenon DEF NextProbe
<1>3. CASE CheckProbeTimeout
  <2>1. CASE UNCHANGED <<max_mtu, too_large>>
    BY <1>3, <2>1 DEF CheckProbeTimeout, SearchInv, MtuTypeOK
  <2>2. CASE /\ last_probe_time = ProbeTimeout
             /\ max_mtu' = current_probe
             /\ too_large' = too_large \cup {current_probe}
    <3>1. current_probe \in probed
      BY <2>2 DEF SearchInv
    <3>2. UNCHANGED <<path_mtu, min_mtu, current_probe, discovered_mtu, complete,
                      last_probe_time, attempts, probed, answered>> /\ ticking' = FALSE
      BY <1>3 DEF CheckProbeTimeout
    <3>3. MtuTypeOK'
      BY <1>1, <2>2, <3>1, <3>2 DEF SearchInv, MtuTypeOK
    <3> QED
      BY <1>1, <2>2, <3>2, <3>3 DEF SearchInv
  <2> QED
    BY <1>3, <2>1, <2>2 DEF CheckProbeTimeout
<1>4. ASSUME NEW size \in probed, OnProbeSuccess(size) PROVE SearchInv'
  <2>1. /\ UNCHANGED <<path_mtu, max_mtu, current_probe, complete, last_probe_time,
                       attempts, ticking, probed, too_large>>
        /\ answered' = answered \cup {size}
        /\ size \in MinMtu .. MaxMtu
        /\ IF size >= min_mtu
           THEN discovered_mtu' = size /\ min_mtu' = size
           ELSE UNCHANGED <<discovered_mtu, min_mtu>>
    BY <1>4 DEF OnProbeSuccess, SearchInv
  <2>2. MtuTypeOK'
    BY <1>1, <1>4, <2>1 DEF SearchInv, MtuTypeOK
  <2>3. ASSUME Calm'
        PROVE  /\ min_mtu' <= current_probe /\ current_probe <= max_mtu
               /\ \A p \in answered' : p <= min_mtu'
               /\ \A p \in probed : p \in answered' \cup too_large \cup {current_probe}
               /\ current_probe \in probed \ (answered' \cup too_large)
                    => current_probe = Midpoint(min_mtu', max_mtu)
    <3>1. Calm /\ size \notin too_large
      BY <2>1, <2>3
    <3>2. size \in answered \/ size = current_probe
      BY <3>1 DEF SearchInv
    <3>3. \A p \in answered : p <= min_mtu /\ p \in Nat
      BY <1>1, <3>1 DEF SearchInv, MtuTypeOK
    <3>4. CASE size = current_probe
      BY <1>1, <2>1, <3>1, <3>3, <3>4 DEF SearchInv
    <3>5. CASE size \in answered
      <4>1. min_mtu' = min_mtu /\ answered' = answered
        BY <1>1, <2>1, <3>3, <3>5
      <4> QED
        BY <3>1, <4>1 DEF SearchInv
    <3> QED
      BY <3>2, <3>4, <3>5
  <2> QED
    BY <2>1, <2>2, <2>3 DEF SearchInv
<1>5. CASE MtuTick
  <2>1. last_probe_time' \in 0 .. NeverProbed /\ last_probe_time # NeverProbed
    BY <1>5 DEF MtuTick, SearchInv, MtuTypeOK
  <2> QED
    BY <1>5, <2>1 DEF MtuTick, SearchInv, MtuTypeOK
<1>6. CASE UNCHANGED mtuVars
  BY <1>6 DEF mtuVars, SearchInv, MtuTypeOK
<1> QED
  BY <1>2, <1>3, <1>4, <1>5, <1>6 DEF MtuNext

LEMMA SearchInvariance == MtuSpec => []SearchInv
<1>1. MtuInit => SearchInv
  <2> SUFFICES ASSUME MtuInit PROVE SearchInv
    OBVIOUS
  <2>1. /\ Midpoint(MinMtu, MaxMtu) \in Nat
        /\ MinMtu <= Midpoint(MinMtu, MaxMtu) /\ Midpoint(MinMtu, MaxMtu) <= MaxMtu
    BY MtuAssumption, MidpointBetween
  <2>2. MtuTypeOK
    <3>1. {min_mtu, max_mtu, current_probe, discovered_mtu} \subseteq MinMtu .. MaxMtu
      BY <2>1, MtuAssumption DEF MtuInit
    <3>2. last_probe_time \in 0 .. NeverProbed /\ attempts \in 0 .. MaxAttempts
      BY MtuAssumption DEF MtuInit, NeverProbed
    <3> QED
      BY <3>1, <3>2 DEF MtuInit, MtuTypeOK
  <2> QED
    BY <2>1, <2>2, MtuAssumption DEF MtuInit, SearchInv
<1> QED
  BY <1>1, SearchStep, PTL DEF MtuSpec

\* The two ends of the search, the probe and the size it settles on stay within the
\* limits it was given, even when late answers turn the interval around.
THEOREM SearchWithinLimits == MtuSpec => []MtuTypeOK
<1>1. SearchInv => MtuTypeOK
  BY DEF SearchInv
<1> QED
  BY <1>1, SearchInvariance, PTL

\* next_probe() subtracts min_mtu from max_mtu without looking: that is sound unless a
\* size that was declared too large is answered after all, for every path, timeout and
\* threshold, and however late and often the other answers come.
THEOREM IntervalStaysOrdered == MtuSpec => []IntervalOrdered
<1>1. SearchInv => IntervalOrdered
  BY MtuAssumption DEF SearchInv, IntervalOrdered, MtuTypeOK
<1> QED
  BY <1>1, SearchInvariance, PTL
-----------------------------------------------------------------------------
(* The token bucket of the simulator (Simulator) *)

SimulatorSpec == SimulatorInit /\ [][SimulatorNext]_simulatorVars

\* What passed lately and what may pass at once are bounded together: every byte that
\* passes was in the bucket, and a tick adds the rate to it.
BucketInv ==
  /\ rate \in Nat
  /\ token_bucket_tokens \in 0 .. BucketSize
  /\ last_token_refill \in 0 .. Second
  /\ passed \in [1 .. HistoryLength -> Nat]
  /\ \A ticks \in 1 .. HistoryLength :
       rate > 0 => Refilled + passed[ticks] <= BucketSize + rate * (ticks - 1)

LEMMA BucketTypes ==
  ASSUME BucketInv
  PROVE  /\ BucketSize \in Nat /\ HistoryLength \in Nat
         /\ last_token_refill * rate \in Nat
         /\ Refilled \in 0 .. BucketSize
<1>1. rate \in Nat /\ Second \in Nat /\ last_token_refill \in Nat
      /\ token_bucket_tokens \in Nat
  BY SimulatorAssumption DEF BucketInv
<1>2. BucketSize \in Nat /\ HistoryLength \in Nat /\ last_token_refill * rate \in Nat
  BY <1>1 DEF BucketSize, HistoryLength
<1> QED
  BY <1>1, <1>2 DEF Refilled, AtMostFull

\* A packet takes from the bucket what it adds to what passed.
LEMMA BucketSend ==
  ASSUME BucketInv, NEW size \in PacketSizes, OverBandwidth(size) \/ WithinLimit(size),
         rate' = rate
  PROVE  BucketInv'
<1>1. /\ BucketSize \in Nat /\ Refilled \in 0 .. BucketSize /\ size \in Nat
      /\ rate \in Nat /\ Second \in Nat /\ BucketSize' = BucketSize
  BY BucketTypes, SimulatorAssumption DEF BucketInv, BucketSize
<1>2. PICK taken \in Nat :
        /\ taken <= Refilled /\ token_bucket_tokens' = Refilled - taken
        /\ last_token_refill' = 0
        /\ DOMAIN passed' = 1 .. HistoryLength
        /\ passed' = [ticks \in 1 .. HistoryLength |-> passed[ticks] + taken]
  <2>1. CASE OverBandwidth(size)
    <3>1. Refilled - 0 = Refilled /\ \A ticks \in 1 .. HistoryLength : passed[ticks] + 0 = passed[ticks]
      BY <1>1 DEF BucketInv
    <3>2. passed' = [ticks \in 1 .. HistoryLength |-> passed[ticks] + 0]
      BY <2>1, <3>1 DEF OverBandwidth, BucketInv
    <3>3. token_bucket_tokens' = Refilled - 0 /\ last_token_refill' = 0 /\ 0 <= Refilled
      BY <1>1, <2>1, <3>1 DEF OverBandwidth, RefillNoted
    <3> QED
      BY <3>2, <3>3
  <2>2. CASE WithinLimit(size)
    BY <1>1, <2>2 DEF WithinLimit, RefillNoted
  <2> QED
    BY <2>1, <2>2
<1>3. token_bucket_tokens' \in 0 .. BucketSize /\ 0 * rate = 0
  BY <1>1, <1>2
<1>4. Refilled' = Refilled - taken
  BY <1>1, <1>2, <1>3 DEF Refilled, AtMostFull
<1>5. \A ticks \in 1 .. HistoryLength :
        passed[ticks] \in Nat /\ passed'[ticks] = passed[ticks] + taken
  BY <1>2 DEF BucketInv
<1>6. passed' \in [1 .. HistoryLength -> Nat]
  BY <1>2, <1>5
<1>7. ASSUME NEW ticks \in 1 .. HistoryLength, rate > 0
      PROVE  Refilled' + passed'[ticks] <= BucketSize + rate * (ticks - 1)
  <2>1. Refilled + passed[ticks] <= BucketSize + rate * (ticks - 1)
    BY <1>7 DEF BucketInv
  <2> QED
    BY <1>1, <1>2, <1>4, <1>5, <2>1
<1>8. HistoryLength' = HistoryLength /\ 0 \in 0 .. Second
  BY <1>1 DEF HistoryLength
<1> QED
  BY <1>1, <1>2, <1>3, <1>6, <1>7, <1>8 DEF BucketInv

LEMMA BucketTick ==
  ASSUME BucketInv, SimulatorTick
  PROVE  BucketInv'
<1>1. /\ BucketSize \in Nat /\ HistoryLength \in Nat /\ Refilled \in 0 .. BucketSize
      /\ rate \in Nat /\ Second \in Nat /\ BucketSize' = BucketSize
      /\ rate' = rate /\ token_bucket_tokens' = token_bucket_tokens
      /\ token_bucket_tokens \in 0 .. BucketSize
      /\ last_token_refill \in Nat /\ last_token_refill <= Second
      /\ HistoryLength' = HistoryLength
  BY BucketTypes, SimulatorAssumption DEF BucketInv, BucketSize, SimulatorTick, HistoryLength
<1>2. last_token_refill' \in 0 .. Second
  BY <1>1 DEF SimulatorTick
<1>3. Refilled' \in 0 .. BucketSize /\ Refilled' <= Refilled + rate
  <2> DEFINE extra == last_token_refill * rate
  <2>1. extra \in Nat
    BY <1>1
  <2>2. CASE last_token_refill < Second
    <3>1. last_token_refill' * rate = extra + rate
      BY <1>1, <2>2 DEF SimulatorTick
    <3> HIDE DEF extra
    <3> QED
      BY <1>1, <2>1, <3>1 DEF Refilled, AtMostFull, extra
  <2>3. CASE ~(last_token_refill < Second)
    <3>1. last_token_refill' = last_token_refill
      BY <2>3 DEF SimulatorTick
    <3> QED
      BY <1>1, <3>1 DEF Refilled, AtMostFull
  <2> QED
    BY <2>2, <2>3
<1>4. /\ \A ticks \in 1 .. HistoryLength :
           passed'[ticks] = IF ticks = 1 THEN 0 ELSE passed[ticks - 1]
      /\ passed' \in [1 .. HistoryLength -> Nat]
  BY <1>1 DEF SimulatorTick, BucketInv
<1>5. ASSUME NEW ticks \in 1 .. HistoryLength, rate > 0
      PROVE  Refilled' + passed'[ticks] <= BucketSize + rate * (ticks - 1)
  <2>1. CASE ticks = 1
    <3>1. rate * (ticks - 1) = 0 /\ passed'[ticks] = 0
      BY <1>1, <1>4, <2>1
    <3>2. Refilled' \in Nat /\ BucketSize \in Nat /\ Refilled' <= BucketSize
      BY <1>1, <1>3
    <3> QED
      BY <3>1, <3>2
  <2>2. CASE ticks # 1
    <3>1. ticks - 1 \in 1 .. HistoryLength /\ ticks \in Nat
      BY <1>1, <2>2
    <3>2. /\ Refilled + passed[ticks - 1] <= BucketSize + rate * ((ticks - 1) - 1)
          /\ passed'[ticks] = passed[ticks - 1] /\ passed[ticks - 1] \in Nat
      BY <1>4, <1>5, <2>2, <3>1 DEF BucketInv
    <3>3. rate * (ticks - 1) = rate * ((ticks - 1) - 1) + rate
          /\ rate * ((ticks - 1) - 1) \in Int
      BY <1>1, <3>1
    <3> QED
      BY <1>1, <1>3, <3>2, <3>3
  <2> QED
    BY <2>1, <2>2
<1> QED
  BY <1>1, <1>2, <1>4, <1>5 DEF BucketInv

LEMMA BucketInit ==
  ASSUME SimulatorInit
  PROVE  BucketInv
<1>1. rate \in Nat /\ Second \in Nat /\ BucketSize \in Nat /\ HistoryLength \in Nat
  BY SimulatorAssumption DEF SimulatorInit, BucketSize, HistoryLength
<1>2. 0 * rate = 0
  BY <1>1
<1>3. Refilled = 0
  BY <1>1, <1>2 DEF SimulatorInit, Refilled, AtMostFull
<1>4. \A ticks \in 1 .. HistoryLength : passed[ticks] = 0 /\ rate * (ticks - 1) \in Nat
  BY <1>1 DEF SimulatorInit
<1>5. passed \in [1 .. HistoryLength -> Nat]
  BY DEF SimulatorInit
<1> QED
  BY <1>1, <1>3, <1>4, <1>5 DEF BucketInv, SimulatorInit

LEMMA BucketStep ==
  ASSUME BucketInv, [SimulatorNext]_simulatorVars
  PROVE  BucketInv'
<1>1. CASE UNCHANGED <<rate, token_bucket_tokens, last_token_refill, passed>>
  BY <1>1 DEF BucketInv, BucketSize, Refilled, AtMostFull, HistoryLength
<1>2. CASE SimulatorTick
  BY <1>2, BucketTick
<1>3. ASSUME NEW size \in PacketSizes, ProcessSend(size) PROVE BucketInv'
  BY <1>1, <1>3, BucketSend DEF ProcessSend, LosePacket, Unlimited
<1> QED
  BY <1>1, <1>2, <1>3 DEF SimulatorNext, ReceiveReady, simulatorVars

\* The simulated network never passes more in any stretch of ticks than a full bucket
\* and what is refilled meanwhile, for every rate, every pattern of packets and
\* whenever refill_tokens() is called.
THEOREM BandwidthKept == SimulatorSpec => []WithinBandwidth
<1>1. SimulatorInit => BucketInv
  BY BucketInit
<1>2. BucketInv /\ [SimulatorNext]_simulatorVars => BucketInv'
  BY BucketStep
<1>3. BucketInv => WithinBandwidth
  <2> SUFFICES ASSUME BucketInv, NEW ticks \in 1 .. HistoryLength, rate > 0
               PROVE  passed[ticks] <= BucketSize + rate * (ticks - 1)
    BY DEF WithinBandwidth
  <2>1. rate * (ticks - 1) \in Nat /\ passed[ticks] \in Nat
    BY BucketTypes DEF BucketInv
  <2>2. Refilled \in Nat /\ BucketSize \in Nat
        /\ Refilled + passed[ticks] <= BucketSize + rate * (ticks - 1)
    BY BucketTypes DEF BucketInv
  <2> QED
    BY <2>1, <2>2
<1> QED
  BY <1>1, <1>2, <1>3, PTL DEF SimulatorSpec
-----------------------------------------------------------------------------
(* The two modes (Congestion) *)

\* Conditions have been good at least as long as the controller believes.
CalmInv ==
  /\ CongestionTypeOK
  /\ good_conditions_start # Never => good_conditions_start <= calm

Shortest == AtMost(MinRecovery, recovery_time)
Longest == AtLeast(MaxRecovery, recovery_time)

LEMMA RecoveryLimits ==
  ASSUME recovery_time \in RecoveryTimes
  PROVE  /\ Shortest \in Nat /\ Longest \in Nat /\ recovery_time \in Shortest .. Longest
         /\ Shortest <= MinRecovery /\ MinRecovery <= Longest
         /\ Shortest <= MaxRecovery /\ MaxRecovery <= Longest
  BY CongestionAssumption DEF Shortest, Longest, AtMost, AtLeast

\* However often it is halved.
LEMMA HalvingsWithin ==
  ASSUME recovery_time \in RecoveryTimes, NEW t \in Shortest .. Longest,
         NEW n \in Nat, NEW h \in Halvings(t, n), NEW i \in 0 .. n
  PROVE  h[i] \in Shortest .. Longest
<1>1. Shortest \in Nat /\ Longest \in Nat /\ MinRecovery \in Shortest .. Longest
  BY RecoveryLimits, CongestionAssumption
<1>2. /\ h[0] = t
      /\ \A j \in 1 .. n : h[j] = AtLeast(MinRecovery, h[j - 1] \div 2)
      /\ \A j \in 0 .. n : h[j] \in Nat
  BY CongestionAssumption DEF Halvings
<1> DEFINE outside == {j \in 0 .. n : h[j] \notin Shortest .. Longest}
<1> SUFFICES ASSUME i \in outside PROVE FALSE
  OBVIOUS
<1>3. PICK j \in outside : \A k \in outside : j <= k
  <2>1. outside \in SUBSET Nat /\ outside # {}
    OBVIOUS
  <2> HIDE DEF outside
  <2> QED
    BY <2>1, FirstOf
<1>4. j \in 1 .. n /\ j - 1 \in 0 .. n /\ j - 1 < j
  BY <1>2, <1>3
<1>5. h[j - 1] \in Shortest .. Longest
  BY <1>3, <1>4
<1>6. h[j] = AtLeast(MinRecovery, h[j - 1] \div 2) /\ h[j - 1] \in Nat
  BY <1>2, <1>4
<1>7. h[j - 1] \div 2 \in Nat /\ h[j - 1] \div 2 <= h[j - 1]
  BY <1>6
<1>8. h[j] \in Shortest .. Longest
  BY <1>1, <1>5, <1>6, <1>7 DEF AtLeast
<1> QED
  BY <1>3, <1>8

LEMMA CalmStep ==
  ASSUME CalmInv, [CongestionNext]_congestionVars
  PROVE  /\ CalmInv'
         /\ mode = "Bad" /\ mode' = "Good" => calm >= adaptive_recovery_secs
<1> DEFINE Promise == mode = "Bad" /\ mode' = "Good" => calm >= adaptive_recovery_secs
<1>1. /\ Shortest \in Nat /\ Longest \in Nat
      /\ Shortest <= MinRecovery /\ MinRecovery <= Longest
      /\ Shortest <= MaxRecovery /\ MaxRecovery <= Longest
      /\ adaptive_recovery_secs \in Shortest .. Longest
      /\ MaxAge \in Nat /\ MaxRecovery \in Nat
  BY RecoveryLimits, CongestionAssumption DEF CalmInv, CongestionTypeOK, Shortest, Longest
<1>2. /\ good_conditions_start \in Nat /\ good_conditions_start <= MaxAge + 1
      /\ calm \in Nat /\ calm <= MaxAge + 1
      /\ last_good_entry \in Nat /\ last_good_entry <= MaxAge + 1
      /\ recovery_time \in RecoveryTimes /\ mode \in {"Good", "Bad"}
      /\ mode = "Good" => good_conditions_start = MaxAge + 1
      /\ good_conditions_start # MaxAge + 1 => good_conditions_start <= calm
  BY <1>1 DEF CalmInv, CongestionTypeOK, Never
<1>3. ASSUME NEW is_bad \in BOOLEAN, Update(is_bad) PROVE CalmInv' /\ Promise
  <2>1. /\ calm' = (IF is_bad THEN 0 ELSE calm) /\ recovery_time' = recovery_time
        /\ Shortest' = Shortest /\ Longest' = Longest
    BY <1>3 DEF Update, Shortest, Longest
  <2>2. CASE mode = "Good" /\ is_bad /\ EnterBad
    <3>1. adaptive_recovery_secs' \in Shortest .. Longest
      BY <1>1, <2>2 DEF EnterBad, Doubled, AtMost
    <3> QED
      BY <1>1, <1>2, <2>1, <2>2, <3>1
         DEF EnterBad, CalmInv, CongestionTypeOK, Never, Shortest, Longest
  <2>3. CASE mode = "Good" /\ ~is_bad /\ StayGood
    <3> DEFINE intervals == IF last_good_entry = Never THEN 0
                            ELSE last_good_entry \div HalveInterval
    <3>1. intervals \in Nat
      BY <1>2, CongestionAssumption DEF Never
    <3>2. adaptive_recovery_secs' \in Shortest .. Longest /\ last_good_entry' \in 0 .. MaxAge + 1
      <4>1. CASE intervals > 0
        <5>1. PICK h \in Halvings(adaptive_recovery_secs, intervals) :
                adaptive_recovery_secs' = h[intervals]
          BY <2>3, <4>1 DEF StayGood
        <5>2. intervals \in 0 .. intervals /\ last_good_entry' = 0
          BY <2>3, <3>1, <4>1 DEF StayGood
        <5> HIDE DEF intervals
        <5>3. h[intervals] \in Shortest .. Longest
          BY <1>1, <1>2, <3>1, <5>2, HalvingsWithin
        <5> QED
          BY <1>1, <5>1, <5>2, <5>3
      <4>2. CASE ~(intervals > 0)
        BY <1>1, <1>2, <2>3, <4>2 DEF StayGood
      <4> QED
        BY <4>1, <4>2
    <3> HIDE DEF intervals
    <3>3. UNCHANGED <<mode, good_conditions_start>>
      BY <2>3 DEF StayGood
    <3> QED
      BY <1>1, <1>2, <2>1, <2>3, <3>2, <3>3
         DEF CalmInv, CongestionTypeOK, Never, Shortest, Longest
  <2>4. CASE mode = "Bad" /\ is_bad /\ StayBad
    BY <1>1, <1>2, <2>1, <2>4
       DEF StayBad, Interrupted, CalmInv, CongestionTypeOK, Never, Shortest, Longest
  <2>5. CASE mode = "Bad" /\ ~is_bad /\ Recover
    <3>1. CASE Recovered
      <4>1. calm >= adaptive_recovery_secs
        BY <1>1, <1>2, <3>1 DEF Recovered, Never
      <4> QED
        BY <1>1, <1>2, <2>1, <2>5, <3>1, <4>1
           DEF Recover, CalmInv, CongestionTypeOK, Never, Shortest, Longest
    <3>2. CASE ~Recovered
      BY <1>1, <1>2, <2>1, <2>5, <3>2
         DEF Recover, CalmInv, CongestionTypeOK, Never, Shortest, Longest
    <3> QED
      BY <3>1, <3>2
  <2> QED
    BY <1>3, <2>2, <2>3, <2>4, <2>5 DEF Update
<1>4. CASE CongestionTick
  <2>1. /\ good_conditions_start' = NextAge(good_conditions_start)
        /\ last_good_entry' = NextAge(last_good_entry) /\ calm' = NextAge(calm)
        /\ UNCHANGED <<recovery_time, mode, adaptive_recovery_secs>>
        /\ Shortest' = Shortest /\ Longest' = Longest
    BY <1>4 DEF CongestionTick, Shortest, Longest
  <2>2. /\ good_conditions_start' \in 0 .. Never /\ last_good_entry' \in 0 .. Never
        /\ calm' \in 0 .. Never
        /\ mode' = "Good" => good_conditions_start' = Never
        /\ good_conditions_start' # Never => good_conditions_start' <= calm'
    BY <1>1, <1>2, <2>1 DEF NextAge, Never
  <2> QED
    BY <1>1, <1>2, <2>1, <2>2 DEF CalmInv, CongestionTypeOK, Shortest, Longest, Never
<1>5. CASE UNCHANGED congestionVars
  BY <1>5 DEF congestionVars, CalmInv, CongestionTypeOK, Never
<1> QED
  BY <1>3, <1>4, <1>5 DEF CongestionNext

LEMMA CalmInit ==
  ASSUME CongestionInit
  PROVE  CalmInv
  BY RecoveryLimits, CongestionAssumption
     DEF CongestionInit, CalmInv, CongestionTypeOK, Never, Shortest, Longest

\* The time the controller waits before it trusts the network again stays within its
\* limits, or the configured time, however often it doubles on a relapse and halves in
\* good times: update().
THEOREM RecoveryTimeBounded == CongestionSpec => []CongestionTypeOK
<1>1. CalmInv => CongestionTypeOK
  BY DEF CalmInv
<1> QED
  BY <1>1, CalmInit, CalmStep, PTL DEF CongestionSpec

\* The controller returns to the full rate only after the whole recovery time without
\* one bad measurement, whatever the limits, and whenever update() is called: good
\* spells that a bad one interrupts do not add up.
THEOREM FullRateOnlyAfterCalm == CongestionSpec => GoodOnlyAfterCalm
<1> DEFINE A == mode = "Bad" /\ mode' = "Good" => calm >= adaptive_recovery_secs
<1>1. CalmInv /\ [CongestionNext]_congestionVars => [A]_congestionVars
  BY CalmStep
<1> HIDE DEF A
<1>2. CongestionSpec => [][A]_congestionVars
  BY <1>1, CalmInit, CalmStep, PTL DEF CongestionSpec
<1> QED
  BY <1>2 DEF A, GoodOnlyAfterCalm
-----------------------------------------------------------------------------
(* Sequences that lose their front, or one element *)

LEMMA SuffixIs ==
  ASSUME NEW S, NEW s \in Seq(S), NEW first \in 1 .. Len(s) + 1
  PROVE  LET rest == SubSeq(s, first, Len(s))
         IN  /\ rest \in Seq(S) /\ Len(rest) = Len(s) - first + 1
             /\ \A i \in 1 .. Len(s) - first + 1 :
                  i + first - 1 \in first .. Len(s) /\ rest[i] = s[i + first - 1]
<1> DEFINE n == Len(s)
           rest == SubSeq(s, first, n)
<1>1. n \in Nat /\ first \in Nat /\ 1 <= first /\ first <= n + 1
  BY LenProperties
<1>2. \A i \in first .. n : s[i] \in S
  BY <1>1, ElementOfSeq
<1>3. /\ rest \in Seq(S) /\ Len(rest) = (IF first <= n THEN n - first + 1 ELSE 0)
      /\ \A i \in 1 .. n - first + 1 : rest[i] = s[first + i - 1]
  BY <1>1, <1>2, SubSeqProperties
<1> HIDE DEF n, rest
<1>4. Len(rest) = n - first + 1
  BY <1>1, <1>3
<1>5. \A i \in 1 .. n - first + 1 : /\ first + i - 1 = i + first - 1
                                    /\ i + first - 1 \in first .. n
  BY <1>1
<1> QED
  BY <1>3, <1>4, <1>5 DEF n, rest

\* The end of an end is an end.
LEMMA SuffixOfSuffix ==
  ASSUME NEW S, NEW s \in Seq(S), NEW f \in 1 .. Len(s) + 1, NEW m \in 1 .. Len(s) - f + 2
  PROVE  SubSeq(SubSeq(s, f, Len(s)), m, Len(SubSeq(s, f, Len(s))))
           = SubSeq(s, m + f - 1, Len(s))
<1> DEFINE n == Len(s)
           t == SubSeq(s, f, n)
           l == Len(t)
           first == m + f - 1
           a == SubSeq(t, m, l)
           b == SubSeq(s, first, n)
<1>1. n \in Nat /\ f \in 1 .. n + 1 /\ m \in 1 .. n - f + 2
  BY LenProperties
<1>2. /\ t \in Seq(S) /\ l = n - f + 1
      /\ \A i \in 1 .. n - f + 1 : t[i] = s[i + f - 1]
  BY <1>1, SuffixIs
<1>3. m \in 1 .. l + 1 /\ first \in 1 .. n + 1 /\ l - m + 1 = n - first + 1
  BY <1>1, <1>2
<1> HIDE DEF t, l
<1>4. /\ a \in Seq(S) /\ Len(a) = l - m + 1
      /\ \A i \in 1 .. l - m + 1 : i + m - 1 \in m .. l /\ a[i] = t[i + m - 1]
  BY <1>2, <1>3, SuffixIs DEF l
<1>5. /\ b \in Seq(S) /\ Len(b) = n - first + 1
      /\ \A i \in 1 .. n - first + 1 : b[i] = s[i + first - 1]
  BY <1>3, SuffixIs
<1>6. \A i \in 1 .. Len(a) : a[i] = b[i]
  <2> TAKE i \in 1 .. Len(a)
  <2>1. i \in 1 .. l - m + 1 /\ i \in 1 .. n - first + 1 /\ i + m - 1 \in m .. l
    BY <1>3, <1>4
  <2>2. i + m - 1 \in 1 .. n - f + 1 /\ i + m - 1 + f - 1 = i + first - 1
    BY <1>1, <1>2, <2>1
  <2> QED
    BY <1>2, <1>4, <1>5, <2>1, <2>2
<1>7. Len(a) = Len(b)
  BY <1>3, <1>4, <1>5
<1> HIDE DEF a, b
<1>8. a = b
  BY <1>4, <1>5, <1>6, <1>7, SeqEqual
<1> QED
  BY <1>8 DEF a, b, t, l

LEMMA RemovedAt ==
  ASSUME NEW S, NEW s \in Seq(S), NEW i \in 1 .. Len(s)
  PROVE  LET rest == RemoveAt(s, i)
         IN  /\ rest \in Seq(S) /\ Len(rest) = Len(s) - 1
             /\ \A j \in 1 .. Len(s) - 1 : rest[j] = IF j < i THEN s[j] ELSE s[j + 1]
<1> DEFINE n == Len(s)
           front == SubSeq(s, 1, i - 1)
           back == SubSeq(s, i + 1, n)
<1>1. n \in Nat /\ i \in Nat /\ 1 <= i /\ i <= n
  BY LenProperties
<1>2. (\A j \in 1 .. i - 1 : s[j] \in S) /\ (\A j \in i + 1 .. n : s[j] \in S)
  BY <1>1, ElementOfSeq
<1>3. /\ front \in Seq(S) /\ Len(front) = (IF 1 <= i - 1 THEN i - 1 - 1 + 1 ELSE 0)
      /\ \A j \in 1 .. i - 1 - 1 + 1 : front[j] = s[1 + j - 1]
  BY <1>1, <1>2, SubSeqProperties
<1>4. /\ back \in Seq(S) /\ Len(back) = (IF i + 1 <= n THEN n - (i + 1) + 1 ELSE 0)
      /\ \A j \in 1 .. n - (i + 1) + 1 : back[j] = s[i + 1 + j - 1]
  BY <1>1, <1>2, SubSeqProperties
<1> HIDE DEF n, front, back
<1>5. Len(front) = i - 1 /\ Len(back) = n - i
      /\ (\A j \in 1 .. i - 1 : front[j] = s[j])
      /\ (\A j \in 1 .. n - i : back[j] = s[i + j])
  <2>1. /\ i - 1 - 1 + 1 = i - 1 /\ n - (i + 1) + 1 = n - i
        /\ \A j \in 1 .. n : 1 + j - 1 = j /\ i + 1 + j - 1 = i + j
        /\ 1 .. i - 1 \subseteq 1 .. n /\ 1 .. n - i \subseteq 1 .. n
    BY <1>1
  <2> QED
    BY <1>1, <1>3, <1>4, <2>1
<1>6. /\ front \o back \in Seq(S) /\ Len(front \o back) = Len(front) + Len(back)
      /\ \A j \in 1 .. Len(front) + Len(back) :
           (front \o back)[j] = IF j <= Len(front) THEN front[j] ELSE back[j - Len(front)]
  BY <1>3, <1>4, ConcatProperties
<1>7. RemoveAt(s, i) = front \o back
  BY DEF RemoveAt, front, back, n
<1>8. Len(front) + Len(back) = n - 1
  BY <1>1, <1>5
<1>9. ASSUME NEW j \in 1 .. n - 1
      PROVE  (front \o back)[j] = IF j < i THEN s[j] ELSE s[j + 1]
  <2>1. CASE j < i
    BY <1>1, <1>5, <1>6, <1>8, <2>1
  <2>2. CASE ~(j < i)
    <3>1. j - (i - 1) \in 1 .. n - i /\ i + (j - (i - 1)) = j + 1 /\ ~(j <= i - 1)
      BY <1>1, <2>2
    <3> QED
      BY <1>1, <1>5, <1>6, <1>8, <2>2, <3>1
  <2> QED
    BY <2>1, <2>2
<1> QED
  BY <1>6, <1>7, <1>8, <1>9 DEF n

-----------------------------------------------------------------------------
(* The order of the numbers (Delta) *)

LEMMA NumberIs ==
  ASSUME NEW r \in Ranks
  PROVE  /\ NumberOf(r) \in Numbering
         /\ \/ NumberOf(r) = FirstSeq + r - 1
            \/ NumberOf(r) = FirstSeq + r - 1 - (NO_BASELINE + 1)
<1> DEFINE m == NO_BASELINE + 1
           x == FirstSeq + r - 1
<1>1. /\ Len(Contents) \in Nat /\ 2 * Len(Contents) < NO_BASELINE
      /\ NO_BASELINE \in Nat /\ FirstSeq \in 0 .. NO_BASELINE
      /\ r \in Nat /\ 1 <= r /\ r <= Len(Contents)
  BY DeltaAssumption, LenProperties DEF Ranks
<1>2. m \in Nat /\ x \in Nat /\ x < 2 * m /\ m - 1 = NO_BASELINE
  BY <1>1
<1> HIDE DEF m, x
<1>3. x < m => x % m = x
  BY <1>2
<1>4. m <= x => x % m = x - m
  BY <1>2
<1>5. NumberOf(r) = x % m
  BY DEF NumberOf, m, x
<1>6. x < m \/ m <= x
  BY <1>2
<1>7. NumberOf(r) \in 0 .. NO_BASELINE
  BY <1>2, <1>3, <1>4, <1>5, <1>6
<1> QED
  <2>1. NumberOf(r) = x \/ NumberOf(r) = x - m
    BY <1>3, <1>4, <1>5, <1>6
  <2> QED
    BY <1>1, <1>2, <1>7, <2>1 DEF m, x, Numbering

\* The numbers of the states compare as the states do, across the wrap-around.
LEMMA NumbersOrdered ==
  ASSUME NEW r \in Ranks, NEW s \in Ranks
  PROVE  /\ Before(NumberOf(r), NumberOf(s)) <=> r < s
         /\ NumberOf(r) = NumberOf(s) => r = s
<1> DEFINE m == NO_BASELINE + 1
           a == NumberOf(r)
           b == NumberOf(s)
           d == s - r
           y == b + NO_BASELINE + 1 - a
<1>1. /\ Len(Contents) \in Nat /\ 2 * Len(Contents) < NO_BASELINE
      /\ NO_BASELINE \in Nat /\ FirstSeq \in Nat
      /\ r \in Nat /\ 1 <= r /\ r <= Len(Contents)
      /\ s \in Nat /\ 1 <= s /\ s <= Len(Contents)
  BY DeltaAssumption, LenProperties DEF Ranks
<1>2. /\ a \in Nat /\ a < m /\ b \in Nat /\ b < m /\ m \in Nat
      /\ m = NO_BASELINE + 1 /\ d = s - r /\ y = b + NO_BASELINE + 1 - a
      /\ a = FirstSeq + r - 1 \/ a = FirstSeq + r - 1 - m
      /\ b = FirstSeq + s - 1 \/ b = FirstSeq + s - 1 - m
  BY <1>1, NumberIs DEF Numbering
<1>3. Before(a, b) <=> 0 < y % m /\ 2 * (y % m) < m
  BY DEF Before
<1> HIDE DEF a, b, d, y, m
<1>4. d \in Int /\ 2 * d < m /\ -m < 2 * d /\ y \in Nat
  BY <1>1, <1>2
<1>5. y = d + m \/ y = d \/ y = d + 2 * m
  BY <1>1, <1>2
<1>6. NumberOf(r) = NumberOf(s) => y = m /\ y = d + m
  BY <1>1, <1>2, <1>4, <1>5 DEF a, b
<1>7. d < 0 \/ d = 0 \/ 0 < d
  BY <1>4
<1>8. (0 < d <=> r < s) /\ (d = 0 <=> r = s)
  BY <1>1, <1>2
<1>9. CASE 0 < d
  <2>1. y % m = d
    BY <1>2, <1>4, <1>5, <1>9
  <2> QED
    BY <1>4, <1>3, <1>6, <1>8, <1>9, <2>1 DEF a, b
<1>10. CASE d = 0
  <2>1. y % m = 0
    BY <1>2, <1>4, <1>5, <1>10
  <2> QED
    BY <1>4, <1>3, <1>8, <1>10, <2>1 DEF a, b
<1>11. CASE d < 0
  <2>1. y % m = d + m
    BY <1>2, <1>4, <1>5, <1>11
  <2> QED
    BY <1>2, <1>4, <1>3, <1>6, <1>8, <1>11, <2>1 DEF a, b
<1> QED
  BY <1>7, <1>9, <1>10, <1>11
-----------------------------------------------------------------------------
(* The baseline of the sender (Delta) *)

Entries == {[seq |-> NumberOf(r), state |-> r] : r \in Ranks}

\* The sender's states wait in the order they were sent, all newer than the baseline.
BaselineInv ==
  /\ encoded \in 0 .. Len(Contents)
  /\ pending \in Seq(Entries)
  /\ confirmed_baseline \in Entries \cup {None}
  /\ \A i \in 1 .. Len(pending) :
       /\ confirmed_baseline.state < pending[i].state
       /\ pending[i].state <= encoded
  /\ confirmed_baseline.state <= encoded
  /\ \A i, j \in 1 .. Len(pending) : i < j => pending[i].state < pending[j].state

LEMMA EntryIs ==
  ASSUME NEW e \in Entries
  PROVE  e.state \in Ranks /\ e.state \in Nat /\ e.seq = NumberOf(e.state) /\ e # None
  BY DEF Entries, Ranks, None

LEMMA NoneIs == None.state = 0 /\ None.seq = NO_BASELINE
  BY DEF None

LEMMA EncodeKeepsBaseline ==
  ASSUME BaselineInv, Encode
  PROVE  BaselineInv' /\ confirmed_baseline' = confirmed_baseline
<1> DEFINE n == Len(pending)
           room == IF n >= MaxPending THEN Tail(pending) ELSE pending
           e == [seq |-> NumberOf(encoded + 1), state |-> encoded + 1]
           d == IF n >= MaxPending THEN 1 ELSE 0
           m == n - d
<1>1. /\ pending \in Seq(Entries) /\ n \in Nat /\ MaxPending \in Nat /\ MaxPending >= 1
      /\ encoded \in Nat /\ encoded < Len(Contents) /\ Len(Contents) \in Nat
      /\ \A i \in 1 .. n : pending[i] \in Entries
  BY DeltaAssumption, LenProperties, ElementOfSeq DEF BaselineInv, Encode
<1>2. /\ encoded' = encoded + 1 /\ pending' = Append(room, e)
      /\ confirmed_baseline' = confirmed_baseline
  BY DEF Encode
<1>3. e \in Entries /\ e.state = encoded + 1
  BY <1>1 DEF Entries, Ranks
<1> HIDE DEF e
<1>4. /\ room \in Seq(Entries) /\ Len(room) = m
      /\ \A i \in 1 .. m : room[i] = pending[i + d]
  <2>1. CASE n >= MaxPending
    <3>1. pending # <<>>
      BY <1>1, <2>1, EmptySeq
    <3>2. /\ Tail(pending) \in Seq(Entries) /\ Len(Tail(pending)) = n - 1
          /\ \A i \in 1 .. Len(Tail(pending)) : Tail(pending)[i] = pending[i + 1]
      BY <1>1, <3>1, HeadTailProperties
    <3> QED
      BY <2>1, <3>2
  <2>2. CASE ~(n >= MaxPending)
    BY <1>1, <2>2
  <2> QED
    BY <2>1, <2>2
<1>5. m \in Nat /\ d \in Nat /\ \A i \in 1 .. m : i + d \in 1 .. n
  BY <1>1
<1> HIDE DEF room, d, m
<1>6. /\ pending' \in Seq(Entries) /\ Len(pending') = m + 1
      /\ pending'[m + 1] = e
      /\ \A i \in 1 .. m : pending'[i] = pending[i + d]
  BY <1>2, <1>3, <1>4, AppendProperties
<1>7. /\ \A i \in 1 .. n : /\ pending[i].state \in Nat /\ pending[i].state <= encoded
                           /\ confirmed_baseline.state < pending[i].state
      /\ confirmed_baseline.state \in Nat /\ confirmed_baseline.state <= encoded
  BY <1>1, EntryIs, NoneIs DEF BaselineInv
<1> HIDE DEF n
<1>8. \A i \in 1 .. m + 1 : /\ confirmed_baseline.state < pending'[i].state
                            /\ pending'[i].state <= encoded + 1
  <2> SUFFICES ASSUME NEW i \in 1 .. m + 1
               PROVE  /\ confirmed_baseline.state < pending'[i].state
                      /\ pending'[i].state <= encoded + 1
    OBVIOUS
  <2>1. CASE i = m + 1
    BY <1>1, <1>3, <1>6, <1>7, <2>1
  <2>2. CASE i \in 1 .. m
    <3>1. i + d \in 1 .. n /\ pending'[i] = pending[i + d]
      BY <1>5, <1>6, <2>2
    <3>2. /\ pending[i + d].state \in Nat /\ pending[i + d].state <= encoded
          /\ confirmed_baseline.state < pending[i + d].state
      BY <1>7, <3>1
    <3>3. pending[i + d].state <= encoded + 1
      BY <1>1, <3>2
    <3> QED
      BY <3>1, <3>2, <3>3
  <2> QED
    BY <1>5, <2>1, <2>2
<1>9. ASSUME NEW i \in 1 .. m + 1, NEW j \in 1 .. m + 1, i < j
      PROVE  pending'[i].state < pending'[j].state
  <2>1. i \in 1 .. m
    BY <1>5, <1>9
  <2>2. CASE j = m + 1
    <3>1. i + d \in 1 .. n /\ pending'[i] = pending[i + d]
      BY <1>5, <1>6, <2>1
    <3>2. pending[i + d].state \in Nat /\ pending[i + d].state <= encoded
      BY <1>7, <3>1
    <3>3. pending[i + d].state < encoded + 1 /\ pending'[j].state = encoded + 1
      BY <1>1, <1>3, <1>6, <2>2, <3>2
    <3> QED
      BY <3>1, <3>3
  <2>3. CASE j \in 1 .. m
    <3>1. i + d \in 1 .. n /\ j + d \in 1 .. n /\ i + d < j + d
      BY <1>5, <1>9, <2>1, <2>3
    <3> QED
      BY <1>6, <2>1, <2>3, <3>1 DEF BaselineInv, n
  <2> QED
    BY <1>5, <2>2, <2>3
<1>10. encoded' \in 0 .. Len(Contents) /\ confirmed_baseline.state <= encoded + 1
  BY <1>1, <1>2, <1>7
<1> QED
  BY <1>2, <1>6, <1>8, <1>9, <1>10 DEF BaselineInv

\* on_ack() leaves the states that are newer than the acknowledged one.
LEMMA AckAdvancesBaseline ==
  ASSUME BaselineInv, NEW ack_seq \in acks, NEW i \in 1 .. Len(pending),
         pending[i].seq = ack_seq,
         confirmed_baseline' = pending[i],
         pending' = Kept(RemoveAt(pending, i), ack_seq),
         encoded' = encoded
  PROVE  BaselineInv' /\ confirmed_baseline.state <= confirmed_baseline'.state
<1> DEFINE n == Len(pending)
           left == RemoveAt(pending, i)
           fresh == {j \in 1 .. Len(left) : ~Before(left[j].seq, ack_seq)}
<1>1. /\ pending \in Seq(Entries) /\ n \in Nat /\ i \in 1 .. n
      /\ \A j \in 1 .. n : pending[j] \in Entries
  BY LenProperties, ElementOfSeq DEF BaselineInv
<1>2. /\ left \in Seq(Entries) /\ Len(left) = n - 1
      /\ \A j \in 1 .. n - 1 : left[j] = IF j < i THEN pending[j] ELSE pending[j + 1]
  BY <1>1, RemovedAt
<1> HIDE DEF left
<1>3. \A j \in 1 .. n : /\ pending[j].state \in Nat /\ pending[j].state <= encoded
                        /\ pending[j].seq = NumberOf(pending[j].state)
                        /\ pending[j].state \in Ranks
                        /\ confirmed_baseline.state < pending[j].state
  BY <1>1, EntryIs DEF BaselineInv
<1>4. \A j \in 1 .. n - 1 : /\ left[j] \in Entries
                            /\ \E k \in 1 .. n \ {i} : left[j] = pending[k]
  <2> SUFFICES ASSUME NEW j \in 1 .. n - 1 PROVE \E k \in 1 .. n \ {i} : left[j] = pending[k]
    BY <1>1
  <2>1. j \in 1 .. n /\ j + 1 \in 1 .. n
    BY <1>1
  <2>2. CASE j < i
    BY <1>1, <1>2, <2>1, <2>2
  <2>3. CASE ~(j < i)
    BY <1>1, <1>2, <2>1, <2>3
  <2> QED
    BY <2>2, <2>3
<1>5. ASSUME NEW j \in 1 .. n - 1, NEW k \in 1 .. n - 1, j < k
      PROVE  left[j].state < left[k].state
  <2> DEFINE jj == IF j < i THEN j ELSE j + 1
             kk == IF k < i THEN k ELSE k + 1
  <2>1. jj \in 1 .. n /\ kk \in 1 .. n /\ jj < kk
    BY <1>1, <1>5
  <2>2. left[j] = pending[jj] /\ left[k] = pending[kk]
    BY <1>2
  <2> HIDE DEF jj, kk
  <2> QED
    BY <2>1, <2>2 DEF BaselineInv
<1>6. \A j \in fresh : j \in 1 .. n - 1 /\ pending[i].state < left[j].state
  <2> SUFFICES ASSUME NEW j \in fresh PROVE j \in 1 .. n - 1 /\ pending[i].state < left[j].state
    OBVIOUS
  <2>1. j \in 1 .. n - 1 /\ ~Before(left[j].seq, ack_seq)
    BY <1>2
  <2>2. PICK k \in 1 .. n \ {i} : left[j] = pending[k]
    BY <1>4, <2>1
  <2>3. ~(pending[k].state < pending[i].state)
    BY <1>1, <1>3, <2>1, <2>2, NumbersOrdered
  <2>4. pending[k].state # pending[i].state
    <3>1. k < i \/ i < k
      BY <1>1, <2>2
    <3>2. k < i => pending[k].state < pending[i].state
      BY <1>1, <2>2 DEF BaselineInv
    <3>3. i < k => pending[i].state < pending[k].state
      BY <1>1, <2>2 DEF BaselineInv
    <3> QED
      BY <1>1, <1>3, <2>2, <3>1, <3>2, <3>3
  <2> QED
    BY <1>1, <1>3, <2>1, <2>2, <2>3, <2>4
<1>7. PICK first \in 1 .. Len(left) + 1 :
        /\ pending' = SubSeq(left, first, Len(left))
        /\ \A j \in first .. Len(left) : pending[i].state < left[j].state
  <2>1. CASE fresh = {}
    <3>1. SubSeq(left, Len(left) + 1, Len(left)) = <<>>
      BY <1>1, <1>2, SubSeqEmpty
    <3>2. pending' = <<>>
      BY <2>1 DEF Kept, left
    <3>3. Len(left) + 1 \in 1 .. Len(left) + 1 /\ Len(left) + 1 .. Len(left) = {}
      BY <1>1, <1>2
    <3> QED
      BY <3>1, <3>2, <3>3
  <2>2. CASE fresh # {}
    <3>1. fresh \in SUBSET Nat
      BY <1>1, <1>2
    <3>2. \E j \in fresh : \A k \in fresh : j <= k
      BY <2>2, <3>1, FirstOf
    <3>3. PICK j \in fresh : pending' = SubSeq(left, j, Len(left))
      BY <2>2, <3>2 DEF Kept, left
    <3>4. j \in 1 .. n - 1 /\ pending[i].state < left[j].state
      BY <1>6
    <3>5. \A k \in j .. Len(left) : pending[i].state < left[k].state
      <4> SUFFICES ASSUME NEW k \in j .. Len(left) PROVE pending[i].state < left[k].state
        OBVIOUS
      <4>1. k = j \/ (k \in 1 .. n - 1 /\ j < k)
        BY <1>1, <1>2, <3>4
      <4>2. k \in 1 .. n - 1
        BY <3>4, <4>1
      <4>3. k # j => left[j].state < left[k].state
        BY <1>5, <3>4, <4>1
      <4>4. left[j].state \in Nat /\ left[k].state \in Nat /\ pending[i].state \in Nat
        BY <1>1, <1>3, <1>4, <3>4, <4>2, EntryIs
      <4> QED
        BY <3>4, <4>1, <4>3, <4>4
    <3>6. j \in 1 .. Len(left) + 1
      BY <1>1, <1>2, <3>4
    <3> QED
      BY <3>3, <3>5, <3>6
  <2> QED
    BY <2>1, <2>2
<1>8. /\ pending' \in Seq(Entries) /\ Len(pending') = Len(left) - first + 1
      /\ \A j \in 1 .. Len(left) - first + 1 :
           j + first - 1 \in first .. Len(left) /\ pending'[j] = left[j + first - 1]
  BY <1>2, <1>7, SuffixIs
<1>9. ASSUME NEW j \in 1 .. Len(pending')
      PROVE  /\ pending[i].state < pending'[j].state
             /\ pending'[j].state <= encoded
  <2>1. j + first - 1 \in first .. Len(left) /\ pending'[j] = left[j + first - 1]
    BY <1>8
  <2>2. j + first - 1 \in 1 .. n - 1
    BY <1>1, <1>2, <1>7, <2>1
  <2> QED
    BY <1>3, <1>4, <1>7, <2>1, <2>2
<1>10. ASSUME NEW j \in 1 .. Len(pending'), NEW k \in 1 .. Len(pending'), j < k
       PROVE  pending'[j].state < pending'[k].state
  <2>1. /\ pending'[j] = left[j + first - 1] /\ pending'[k] = left[k + first - 1]
        /\ j + first - 1 \in 1 .. n - 1 /\ k + first - 1 \in 1 .. n - 1
        /\ j + first - 1 < k + first - 1
    BY <1>1, <1>2, <1>7, <1>8, <1>10
  <2> QED
    BY <1>5, <2>1
<1>11. confirmed_baseline'.state <= encoded'
       /\ confirmed_baseline.state <= confirmed_baseline'.state
  <2>1. confirmed_baseline.state \in Nat
    BY EntryIs, NoneIs DEF BaselineInv
  <2> QED
    BY <1>1, <1>3, <2>1
<1> QED
  BY <1>1, <1>8, <1>9, <1>10, <1>11 DEF BaselineInv

LEMMA BaselineStep ==
  ASSUME BaselineInv, [DeltaNext]_deltaVars
  PROVE  BaselineInv' /\ confirmed_baseline.state <= confirmed_baseline'.state
<1>1. confirmed_baseline.state \in Nat
  BY EntryIs, NoneIs DEF BaselineInv
<1>2. CASE UNCHANGED <<encoded, pending, confirmed_baseline>>
  BY <1>1, <1>2 DEF BaselineInv
<1>3. CASE Encode
  BY <1>1, <1>3, EncodeKeepsBaseline
<1>4. ASSUME NEW ack_seq \in acks, OnAck(ack_seq)
      PROVE  BaselineInv' /\ confirmed_baseline.state <= confirmed_baseline'.state
  <2>1. encoded' = encoded
    BY <1>4 DEF OnAck
  <2>2. CASE UNCHANGED <<pending, confirmed_baseline>>
    BY <1>2, <2>1, <2>2
  <2>3. ASSUME NEW i \in 1 .. Len(pending), pending[i].seq = ack_seq,
               confirmed_baseline' = pending[i],
               pending' = Kept(RemoveAt(pending, i), ack_seq)
        PROVE  BaselineInv' /\ confirmed_baseline.state <= confirmed_baseline'.state
    BY <1>4, <2>1, <2>3, AckAdvancesBaseline
  <2> QED
    BY <1>4, <2>2, <2>3 DEF OnAck
<1> QED
  BY <1>2, <1>3, <1>4 DEF DeltaNext, ReceivePayload, deltaVars

LEMMA BaselineInit ==
  ASSUME DeltaInit
  PROVE  BaselineInv
<1>1. <<>> \in Seq(Entries) /\ Len(<<>>) = 0
  BY EmptySeq
<1>2. Len(Contents) \in Nat
  BY DeltaAssumption, LenProperties
<1> QED
  BY <1>1, <1>2, NoneIs DEF DeltaInit, BaselineInv

\* The baseline never goes back to an older state, in whatever order, how late and how
\* often acknowledgments come, whatever sizes the buffers have and wherever the numbers
\* wrap around: DeltaTracker::on_ack().
THEOREM BaselineOnlyAdvances == DeltaSpec => BaselineAdvances
<1> DEFINE A == confirmed_baseline = None \/ confirmed_baseline.state <= confirmed_baseline'.state
<1>1. BaselineInv /\ [DeltaNext]_deltaVars => [A]_deltaVars
  BY BaselineStep
<1> HIDE DEF A
<1>2. DeltaSpec => [][A]_deltaVars
  BY <1>1, BaselineInit, BaselineStep, PTL DEF DeltaSpec
<1> QED
  BY <1>2 DEF A, BaselineAdvances
-----------------------------------------------------------------------------
(* What is decoded (Delta) *)

\* Different fields have different places among those written, from the first on.
LEMMA PlaceFound ==
  ASSUME NEW fields \in SUBSET FieldSet, NEW f \in fields
  PROVE  /\ PlaceOf(f, fields) \in 1 .. Cardinality(fields)
         /\ \A g \in fields : PlaceOf(g, fields) = PlaceOf(f, fields) => g = f
<1>1. FieldCount \in Nat /\ IsFiniteSet(FieldSet)
  BY DeltaAssumption, FS_Interval DEF FieldSet
<1>2. IsFiniteSet(fields) /\ fields \subseteq Nat
  <2>1. IsFiniteSet(fields)
    BY <1>1, FS_Subset
  <2>2. fields \subseteq Nat
    BY <1>1 DEF FieldSet
  <2> QED
    BY <2>1, <2>2
<1> DEFINE Upto(g) == {h \in fields : h <= g}
<1>3. \A g \in fields : /\ IsFiniteSet(Upto(g)) /\ Cardinality(Upto(g)) \in Nat
                        /\ Cardinality(Upto(g)) <= Cardinality(fields)
  <2> TAKE g \in fields
  <2>1. Upto(g) \in SUBSET fields
    OBVIOUS
  <2> QED
    BY <1>2, <2>1, FS_Subset, FS_CardinalityType
<1>4. Cardinality(Upto(f)) # 0
  <2>1. f \in Upto(f)
    BY <1>2
  <2> QED
    BY <1>3, <2>1, FS_EmptySet
<1>5. ASSUME NEW g \in fields, NEW h \in fields, g < h
      PROVE  Cardinality(Upto(g)) # Cardinality(Upto(h))
  <2>1. Upto(g) \in SUBSET Upto(h)
    <3>1. \A x \in fields : x <= g => x <= h
      BY <1>2, <1>5
    <3> QED
      BY <3>1
  <2>2. h \in Upto(h) /\ h \notin Upto(g)
    BY <1>2, <1>5
  <2> QED
    BY <1>3, <2>1, <2>2, FS_Subset
<1>6. \A g \in fields : g # f => g < f \/ f < g
  BY <1>2
<1>7. Cardinality(fields) \in Nat
  BY <1>2, FS_CardinalityType
<1> HIDE DEF Upto
<1>8. Cardinality(Upto(f)) \in 1 .. Cardinality(fields)
  BY <1>3, <1>4, <1>7
<1>9. \A g \in fields : PlaceOf(g, fields) = Cardinality(Upto(g))
  BY DEF PlaceOf, Upto
<1> QED
  BY <1>5, <1>6, <1>8, <1>9

\* Whatever is written is read back, if every field holds its value.
LEMMA WrittenIsRead ==
  ASSUME NEW fields \in SUBSET FieldSet, NEW delta \in [fields -> Nat],
         \A f \in fields : delta[f] < Capacity[f]
  PROVE  ReadBack(Written(delta)) = delta
<1> DEFINE At(i) == CHOOSE f \in fields : PlaceOf(f, fields) = i
           values == [i \in 1 .. Cardinality(fields) |-> delta[At(i)] % Capacity[At(i)]]
<1>1. DOMAIN delta = fields
  OBVIOUS
<1>2. Written(delta).bitmask = fields /\ Written(delta).values = values
  BY <1>1 DEF Written
<1>3. ASSUME NEW f \in fields PROVE values[PlaceOf(f, fields)] = delta[f]
  <2>1. /\ PlaceOf(f, fields) \in 1 .. Cardinality(fields)
        /\ \A g \in fields : PlaceOf(g, fields) = PlaceOf(f, fields) => g = f
    BY PlaceFound
  <2>2. At(PlaceOf(f, fields)) = f
    BY <2>1
  <2> HIDE DEF At
  <2>3. values[PlaceOf(f, fields)] = delta[f] % Capacity[f]
    BY <2>1, <2>2
  <2>4. delta[f] \in Nat /\ Capacity[f] \in Nat /\ delta[f] < Capacity[f]
    BY DeltaAssumption DEF FieldSet
  <2>5. delta[f] % Capacity[f] = delta[f]
    BY <2>4
  <2> QED
    BY <2>3, <2>5
<1> HIDE DEF values
<1>4. ReadBack(Written(delta)) = [f \in fields |-> values[PlaceOf(f, fields)]]
  BY <1>2 DEF ReadBack
<1> QED
  BY <1>3, <1>4

LEMMA StateIs ==
  ASSUME NEW r \in Ranks
  PROVE  /\ Contents[r] \in [FieldSet -> Nat]
         /\ \A f \in FieldSet : Contents[r][f] < Capacity[f]
  BY DeltaAssumption, ElementOfSeq DEF Ranks, FieldSet

LEMMA DifferenceApplied ==
  ASSUME NEW r \in Ranks, NEW b \in Ranks
  PROVE  Applied(ReadBack(Written(Difference(Contents[r], Contents[b]))), Contents[b])
           = Contents[r]
<1> DEFINE c == Contents[r]
           base == Contents[b]
           fields == {f \in FieldSet : c[f] # base[f]}
           delta == Difference(c, base)
<1>1. /\ c \in [FieldSet -> Nat] /\ base \in [FieldSet -> Nat]
      /\ \A f \in FieldSet : c[f] < Capacity[f]
  BY StateIs
<1> HIDE DEF c, base
<1>2. /\ delta = [f \in fields |-> c[f]]
      /\ delta \in [fields -> Nat] /\ fields \in SUBSET FieldSet
      /\ \A f \in fields : delta[f] = c[f] /\ delta[f] < Capacity[f]
  BY <1>1 DEF Difference
<1>3. ReadBack(Written(delta)) = delta
  BY <1>2, WrittenIsRead
<1>4. Applied(delta, base) = c
  <2>1. \A f \in FieldSet :
          (IF f \in DOMAIN delta THEN delta[f] ELSE base[f]) = c[f]
    BY <1>1, <1>2
  <2> HIDE DEF delta
  <2>2. Applied(delta, base) = [f \in FieldSet |-> c[f]]
    BY <2>1 DEF Applied
  <2> QED
    BY <1>1, <2>2
<1> QED
  BY <1>3, <1>4 DEF c, base

\* A snapshot the receiver holds is a state that was sent, under its number.
SoundSnapshots == {[seq |-> NumberOf(r), values |-> Contents[r]] : r \in Ranks}

\* A payload in flight makes a state of its baseline, or is the whole of it.
PayloadSound(p) ==
  /\ p.state \in Ranks /\ p.seq = NumberOf(p.state)
  /\ \/ /\ p.base_seq = NO_BASELINE
        /\ p.whole
        /\ p.body = Written(Contents[p.state])
     \/ /\ p.base_seq # NO_BASELINE
        /\ \E b \in Ranks :
             /\ p.base_seq = NumberOf(b)
             /\ p.body = Written(Difference(Contents[p.state], Contents[b]))

DecodeInv ==
  /\ BaselineInv
  /\ garbled \in BOOLEAN /\ mistaken \in BOOLEAN
  /\ ~mistaken =>
       /\ ~garbled
       /\ confirmed_baseline = None \/ confirmed_baseline.seq # NO_BASELINE
       /\ \A p \in payloads : PayloadSound(p)
       /\ snapshots \in Seq(SoundSnapshots)

\* get_baseline() finds the newest that has the number, if one has.
LEMMA LatestFound ==
  ASSUME Len(snapshots) \in Nat, NEW seq, HasBaseline(seq)
  PROVE  \E i \in 1 .. Len(snapshots) :
           snapshots[i].seq = seq /\ Baseline(seq) = snapshots[i].values
<1> DEFINE n == Len(snapshots)
           at == {i \in 1 .. n : snapshots[i].seq = seq}
           back == {k \in Nat : n - k \in at}
<1>1. PICK i \in at : TRUE
  BY DEF HasBaseline
<1>2. n - i \in back
  BY <1>1
<1>3. PICK k \in back : \A l \in back : k <= l
  <2>1. back \in SUBSET Nat /\ back # {}
    BY <1>2
  <2> HIDE DEF back
  <2> QED
    BY <2>1, FirstOf
<1>4. n - k \in at /\ k \in Nat
  BY <1>3
<1>5. \A j \in at : n - k >= j
  <2> TAKE j \in at
  <2>1. n - j \in back
    OBVIOUS
  <2>2. k <= n - j
    <3> HIDE DEF back
    <3> QED
      BY <1>3, <2>1
  <2>3. j \in Nat
    OBVIOUS
  <2> QED
    BY <1>4, <2>2, <2>3
<1>6. PICK m \in at : Baseline(seq) = snapshots[m].values
  BY <1>4, <1>5 DEF Baseline
<1> QED
  BY <1>6

\* The receiver finds a baseline by its number only if it is the sender's.
LEMMA SoundDecoded ==
  ASSUME snapshots \in Seq(SoundSnapshots), NEW p, PayloadSound(p),
         p.base_seq = NO_BASELINE \/ HasBaseline(p.base_seq)
  PROVE  Decoded(p) = Contents[p.state]
<1>1. p.state \in Ranks
  BY DEF PayloadSound
<1>2. CASE p.base_seq = NO_BASELINE
  <2>1. p.whole /\ p.body = Written(Contents[p.state])
    BY <1>2 DEF PayloadSound
  <2>2. ReadBack(Written(Contents[p.state])) = Contents[p.state]
    BY <1>1, StateIs, WrittenIsRead
  <2> QED
    BY <1>2, <2>1, <2>2 DEF Decoded
<1>3. CASE p.base_seq # NO_BASELINE
  <2>1. PICK b \in Ranks :
          /\ p.base_seq = NumberOf(b)
          /\ p.body = Written(Difference(Contents[p.state], Contents[b]))
    BY <1>3 DEF PayloadSound
  <2> DEFINE n == Len(snapshots)
  <2>2. n \in Nat /\ \A i \in 1 .. n : snapshots[i] \in SoundSnapshots
    BY LenProperties, ElementOfSeq
  <2>3. HasBaseline(p.base_seq)
    BY <1>3
  <2>4. PICK i \in 1 .. n : /\ snapshots[i].seq = p.base_seq
                            /\ Baseline(p.base_seq) = snapshots[i].values
    BY <2>2, <2>3, LatestFound
  <2>5. i \in 1 .. n /\ snapshots[i].seq = NumberOf(b)
    BY <2>1, <2>4
  <2>6. PICK r \in Ranks : snapshots[i] = [seq |-> NumberOf(r), values |-> Contents[r]]
    BY <2>2, <2>5 DEF SoundSnapshots
  <2>7. r = b
    BY <2>5, <2>6, NumbersOrdered
  <2>8. Decoded(p) = Applied(ReadBack(p.body), Contents[b])
    BY <1>3, <2>4, <2>6, <2>7 DEF Decoded
  <2> QED
    BY <1>1, <2>1, <2>8, DifferenceApplied
<1> QED
  BY <1>2, <1>3

LEMMA EncodeSound ==
  ASSUME DecodeInv, ~mistaken, Encode
  PROVE  \A p \in payloads' : PayloadSound(p)
<1> DEFINE r == encoded + 1
           whole == confirmed_baseline = None
           base == confirmed_baseline.state
           delta == IF whole THEN Contents[r] ELSE Difference(Contents[r], Contents[base])
           p == [base_seq |-> confirmed_baseline.seq, seq |-> NumberOf(r),
                 whole |-> whole, body |-> Written(delta), state |-> r]
<1>1. payloads' = payloads \cup {p}
  BY DEF Encode
<1>2. r \in Ranks
  BY DeltaAssumption, LenProperties DEF DecodeInv, BaselineInv, Encode, Ranks
<1>3. confirmed_baseline \in Entries \cup {None}
  BY DEF DecodeInv, BaselineInv
<1> HIDE DEF r
<1>4. PayloadSound(p)
  <2>1. CASE whole
    BY <1>2, <2>1, NoneIs DEF PayloadSound
  <2>2. CASE ~whole
    <3>1. base \in Ranks /\ confirmed_baseline.seq = NumberOf(base)
          /\ confirmed_baseline.seq # NO_BASELINE
      BY <1>3, <2>2, EntryIs DEF DecodeInv
    <3> QED
      BY <1>2, <2>2, <3>1 DEF PayloadSound
  <2> QED
    BY <2>1, <2>2
<1> QED
  BY <1>1, <1>4 DEF DecodeInv

LEMMA ReceiveSound ==
  ASSUME DecodeInv, ~mistaken, NEW p \in payloads, ReceivePayload(p)
  PROVE  garbled' = FALSE /\ snapshots' \in Seq(SoundSnapshots)
<1>1. PayloadSound(p) /\ snapshots \in Seq(SoundSnapshots) /\ garbled = FALSE
  BY DEF DecodeInv
<1>2. Decoded(p) = Contents[p.state]
  BY <1>1, SoundDecoded DEF ReceivePayload
<1>3. garbled' = FALSE
  BY <1>1, <1>2 DEF ReceivePayload
<1> DEFINE snapshot == [seq |-> p.seq, values |-> Decoded(p)]
<1>4. snapshot \in SoundSnapshots
  BY <1>1, <1>2 DEF SoundSnapshots, PayloadSound
<1>5. PICK expired \in 0 .. Len(snapshots) : snapshots' = Pushed(snapshot, expired)
  BY DEF ReceivePayload
<1> HIDE DEF snapshot
<1> DEFINE live == SubSeq(snapshots, expired + 1, Len(snapshots))
           room == IF Len(live) >= MaxSnapshots THEN Tail(live) ELSE live
<1>6. live \in Seq(SoundSnapshots) /\ Len(live) \in Nat
  <2>1. expired + 1 \in 1 .. Len(snapshots) + 1
    BY <1>1, LenProperties
  <2> QED
    BY <1>1, <2>1, SuffixIs, LenProperties
<1> HIDE DEF live
<1>7. room \in Seq(SoundSnapshots)
  <2>1. CASE Len(live) >= MaxSnapshots
    <3>1. live # <<>>
      BY <1>6, <2>1, DeltaAssumption, EmptySeq
    <3> QED
      BY <1>6, <2>1, <3>1, HeadTailProperties
  <2>2. CASE ~(Len(live) >= MaxSnapshots)
    BY <1>6, <2>2
  <2> QED
    BY <2>1, <2>2
<1>8. snapshots' = Append(room, snapshot)
  BY <1>5 DEF Pushed, live
<1> HIDE DEF room
<1>9. snapshots' \in Seq(SoundSnapshots)
  BY <1>4, <1>7, <1>8, AppendProperties
<1> QED
  BY <1>3, <1>9

LEMMA DecodeStep ==
  ASSUME DecodeInv, [DeltaNext]_deltaVars
  PROVE  DecodeInv'
<1>1. BaselineInv'
  BY BaselineStep DEF DecodeInv
<1>2. CASE UNCHANGED deltaVars
  BY <1>1, <1>2 DEF DecodeInv, deltaVars
<1>3. CASE Encode
  <2>1. UNCHANGED <<confirmed_baseline, snapshots, garbled, mistaken>>
    BY <1>3 DEF Encode
  <2> QED
    BY <1>1, <1>3, <2>1, EncodeSound DEF DecodeInv
<1>4. ASSUME NEW ack_seq \in acks, OnAck(ack_seq) PROVE DecodeInv'
  <2>1. /\ UNCHANGED <<payloads, snapshots, garbled>> /\ mistaken' \in BOOLEAN
        /\ mistaken => mistaken'
    <3>1. mistaken' \in BOOLEAN /\ (mistaken => mistaken')
      <4>1. mistaken \in BOOLEAN
        BY DEF DecodeInv
      <4>2. mistaken' = (mistaken \/ ack_seq = NO_BASELINE) \/ mistaken' = mistaken
        BY <1>4, Zenon DEF OnAck
      <4> QED
        BY <4>1, <4>2, Zenon
    <3> QED
      BY <1>4, <3>1 DEF OnAck
  <2>2. ~mistaken' => confirmed_baseline' = confirmed_baseline
                      \/ confirmed_baseline'.seq # NO_BASELINE
    BY <1>4 DEF OnAck
  <2> QED
    BY <1>1, <2>1, <2>2 DEF DecodeInv
<1>5. ASSUME NEW p \in payloads, ReceivePayload(p) PROVE DecodeInv'
  <2>1. UNCHANGED <<confirmed_baseline, payloads, mistaken>> /\ garbled' \in BOOLEAN
    BY <1>5 DEF ReceivePayload, DecodeInv
  <2> QED
    BY <1>1, <1>5, <2>1, ReceiveSound DEF DecodeInv
<1> QED
  BY <1>2, <1>3, <1>4, <1>5 DEF DeltaNext

LEMMA DecodeInit ==
  ASSUME DeltaInit
  PROVE  DecodeInv
<1>1. <<>> \in Seq(SoundSnapshots)
  BY EmptySeq
<1> QED
  BY <1>1, BaselineInit DEF DeltaInit, DecodeInv

\* Whatever the receiver decodes is the state that was encoded, or the decoding is
\* refused, for all states and any number of fields, however payloads and
\* acknowledgments are lost, late and repeated, and whatever the two buffers forget;
\* except after a baseline was confirmed under the number that stands for none.
THEOREM DecodedAsEncoded == DeltaSpec => []DecodedIsEncoded
<1>1. DeltaInit => DecodeInv
  BY DecodeInit
<1>2. DecodeInv => DecodedIsEncoded
  BY DEF DecodeInv, DecodedIsEncoded
<1> QED
  BY <1>1, <1>2, DecodeStep, PTL DEF DeltaSpec
-----------------------------------------------------------------------------
(* Tokens (Security) *)

TokensSpec == TokensInit /\ [][TokensNext]_tokenVars

\* There is one place where those begin that are younger.
LEMMA YoungerBegin ==
  ASSUME NEW ages, Len(ages) \in Nat, \A i \in 1 .. Len(ages) : ages[i] \in Nat,
         NEW limit \in Nat
  PROVE  LET first == FirstYounger(ages, limit)
         IN  /\ first \in 1 .. Len(ages) + 1
             /\ \A i \in 1 .. first - 1 : ages[i] >= limit
             /\ first <= Len(ages) => ages[first] < limit
<1> DEFINE n == Len(ages)
           S == {i \in 1 .. n + 1 : i <= n => ages[i] < limit}
<1>1. S \in SUBSET Nat /\ n + 1 \in S
  OBVIOUS
<1>2. PICK first \in S : \A i \in S : first <= i
  <2> HIDE DEF S
  <2> QED
    BY <1>1, FirstOf
<1>3. \A i \in 1 .. first - 1 : ages[i] >= limit
  <2> TAKE i \in 1 .. first - 1
  <2>1. i \notin S /\ i \in 1 .. n + 1
    BY <1>2
  <2> QED
    BY <1>2, <2>1
<1>4. first \in 1 .. n + 1 /\ (first <= n => ages[first] < limit)
  BY <1>2
<1> QED
  BY <1>3, <1>4 DEF FirstYounger

Entry == [client : Clients, age : Nat]

OneEach(entries) ==
  \A i, j \in 1 .. Len(entries) : entries[i].client = entries[j].client => i = j

\* As long as it would be too early to validate the token of a client again, its entry
\* is there: what came after it are the entries of the others.
Remembered(c) ==
  \E i \in 1 .. Len(used_tokens) :
    /\ used_tokens[i].client = c
    /\ used_tokens[i].age <= since_accepted[c]
    /\ \A j \in i + 1 .. Len(used_tokens) : used_tokens[j].client \in others[c]

TokensInv ==
  /\ since_accepted \in [Clients -> 0 .. TokenLifetime]
  /\ used_tokens \in Seq(Entry)
  /\ OneEach(used_tokens)
  /\ DOMAIN others = Clients
  /\ \A c \in Clients : IsFiniteSet(others[c])
  /\ \A c \in Clients :
       since_accepted[c] < TokenLifetime /\ Cardinality(others[c]) < MaxTrackedTokens
         => Remembered(c)
  /\ ~replayed

\* What is tracked is the end of the entries; what goes is older than a token may be,
\* or has as many entries behind it as there is room for.
LEMMA TrackedIs ==
  ASSUME NEW entries \in Seq(Entry)
  PROVE  \E first \in 1 .. Len(entries) + 1 :
           /\ Tracked(entries) = SubSeq(entries, first, Len(entries))
           /\ \A i \in 1 .. first - 1 : \/ entries[i].age >= TokenLifetime
                                        \/ Len(entries) - i >= MaxTrackedTokens
<1> DEFINE n == Len(entries)
           ages == AgesOf(entries)
           f == FirstYounger(ages, TokenLifetime)
<1>1. n \in Nat /\ \A i \in 1 .. n : entries[i].age \in Nat /\ entries[i] \in Entry
  <2>1. n \in Nat /\ \A i \in 1 .. n : entries[i] \in Entry
    BY LenProperties, ElementOfSeq
  <2> QED
    BY <2>1 DEF Entry
<1>2. TokenLifetime \in Nat /\ MaxTrackedTokens \in Nat
  BY SecurityAssumption
<1>3. ages \in Seq(Nat) /\ Len(ages) = n /\ \A i \in 1 .. n : ages[i] = entries[i].age
  BY <1>1 DEF AgesOf
<1> HIDE DEF ages
<1>4. /\ f \in 1 .. n + 1 /\ \A i \in 1 .. f - 1 : ages[i] >= TokenLifetime
  BY <1>1, <1>2, <1>3, YoungerBegin
<1> HIDE DEF f
<1>5. /\ Fresh(entries) = SubSeq(entries, f, n) /\ Fresh(entries) \in Seq(Entry)
      /\ Len(Fresh(entries)) = n - f + 1
      /\ \A i \in 1 .. n - f + 1 : Fresh(entries)[i] = entries[i + f - 1]
  <2>1. Fresh(entries) = SubSeq(entries, f, n)
    BY DEF Fresh, f, ages
  <2> QED
    BY <1>4, <2>1, SuffixIs
<1>6. \A i \in 1 .. f - 1 : entries[i].age >= TokenLifetime
  <2> TAKE i \in 1 .. f - 1
  <2>1. i \in 1 .. n
    BY <1>1, <1>4
  <2> QED
    BY <1>3, <1>4, <2>1
<1>7. CASE ~TooMany(entries)
  <2>1. Tracked(entries) = entries /\ SubSeq(entries, 1, n) = entries
    BY <1>7, SubSeqFull DEF Tracked
  <2>2. 1 \in 1 .. n + 1 /\ 1 .. 1 - 1 = {}
    BY <1>1
  <2> QED
    BY <2>1, <2>2
<1>8. CASE TooMany(entries) /\ ~TooMany(Fresh(entries))
  BY <1>4, <1>5, <1>6, <1>8 DEF Tracked
<1>9. CASE TooMany(entries) /\ TooMany(Fresh(entries))
  <2> DEFINE first == n - MaxTrackedTokens + 1
             l == Len(Fresh(entries))
  <2>1. l > MaxTrackedTokens /\ Tracked(entries) = WithoutOldest(Fresh(entries))
    BY <1>9 DEF Tracked, TooMany
  <2>2. l = n - f + 1 /\ first \in f .. n + 1 /\ first \in 1 .. n + 1 /\ f \in Nat /\ 1 <= f
    BY <1>1, <1>2, <1>4, <1>5, <2>1
  <2>3. SubSeq(Fresh(entries), l - MaxTrackedTokens + 1, l) = SubSeq(entries, first, n)
    <3> DEFINE m == l - MaxTrackedTokens + 1
    <3>1. l \in Nat
      BY <1>1, <1>4, <2>2
    <3> HIDE DEF l
    <3>2. m \in 1 .. n - f + 2 /\ m + f - 1 = first
      BY <1>1, <1>2, <1>4, <2>1, <2>2, <3>1
    <3> HIDE DEF m, first
    <3>3. SubSeq(SubSeq(entries, f, n), m, Len(SubSeq(entries, f, n)))
            = SubSeq(entries, m + f - 1, n)
      BY <1>4, <3>2, SuffixOfSuffix
    <3> QED
      BY <1>5, <3>2, <3>3 DEF l, m
  <2>4. \A i \in 1 .. first - 1 : entries[i].age >= TokenLifetime
                                  \/ n - i >= MaxTrackedTokens
    BY <1>1, <1>2, <2>2
  <2>5. Tracked(entries) = SubSeq(entries, first, n)
    BY <2>1, <2>3 DEF WithoutOldest
  <2> HIDE DEF first
  <2> QED
    BY <2>2, <2>4, <2>5
<1> QED
  BY <1>7, <1>8, <1>9

\* Of the entries of different clients there are no more than clients.
LEMMA AsManyClients ==
  ASSUME NEW entries \in Seq(Entry), OneEach(entries), NEW i \in 1 .. Len(entries),
         NEW T, IsFiniteSet(T), \A j \in i + 1 .. Len(entries) : entries[j].client \in T
  PROVE  Len(entries) - i <= Cardinality(T)
<1> DEFINE n == Len(entries)
           behind == i + 1 .. n
           f == [j \in behind |-> entries[j].client]
<1>1. n \in Nat /\ i \in Nat /\ 1 <= i /\ i <= n
  BY LenProperties
<1>2. IsFiniteSet(behind) /\ Cardinality(behind) = n - i
  <2> DEFINE next == i + 1
  <2>1. next \in Int /\ n \in Int
    BY <1>1
  <2> HIDE DEF next, n
  <2>2. /\ IsFiniteSet(next .. n)
        /\ Cardinality(next .. n) = IF next > n THEN 0 ELSE n - next + 1
    BY <2>1, FS_Interval
  <2>3. (IF next > n THEN 0 ELSE n - next + 1) = n - i
    BY <1>1 DEF next
  <2> QED
    BY <2>2, <2>3 DEF next
<1>3. f \in Injection(behind, T)
  <2>1. f \in [behind -> T]
    OBVIOUS
  <2>2. ASSUME NEW a \in behind, NEW b \in behind, f[a] = f[b] PROVE a = b
    <3>1. a \in 1 .. Len(entries) /\ b \in 1 .. Len(entries)
      BY <1>1
    <3>2. entries[a].client = entries[b].client
      BY <2>2
    <3> QED
      BY <3>1, <3>2 DEF OneEach
  <2> HIDE DEF f, behind
  <2> QED
    BY <2>1, <2>2 DEF Injection, IsInjective
<1> HIDE DEF f, behind
<1>4. Cardinality(behind) <= Cardinality(T)
  BY <1>3, FS_Injection
<1> QED
  BY <1>2, <1>4

\* An entry stays tracked while its token is young and few others came behind it.
LEMMA StaysTracked ==
  ASSUME NEW entries \in Seq(Entry), OneEach(entries), NEW i \in 1 .. Len(entries),
         NEW T, IsFiniteSet(T), \A j \in i + 1 .. Len(entries) : entries[j].client \in T,
         entries[i].age < TokenLifetime, Cardinality(T) < MaxTrackedTokens
  PROVE  \E k \in 1 .. Len(Tracked(entries)) :
           /\ Tracked(entries)[k] = entries[i]
           /\ \A j \in k + 1 .. Len(Tracked(entries)) : Tracked(entries)[j].client \in T
<1> DEFINE n == Len(entries)
           rest == Tracked(entries)
<1>1. n \in Nat /\ i \in Nat /\ 1 <= i /\ i <= n /\ entries[i].age \in Nat
  <2>1. entries[i] \in Entry
    BY ElementOfSeq
  <2> QED
    BY <2>1, LenProperties DEF Entry
<1>2. PICK first \in 1 .. n + 1 :
        /\ rest = SubSeq(entries, first, n)
        /\ \A j \in 1 .. first - 1 : \/ entries[j].age >= TokenLifetime
                                     \/ n - j >= MaxTrackedTokens
  BY TrackedIs
<1>3. n - i < MaxTrackedTokens /\ entries[i].age < TokenLifetime
  <2>1. n - i <= Cardinality(T) /\ Cardinality(T) \in Nat
    BY AsManyClients, FS_CardinalityType
  <2> QED
    BY <1>1, <2>1, SecurityAssumption
<1>4. first <= i
  <2> SUFFICES ASSUME i < first PROVE FALSE
    BY <1>1
  <2>1. i \in 1 .. first - 1
    BY <1>1
  <2> QED
    BY <1>1, <1>2, <1>3, <2>1, SecurityAssumption
<1>5. /\ Len(rest) = n - first + 1
      /\ \A j \in 1 .. n - first + 1 : rest[j] = entries[j + first - 1]
  BY <1>2, SuffixIs
<1> HIDE DEF rest
<1> DEFINE k == i - first + 1
<1>6. k \in 1 .. n - first + 1 /\ k + first - 1 = i
  BY <1>1, <1>4
<1>7. ASSUME NEW j \in k + 1 .. n - first + 1 PROVE rest[j].client \in T
  <2>1. j \in 1 .. n - first + 1 /\ j + first - 1 \in i + 1 .. n
    BY <1>1, <1>4, <1>7
  <2> QED
    BY <1>5, <2>1
<1> HIDE DEF k
<1> QED
  BY <1>5, <1>6, <1>7 DEF rest

\* What stays tracked are entries of different clients still.
LEMMA TrackedOneEach ==
  ASSUME NEW entries \in Seq(Entry), OneEach(entries)
  PROVE  Tracked(entries) \in Seq(Entry) /\ OneEach(Tracked(entries))
<1> DEFINE n == Len(entries)
           rest == Tracked(entries)
<1>1. PICK first \in 1 .. n + 1 : rest = SubSeq(entries, first, n)
  BY TrackedIs
<1>2. /\ rest \in Seq(Entry) /\ Len(rest) = n - first + 1
      /\ \A j \in 1 .. n - first + 1 :
           j + first - 1 \in first .. n /\ rest[j] = entries[j + first - 1]
  BY <1>1, SuffixIs
<1> HIDE DEF rest
<1>3. ASSUME NEW a \in 1 .. Len(rest), NEW b \in 1 .. Len(rest),
             rest[a].client = rest[b].client
      PROVE  a = b
  <2>1. n \in Nat /\ a + first - 1 \in 1 .. n /\ b + first - 1 \in 1 .. n
    BY <1>2, LenProperties
  <2>2. entries[a + first - 1].client = entries[b + first - 1].client
    BY <1>2, <1>3
  <2>3. a + first - 1 = b + first - 1
    BY <2>1, <2>2 DEF OneEach
  <2> QED
    BY <2>1, <2>3, <1>2
<1>4. rest \in Seq(Entry) /\ OneEach(rest)
  BY <1>2, <1>3 DEF OneEach
<1> QED
  BY <1>4 DEF rest

LEMMA ValidateRemembers ==
  ASSUME TokensInv, NEW c \in Clients, Validate(c)
  PROVE  TokensInv'
<1> DEFINE n == Len(used_tokens)
           new == [client |-> c, age |-> 0]
           entries == Append(used_tokens, new)
<1>1. /\ used_tokens \in Seq(Entry) /\ n \in Nat /\ new \in Entry
      /\ \A i \in 1 .. n : used_tokens[i] \in Entry /\ used_tokens[i].client # c
  BY LenProperties, ElementOfSeq DEF TokensInv, Validate, Entry
<1>2. /\ entries \in Seq(Entry) /\ Len(entries) = n + 1 /\ entries[n + 1] = new
      /\ \A i \in 1 .. n : entries[i] = used_tokens[i]
  BY <1>1, AppendProperties
<1>3. used_tokens' = Tracked(entries)
  BY DEF Validate
<1> HIDE DEF entries
<1>4. OneEach(entries)
  <2> SUFFICES ASSUME NEW i \in 1 .. n + 1, NEW j \in 1 .. n + 1,
                      entries[i].client = entries[j].client
               PROVE  i = j
    BY <1>2 DEF OneEach
  <2>1. CASE i \in 1 .. n /\ j \in 1 .. n
    BY <1>2, <2>1 DEF TokensInv, OneEach
  <2>2. CASE i = n + 1 /\ j = n + 1
    BY <2>2
  <2>3. CASE (i = n + 1 /\ j \in 1 .. n) \/ (i \in 1 .. n /\ j = n + 1)
    BY <1>1, <1>2, <2>3
  <2> QED
    BY <1>1, <2>1, <2>2, <2>3
<1>5. used_tokens' \in Seq(Entry) /\ OneEach(used_tokens')
  BY <1>2, <1>3, <1>4, TrackedOneEach
<1>6. /\ since_accepted' \in [Clients -> 0 .. TokenLifetime]
      /\ \A d \in Clients : since_accepted'[d] = IF d = c THEN 0 ELSE since_accepted[d]
  <2>1. 0 \in 0 .. TokenLifetime
    BY SecurityAssumption
  <2> QED
    BY <2>1 DEF Validate, TokensInv
<1>7. /\ DOMAIN others' = Clients /\ others'[c] = {}
      /\ \A d \in Clients : d # c => others'[d] = others[d] \cup {c}
  BY DEF Validate
<1>8. \A d \in Clients : IsFiniteSet(others'[d])
  <2> TAKE d \in Clients
  <2>1. CASE d = c
    BY <1>7, <2>1, FS_EmptySet
  <2>2. CASE d # c
    <3>1. IsFiniteSet(others[d])
      BY DEF TokensInv
    <3> QED
      BY <1>7, <2>2, <3>1, FS_AddElement
  <2> QED
    BY <2>1, <2>2
<1>9. ASSUME NEW d \in Clients, since_accepted'[d] < TokenLifetime,
             Cardinality(others'[d]) < MaxTrackedTokens
      PROVE  \E i \in 1 .. n + 1 :
               /\ entries[i].client = d /\ entries[i].age <= since_accepted'[d]
               /\ \A j \in i + 1 .. Len(entries) : entries[j].client \in others'[d]
  <2>1. CASE d = c
    <3>1. n + 1 \in 1 .. n + 1 /\ n + 1 + 1 .. n + 1 = {} /\ since_accepted'[d] = 0
      BY <1>1, <1>6, <2>1
    <3>2. entries[n + 1].client = d /\ entries[n + 1].age <= since_accepted'[d]
      BY <1>2, <2>1, <3>1 DEF new
    <3> QED
      BY <1>2, <3>1, <3>2
  <2>2. CASE d # c
    <3>1. /\ since_accepted'[d] = since_accepted[d] /\ since_accepted[d] < TokenLifetime
          /\ others'[d] = others[d] \cup {c}
      BY <1>6, <1>7, <1>9, <2>2
    <3>2. Cardinality(others[d]) < MaxTrackedTokens
      <4>1. IsFiniteSet(others[d]) /\ IsFiniteSet(others'[d])
        BY <1>8, <3>1 DEF TokensInv
      <4>2. /\ Cardinality(others[d]) <= Cardinality(others'[d])
            /\ Cardinality(others[d]) \in Nat /\ Cardinality(others'[d]) \in Nat
        BY <3>1, <4>1, FS_Subset, FS_CardinalityType
      <4> QED
        BY <1>9, <4>2, SecurityAssumption
    <3>3. Remembered(d)
      BY <3>1, <3>2 DEF TokensInv
    <3>4. PICK i \in 1 .. n : /\ used_tokens[i].client = d
                              /\ used_tokens[i].age <= since_accepted[d]
                              /\ \A j \in i + 1 .. n : used_tokens[j].client \in others[d]
      BY <3>3 DEF Remembered
    <3>5. ASSUME NEW j \in i + 1 .. Len(entries) PROVE entries[j].client \in others'[d]
      <4>1. CASE j = n + 1
        BY <1>2, <3>1, <4>1
      <4>2. CASE j \in i + 1 .. n
        <5>1. j \in 1 .. n
          BY <1>1, <4>2
        <5> QED
          BY <1>2, <3>1, <3>4, <4>2, <5>1
      <4> QED
        BY <1>1, <1>2, <4>1, <4>2
    <3>6. i \in 1 .. n + 1 /\ entries[i] = used_tokens[i]
      BY <1>1, <1>2
    <3> QED
      BY <3>1, <3>4, <3>5, <3>6
  <2> QED
    BY <2>1, <2>2
<1>10. ASSUME NEW d \in Clients, since_accepted'[d] < TokenLifetime,
              Cardinality(others'[d]) < MaxTrackedTokens
       PROVE  Remembered(d)'
  <2>1. PICK i \in 1 .. n + 1 :
          /\ entries[i].client = d /\ entries[i].age <= since_accepted'[d]
          /\ \A j \in i + 1 .. Len(entries) : entries[j].client \in others'[d]
    BY <1>9, <1>10
  <2>2. since_accepted'[d] \in 0 .. TokenLifetime /\ IsFiniteSet(others'[d])
    BY <1>6, <1>8
  <2>3. entries[i].age < TokenLifetime
    <3>1. entries[i] \in Entry
      BY <1>2, ElementOfSeq
    <3>2. entries[i].age \in Nat
      BY <3>1 DEF Entry
    <3> QED
      BY <1>10, <2>1, <2>2, <3>2, SecurityAssumption
  <2> DEFINE T == others'[d]
  <2>4. IsFiniteSet(T) /\ Cardinality(T) < MaxTrackedTokens /\ i \in 1 .. Len(entries)
        /\ \A j \in i + 1 .. Len(entries) : entries[j].client \in T
    BY <1>2, <1>10, <2>1, <2>2
  <2> HIDE DEF T
  <2>5. \E k \in 1 .. Len(Tracked(entries)) :
          /\ Tracked(entries)[k] = entries[i]
          /\ \A j \in k + 1 .. Len(Tracked(entries)) : Tracked(entries)[j].client \in T
    BY <1>2, <1>4, <2>3, <2>4, StaysTracked
  <2>6. PICK k \in 1 .. Len(used_tokens') :
          /\ used_tokens'[k] = entries[i]
          /\ \A j \in k + 1 .. Len(used_tokens') : used_tokens'[j].client \in T
    BY <1>3, <2>5
  <2> QED
    BY <2>1, <2>6 DEF Remembered, T
<1>11. ~replayed'
  <2> SUFFICES ASSUME since_accepted[c] < TokenLifetime,
                      Cardinality(others[c]) < MaxTrackedTokens
               PROVE  FALSE
    BY DEF TokensInv, Validate
  <2>1. Remembered(c)
    BY DEF TokensInv
  <2> QED
    BY <1>1, <2>1 DEF Remembered
<1> HIDE DEF n, new
<1> QED
  BY <1>5, <1>6, <1>7, <1>8, <1>10, <1>11 DEF TokensInv, OneEach

LEMMA TickRemembers ==
  ASSUME TokensInv, TokensTick
  PROVE  TokensInv'
<1> DEFINE n == Len(used_tokens)
<1>1. /\ used_tokens \in Seq(Entry) /\ n \in Nat
      /\ \A i \in 1 .. n : used_tokens[i] \in Entry
      /\ TokenLifetime \in Nat
  BY LenProperties, ElementOfSeq, SecurityAssumption DEF TokensInv
<1>2. \A i \in 1 .. n : used_tokens[i].age \in Nat
  BY <1>1 DEF Entry
<1>3. \A i \in 1 .. n : [used_tokens[i] EXCEPT !.age = Older(@, TokenLifetime)] \in Entry
  BY <1>1, <1>2 DEF Entry, Older
<1>4. /\ Len(used_tokens') = n /\ used_tokens' \in Seq(Entry)
      /\ \A i \in 1 .. n : /\ used_tokens'[i].client = used_tokens[i].client
                           /\ used_tokens'[i].age = Older(used_tokens[i].age, TokenLifetime)
  <2>1. used_tokens' = [i \in 1 .. n |->
                          [used_tokens[i] EXCEPT !.age = Older(@, TokenLifetime)]]
    BY DEF TokensTick
  <2>2. used_tokens' \in Seq(Entry) /\ Len(used_tokens') = n
    BY <1>1, <1>3, <2>1
  <2>3. \A i \in 1 .. n : used_tokens'[i] = [used_tokens[i] EXCEPT !.age = Older(@, TokenLifetime)]
    BY <2>1
  <2> QED
    BY <1>1, <2>2, <2>3 DEF Entry
<1>5. /\ UNCHANGED <<others, replayed>>
      /\ \A c \in Clients : since_accepted'[c] = Older(since_accepted[c], TokenLifetime)
  BY DEF TokensTick
<1>6. since_accepted' \in [Clients -> 0 .. TokenLifetime]
  BY <1>1 DEF TokensTick, TokensInv, Older
<1>7. OneEach(used_tokens')
  BY <1>4 DEF TokensInv, OneEach
<1>8. ASSUME NEW c \in Clients, since_accepted'[c] < TokenLifetime,
             Cardinality(others'[c]) < MaxTrackedTokens
      PROVE  Remembered(c)'
  <2>1. others'[c] = others[c] /\ since_accepted[c] \in 0 .. TokenLifetime
    BY <1>5 DEF TokensInv
  <2>2. since_accepted[c] < TokenLifetime /\ since_accepted'[c] = since_accepted[c] + 1
    BY <1>1, <1>5, <1>8, <2>1 DEF Older
  <2>4. Remembered(c)
    BY <1>8, <2>1, <2>2 DEF TokensInv
  <2>5. PICK i \in 1 .. n : /\ used_tokens[i].client = c
                            /\ used_tokens[i].age <= since_accepted[c]
                            /\ \A j \in i + 1 .. n : used_tokens[j].client \in others[c]
    BY <2>4 DEF Remembered
  <2>6. used_tokens'[i].age <= since_accepted'[c]
    BY <1>1, <1>2, <1>4, <2>1, <2>2, <2>5 DEF Older
  <2>7. \A j \in i + 1 .. n : used_tokens'[j].client \in others'[c]
    <3> TAKE j \in i + 1 .. n
    <3>1. j \in 1 .. n
      BY <1>1
    <3> QED
      BY <1>4, <2>1, <2>5, <3>1
  <2>8. i \in 1 .. Len(used_tokens') /\ used_tokens'[i].client = c
    BY <1>4, <2>5
  <2> HIDE DEF n
  <2> QED
    BY <1>4, <2>6, <2>7, <2>8 DEF Remembered
<1> HIDE DEF n
<1> QED
  BY <1>4, <1>5, <1>6, <1>7, <1>8 DEF TokensInv, OneEach

LEMMA IssueRemembers ==
  ASSUME TokensInv, NEW c \in Clients, Issue(c)
  PROVE  TokensInv'
<1>1. /\ UNCHANGED <<used_tokens, others, replayed>>
      /\ \A d \in Clients :
           since_accepted'[d] = IF d = c THEN TokenLifetime ELSE since_accepted[d]
      /\ since_accepted' \in [Clients -> 0 .. TokenLifetime]
  BY SecurityAssumption DEF Issue, TokensInv
<1>2. ASSUME NEW d \in Clients, since_accepted'[d] < TokenLifetime,
             Cardinality(others'[d]) < MaxTrackedTokens
      PROVE  Remembered(d)'
  <2>1. d # c /\ since_accepted'[d] = since_accepted[d]
    BY <1>1, <1>2, SecurityAssumption
  <2>2. Remembered(d)
    BY <1>1, <1>2, <2>1 DEF TokensInv
  <2> QED
    BY <1>1, <2>1, <2>2 DEF Remembered
<1> QED
  BY <1>1, <1>2 DEF TokensInv, OneEach

LEMMA RememberedInit ==
  ASSUME TokensInit
  PROVE  TokensInv
<1>1. used_tokens \in Seq(Entry) /\ Len(used_tokens) = 0
  BY EmptySeq DEF TokensInit
<1>2. OneEach(used_tokens)
  BY <1>1 DEF OneEach
<1>3. \A c \in Clients : IsFiniteSet(others[c])
  BY FS_EmptySet DEF TokensInit
<1>4. /\ since_accepted \in [Clients -> 0 .. TokenLifetime]
      /\ \A c \in Clients : ~(since_accepted[c] < TokenLifetime)
  BY SecurityAssumption DEF TokensInit
<1> QED
  BY <1>1, <1>2, <1>3, <1>4 DEF TokensInit, TokensInv

LEMMA RememberedStep ==
  ASSUME TokensInv, [TokensNext]_tokenVars
  PROVE  TokensInv'
<1>1. CASE UNCHANGED tokenVars
  BY <1>1 DEF TokensInv, tokenVars, Remembered, OneEach
<1>2. CASE TokensTick
  BY <1>2, TickRemembers
<1>3. ASSUME NEW c \in Clients, Validate(c) PROVE TokensInv'
  BY <1>3, ValidateRemembers
<1>4. ASSUME NEW c \in Clients, Issue(c) PROVE TokensInv'
  BY <1>4, IssueRemembers
<1> QED
  BY <1>1, <1>2, <1>3, <1>4 DEF TokensNext

\* However validations, tokens issued anew and the passing of time alternate, and
\* whether a token outlives its entry or not, it is accepted again only once the
\* entry's lifetime has passed or the tokens of as many other clients were validated
\* since as there is room for.
THEOREM TokensAcceptedOnce == TokensSpec => []TokenAcceptedOnce
<1>1. TokensInit => TokensInv
  BY RememberedInit
<1>2. TokensInv /\ [TokensNext]_tokenVars => TokensInv'
  BY RememberedStep
<1>3. TokensInv => TokenAcceptedOnce
  BY DEF TokensInv, TokenAcceptedOnce
<1> QED
  BY <1>1, <1>2, <1>3, PTL DEF TokensSpec
-----------------------------------------------------------------------------
(* The rate limiter (Security) *)

LimiterSpec == LimiterInit /\ [][LimiterNext]_limiterVars

\* The requests allowed lately are the timestamps kept that are still young, whatever
\* has or has not been cleaned up.
LimiterInv ==
  /\ requests \in [IPs -> Seq(Nat)]
  /\ \A ip \in IPs : /\ Len(requests[ip]) <= MaxRequests
                     /\ granted[ip] = Retained(requests[ip])
  /\ DOMAIN granted = IPs

LEMMA RetainedIs ==
  ASSUME NEW r \in Seq(Nat)
  PROVE  LET first == FirstYounger(r, Window)
         IN  /\ first \in 1 .. Len(r) + 1
             /\ \A i \in 1 .. first - 1 : r[i] >= Window
             /\ first <= Len(r) => r[first] < Window
             /\ Retained(r) = SubSeq(r, first, Len(r))
             /\ Retained(r) \in Seq(Nat)
             /\ Len(Retained(r)) = Len(r) - first + 1
             /\ \A i \in 1 .. Len(r) - first + 1 : Retained(r)[i] = r[i + first - 1]
<1> DEFINE first == FirstYounger(r, Window)
<1>1. Len(r) \in Nat /\ \A i \in 1 .. Len(r) : r[i] \in Nat
  BY LenProperties, ElementOfSeq
<1>2. /\ first \in 1 .. Len(r) + 1
      /\ \A i \in 1 .. first - 1 : r[i] >= Window
      /\ first <= Len(r) => r[first] < Window
  BY <1>1, YoungerBegin, SecurityAssumption
<1> HIDE DEF first
<1>3. Retained(r) = SubSeq(r, first, Len(r))
  BY DEF Retained, YoungerThan, first
<1>4. /\ Retained(r) \in Seq(Nat) /\ Len(Retained(r)) = Len(r) - first + 1
      /\ \A i \in 1 .. Len(r) - first + 1 : Retained(r)[i] = r[i + first - 1]
  BY <1>2, <1>3, SuffixIs
<1> QED
  BY <1>2, <1>3, <1>4 DEF first

\* All of it is kept when the oldest is young.
LEMMA RetainedWhole ==
  ASSUME NEW r \in Seq(Nat), Len(r) > 0 => r[1] < Window
  PROVE  Retained(r) = r
<1> DEFINE first == FirstYounger(r, Window)
<1>1. /\ first \in 1 .. Len(r) + 1
      /\ \A i \in 1 .. first - 1 : r[i] >= Window
      /\ Retained(r) = SubSeq(r, first, Len(r))
  BY RetainedIs
<1>2. Len(r) \in Nat /\ Window \in Nat /\ \A i \in 1 .. Len(r) : r[i] \in Nat
  BY LenProperties, ElementOfSeq, SecurityAssumption
<1> HIDE DEF first
<1>3. first = 1
  <2> SUFFICES ASSUME first # 1 PROVE FALSE
    OBVIOUS
  <2>1. 1 \in 1 .. first - 1 /\ Len(r) > 0 /\ 1 \in 1 .. Len(r)
    BY <1>1, <1>2
  <2> QED
    BY <1>1, <1>2, <2>1
<1> QED
  BY <1>1, <1>3, SubSeqFull

LEMMA RetainedTwice ==
  ASSUME NEW r \in Seq(Nat)
  PROVE  /\ Retained(Retained(r)) = Retained(r)
         /\ Retained(Append(Retained(r), 0)) = Append(Retained(r), 0)
         /\ Append(Retained(r), 0) \in Seq(Nat)
         /\ Len(Append(Retained(r), 0)) = Len(Retained(r)) + 1
         /\ Len(Retained(r)) \in Nat /\ Len(Retained(r)) <= Len(r)
<1> DEFINE first == FirstYounger(r, Window)
           kept == Retained(r)
<1>1. /\ first \in 1 .. Len(r) + 1 /\ (first <= Len(r) => r[first] < Window)
      /\ kept \in Seq(Nat) /\ Len(kept) = Len(r) - first + 1
      /\ \A i \in 1 .. Len(r) - first + 1 : kept[i] = r[i + first - 1]
  BY RetainedIs
<1>2. Len(r) \in Nat /\ Len(kept) \in Nat
  BY <1>1, LenProperties
<1> HIDE DEF first, kept
<1>3. Len(kept) > 0 => kept[1] < Window
  <2> SUFFICES ASSUME Len(kept) > 0 PROVE kept[1] < Window
    OBVIOUS
  <2>1. 1 \in 1 .. Len(r) - first + 1 /\ 1 + first - 1 = first /\ first <= Len(r)
    BY <1>1, <1>2
  <2> QED
    BY <1>1, <2>1
<1> DEFINE more == Append(kept, 0)
<1>4. /\ more \in Seq(Nat) /\ Len(more) = Len(kept) + 1 /\ more[Len(kept) + 1] = 0
      /\ \A i \in 1 .. Len(kept) : more[i] = kept[i]
  <2>1. kept \in Seq(Nat) /\ 0 \in Nat
    BY <1>1
  <2> QED
    BY <2>1, AppendProperties
<1>5. more[1] < Window
  <2>1. CASE Len(kept) > 0
    BY <1>2, <1>3, <1>4, <2>1
  <2>2. CASE Len(kept) = 0
    BY <1>4, <2>2, SecurityAssumption
  <2> QED
    BY <1>2, <2>1, <2>2
<1> HIDE DEF more
<1>6. Retained(kept) = kept /\ Retained(more) = more
  BY <1>1, <1>3, <1>4, <1>5, RetainedWhole
<1>7. Len(kept) <= Len(r)
  BY <1>1, <1>2
<1> QED
  BY <1>2, <1>4, <1>6, <1>7 DEF kept, more

LEMMA AgedIs ==
  ASSUME NEW r \in Seq(Nat)
  PROVE  /\ Aged(r) \in Seq(Nat) /\ Len(Aged(r)) = Len(r)
         /\ \A i \in 1 .. Len(r) : Aged(r)[i] = Older(r[i], Window)
<1>1. Len(r) \in Nat /\ Window \in Nat /\ \A i \in 1 .. Len(r) : r[i] \in Nat
  BY LenProperties, ElementOfSeq, SecurityAssumption
<1>2. \A i \in 1 .. Len(r) : Older(r[i], Window) \in Nat
  BY <1>1 DEF Older
<1> QED
  BY <1>1, <1>2 DEF Aged

\* What is not young stays so: it makes no difference that it is still there.
LEMMA RetainedAged ==
  ASSUME NEW r \in Seq(Nat)
  PROVE  Retained(Aged(Retained(r))) = Retained(Aged(r))
<1> DEFINE n == Len(r)
           f == FirstYounger(r, Window)
           kept == Retained(r)
           a == Aged(r)
           b == Aged(kept)
           g == FirstYounger(a, Window)
           h == FirstYounger(b, Window)
<1>1. n \in Nat /\ Window \in Nat /\ \A i \in 1 .. n : r[i] \in Nat
  BY LenProperties, ElementOfSeq, SecurityAssumption
<1>2. /\ f \in 1 .. n + 1 /\ (\A i \in 1 .. f - 1 : r[i] >= Window)
      /\ kept \in Seq(Nat) /\ Len(kept) = n - f + 1
      /\ \A i \in 1 .. n - f + 1 : kept[i] = r[i + f - 1]
  BY RetainedIs
<1>3. /\ a \in Seq(Nat) /\ Len(a) = n
      /\ \A i \in 1 .. n : a[i] = Older(r[i], Window)
  BY AgedIs
<1>4. /\ b \in Seq(Nat) /\ Len(b) = n - f + 1
      /\ \A i \in 1 .. n - f + 1 : b[i] = Older(kept[i], Window)
  BY <1>2, AgedIs
<1> HIDE DEF n, f, kept, a, b
<1>5. /\ g \in 1 .. n + 1 /\ (\A i \in 1 .. g - 1 : a[i] >= Window)
      /\ (g <= n => a[g] < Window) /\ Retained(a) = SubSeq(a, g, n)
  BY <1>3, RetainedIs
<1>6. /\ h \in 1 .. n - f + 2 /\ (\A i \in 1 .. h - 1 : b[i] >= Window)
      /\ (h <= n - f + 1 => b[h] < Window) /\ Retained(b) = SubSeq(b, h, Len(b))
  <2>1. n - f + 1 + 1 = n - f + 2
    BY <1>1, <1>2
  <2> QED
    BY <1>4, <2>1, RetainedIs
<1> HIDE DEF g, h
<1>7. \A i \in 1 .. f - 1 : a[i] >= Window
  <2> TAKE i \in 1 .. f - 1
  <2>1. i \in 1 .. n
    BY <1>1, <1>2
  <2> QED
    <3>1. r[i] \in Nat /\ r[i] >= Window /\ a[i] = Older(r[i], Window)
      BY <1>1, <1>2, <1>3, <2>1
    <3>2. Older(r[i], Window) = r[i]
      BY <1>1, <3>1 DEF Older
    <3> QED
      BY <3>1, <3>2
<1>8. \A i \in 1 .. n - f + 1 : i + f - 1 \in 1 .. n /\ b[i] = a[i + f - 1]
  <2> TAKE i \in 1 .. n - f + 1
  <2>1. i + f - 1 \in 1 .. n
    BY <1>1, <1>2
  <2> QED
    BY <1>2, <1>3, <1>4, <2>1
<1>9. \A i \in 1 .. n : a[i] \in Nat
  BY <1>3, ElementOfSeq
<1>10. g = h + f - 1
  <2>1. CASE g < h + f - 1
    <3>1. g \in 1 .. n
      BY <1>1, <1>2, <1>5, <1>6, <2>1
    <3>2. CASE g < f
      <4>1. g \in 1 .. f - 1
        BY <1>1, <1>2, <3>1, <3>2
      <4> QED
        BY <1>1, <1>5, <1>7, <1>9, <3>1, <4>1
    <3>3. CASE g >= f
      <4>1. /\ g - f + 1 \in 1 .. h - 1 /\ g - f + 1 \in 1 .. n - f + 1
            /\ g - f + 1 + f - 1 = g
        BY <1>1, <1>2, <1>6, <2>1, <3>1, <3>3
      <4>2. b[g - f + 1] >= Window /\ b[g - f + 1] = a[g - f + 1 + f - 1]
        BY <1>6, <1>8, <4>1
      <4> QED
        BY <1>1, <1>5, <1>9, <3>1, <4>1, <4>2
    <3> QED
      BY <1>1, <1>2, <3>1, <3>2, <3>3
  <2>2. CASE g > h + f - 1
    <3>1. h \in 1 .. n - f + 1 /\ h + f - 1 \in 1 .. g - 1 /\ h + f - 1 \in 1 .. n
      BY <1>1, <1>2, <1>5, <1>6, <2>2
    <3>2. b[h] < Window /\ b[h] = a[h + f - 1] /\ a[h + f - 1] >= Window
      BY <1>5, <1>6, <1>8, <3>1
    <3> QED
      BY <1>1, <1>9, <3>1, <3>2
  <2> QED
    BY <1>1, <1>2, <1>5, <1>6, <2>1, <2>2
<1>11. b = SubSeq(a, f, n)
  <2>1. /\ SubSeq(a, f, n) \in Seq(Nat) /\ Len(SubSeq(a, f, n)) = n - f + 1
        /\ \A i \in 1 .. n - f + 1 : SubSeq(a, f, n)[i] = a[i + f - 1]
    BY <1>2, <1>3, SuffixIs
  <2> DEFINE c == SubSeq(a, f, n)
  <2> HIDE DEF c
  <2>2. b = c
    BY <1>4, <1>8, <2>1, SeqEqual DEF c
  <2> QED
    BY <2>2 DEF c
<1>12. SubSeq(b, h, Len(b)) = SubSeq(a, h + f - 1, n)
  BY <1>2, <1>3, <1>6, <1>11, SuffixOfSuffix
<1> QED
  BY <1>5, <1>6, <1>10, <1>12 DEF a, b, kept

LEMMA RetainedInit ==
  ASSUME LimiterInit
  PROVE  LimiterInv
<1> DEFINE none == <<>>
<1>1. none \in Seq(Nat) /\ Len(none) = 0 /\ ~(Len(none) > 0)
  BY EmptySeq
<1> HIDE DEF none
<1>2. Retained(none) = none
  BY <1>1, RetainedWhole
<1> QED
  BY <1>1, <1>2, SecurityAssumption DEF LimiterInit, LimiterInv, none

LEMMA RetainedStep ==
  ASSUME LimiterInv, [LimiterNext]_limiterVars
  PROVE  LimiterInv'
<1>1. CASE UNCHANGED limiterVars
  BY <1>1 DEF LimiterInv, limiterVars
<1>2. \A ip \in IPs : requests[ip] \in Seq(Nat) /\ Len(requests[ip]) \in Nat
  BY LenProperties DEF LimiterInv
<1>3. ASSUME NEW addr \in Addresses, Allow(addr) PROVE LimiterInv'
  <2> DEFINE ip == addr.ip
             kept == Retained(requests[ip])
  <2>1. ip \in IPs
    BY DEF IPs
  <2> HIDE DEF ip
  <2>2. /\ Retained(kept) = kept /\ kept \in Seq(Nat)
        /\ Retained(Append(kept, 0)) = Append(kept, 0) /\ Append(kept, 0) \in Seq(Nat)
        /\ Len(Append(kept, 0)) = Len(kept) + 1
        /\ Len(kept) \in Nat /\ Len(kept) <= Len(requests[ip])
    BY <1>2, <2>1, RetainedTwice, RetainedIs
  <2>3. granted[ip] = kept /\ Len(requests[ip]) <= MaxRequests /\ MaxRequests \in Nat
    BY <2>1, SecurityAssumption DEF LimiterInv
  <2>4. CASE Len(kept) >= MaxRequests
    <3>1. requests' = [requests EXCEPT ![ip] = kept] /\ granted' = granted
      BY <1>3, <2>4 DEF Allow, ip
    <3>2. Len(kept) <= MaxRequests
      BY <1>2, <2>1, <2>2, <2>3
    <3> HIDE DEF kept
    <3> QED
      BY <2>1, <2>2, <2>3, <3>1, <3>2 DEF LimiterInv
  <2>5. CASE ~(Len(kept) >= MaxRequests)
    <3>1. /\ requests' = [requests EXCEPT ![ip] = Append(kept, 0)]
          /\ granted' = [granted EXCEPT ![ip] = Append(kept, 0)]
      BY <1>3, <2>3, <2>5 DEF Allow, ip
    <3>2. Len(kept) + 1 <= MaxRequests
      BY <2>2, <2>3, <2>5
    <3> DEFINE more == Append(kept, 0)
    <3>3. requests'[ip] = more /\ granted'[ip] = more
      BY <2>1, <3>1 DEF LimiterInv
    <3> HIDE DEF kept, more
    <3>4. \A other \in IPs : other # ip =>
            requests'[other] = requests[other] /\ granted'[other] = granted[other]
      BY <3>1 DEF LimiterInv
    <3>5. requests' \in [IPs -> Seq(Nat)] /\ DOMAIN granted' = IPs
      BY <2>1, <2>2, <3>1 DEF LimiterInv
    <3>6. Len(more) <= MaxRequests /\ Retained(more) = more
      BY <2>2, <3>2 DEF more
    <3> QED
      BY <2>1, <3>3, <3>4, <3>5, <3>6 DEF LimiterInv
  <2> QED
    BY <2>4, <2>5
<1>4. CASE CleanupRequests
  <2>1. /\ requests' = [ip \in IPs |-> Retained(requests[ip])] /\ granted' = granted
    BY <1>4 DEF CleanupRequests
  <2>2. ASSUME NEW ip \in IPs
        PROVE  /\ requests'[ip] \in Seq(Nat) /\ Len(requests'[ip]) <= MaxRequests
               /\ granted'[ip] = Retained(requests'[ip])
    <3>1. /\ Retained(Retained(requests[ip])) = Retained(requests[ip])
          /\ Retained(requests[ip]) \in Seq(Nat)
          /\ Len(Retained(requests[ip])) \in Nat
          /\ Len(Retained(requests[ip])) <= Len(requests[ip])
      BY <1>2, RetainedTwice, RetainedIs
    <3>2. Len(Retained(requests[ip])) <= MaxRequests
      BY <1>2, <3>1, SecurityAssumption DEF LimiterInv
    <3> QED
      BY <2>1, <3>1, <3>2 DEF LimiterInv
  <2> QED
    BY <2>1, <2>2 DEF LimiterInv
<1>5. CASE LimiterTick
  <2>1. /\ requests' = [ip \in IPs |-> Aged(requests[ip])]
        /\ granted' = [ip \in IPs |-> Retained(Aged(granted[ip]))]
    BY <1>5 DEF LimiterTick, Retained
  <2>2. ASSUME NEW ip \in IPs
        PROVE  /\ requests'[ip] \in Seq(Nat) /\ Len(requests'[ip]) <= MaxRequests
               /\ granted'[ip] = Retained(requests'[ip])
    <3>1. Aged(requests[ip]) \in Seq(Nat) /\ Len(Aged(requests[ip])) = Len(requests[ip])
      BY <1>2, AgedIs
    <3>2. Retained(Aged(Retained(requests[ip]))) = Retained(Aged(requests[ip]))
      BY <1>2, RetainedAged
    <3> QED
      BY <2>1, <3>1, <3>2 DEF LimiterInv
  <2> QED
    BY <2>1, <2>2 DEF LimiterInv
<1> QED
  BY <1>1, <1>3, <1>4, <1>5 DEF LimiterNext

\* Whatever the ports of its requests, an address is allowed at most MaxRequests of
\* them within the window, wherever the window begins, although a timestamp outside
\* of it may still be kept and may be removed at any time.
THEOREM RateAlwaysKept == LimiterSpec => []AllowedWithinRate
<1>1. LimiterInit => LimiterInv
  BY RetainedInit
<1>2. LimiterInv /\ [LimiterNext]_limiterVars => LimiterInv'
  BY RetainedStep
<1>3. LimiterInv => AllowedWithinRate
  <2> SUFFICES ASSUME LimiterInv, NEW ip \in IPs PROVE Len(granted[ip]) <= MaxRequests
    BY DEF AllowedWithinRate
  <2>1. requests[ip] \in Seq(Nat) /\ Len(requests[ip]) \in Nat
    BY LenProperties DEF LimiterInv
  <2>2. /\ Len(Retained(requests[ip])) \in Nat
        /\ Len(Retained(requests[ip])) <= Len(requests[ip])
    BY <2>1, RetainedTwice
  <2> QED
    BY <2>1, <2>2, SecurityAssumption DEF LimiterInv
<1> QED
  BY <1>1, <1>2, <1>3, PTL DEF LimiterSpec
-----------------------------------------------------------------------------
(* The bytes of the fragments (Fragments) *)

\* The bytes of the buffers of these messages.
Bytes(map, ids) == UNION {BytesIn(id, map[id]) : id \in ids}

\* A buffer of finitely many fragments.
SoundBuffer(buffer) ==
  /\ DOMAIN buffer = {"count", "fragments", "age"}
  /\ IsFiniteSet(DOMAIN buffer.fragments)
  /\ \A i \in DOMAIN buffer.fragments : buffer.fragments[i] \in Nat

\* The total is what is held, and what drifted.
HeldInv ==
  /\ IsFiniteSet(DOMAIN buffers)
  /\ \A id \in DOMAIN buffers : SoundBuffer(buffers[id])
  /\ repeated \in Nat
  /\ SizeAccounted

\* The bytes of one fragment.
Run(id, i, n) == {<<id, i, byte>> : byte \in 1 .. n}

LEMMA FiniteRun ==
  ASSUME NEW id, NEW i, NEW n \in Nat
  PROVE  IsFiniteSet(Run(id, i, n)) /\ Cardinality(Run(id, i, n)) = n
<1> DEFINE S == {<<id, i, byte>> : byte \in 1 .. n}
           f == [byte \in 1 .. n |-> <<id, i, byte>>]
<1>1. IsFiniteSet(1 .. n) /\ Cardinality(1 .. n) = n
  <2>1. Cardinality(1 .. n) = IF 1 > n THEN 0 ELSE n - 1 + 1
    BY FS_Interval
  <2> QED
    BY <2>1, FS_Interval
<1>2. f \in Bijection(1 .. n, S)
  <2>1. f \in [1 .. n -> S]
    OBVIOUS
  <2>2. \A a, b \in 1 .. n : f[a] = f[b] => a = b
    OBVIOUS
  <2>3. \A t \in S : \E byte \in 1 .. n : f[byte] = t
    OBVIOUS
  <2> HIDE DEF f, S
  <2> QED
    BY <2>1, <2>2, <2>3 DEF Bijection, Injection, Surjection, IsInjective
<1> HIDE DEF f, S
<1>3. IsFiniteSet(S) /\ Cardinality(S) = n
  BY <1>1, <1>2, FS_Bijection DEF ExistsBijection
<1> QED
  BY <1>3 DEF S, Run

\* A family of finite sets over a finite set has a finite union.
LEMMA FiniteFamily ==
  ASSUME NEW D, IsFiniteSet(D), NEW f, DOMAIN f = D, \A x \in D : IsFiniteSet(f[x])
  PROVE  IsFiniteSet(UNION {f[x] : x \in D})
<1> DEFINE S == {f[x] : x \in D}
           g == [x \in D |-> f[x]]
<1>1. g \in Surjection(D, S)
  <2>1. g \in [D -> S] /\ \A t \in S : \E x \in D : g[x] = t
    OBVIOUS
  <2> HIDE DEF g, S
  <2> QED
    BY <2>1 DEF Surjection
<1>2. \A T \in S : IsFiniteSet(T)
  OBVIOUS
<1> HIDE DEF g, S
<1>3. IsFiniteSet(S)
  BY <1>1, FS_Surjection
<1>4. IsFiniteSet(UNION S)
  BY <1>2, <1>3, FS_UNION
<1> QED
  BY <1>4 DEF S

LEMMA FiniteBytes ==
  ASSUME NEW id, NEW buffer, SoundBuffer(buffer)
  PROVE  IsFiniteSet(BytesIn(id, buffer))
<1> DEFINE D == DOMAIN buffer.fragments
           f == [i \in D |-> Run(id, i, buffer.fragments[i])]
<1>1. \A i \in D : IsFiniteSet(f[i])
  BY FiniteRun DEF SoundBuffer
<1>2. IsFiniteSet(D) /\ DOMAIN f = D
  BY DEF SoundBuffer
<1>3. BytesIn(id, buffer) = UNION {f[i] : i \in D}
  BY DEF BytesIn, Run
<1> HIDE DEF f, D
<1> QED
  BY <1>1, <1>2, <1>3, FiniteFamily

LEMMA FiniteTotal ==
  ASSUME NEW map, NEW ids, IsFiniteSet(ids), \A id \in ids : SoundBuffer(map[id])
  PROVE  IsFiniteSet(Bytes(map, ids)) /\ Cardinality(Bytes(map, ids)) \in Nat
<1> DEFINE f == [id \in ids |-> BytesIn(id, map[id])]
<1>1. \A id \in ids : IsFiniteSet(f[id])
  BY FiniteBytes
<1>2. Bytes(map, ids) = UNION {f[id] : id \in ids} /\ DOMAIN f = ids
  BY DEF Bytes
<1> HIDE DEF f
<1>3. IsFiniteSet(Bytes(map, ids))
  BY <1>1, <1>2, FiniteFamily
<1> QED
  BY <1>3, FS_CardinalityType

LEMMA BytesKnowTheirs ==
  ASSUME NEW id, NEW buffer, NEW t \in BytesIn(id, buffer)
  PROVE  t[1] = id /\ t[2] \in DOMAIN buffer.fragments
  BY DEF BytesIn

\* The sizes of two parts add up.
LEMMA SizesAddUp ==
  ASSUME NEW map, NEW ids, IsFiniteSet(ids), \A id \in ids : SoundBuffer(map[id]),
         NEW S, S \subseteq ids, NEW T, T = ids \ S
  PROVE  Cardinality(Bytes(map, ids)) = Cardinality(Bytes(map, S)) + Cardinality(Bytes(map, T))
<1>1. IsFiniteSet(S) /\ IsFiniteSet(T)
  BY FS_Subset
<1> DEFINE A == Bytes(map, S)
           B == Bytes(map, T)
<1>2. IsFiniteSet(A) /\ IsFiniteSet(B) /\ Cardinality(A) \in Nat /\ Cardinality(B) \in Nat
      /\ Cardinality(Bytes(map, ids)) \in Nat
  BY <1>1, FiniteTotal
<1>3. Bytes(map, ids) = A \cup B
  BY DEF Bytes
<1>4. A \cap B = {}
  <2> SUFFICES ASSUME NEW t \in A, t \in B PROVE FALSE
    OBVIOUS
  <2>1. PICK a \in S : t \in BytesIn(a, map[a])
    BY DEF Bytes
  <2>2. PICK b \in T : t \in BytesIn(b, map[b])
    BY DEF Bytes
  <2> QED
    BY <2>1, <2>2, BytesKnowTheirs
<1> HIDE DEF A, B
<1>5. Cardinality(A \cup B) = Cardinality(A) + Cardinality(B)
  <2>1. Cardinality(A \cap B) = 0
    BY <1>4, FS_EmptySet
  <2>2. Cardinality(A \cup B) = Cardinality(A) + Cardinality(B) - Cardinality(A \cap B)
    BY <1>2, FS_Union
  <2> QED
    BY <1>2, <2>1, <2>2
<1> QED
  BY <1>2, <1>3, <1>5 DEF A, B

LEMMA SizeOfOne ==
  ASSUME NEW map, NEW id
  PROVE  Bytes(map, {id}) = BytesIn(id, map[id])
  BY DEF Bytes

LEMMA SameBytes ==
  ASSUME NEW map, NEW other, NEW ids, \A id \in ids : map[id].fragments = other[id].fragments
  PROVE  Bytes(map, ids) = Bytes(other, ids)
<1>1. \A id \in ids : BytesIn(id, map[id]) = BytesIn(id, other[id])
  BY DEF BytesIn
<1> QED
  BY <1>1 DEF Bytes

\* A fragment that is stored adds its size, no more and no less.
LEMMA InsertAdds ==
  ASSUME NEW p \in Fragment, NEW buffer, SoundBuffer(buffer)
  PROVE  LET after == Inserted(p, buffer)
         IN  /\ SoundBuffer(after)
             /\ after = buffer \/ Cardinality(BytesIn(p.id, after))
                                    = Cardinality(BytesIn(p.id, buffer)) + p.size
<1>1. CASE p.index >= buffer.count \/ p.index \in DOMAIN buffer.fragments
  BY <1>1 DEF Inserted
<1>2. CASE ~(p.index >= buffer.count) /\ p.index \notin DOMAIN buffer.fragments
  <2> DEFINE after == Inserted(p, buffer)
             D == DOMAIN buffer.fragments
             A == BytesIn(p.id, buffer)
             B == Run(p.id, p.index, p.size)
  <2>1. p.size \in Nat
    BY FragmentsAssumption
  <2>2. /\ DOMAIN after = {"count", "fragments", "age"}
        /\ after.fragments = Put(buffer.fragments, p.index, p.size)
    BY <1>2 DEF Inserted, SoundBuffer
  <2>3. /\ DOMAIN after.fragments = D \cup {p.index}
        /\ after.fragments[p.index] = p.size
        /\ \A i \in D : after.fragments[i] = buffer.fragments[i]
    BY <1>2, <2>2 DEF Put
  <2>4. IsFiniteSet(D \cup {p.index})
    BY FS_AddElement DEF SoundBuffer
  <2> HIDE DEF after
  <2>5. SoundBuffer(after)
    BY <2>1, <2>2, <2>3, <2>4 DEF SoundBuffer
  <2>6. BytesIn(p.id, after) = A \cup B
    <3>1. BytesIn(p.id, after)
            = UNION {Run(p.id, i, after.fragments[i]) : i \in D \cup {p.index}}
      BY <2>3 DEF BytesIn, Run
    <3>2. A = UNION {Run(p.id, i, buffer.fragments[i]) : i \in D}
      BY DEF BytesIn, Run
    <3> HIDE DEF A, B, D
    <3>3. /\ \A i \in D : Run(p.id, i, after.fragments[i]) = Run(p.id, i, buffer.fragments[i])
          /\ Run(p.id, p.index, after.fragments[p.index]) = B
      BY <2>3 DEF B
    <3> QED
      BY <3>1, <3>2, <3>3
  <2>7. A \cap B = {}
    <3> SUFFICES ASSUME NEW t \in A, t \in B PROVE FALSE
      OBVIOUS
    <3>1. t[2] \in DOMAIN buffer.fragments
      BY BytesKnowTheirs
    <3>2. t[2] = p.index
      BY DEF Run
    <3> QED
      BY <1>2, <3>1, <3>2
  <2>8. IsFiniteSet(B) /\ Cardinality(B) = p.size
    BY <2>1, FiniteRun
  <2>9. IsFiniteSet(A) /\ Cardinality(A) \in Nat
    BY FiniteBytes, FS_CardinalityType
  <2> HIDE DEF A, B
  <2>10. Cardinality(A \cup B) = Cardinality(A) + Cardinality(B) - Cardinality(A \cap B)
    BY <2>8, <2>9, FS_Union
  <2>11. Cardinality(A \cap B) = 0
    BY <2>7, FS_EmptySet
  <2>12. Cardinality(BytesIn(p.id, after)) = Cardinality(A) + p.size
    BY <2>1, <2>6, <2>8, <2>9, <2>10, <2>11
  <2> QED
    BY <2>5, <2>12 DEF A, after
<1> QED
  BY <1>1, <1>2

\* Without the buffers that timed out the total is still what is held, and what drifted.
LEMMA CleanupAccounts ==
  ASSUME HeldInv
  PROVE  /\ Live \subseteq DOMAIN buffers /\ IsFiniteSet(Live)
         /\ Cardinality(Bytes(buffers, Live)) \in Nat
         /\ SizeAfterCleanup = Cardinality(Bytes(buffers, Live)) + repeated
<1> DEFINE ids == DOMAIN buffers
           gone == ids \ Live
<1>1. IsFiniteSet(ids) /\ (\A id \in ids : SoundBuffer(buffers[id])) /\ repeated \in Nat
  BY DEF HeldInv
<1>2. Live \subseteq ids /\ gone = ids \ Live
  BY DEF Live
<1> HIDE DEF gone, ids
<1>3. Cardinality(Bytes(buffers, ids))
        = Cardinality(Bytes(buffers, Live)) + Cardinality(Bytes(buffers, gone))
  BY <1>1, <1>2, SizesAddUp, Z3
<1>4. Cardinality(Bytes(buffers, Live)) \in Nat /\ Cardinality(Bytes(buffers, gone)) \in Nat
  <2>1. /\ IsFiniteSet(Live) /\ \A id \in Live : SoundBuffer(buffers[id])
        /\ IsFiniteSet(gone) /\ \A id \in gone : SoundBuffer(buffers[id])
    BY <1>1, <1>2, FS_Subset
  <2> QED
    BY <2>1, FiniteTotal
<1>5. current_buffer_size = Cardinality(Bytes(buffers, ids)) + repeated
  BY DEF HeldInv, SizeAccounted, SizeOf, BytesOf, Bytes, ids
<1>6. SizeAfterCleanup
        = SaturatingSub(current_buffer_size, Cardinality(Bytes(buffers, gone)))
  BY DEF SizeAfterCleanup, SizeOf, BytesOf, Bytes, gone, ids
<1>7. SizeAfterCleanup = Cardinality(Bytes(buffers, Live)) + repeated
  BY <1>1, <1>3, <1>4, <1>5, <1>6 DEF SaturatingSub
<1>8. IsFiniteSet(Live)
  BY <1>1, <1>2, FS_Subset
<1> QED
  BY <1>2, <1>4, <1>7, <1>8 DEF ids

\* The invariant of the next state, said of the map it has.
LEMMA HeldNext ==
  ASSUME NEW map, buffers' = map, IsFiniteSet(DOMAIN map),
         \A id \in DOMAIN map : SoundBuffer(map[id]), repeated' \in Nat,
         current_buffer_size' = Cardinality(Bytes(map, DOMAIN map)) + repeated'
  PROVE  HeldInv'
<1>1. SizeOf(DOMAIN buffers)' = Cardinality(Bytes(map, DOMAIN map))
  BY DEF SizeOf, BytesOf, Bytes
<1> QED
  BY <1>1 DEF HeldInv, SizeAccounted, SoundBuffer

LEMMA CleanupHeld ==
  ASSUME HeldInv, Cleanup
  PROVE  HeldInv'
<1> DEFINE map == Restrict(buffers, Live)
<1>1. /\ buffers' = map /\ repeated' = repeated /\ repeated \in Nat
      /\ current_buffer_size' = SizeAfterCleanup
  BY DEF Cleanup, HeldInv
<1>2. DOMAIN map = Live /\ \A id \in Live : map[id] = buffers[id]
  BY DEF Restrict
<1> HIDE DEF map
<1>3. Bytes(map, Live) = Bytes(buffers, Live)
  BY <1>2, SameBytes
<1>4. IsFiniteSet(DOMAIN map) /\ \A id \in DOMAIN map : SoundBuffer(map[id])
  BY <1>2, CleanupAccounts DEF HeldInv
<1> QED
  BY <1>1, <1>2, <1>3, <1>4, CleanupAccounts, HeldNext

LEMMA TakenAway ==
  ASSUME NEW x \in Nat, NEW y \in Nat, NEW z \in Nat, NEW sum, sum = x + y + z
  PROVE  SaturatingSub(sum, y) = x + z
  BY DEF SaturatingSub

\* A fragment taken in: what its message holds grows by its size, or what drifted does.
LEMMA TakeHeld ==
  ASSUME HeldInv, NEW p \in Fragment, Take(p)
  PROVE  HeldInv'
<1>1. PICK expired \in Expirable(p.size) :
        LET kept   == Live \ expired
            before == BufferOf(p, kept)
            buffer == Inserted(p, before)
            stored == buffer # before
            total  == AfterExpiry(expired) + p.size
        IN  /\ \/ /\ Completes(p, before)
                  /\ buffers' = Restrict(buffers, kept \ {p.id})
                  /\ current_buffer_size' = SaturatingSub(total, TotalSize(p.id, buffer))
               \/ /\ ~Completes(p, before)
                  /\ buffers' = Put(Restrict(buffers, kept), p.id, buffer)
                  /\ current_buffer_size' = total
            /\ stored \/ repeats < MaxRepeats
            /\ repeated' = IF stored THEN repeated ELSE repeated + p.size
            /\ repeats' = IF stored THEN repeats ELSE repeats + 1
  BY Zenon DEF Take
<1> DEFINE kept   == Live \ expired
           before == BufferOf(p, kept)
           buffer == Inserted(p, before)
           total  == AfterExpiry(expired) + p.size
           rest   == kept \ {p.id}
           b      == Cardinality(BytesIn(p.id, before))
           a      == Cardinality(BytesIn(p.id, buffer))
           r      == Cardinality(Bytes(buffers, rest))
<1>2. /\ Live \subseteq DOMAIN buffers /\ IsFiniteSet(Live)
      /\ Cardinality(Bytes(buffers, Live)) \in Nat
      /\ SizeAfterCleanup = Cardinality(Bytes(buffers, Live)) + repeated
  BY CleanupAccounts
<1>3. /\ \A id \in DOMAIN buffers : SoundBuffer(buffers[id])
      /\ repeated \in Nat /\ p.size \in Nat
  BY FragmentsAssumption DEF HeldInv
<1>4. expired \subseteq Live
  BY DEF Expirable, Oldest
<1>5. IsFiniteSet(kept) /\ IsFiniteSet(rest) /\ kept \subseteq DOMAIN buffers
  BY <1>2, FS_Subset
<1>6. AfterExpiry(expired) = Cardinality(Bytes(buffers, kept)) + repeated
      /\ Cardinality(Bytes(buffers, kept)) \in Nat
  <2>1. /\ Cardinality(Bytes(buffers, Live))
              = Cardinality(Bytes(buffers, expired)) + Cardinality(Bytes(buffers, kept))
        /\ Cardinality(Bytes(buffers, expired)) \in Nat
        /\ Cardinality(Bytes(buffers, kept)) \in Nat
    <3>1. kept = Live \ expired /\ \A id \in Live : SoundBuffer(buffers[id])
      BY <1>2, <1>3
    <3>2. /\ IsFiniteSet(expired) /\ \A id \in expired : SoundBuffer(buffers[id])
          /\ IsFiniteSet(kept) /\ \A id \in kept : SoundBuffer(buffers[id])
      BY <1>2, <1>4, <3>1, FS_Subset
    <3> HIDE DEF kept, rest, before, buffer, a, b, r, total
    <3>3. /\ Cardinality(Bytes(buffers, expired)) \in Nat
          /\ Cardinality(Bytes(buffers, kept)) \in Nat
      BY <3>2, FiniteTotal
    <3>4. Cardinality(Bytes(buffers, Live))
            = Cardinality(Bytes(buffers, expired)) + Cardinality(Bytes(buffers, kept))
      BY <1>2, <1>4, <3>1, SizesAddUp, Z3
    <3> QED
      BY <3>3, <3>4
  <2>2. AfterExpiry(expired)
          = SaturatingSub(SizeAfterCleanup, Cardinality(Bytes(buffers, expired)))
    BY DEF AfterExpiry, SizeOf, BytesOf, Bytes
  <2> HIDE DEF kept
  <2> QED
    BY <1>2, <1>3, <2>1, <2>2 DEF SaturatingSub
<1>7. SoundBuffer(before) /\ b \in Nat
  <2>1. SoundBuffer(before)
    <3>1. CASE p.id \in kept
      BY <1>3, <1>5, <3>1 DEF BufferOf
    <3>2. CASE p.id \notin kept
      BY <3>2, FS_EmptySet DEF BufferOf, SoundBuffer
    <3> QED
      BY <3>1, <3>2
  <2> HIDE DEF before
  <2> QED
    BY <2>1, FiniteBytes, FS_CardinalityType
<1>8. Cardinality(Bytes(buffers, kept)) = r + b /\ r \in Nat
  <2>1. CASE p.id \in kept
    <3>1. before = buffers[p.id] /\ p.id \in kept
      BY <2>1 DEF BufferOf
    <3>2. /\ Cardinality(Bytes(buffers, kept))
                = Cardinality(Bytes(buffers, {p.id})) + Cardinality(Bytes(buffers, rest))
          /\ Cardinality(Bytes(buffers, {p.id})) \in Nat
          /\ Cardinality(Bytes(buffers, rest)) \in Nat
      <4>1. /\ rest = kept \ {p.id} /\ {p.id} \subseteq kept
            /\ \A id \in kept : SoundBuffer(buffers[id])
        BY <1>3, <1>5, <3>1
      <4>2. /\ IsFiniteSet({p.id}) /\ \A id \in {p.id} : SoundBuffer(buffers[id])
            /\ IsFiniteSet(rest) /\ \A id \in rest : SoundBuffer(buffers[id])
        BY <1>5, <4>1, FS_Singleton
      <4> HIDE DEF kept, rest, before, buffer, a, b, r, total
      <4>3. /\ Cardinality(Bytes(buffers, {p.id})) \in Nat
            /\ Cardinality(Bytes(buffers, rest)) \in Nat
        BY <4>2, FiniteTotal
      <4>4. Cardinality(Bytes(buffers, kept))
              = Cardinality(Bytes(buffers, {p.id})) + Cardinality(Bytes(buffers, rest))
        BY <1>5, <4>1, SizesAddUp, Z3
      <4> QED
        BY <4>3, <4>4
    <3>3. Bytes(buffers, {p.id}) = BytesIn(p.id, before)
      BY <3>1, SizeOfOne
    <3> HIDE DEF kept, rest, before
    <3> QED
      BY <3>2, <3>3
  <2>2. CASE p.id \notin kept
    <3>1. rest = kept
      BY <2>2
    <3>2. BytesIn(p.id, before) = {}
      BY <2>2 DEF BufferOf, BytesIn
    <3>3. b = 0
      BY <3>2, FS_EmptySet
    <3> HIDE DEF kept, rest, before, b
    <3> QED
      BY <1>6, <3>1, <3>3
  <2> QED
    BY <2>1, <2>2
<1>9. SoundBuffer(buffer) /\ (buffer = before \/ a = b + p.size)
  <2> HIDE DEF before
  <2> QED
    BY <1>7, InsertAdds
<1>10. a \in Nat
  BY <1>9, FiniteBytes, FS_CardinalityType
<1>11. buffer # before => a = b + p.size
  BY <1>9
<1>12. buffer = before => a = b
  OBVIOUS
<1>13. total = r + b + repeated + p.size
  <2> HIDE DEF kept, rest, before, b, r
  <2> QED
    BY <1>3, <1>6, <1>7, <1>8
<1>14. repeated' \in Nat /\ total = r + a + repeated'
  <2>1. repeated' = IF buffer # before THEN repeated ELSE repeated + p.size
    BY <1>1
  <2> HIDE DEF kept, rest, before, buffer, a, b, r, total
  <2> QED
    BY <1>3, <1>7, <1>8, <1>10, <1>11, <1>12, <1>13, <2>1
<1>15. CASE /\ Completes(p, before)
            /\ buffers' = Restrict(buffers, kept \ {p.id})
            /\ current_buffer_size' = SaturatingSub(total, TotalSize(p.id, buffer))
  <2> DEFINE map == Restrict(buffers, rest)
  <2>1. DOMAIN map = rest /\ \A id \in rest : map[id] = buffers[id]
    BY DEF Restrict
  <2>2. current_buffer_size' = SaturatingSub(total, a) /\ buffers' = map
    BY <1>15 DEF TotalSize
  <2>3. \A id \in rest : SoundBuffer(buffers[id])
    BY <1>3, <1>5
  <2> HIDE DEF kept, rest, before, buffer, map, a, b, r, total
  <2>4. current_buffer_size' = r + repeated'
    <3>1. r \in Nat /\ a \in Nat /\ repeated' \in Nat /\ total = r + a + repeated'
      BY <1>8, <1>10, <1>14, Zenon
    <3> QED
      BY <2>2, <3>1, TakenAway
  <2>5. Cardinality(Bytes(map, rest)) = r
    BY <2>1, SameBytes DEF r
  <2>6. IsFiniteSet(DOMAIN map) /\ \A id \in DOMAIN map : SoundBuffer(map[id])
    BY <1>5, <2>1, <2>3
  <2> QED
    BY <1>14, <2>1, <2>2, <2>4, <2>5, <2>6, HeldNext
<1>16. CASE /\ ~Completes(p, before)
            /\ buffers' = Put(Restrict(buffers, kept), p.id, buffer)
            /\ current_buffer_size' = total
  <2> DEFINE map == Put(Restrict(buffers, kept), p.id, buffer)
             ids == kept \cup {p.id}
  <2>1. /\ DOMAIN map = ids /\ map[p.id] = buffer
        /\ \A id \in rest : map[id] = buffers[id]
    <3> HIDE DEF before, buffer
    <3> QED
      BY DEF Put, Restrict
  <2>2. current_buffer_size' = total /\ buffers' = map
    BY <1>16
  <2>3. \A id \in rest : SoundBuffer(buffers[id])
    BY <1>3, <1>5
  <2>4. IsFiniteSet(ids)
    BY <1>5, FS_AddElement
  <2>5. ids \ {p.id} = rest /\ {p.id} \subseteq ids /\ \A id \in ids : id = p.id \/ id \in rest
    OBVIOUS
  <2> HIDE DEF kept, rest, ids, before, buffer, map
  <2>6. \A id \in ids : SoundBuffer(map[id])
    BY <1>9, <2>1, <2>3, <2>5
  <2>7. /\ Cardinality(Bytes(map, ids))
              = Cardinality(Bytes(map, {p.id})) + Cardinality(Bytes(map, rest))
    BY <2>4, <2>5, <2>6, SizesAddUp, Z3
  <2>8. Bytes(map, {p.id}) = BytesIn(p.id, buffer) /\ Bytes(map, rest) = Bytes(buffers, rest)
    <3>1. Bytes(map, {p.id}) = BytesIn(p.id, map[p.id])
      BY SizeOfOne
    <3>2. \A id \in rest : map[id].fragments = buffers[id].fragments
      BY <2>1
    <3> QED
      BY <2>1, <3>1, <3>2, SameBytes
  <2>9. Cardinality(Bytes(map, ids)) = a + r
    BY <2>7, <2>8
  <2> HIDE DEF a, r, total
  <2>10. current_buffer_size' = Cardinality(Bytes(map, ids)) + repeated'
    BY <1>8, <1>10, <1>14, <2>2, <2>9
  <2> QED
    BY <1>14, <2>1, <2>2, <2>4, <2>6, <2>10, HeldNext
<1> QED
  BY <1>1, <1>15, <1>16

LEMMA HeldInit ==
  ASSUME FragmentsInit
  PROVE  HeldInv
<1>1. DOMAIN buffers = {}
  BY DEF FragmentsInit
<1>2. SizeOf(DOMAIN buffers) = 0
  BY <1>1, FS_EmptySet DEF SizeOf, BytesOf
<1> QED
  BY <1>1, <1>2, FS_EmptySet DEF FragmentsInit, HeldInv, SizeAccounted

LEMMA HeldStep ==
  ASSUME HeldInv, [FragmentsNext]_fragmentsVars
  PROVE  HeldInv'
<1>1. CASE UNCHANGED fragmentsVars
  BY <1>1 DEF HeldInv, fragmentsVars, SizeAccounted, SizeOf, BytesOf, SoundBuffer
<1>2. ASSUME NEW p \in Fragment, ProcessFragment(p) PROVE HeldInv'
  BY <1>2, CleanupHeld, TakeHeld DEF ProcessFragment, DropMismatched
<1>3. CASE Cleanup
  BY <1>3, CleanupHeld
<1>4. CASE FragmentsTick
  <2> DEFINE map == [id \in DOMAIN buffers |->
                       [buffers[id] EXCEPT !.age = IF @ < FragmentTimeout THEN @ + 1 ELSE @]]
  <2>1. buffers' = map /\ UNCHANGED <<current_buffer_size, repeated>>
    BY <1>4 DEF FragmentsTick
  <2>2. /\ DOMAIN map = DOMAIN buffers
        /\ \A id \in DOMAIN buffers : /\ map[id].fragments = buffers[id].fragments
                                      /\ SoundBuffer(map[id])
    BY DEF HeldInv, SoundBuffer
  <2> HIDE DEF map
  <2>3. Bytes(map, DOMAIN map) = Bytes(buffers, DOMAIN buffers)
    BY <2>2, SameBytes
  <2>4. /\ current_buffer_size = Cardinality(Bytes(buffers, DOMAIN buffers)) + repeated
        /\ IsFiniteSet(DOMAIN buffers) /\ repeated \in Nat
    BY DEF HeldInv, SizeAccounted, SizeOf, BytesOf, Bytes
  <2> QED
    BY <2>1, <2>2, <2>3, <2>4, HeldNext
<1> QED
  BY <1>1, <1>2, <1>3, <1>4 DEF FragmentsNext

\* The running total is what is held and the repeated fragments, for any number of
\* messages of any sizes, whatever completes, times out or is evicted in between: the
\* subtractions never saturate and never take away what was not added.
THEOREM SizeAlwaysAccounted == FragmentsSpec => []SizeAccounted
<1>1. FragmentsInit => HeldInv
  BY HeldInit
<1>2. HeldInv /\ [FragmentsNext]_fragmentsVars => HeldInv'
  BY HeldStep
<1>3. HeldInv => SizeAccounted
  BY DEF HeldInv
<1> QED
  BY <1>1, <1>2, <1>3, PTL DEF FragmentsSpec

\* What is left of a message when a fragment comes in.
LEMMA TakeKeeps ==
  ASSUME HeldInv, NEW p \in Fragment, Take(p), NEW id \in Live
  PROVE  \/ KeepsFragments(id)
         \/ id = p.id /\ Completes(p, buffers[id])
         \/ /\ id \in Oldest
            /\ SizeOf(Live) + repeated + p.size > MaxBufferSize
<1>1. PICK expired \in Expirable(p.size) :
        LET kept   == Live \ expired
            before == BufferOf(p, kept)
            buffer == Inserted(p, before)
            stored == buffer # before
            total  == AfterExpiry(expired) + p.size
        IN  /\ \/ /\ Completes(p, before)
                  /\ buffers' = Restrict(buffers, kept \ {p.id})
                  /\ current_buffer_size' = SaturatingSub(total, TotalSize(p.id, buffer))
               \/ /\ ~Completes(p, before)
                  /\ buffers' = Put(Restrict(buffers, kept), p.id, buffer)
                  /\ current_buffer_size' = total
            /\ stored \/ repeats < MaxRepeats
            /\ repeated' = IF stored THEN repeated ELSE repeated + p.size
            /\ repeats' = IF stored THEN repeats ELSE repeats + 1
  BY Zenon DEF Take
<1> DEFINE kept   == Live \ expired
           before == BufferOf(p, kept)
           buffer == Inserted(p, before)
<1>2. id \in DOMAIN buffers /\ kept \subseteq DOMAIN buffers
  BY DEF Live
<1>3. SizeAfterCleanup = SizeOf(Live) + repeated
  BY CleanupAccounts DEF SizeOf, BytesOf, Bytes
<1>4. CASE id \in expired
  <2>1. id \in Oldest /\ SizeAfterCleanup + p.size > MaxBufferSize
    BY <1>4 DEF Expirable
  <2> QED
    BY <1>3, <2>1
<1>5. CASE id \in kept /\ id # p.id
  <2>1. id \in DOMAIN buffers' /\ buffers'[id] = buffers[id]
    <3>1. CASE buffers' = Restrict(buffers, kept \ {p.id})
      BY <1>5, <3>1 DEF Restrict
    <3>2. CASE buffers' = Put(Restrict(buffers, kept), p.id, buffer)
      <4> HIDE DEF buffer, kept
      <4> QED
        BY <1>5, <3>2 DEF Restrict, Put
    <3> QED
      BY <1>1, <3>1, <3>2
  <2> QED
    BY <2>1 DEF KeepsFragments
<1>6. CASE id \in kept /\ id = p.id
  <2>1. before = buffers[id]
    BY <1>6 DEF BufferOf
  <2>2. CASE Completes(p, before)
    BY <1>6, <2>1, <2>2
  <2>3. CASE ~Completes(p, before)
    <3>1. buffers' = Put(Restrict(buffers, kept), p.id, buffer)
      BY <1>1, <2>3
    <3>2. id \in DOMAIN buffers' /\ buffers'[id] = buffer
      <4> HIDE DEF buffer, kept
      <4> QED
        BY <1>6, <3>1 DEF Put
    <3>3. DOMAIN before = {"count", "fragments", "age"}
      BY <1>2, <2>1 DEF HeldInv, SoundBuffer
    <3> HIDE DEF before
    <3>4. DOMAIN before.fragments \subseteq DOMAIN buffer.fragments
      BY <3>3 DEF Inserted, Put
    <3> QED
      BY <2>1, <3>2, <3>4 DEF KeepsFragments
  <2> QED
    BY <2>2, <2>3
<1> QED
  BY <1>4, <1>5, <1>6

\* Whatever messages there are and however large, one that is not overdue loses its
\* fragments only when they are complete, or as the oldest when what is held, what was
\* processed without being stored and the fragment to come exceed max_buffer_size: the
\* size given back for a buffer is the size it took, so no message pays for another.
THEOREM LiveMessagesAlwaysKept == FragmentsSpec => LiveMessagesKept
<1> DEFINE A == \A p \in Fragment : ProcessFragment(p) =>
                  \A id \in Live :
                    \/ KeepsFragments(id)
                    \/ id = p.id /\ Completes(p, buffers[id])
                    \/ /\ id \in Oldest
                       /\ SizeOf(Live) + repeated + p.size > MaxBufferSize
<1>1. HeldInv => A
  <2> SUFFICES ASSUME HeldInv, NEW p \in Fragment, ProcessFragment(p), NEW id \in Live
               PROVE  \/ KeepsFragments(id)
                      \/ id = p.id /\ Completes(p, buffers[id])
                      \/ /\ id \in Oldest
                         /\ SizeOf(Live) + repeated + p.size > MaxBufferSize
    OBVIOUS
  <2>1. CASE DropMismatched(p)
    <3>1. buffers' = Restrict(buffers, Live)
      BY <2>1 DEF DropMismatched, Cleanup
    <3> QED
      BY <3>1 DEF KeepsFragments, Restrict
  <2>2. CASE Take(p)
    BY <2>2, TakeKeeps
  <2> QED
    BY <2>1, <2>2 DEF ProcessFragment
<1>2. HeldInv /\ [FragmentsNext]_fragmentsVars => [A]_fragmentsVars
  <2> HIDE DEF A
  <2> QED
    BY <1>1
<1>3. FragmentsInit => HeldInv
  BY HeldInit
<1>4. HeldInv /\ [FragmentsNext]_fragmentsVars => HeldInv'
  BY HeldStep
<1> QED
  BY <1>2, <1>3, <1>4, PTL DEF FragmentsSpec, LiveMessagesKept

-----------------------------------------------------------------------------
(* What the two managers of Interest promise, for every radius, every size of *)
(* a cell and all positions.                                                  *)

LEMMA SqType ==
  ASSUME NEW x \in Int
  PROVE  Sq(x) \in Nat
BY SMT DEF Sq

LEMMA SqMonotone ==
  ASSUME NEW m \in Nat, NEW n \in Nat, m <= n
  PROVE  Sq(m) <= Sq(n)
BY SMT DEF Sq

LEMMA DistSqType ==
  ASSUME NEW p \in Position, NEW q \in Position
  PROVE  DistSq(p, q) \in Nat
<1>1. \A i \in 1 .. 3 : p[i] - q[i] \in Int
  BY DEF Position
<1>2. \A i \in 1 .. 3 : Sq(p[i] - q[i]) \in Nat
  BY <1>1, SqType, Zenon
<1> QED
  BY <1>2, SMT DEF DistSq

-----------------------------------------------------------------------------
(* The grid *)

\* What is rounded down to a multiple of the size of a cell.
LEMMA CellBounds ==
  ASSUME NEW x \in Int
  PROVE  /\ x \div CellSize \in Int
         /\ (x \div CellSize) * CellSize <= x
         /\ x < (x \div CellSize + 1) * CellSize
BY InterestAssumption, SMT

LEMMA SameOrNextCell ==
  ASSUME NEW x \in Int, NEW y \in Int
  PROVE  /\ x - y \in -CellSize .. CellSize => x \div CellSize - y \div CellSize \in -1 .. 1
         /\ x \div CellSize - y \div CellSize \in -1 .. 1 =>
              x - y \in -(2 * CellSize - 1) .. 2 * CellSize - 1
<1> DEFINE i == x \div CellSize
           j == y \div CellSize
<1>1. /\ i \in Int /\ i * CellSize <= x /\ x < (i + 1) * CellSize
      /\ j \in Int /\ j * CellSize <= y /\ y < (j + 1) * CellSize
  BY CellBounds
<1> HIDE DEF i, j
<1>2. ASSUME x - y \in -CellSize .. CellSize
      PROVE  i - j \in -1 .. 1
  <2>1. i - j < 2
    BY <1>1, <1>2, InterestAssumption, SMT
  <2>2. j - i < 2
    BY <1>1, <1>2, InterestAssumption, SMT
  <2> QED
    BY <1>1, <2>1, <2>2, SMT
<1>3. ASSUME i - j \in -1 .. 1
      PROVE  x - y \in -(2 * CellSize - 1) .. 2 * CellSize - 1
  BY <1>1, <1>3, InterestAssumption, SMT
<1> QED
  BY <1>2, <1>3 DEF i, j

\* GridInterest: "entities in the same or neighboring cells are considered relevant".
\* So no entity less than a cell away on each axis is missed, wherever the borders of
\* the cells are, and none two cells away is taken.
THEOREM GridCoverage ==
  ASSUME NEW p \in Position, NEW q \in Position
  PROVE  /\ (\A axis \in 1 .. 3 : p[axis] - q[axis] \in -CellSize .. CellSize)
               => GridRelevant(p, q)
         /\ GridRelevant(p, q)
               => \A axis \in 1 .. 3 :
                    p[axis] - q[axis] \in -(2 * CellSize - 1) .. 2 * CellSize - 1
<1>1. \A axis \in 1 .. 3 : p[axis] \in Int /\ q[axis] \in Int
  BY DEF Position
<1>2. \A axis \in 1 .. 3 : /\ ToCell(p)[axis] = p[axis] \div CellSize
                          /\ ToCell(q)[axis] = q[axis] \div CellSize
  BY DEF ToCell
<1> QED
  BY <1>1, <1>2, SameOrNextCell, Zenon DEF GridRelevant

-----------------------------------------------------------------------------
(* The radius *)

LEMMA SquareRoot ==
  ASSUME NEW x \in Nat
  PROVE  \E d \in Nat : Sq(d) <= x /\ x < Sq(d + 1)
<1> DEFINE Above == {d \in Nat : x < Sq(d + 1)}
<1>1. x \in Above
  BY SMT DEF Sq
<1>2. PICK d \in Above : \A e \in Above : ~ (<<e, d>> \in OpToRel(<, Nat))
  BY <1>1, NatLessThanWellFounded, WFMin
<1>3. Sq(d) <= x
  <2>1. CASE d = 0
    BY <2>1, SMT DEF Sq
  <2>2. CASE d # 0
    <3>1. d - 1 \in Nat /\ <<d - 1, d>> \in OpToRel(<, Nat)
      BY <2>2 DEF OpToRel
    <3>2. d - 1 \notin Above
      BY <1>2, <3>1
    <3>3. ~ (x < Sq((d - 1) + 1))
      BY <3>1, <3>2
    <3>4. (d - 1) + 1 = d /\ Sq(d) \in Nat
      BY SqType, SMT
    <3> QED
      BY <3>3, <3>4, SMT
  <2> QED
    BY <2>1, <2>2
<1>4. d \in Nat /\ x < Sq(d + 1)
  OBVIOUS
<1> QED
  BY <1>3, <1>4

LEMMA DistanceOfNear ==
  ASSUME NEW p \in Position, NEW q \in Position, DistSq(p, q) < Sq(Radius)
  PROVE  /\ Distance(p, q) \in 0 .. Radius - 1
         /\ Sq(Distance(p, q)) <= DistSq(p, q)
         /\ DistSq(p, q) < Sq(Distance(p, q) + 1)
<1> DEFINE x == DistSq(p, q)
<1>1. x \in Nat
  BY DistSqType
<1>2. Radius \in Nat
  BY InterestAssumption
<1>3. ASSUME NEW d \in Nat, Sq(d) <= x
      PROVE  d \in 0 .. Radius - 1
  <2>1. SUFFICES ASSUME Radius <= d  PROVE FALSE
    BY <1>2, SMT
  <2>2. Sq(Radius) <= Sq(d) /\ Sq(d) \in Nat /\ Sq(Radius) \in Nat
    BY <1>2, <2>1, SqMonotone, SqType
  <2> QED
    BY <1>1, <1>3, <2>2, SMT
<1>4. \E d \in 0 .. Radius : Sq(d) <= x /\ x < Sq(d + 1)
  <2>1. PICK d \in Nat : Sq(d) <= x /\ x < Sq(d + 1)
    BY <1>1, SquareRoot
  <2> QED
    BY <1>2, <1>3, <2>1
<1>5. /\ Distance(p, q) \in 0 .. Radius
      /\ Sq(Distance(p, q)) <= x /\ x < Sq(Distance(p, q) + 1)
  BY <1>4 DEF Distance
<1> QED
  BY <1>3, <1>5

\* RadiusInterest::priority_mod(): "closer entities get higher priority", and an
\* entity is held back for ever (its modifier is 0) if and only if it is not nearer
\* than the radius, which is where entities are still relevant.
THEOREM RadiusFalloff ==
  ASSUME NEW p \in Position, NEW q \in Position, NEW o \in Position
  PROVE  /\ RadiusMod(p, o) \in 0 .. Radius
         /\ DistSq(p, o) <= DistSq(q, o) => RadiusMod(q, o) <= RadiusMod(p, o)
         /\ RadiusMod(p, o) = 0 <=> DistSq(p, o) >= Sq(Radius)
         /\ RadiusMod(p, o) > 0 => RadiusRelevant(p, o)
<1>1. Radius \in Nat /\ Sq(Radius) \in Nat
  BY InterestAssumption, SqType
<1>2. DistSq(p, o) \in Nat /\ DistSq(q, o) \in Nat
  BY DistSqType
<1>3. ASSUME NEW r \in Position, DistSq(r, o) < Sq(Radius)
      PROVE  /\ RadiusMod(r, o) = Radius - Distance(r, o)
             /\ Distance(r, o) \in 0 .. Radius - 1
  <2>1. DistSq(r, o) \in Nat
    BY DistSqType
  <2> QED
    BY <1>1, <1>3, <2>1, DistanceOfNear DEF RadiusMod
<1>4. ASSUME NEW r \in Position, DistSq(r, o) >= Sq(Radius)
      PROVE  RadiusMod(r, o) = 0
  BY <1>4 DEF RadiusMod
<1>5. ASSUME DistSq(p, o) <= DistSq(q, o), DistSq(q, o) < Sq(Radius)
      PROVE  Distance(p, o) <= Distance(q, o)
  <2>1. DistSq(p, o) < Sq(Radius)
    BY <1>1, <1>2, <1>5, SMT
  <2> DEFINE a == Distance(p, o)
             b == Distance(q, o)
  <2>2. /\ a \in Nat /\ Sq(a) <= DistSq(p, o)
        /\ b \in Nat /\ DistSq(q, o) < Sq(b + 1)
    BY <1>1, <1>5, <2>1, DistanceOfNear
  <2>3. SUFFICES ASSUME b + 1 <= a  PROVE FALSE
    BY <2>2, SMT
  <2>4. Sq(b + 1) <= Sq(a) /\ Sq(b + 1) \in Nat /\ Sq(a) \in Nat
    <3>1. b + 1 \in Nat
      BY <2>2, SMT
    <3> QED
      BY <2>2, <2>3, <3>1, SqMonotone, SqType
  <2> QED
    BY <1>2, <1>5, <2>2, <2>4, SMT
<1>6. RadiusMod(p, o) \in 0 .. Radius /\ RadiusMod(q, o) \in 0 .. Radius
  BY <1>1, <1>2, <1>3, <1>4
<1>7. RadiusMod(p, o) = 0 <=> DistSq(p, o) >= Sq(Radius)
  BY <1>1, <1>2, <1>3, <1>4
<1>8. ASSUME DistSq(p, o) <= DistSq(q, o)
      PROVE  RadiusMod(q, o) <= RadiusMod(p, o)
  <2>1. CASE DistSq(q, o) >= Sq(Radius)
    BY <1>1, <1>4, <1>6, <2>1
  <2>2. CASE DistSq(q, o) < Sq(Radius)
    BY <1>1, <1>2, <1>3, <1>5, <1>8, <2>2
  <2> QED
    BY <1>1, <1>2, <2>1, <2>2
<1>9. RadiusMod(p, o) > 0 => RadiusRelevant(p, o)
  BY <1>1, <1>2, <1>4 DEF RadiusRelevant
<1> QED
  BY <1>6, <1>7, <1>8, <1>9

-----------------------------------------------------------------------------
(* The types of the parts whose invariants above do not contain them: what the *)
(* buffers hold, and that no limit is ever passed                              *)

LEMMA AllOfSeq ==
ASSUME NEW S, NEW T, NEW s \in Seq(S), \A i \in 1 .. Len(s) : s[i] \in T
  PROVE  s \in Seq(T)
<1>1. Len(s) \in Nat /\ s = [i \in 1 .. Len(s) |-> s[i]]
  BY LenProperties
<1> DEFINE n == Len(s)
<1> HIDE DEF n
<1>2. s \in [1 .. n -> T]
  BY <1>1 DEF n
<1> QED
  BY <1>1, <1>2, IsASeq DEF n

\* Sending: what the limits rest on; the numbers are numbers, and the channels hold
\* messages.
SendingInv ==
  /\ use_cwnd \in BOOLEAN
  /\ base_send_rate \in SendRates
  /\ send_buffers \in [SendChannels -> Seq(MessageSizes)]
  /\ awaited \in Nat /\ stray \in Nat
  /\ SendingTypeOK

LEMMA TrackWithin ==
  ASSUME SendingInv, NEW bytes, Track(bytes)
  PROVE  awaited' \in Nat /\ stray' \in Nat /\ awaited' + stray' <= MaxTrackedPackets
<1> DEFINE Evictable == IF awaited + stray < MaxTrackedPackets THEN {"none"}
                        ELSE {kind \in {"awaited", "stray"} :
                                (IF kind = "awaited" THEN awaited ELSE stray) > 0}
<1>1. /\ awaited \in Nat /\ stray \in Nat /\ awaited + stray <= MaxTrackedPackets
      /\ MaxTrackedPackets \in Nat \ {0}
  BY SendingAssumption DEF SendingInv, SendingTypeOK
<1>2. PICK evicted \in Evictable :
        /\ awaited' = (IF evicted = "awaited" THEN awaited - 1 ELSE awaited)
                        + (IF bytes <= FragmentThreshold THEN 1 ELSE 0)
        /\ stray' = (IF evicted = "stray" THEN stray - 1 ELSE stray)
                        + (IF bytes <= FragmentThreshold THEN 0 ELSE 1)
  BY DEF Track
<1>3. CASE awaited + stray < MaxTrackedPackets
  BY <1>1, <1>2, <1>3
<1>4. CASE ~(awaited + stray < MaxTrackedPackets)
  BY <1>1, <1>2, <1>4
<1> QED
  BY <1>3, <1>4

LEMMA SendingWithin ==
  ASSUME SendingInv, [SendingNext]_sendingVars
  PROVE  SendingInv'
<1> DEFINE Buffers == send_buffers \in [SendChannels -> Seq(MessageSizes)]
           Short == \A c \in SendChannels : Len(send_buffers[c]) <= SendBufferSize
<1> USE DEF Idle, SendChannels
<1>1. /\ SendBufferSize \in Nat \ {0} /\ Rto \in Nat \ {0} /\ ChannelCount \in Nat \ {0}
      /\ PacketMtu \in Nat \ {0} /\ InitialWindow \in Nat /\ MaxWindow \in Nat
      /\ MessageSizes \subseteq Nat
  BY SendingAssumption
<1>2. CASE UNCHANGED sendingVars
  BY <1>2 DEF SendingInv, SendingTypeOK, sendingVars, ReducedRate
<1>3. CASE StartTick
  <2>1. since_send' \in 0 .. Rto
    BY <1>1, <1>3 DEF StartTick, SendingInv, SendingTypeOK
  <2>2. current_send_rate' \in {base_send_rate, ReducedRate} /\ ReducedRate' = ReducedRate
    BY <1>3 DEF StartTick, RefillBudget, ReducedRate
  <2> QED
    BY <1>1, <1>3, <2>1, <2>2 DEF StartTick, SendingInv, SendingTypeOK
<1>4. ASSUME NEW c \in SendChannels, SendFrom(c) PROVE SendingInv'
  <2> DEFINE s == send_buffers[c]
  <2>1. /\ s \in Seq(MessageSizes) /\ s # <<>> /\ Len(s) <= SendBufferSize
        /\ send_buffers' = [send_buffers EXCEPT ![c] = Tail(s)]
        /\ use_cwnd' = use_cwnd /\ base_send_rate' = base_send_rate
        /\ current_send_rate' = current_send_rate /\ turn' = turn /\ cwnd' = cwnd
    BY <1>4 DEF SendFrom, SendingInv, SendingTypeOK
  <2>2. Tail(s) \in Seq(MessageSizes) /\ Len(Tail(s)) <= SendBufferSize
    <3> HIDE DEF s
    <3>1. Tail(s) \in Seq(MessageSizes) /\ Len(Tail(s)) = Len(s) - 1 /\ Len(s) \in Nat
      BY <2>1, HeadTailProperties, LenProperties
    <3> QED
      BY <1>1, <2>1, <3>1
  <2>3. awaited' \in Nat /\ stray' \in Nat /\ awaited' + stray' <= MaxTrackedPackets
    <3>1. Track(Head(s)) \/ (awaited' = awaited /\ stray' = stray)
      BY <1>4 DEF SendFrom
    <3> QED
      BY <3>1, TrackWithin DEF SendingInv, SendingTypeOK
  <2>4. since_send' \in 0 .. Rto
    BY <1>1, <1>4 DEF SendFrom, OnSend, SendingInv, SendingTypeOK
  <2> DEFINE t == Tail(s)
  <2> HIDE DEF t, s
  <2>5. send_buffers' = [send_buffers EXCEPT ![c] = t]
    BY <2>1 DEF t
  <2>6. Buffers' /\ Short'
    BY <2>2, <2>5 DEF SendingInv, SendingTypeOK, t
  <2> QED
    BY <2>1, <2>3, <2>4, <2>6 DEF SendingInv, SendingTypeOK, ReducedRate
<1>5. CASE NextChannel
  <2>1. turn' \in {Idle} \cup SendChannels
    BY <1>1, <1>5 DEF NextChannel, SendingInv, SendingTypeOK
  <2> QED
    BY <1>5, <2>1 DEF NextChannel, windowVars, SendingInv, SendingTypeOK, ReducedRate
<1>6. ASSUME NEW c \in SendChannels, NEW bytes \in MessageSizes, SendMessage(c, bytes)
      PROVE  SendingInv'
  <2> DEFINE s == send_buffers[c]
             room == IF Len(s) < SendBufferSize THEN s ELSE Tail(s)
             more == Append(room, bytes)
  <2>1. /\ s \in Seq(MessageSizes) /\ Len(s) <= SendBufferSize /\ Len(s) \in Nat
        /\ send_buffers' = [send_buffers EXCEPT ![c] = more]
    <3>1. s \in Seq(MessageSizes) /\ Len(s) <= SendBufferSize
      BY DEF SendingInv, SendingTypeOK
    <3> QED
      BY <1>6, <3>1, LenProperties DEF SendMessage
  <2> HIDE DEF s
  <2>2. room \in Seq(MessageSizes) /\ Len(room) < SendBufferSize /\ Len(room) \in Nat
    <3>1. CASE Len(s) < SendBufferSize
      BY <2>1, <3>1
    <3>2. CASE ~(Len(s) < SendBufferSize)
      <4>1. s # <<>>
        BY <1>1, <2>1, <3>2, EmptySeq
      <4>2. Tail(s) \in Seq(MessageSizes) /\ Len(Tail(s)) = Len(s) - 1
        BY <2>1, <4>1, HeadTailProperties
      <4> QED
        BY <1>1, <2>1, <3>2, <4>2
    <3> QED
      BY <3>1, <3>2
  <2> HIDE DEF room
  <2>3. more \in Seq(MessageSizes) /\ Len(more) = Len(room) + 1
    BY <2>2, AppendProperties
  <2>4. Len(more) <= SendBufferSize
    BY <1>1, <2>2, <2>3
  <2> HIDE DEF more
  <2>5. Buffers' /\ Short'
    BY <2>1, <2>3, <2>4 DEF SendingInv, SendingTypeOK
  <2> QED
    BY <1>6, <2>5 DEF SendMessage, windowVars, SendingInv, SendingTypeOK, ReducedRate
<1>7. CASE Acknowledge
  <2>1. cwnd' \in InitialWindow .. MaxWindow
    BY <1>1, <1>7 DEF Acknowledge, SendingInv, SendingTypeOK
  <2>2. awaited' \in Nat /\ stray' = stray /\ awaited' + stray <= MaxTrackedPackets
    BY <1>7, SendingAssumption DEF Acknowledge, SendingInv, SendingTypeOK
  <2> QED
    BY <1>7, <2>1, <2>2 DEF Acknowledge, SendingInv, SendingTypeOK, ReducedRate
<1>8. CASE LoseTracked
  <2>1. awaited' \in Nat /\ stray' \in Nat /\ awaited' + stray' <= MaxTrackedPackets
    BY <1>8, SendingAssumption DEF LoseTracked, SendingInv, SendingTypeOK
  <2> QED
    BY <1>8, <2>1 DEF LoseTracked, SendingInv, SendingTypeOK, ReducedRate
<1>9. CASE ResetConnection
  <2> DEFINE empty == <<>>
  <2>1. empty \in Seq(MessageSizes) /\ Len(empty) <= SendBufferSize
    BY <1>1, EmptySeq
  <2>2. send_buffers' = [c \in SendChannels |-> empty]
    BY <1>9 DEF ResetConnection
  <2> HIDE DEF empty
  <2>3. Buffers' /\ Short'
    BY <2>1, <2>2
  <2> QED
    BY <1>9, <2>3 DEF ResetConnection, windowVars, SendingInv, SendingTypeOK, ReducedRate
<1> QED
  BY <1>2, <1>3, <1>4, <1>5, <1>6, <1>7, <1>8, <1>9 DEF SendingNext, SendingTick

\* A connection never tracks more packets than max_in_flight, holds more messages than
\* a channel's buffer has room for, sends at a rate other than its two, or has a window
\* smaller than the first one, whatever the application sends and the network loses:
\* every eviction makes room before a record is added.
THEOREM SendingWithinLimits == SendingSpec => []SendingTypeOK
<1>1. SendingInit => SendingInv
  <2> SUFFICES ASSUME SendingInit PROVE SendingInv
    OBVIOUS
  <2> DEFINE empty == <<>>
  <2>1. empty \in Seq(MessageSizes) /\ Len(empty) <= SendBufferSize
    BY SendingAssumption, EmptySeq
  <2>2. send_buffers = [c \in SendChannels |-> empty]
    BY DEF SendingInit
  <2> HIDE DEF empty
  <2>3. /\ send_buffers \in [SendChannels -> Seq(MessageSizes)]
        /\ \A c \in SendChannels : Len(send_buffers[c]) <= SendBufferSize
    BY <2>1, <2>2
  <2> QED
    BY <2>3, SendingAssumption DEF SendingInit, SendingInv, SendingTypeOK
<1>2. SendingInv => SendingTypeOK
  BY DEF SendingInv
<1> QED
  BY <1>1, <1>2, SendingWithin, PTL DEF SendingSpec

\* Interpolation: what the buffer holds was pushed, and the clock shows one of its times.
GivenInv ==
  /\ ShownInv
  /\ snapshot_buffer \in Seq(Timestamps)
  /\ render_time \in RenderTimes

LEMMA GivenStep ==
  ASSUME GivenInv, [InterpolationNext]_interpolationVars
  PROVE  GivenInv'
<1>1. ShownInv'
  BY ShownStep DEF GivenInv
<1>2. ASSUME NEW timestamp \in Timestamps, Push(timestamp) PROVE GivenInv'
  <2> DEFINE a == Append(snapshot_buffer, timestamp)
  <2>1. a \in Seq(Timestamps) /\ Len(a) \in Nat
    BY AppendProperties, LenProperties DEF GivenInv
  <2>2. snapshot_buffer' = Bounded(a) /\ render_time' = render_time
    BY <1>2 DEF Push
  <2> HIDE DEF a
  <2>3. Bounded(a) \in Seq(Timestamps)
    <3>1. CASE Len(a) > 2 * BufferDepth
      <4> DEFINE first == Len(a) - 2 * BufferDepth + 1
      <4>1. first \in 1 .. Len(a) + 1
        BY <2>1, <3>1, InterpolationAssumption
      <4> HIDE DEF first
      <4>2. SubSeq(a, first, Len(a)) \in Seq(Timestamps)
        BY <2>1, <4>1, SuffixIs
      <4> QED
        BY <3>1, <4>2 DEF Bounded, first
    <3>2. CASE ~(Len(a) > 2 * BufferDepth)
      BY <2>1, <3>2 DEF Bounded
    <3> QED
      BY <3>1, <3>2
  <2> QED
    BY <1>1, <2>2, <2>3 DEF GivenInv
<1>3. CASE Sample
  BY <1>1, <1>3 DEF Sample, GivenInv
<1>4. CASE Reset
  BY <1>1, <1>4, EmptySeq DEF Reset, GivenInv
<1>5. CASE UNCHANGED interpolationVars
  BY <1>1, <1>5 DEF interpolationVars, GivenInv
<1> QED
  BY <1>2, <1>3, <1>4, <1>5 DEF InterpolationNext

\* The buffer never holds more snapshots than twice its depth, nor anything but the
\* timestamps of snapshots, whatever comes in and however it is sampled.
THEOREM InterpolationTypeCorrect == InterpolationSpec => []InterpolationTypeOK
<1>1. InterpolationInit => GivenInv
  BY ShownInit, InterpolationAssumption, EmptySeq DEF InterpolationInit, GivenInv
<1>2. GivenInv => InterpolationTypeOK
  BY DEF GivenInv, ShownInv, InterpolationTypeOK
<1> QED
  BY <1>1, <1>2, GivenStep, PTL DEF InterpolationSpec

\* Simulator: a packet that waits.
QueuedPacket == [packet : 1 .. MaxPackets, wait : -1 .. LongestWait]

SimulatorInv == BucketInv /\ SimulatorTypeOK

LEMMA EnqueuedType ==
  ASSUME SimulatorInv, processed < MaxPackets, Enqueue
  PROVE  delayed_packets' \in Seq(QueuedPacket)
<1> USE DEF QueuedPacket
<1>1. /\ processed \in Nat /\ MaxPackets \in Nat /\ processed + 1 \in 1 .. MaxPackets
      /\ Latency \in Nat /\ Jitter \in Nat /\ ReorderSpread \in Nat /\ DuplicateSpread \in Nat
      /\ delayed_packets \in Seq(QueuedPacket)
  BY SimulatorAssumption DEF SimulatorInv, SimulatorTypeOK
<1>2. PICK delay \in DelaysFrom(Latency, Jitter) :
        \E total \in {delay} \cup DelaysFrom(delay, ReorderSpread) :
          \/ delayed_packets' = delayed_packets \o Delayed(total)
          \/ \E again \in DelaysFrom(delay, DuplicateSpread) :
               delayed_packets' = delayed_packets \o Delayed(total)
                                    \o <<[packet |-> processed + 1, wait |-> again]>>
  BY DEF Enqueue
<1>3. PICK total \in {delay} \cup DelaysFrom(delay, ReorderSpread) :
          \/ delayed_packets' = delayed_packets \o Delayed(total)
          \/ \E again \in DelaysFrom(delay, DuplicateSpread) :
               delayed_packets' = delayed_packets \o Delayed(total)
                                    \o <<[packet |-> processed + 1, wait |-> again]>>
  BY <1>2
<1>4. delay \in Nat /\ delay <= Latency + Jitter
  BY <1>1 DEF DelaysFrom
<1>5. total \in Nat /\ total <= delay + ReorderSpread
  BY <1>1, <1>4 DEF DelaysFrom
<1>6. total \in -1 .. LongestWait
  BY <1>1, <1>4, <1>5 DEF LongestWait
<1>7. Delayed(total) \in Seq(QueuedPacket)
  <2>1. [packet |-> processed + 1, wait |-> total] \in QueuedPacket
    BY <1>1, <1>6
  <2> HIDE DEF QueuedPacket
  <2> QED
    BY <2>1, EmptySeq DEF Delayed
<1>8. delayed_packets \o Delayed(total) \in Seq(QueuedPacket)
  <2> HIDE DEF QueuedPacket
  <2> QED
    BY <1>1, <1>7, ConcatProperties
<1>9. ASSUME NEW again \in DelaysFrom(delay, DuplicateSpread)
      PROVE  delayed_packets \o Delayed(total) \o <<[packet |-> processed + 1, wait |-> again]>>
               \in Seq(QueuedPacket)
  <2>1. again \in Nat /\ again <= delay + DuplicateSpread
    BY <1>1, <1>4 DEF DelaysFrom
  <2>2. again \in -1 .. LongestWait
    BY <1>1, <1>4, <2>1 DEF LongestWait
  <2>3. [packet |-> processed + 1, wait |-> again] \in QueuedPacket
    BY <1>1, <2>2
  <2> DEFINE one == <<[packet |-> processed + 1, wait |-> again]>>
  <2> HIDE DEF QueuedPacket
  <2>4. one \in Seq(QueuedPacket)
    BY <2>3
  <2> HIDE DEF one
  <2>5. delayed_packets \o Delayed(total) \o one \in Seq(QueuedPacket)
    BY <1>8, <2>4, ConcatProperties
  <2> QED
    BY <2>5 DEF one
<1> HIDE DEF QueuedPacket
<1> QED
  BY <1>3, <1>8, <1>9

LEMMA SimulatorStep ==
  ASSUME SimulatorInv, [SimulatorNext]_simulatorVars
  PROVE  SimulatorInv'
<1>1. BucketInv'
  BY BucketStep DEF SimulatorInv
<1>2. /\ rate' = rate
  BY DEF SimulatorNext, ProcessSend, ReceiveReady, SimulatorTick, simulatorVars
<1>3. /\ delayed_packets \in Seq(QueuedPacket) /\ Len(delayed_packets) \in Nat
      /\ \A i \in 1 .. Len(delayed_packets) : delayed_packets[i] \in QueuedPacket
      /\ processed \in 0 .. MaxPackets /\ rate \in Rates /\ MaxPackets \in Nat
      /\ LongestWait \in Nat
  <2>1. delayed_packets \in Seq(QueuedPacket)
    BY DEF SimulatorInv, SimulatorTypeOK, QueuedPacket
  <2>2. LongestWait \in Nat
    BY SimulatorAssumption DEF LongestWait
  <2> QED
    BY <2>1, <2>2, LenProperties, ElementOfSeq, SimulatorAssumption
       DEF SimulatorInv, SimulatorTypeOK
<1>4. SUFFICES delayed_packets' \in Seq(QueuedPacket) /\ processed' \in 0 .. MaxPackets
  <2>1. /\ delayed_packets' \in Seq([packet : 1 .. MaxPackets, wait : -1 .. LongestWait])
        /\ processed' \in 0 .. MaxPackets
    BY <1>4 DEF QueuedPacket
  <2>2. /\ (token_bucket_tokens \in 0 .. BucketSize)' /\ last_token_refill' \in 0 .. Second
        /\ (passed \in [1 .. HistoryLength -> Nat])'
    BY <1>1 DEF BucketInv
  <2> QED
    BY <1>1, <1>2, <1>3, <2>1, <2>2 DEF SimulatorInv, SimulatorTypeOK
<1>5. CASE UNCHANGED simulatorVars
  BY <1>3, <1>5 DEF simulatorVars
<1>6. ASSUME NEW size \in PacketSizes, ProcessSend(size)
      PROVE  delayed_packets' \in Seq(QueuedPacket) /\ processed' \in 0 .. MaxPackets
  <2>1. processed < MaxPackets /\ processed' = processed + 1
    BY <1>6 DEF ProcessSend
  <2>2. delayed_packets' = delayed_packets \/ Enqueue
    BY <1>6 DEF ProcessSend, LosePacket, Unlimited, OverBandwidth, WithinLimit
  <2>3. delayed_packets' \in Seq(QueuedPacket)
    BY <1>3, <2>1, <2>2, EnqueuedType
  <2> QED
    BY <1>3, <2>1, <2>3
<1>7. CASE ReceiveReady
  <2>1. PICK n \in 1 .. Len(delayed_packets) :
          delayed_packets' = SubSeq(delayed_packets, n + 1, Len(delayed_packets))
    BY <1>7 DEF ReceiveReady
  <2>2. n + 1 \in 1 .. Len(delayed_packets) + 1
    BY <1>3
  <2>3. delayed_packets' \in Seq(QueuedPacket)
    BY <1>3, <2>1, <2>2, SuffixIs
  <2> QED
    BY <1>3, <1>7, <2>3 DEF ReceiveReady
<1>8. CASE SimulatorTick
  <2> DEFINE p(i) == delayed_packets[i]
             q(i) == [p(i) EXCEPT !.wait = IF @ < 0 THEN @ ELSE @ - 1]
  <2>1. \A i \in 1 .. Len(delayed_packets) : q(i) \in QueuedPacket
    <3> TAKE i \in 1 .. Len(delayed_packets)
    <3>1. p(i) \in QueuedPacket
      BY <1>3
    <3>2. p(i).wait \in -1 .. LongestWait /\ p(i).packet \in 1 .. MaxPackets
      BY <3>1 DEF QueuedPacket
    <3> DEFINE later == IF p(i).wait < 0 THEN p(i).wait ELSE p(i).wait - 1
    <3>3. later \in -1 .. LongestWait
      BY <1>3, <3>2
    <3>4. q(i) = [p(i) EXCEPT !.wait = later]
      OBVIOUS
    <3> HIDE DEF later, p, q
    <3> QED
      BY <3>1, <3>3, <3>4 DEF QueuedPacket
  <2>2. delayed_packets' = [i \in 1 .. Len(delayed_packets) |-> q(i)]
    BY <1>8 DEF SimulatorTick
  <2> HIDE DEF q
  <2>3. delayed_packets' \in Seq(QueuedPacket)
    BY <1>3, <2>1, <2>2, IsASeq
  <2> QED
    BY <1>3, <1>8, <2>3 DEF SimulatorTick
<1> QED
  BY <1>5, <1>6, <1>7, <1>8 DEF SimulatorNext

\* No packet waits longer than the latency and the three spreads together, however the
\* delays are drawn, and the bucket never overflows or runs into debt: process_send(),
\* refill_tokens() and receive_ready().
THEOREM SimulatorTypeCorrect == SimulatorSpec => []SimulatorTypeOK
<1>1. SimulatorInit => SimulatorInv
  <2> SUFFICES ASSUME SimulatorInit PROVE SimulatorInv
    OBVIOUS
  <2>1. BucketInv
    BY BucketInit
  <2>2. delayed_packets \in Seq(QueuedPacket)
    BY EmptySeq DEF SimulatorInit
  <2> QED
    BY <2>1, <2>2, SimulatorAssumption
       DEF SimulatorInit, SimulatorInv, SimulatorTypeOK, BucketInv, QueuedPacket
<1>2. SimulatorInv => SimulatorTypeOK
  BY DEF SimulatorInv
<1> QED
  BY <1>1, <1>2, SimulatorStep, PTL DEF SimulatorSpec

\* Security: an entry, and what the validator keeps.
TrackedEntry == [client : Clients, age : 0 .. TokenLifetime]

TokenTypes ==
  /\ token_age \in [Clients -> 0 .. (ExpireDuration + 1)]
  /\ Len(used_tokens) <= MaxTrackedTokens
  /\ used_tokens \in Seq(TrackedEntry)
  /\ others \in [Clients -> SUBSET Clients]
  /\ replayed \in BOOLEAN

\* Room is made in either of two ways, and either is enough.
LEMMA TrackedFits ==
  ASSUME NEW entries \in Seq(TrackedEntry)
  PROVE  /\ Tracked(entries) \in Seq(TrackedEntry)
         /\ Len(Tracked(entries)) <= MaxTrackedTokens
<1> DEFINE n == Len(entries)
           ages == AgesOf(entries)
           f == FirstYounger(ages, TokenLifetime)
<1>1. n \in Nat /\ \A i \in 1 .. n : entries[i] \in TrackedEntry
  BY LenProperties, ElementOfSeq
<1>2. TokenLifetime \in Nat /\ MaxTrackedTokens \in Nat
  BY SecurityAssumption
<1>3. \A i \in 1 .. n : entries[i].age \in Nat
  BY <1>1, <1>2 DEF TrackedEntry
<1>4. ages \in Seq(Nat) /\ Len(ages) = n /\ \A i \in 1 .. n : ages[i] \in Nat
  BY <1>1, <1>3 DEF AgesOf
<1> HIDE DEF ages
<1>5. f \in 1 .. n + 1
  BY <1>1, <1>2, <1>4, YoungerBegin
<1> HIDE DEF f
<1>6. Fresh(entries) = SubSeq(entries, f, n)
  BY DEF Fresh, f, ages
<1>7. Fresh(entries) \in Seq(TrackedEntry)
  BY <1>5, <1>6, SuffixIs
<1> DEFINE fresh == Fresh(entries)
           l == Len(fresh)
<1> HIDE DEF fresh
<1>8. l \in Nat /\ fresh \in Seq(TrackedEntry)
  BY <1>7, LenProperties DEF fresh
<1>9. CASE ~TooMany(entries)
  BY <1>1, <1>2, <1>9 DEF Tracked, TooMany
<1>10. CASE TooMany(entries) /\ ~TooMany(fresh)
  BY <1>2, <1>8, <1>10 DEF Tracked, TooMany, fresh
<1>11. CASE TooMany(entries) /\ TooMany(fresh)
  <2> DEFINE first == l - MaxTrackedTokens + 1
  <2>1. first \in 1 .. l + 1 /\ l - first + 1 = MaxTrackedTokens
    BY <1>2, <1>8, <1>11 DEF TooMany
  <2>2. Tracked(entries) = SubSeq(fresh, first, l)
    BY <1>11 DEF Tracked, WithoutOldest, fresh
  <2> HIDE DEF first
  <2>3. /\ SubSeq(fresh, first, l) \in Seq(TrackedEntry)
        /\ Len(SubSeq(fresh, first, l)) = l - first + 1
    BY <1>8, <2>1, SuffixIs
  <2> QED
    BY <1>2, <2>1, <2>2, <2>3
<1> QED
  BY <1>9, <1>10, <1>11

LEMMA TokensTyped == TokensSpec => [](TokensInv /\ TokenTypes)
<1>1. TokensInit => TokensInv /\ TokenTypes
  <2> SUFFICES ASSUME TokensInit PROVE TokenTypes
    BY RememberedInit
  <2>1. used_tokens \in Seq(TrackedEntry) /\ Len(used_tokens) = 0
    BY EmptySeq DEF TokensInit
  <2>2. /\ token_age \in [Clients -> 0 .. (ExpireDuration + 1)]
        /\ others \in [Clients -> SUBSET Clients] /\ replayed \in BOOLEAN
    <3>1. ExpireDuration \in Nat
      BY SecurityAssumption
    <3>2. 0 \in 0 .. (ExpireDuration + 1)
      BY <3>1
    <3> QED
      BY <3>2, Zenon DEF TokensInit
  <2> QED
    BY <2>1, <2>2, SecurityAssumption DEF TokenTypes
<1>2. TokensInv /\ TokenTypes /\ [TokensNext]_tokenVars => TokensInv' /\ TokenTypes'
  <2> SUFFICES ASSUME TokensInv, TokenTypes, [TokensNext]_tokenVars PROVE TokenTypes'
    BY RememberedStep
  <2>1. /\ ExpireDuration \in Nat /\ TokenLifetime \in Nat /\ MaxTrackedTokens \in Nat
    BY SecurityAssumption
  <2>2. CASE UNCHANGED tokenVars
    BY <2>2 DEF tokenVars, TokenTypes
  <2>3. ASSUME NEW c \in Clients, Validate(c) PROVE TokenTypes'
    <3> DEFINE new == [client |-> c, age |-> 0]
    <3>1. new \in TrackedEntry
      BY <2>1 DEF TrackedEntry
    <3>2. used_tokens' = Tracked(Append(used_tokens, new))
      BY <2>3 DEF Validate
    <3> HIDE DEF new
    <3>3. Append(used_tokens, new) \in Seq(TrackedEntry)
      BY <3>1, AppendProperties DEF TokenTypes
    <3>4. used_tokens' \in Seq(TrackedEntry) /\ Len(used_tokens') <= MaxTrackedTokens
      BY <3>2, <3>3, TrackedFits
    <3>5. others' \in [Clients -> SUBSET Clients]
      BY <2>3 DEF Validate, TokenTypes
    <3>6. replayed' \in BOOLEAN
      BY <2>3, Zenon DEF Validate, TokenTypes
    <3> QED
      BY <2>3, <3>4, <3>5, <3>6 DEF Validate, TokenTypes
  <2>4. ASSUME NEW c \in Clients, Issue(c) PROVE TokenTypes'
    BY <2>1, <2>4 DEF Issue, TokenTypes
  <2>5. CASE TokensTick
    <3>1. token_age' \in [Clients -> 0 .. (ExpireDuration + 1)]
      BY <2>1, <2>5 DEF TokensTick, Older, TokenTypes
    <3> DEFINE n == Len(used_tokens)
               e(i) == [used_tokens[i] EXCEPT !.age = Older(@, TokenLifetime)]
    <3>2. n \in Nat /\ \A i \in 1 .. n : used_tokens[i] \in TrackedEntry
      BY LenProperties, ElementOfSeq DEF TokenTypes
    <3>3. \A i \in 1 .. n : e(i) \in TrackedEntry
      <4> TAKE i \in 1 .. n
      <4>1. used_tokens[i] \in TrackedEntry
        BY <3>2
      <4>2. Older(used_tokens[i].age, TokenLifetime) \in 0 .. TokenLifetime
        BY <2>1, <4>1 DEF Older, TrackedEntry
      <4> QED
        BY <4>1, <4>2 DEF TrackedEntry
    <3>4. used_tokens' = [i \in 1 .. n |-> e(i)]
      BY <2>5 DEF TokensTick
    <3>5. n <= MaxTrackedTokens
      BY DEF TokenTypes
    <3> HIDE DEF e, n
    <3>6. used_tokens' \in Seq(TrackedEntry) /\ Len(used_tokens') = n
      <4> DEFINE aged == [i \in 1 .. n |-> e(i)]
      <4>1. aged \in [1 .. n -> TrackedEntry]
        BY <3>3
      <4>2. aged \in Seq(TrackedEntry)
        BY <3>2, <3>3, IsASeq
      <4>3. DOMAIN aged = 1 .. n
        OBVIOUS
      <4> HIDE DEF aged
      <4>4. DOMAIN aged = 1 .. Len(aged) /\ Len(aged) \in Nat
        BY <4>2, LenProperties
      <4>5. Len(aged) = n
        BY <3>2, <4>3, <4>4
      <4> QED
        BY <3>4, <4>2, <4>5 DEF aged
    <3> QED
      BY <2>5, <3>1, <3>5, <3>6 DEF TokensTick, TokenTypes
  <2> QED
    BY <2>2, <2>3, <2>4, <2>5 DEF TokensNext
<1> QED
  BY <1>1, <1>2, PTL DEF TokensSpec

\* The timestamps of an address are kept in the order they were made.
Ordered(ages) == \A i, j \in 1 .. Len(ages) : i < j => ages[i] >= ages[j]

YoungRequests ==
  \A ip \in IPs : requests[ip] \in Seq(0 .. Window) /\ Ordered(requests[ip])

LimiterTypes == LimiterInv /\ YoungRequests /\ granted \in [IPs -> Seq(0 .. Window - 1)]

\* Then everything behind the first that is young is young.
LEMMA RetainedYoung ==
  ASSUME NEW r \in Seq(0 .. Window), Ordered(r)
  PROVE  /\ Retained(r) \in Seq(0 .. Window) /\ Ordered(Retained(r))
         /\ Retained(r) \in Seq(0 .. Window - 1)
<1> DEFINE n == Len(r)
           f == FirstYounger(r, Window)
           kept == Retained(r)
<1>1. /\ n \in Nat /\ Window \in Nat
      /\ \A i \in 1 .. n : r[i] \in 0 .. Window /\ r[i] \in Nat
  BY LenProperties, ElementOfSeq, SecurityAssumption
<1>2. r \in Seq(Nat)
  BY <1>1, AllOfSeq
<1>3. /\ f \in 1 .. n + 1 /\ (f <= n => r[f] < Window) /\ kept = SubSeq(r, f, n)
  BY <1>2, RetainedIs
<1> HIDE DEF f, kept
<1>4. /\ kept \in Seq(0 .. Window) /\ Len(kept) = n - f + 1
      /\ \A i \in 1 .. n - f + 1 : i + f - 1 \in f .. n /\ kept[i] = r[i + f - 1]
  BY <1>3, SuffixIs
<1>5. \A i \in f .. n : r[i] \in 0 .. Window - 1
  <2> TAKE i \in f .. n
  <2>1. i \in 1 .. n /\ f \in 1 .. n /\ f <= i
    BY <1>1, <1>3
  <2>2. i = f \/ r[f] >= r[i]
    BY <2>1 DEF Ordered
  <2>3. r[i] \in Nat /\ r[f] \in Nat /\ r[f] < Window
    BY <1>1, <1>3, <2>1
  <2> QED
    BY <1>1, <2>2, <2>3
<1>6. \A i \in 1 .. Len(kept) : kept[i] \in 0 .. Window - 1
  BY <1>4, <1>5
<1>7. Ordered(kept)
  <2> SUFFICES ASSUME NEW i \in 1 .. n - f + 1, NEW j \in 1 .. n - f + 1, i < j
               PROVE  kept[i] >= kept[j]
    BY <1>4 DEF Ordered
  <2>1. i + f - 1 \in 1 .. n /\ j + f - 1 \in 1 .. n /\ i + f - 1 < j + f - 1
    BY <1>1, <1>3
  <2> QED
    BY <1>4, <2>1 DEF Ordered
<1>8. kept \in Seq(0 .. Window - 1)
  BY <1>4, <1>6, AllOfSeq
<1> QED
  BY <1>4, <1>7, <1>8 DEF kept

LEMMA AgedYoung ==
  ASSUME NEW r \in Seq(0 .. Window), Ordered(r)
  PROVE  Aged(r) \in Seq(0 .. Window) /\ Ordered(Aged(r))
<1> DEFINE n == Len(r)
           a == Aged(r)
<1>1. /\ n \in Nat /\ Window \in Nat
      /\ \A i \in 1 .. n : r[i] \in 0 .. Window /\ r[i] \in Nat
  BY LenProperties, ElementOfSeq, SecurityAssumption
<1>2. r \in Seq(Nat)
  BY <1>1, AllOfSeq
<1>3. a \in Seq(Nat) /\ Len(a) = n /\ \A i \in 1 .. n : a[i] = Older(r[i], Window)
  BY <1>2, AgedIs
<1> HIDE DEF a
<1>4. \A i \in 1 .. Len(a) : a[i] \in 0 .. Window
  BY <1>1, <1>3 DEF Older
<1>5. a \in Seq(0 .. Window)
  BY <1>3, <1>4, AllOfSeq
<1>6. Ordered(a)
  <2> SUFFICES ASSUME NEW i \in 1 .. n, NEW j \in 1 .. n, i < j PROVE a[i] >= a[j]
    BY <1>3 DEF Ordered
  <2>1. r[i] >= r[j] /\ r[i] \in Nat /\ r[j] \in Nat
    BY <1>1 DEF Ordered
  <2>2. a[i] = Older(r[i], Window) /\ a[j] = Older(r[j], Window)
    BY <1>3
  <2> QED
    BY <1>1, <2>1, <2>2 DEF Older
<1> QED
  BY <1>5, <1>6 DEF a

LEMMA AppendedYoung ==
  ASSUME NEW r \in Seq(0 .. Window), Ordered(r)
  PROVE  Append(r, 0) \in Seq(0 .. Window) /\ Ordered(Append(r, 0))
<1> DEFINE n == Len(r)
           a == Append(r, 0)
<1>1. /\ n \in Nat /\ 0 \in 0 .. Window
      /\ \A i \in 1 .. n : r[i] \in 0 .. Window /\ r[i] \in Nat
  BY LenProperties, ElementOfSeq, SecurityAssumption
<1>2. /\ a \in Seq(0 .. Window) /\ Len(a) = n + 1 /\ a[n + 1] = 0
      /\ \A i \in 1 .. n : a[i] = r[i]
  BY <1>1, AppendProperties
<1> HIDE DEF a
<1>3. ASSUME NEW i \in 1 .. n + 1, NEW j \in 1 .. n + 1, i < j PROVE a[i] >= a[j]
  <2>1. i \in 1 .. n
    BY <1>1, <1>3
  <2>2. CASE j = n + 1
    BY <1>1, <1>2, <2>1, <2>2
  <2>3. CASE j \in 1 .. n
    BY <1>2, <1>3, <2>1, <2>3 DEF Ordered
  <2> QED
    BY <1>1, <2>2, <2>3
<1> QED
  BY <1>2, <1>3 DEF Ordered, a

LEMMA YoungInit ==
  ASSUME LimiterInit
  PROVE  YoungRequests
<1> DEFINE none == <<>>
<1>1. none \in Seq(0 .. Window) /\ Ordered(none)
  <2>1. none \in Seq(0 .. Window) /\ Len(none) = 0
    BY EmptySeq
  <2> QED
    BY <2>1 DEF Ordered
<1> HIDE DEF none
<1>2. \A ip \in IPs : requests[ip] = none
  BY DEF LimiterInit, none
<1> QED
  BY <1>1, <1>2 DEF YoungRequests

LEMMA YoungStep ==
  ASSUME LimiterInv, YoungRequests, [LimiterNext]_limiterVars
  PROVE  YoungRequests'
<1>1. \A ip \in IPs : /\ requests[ip] \in Seq(0 .. Window) /\ Ordered(requests[ip])
                      /\ Retained(requests[ip]) \in Seq(0 .. Window)
                      /\ Ordered(Retained(requests[ip]))
  BY RetainedYoung DEF YoungRequests
<1>2. CASE UNCHANGED limiterVars
  BY <1>2 DEF limiterVars, YoungRequests
<1>3. ASSUME NEW addr \in Addresses, Allow(addr) PROVE YoungRequests'
  <2> DEFINE ip == addr.ip
             kept == Retained(requests[ip])
             more == Append(kept, 0)
  <2>1. ip \in IPs /\ DOMAIN requests = IPs
    BY DEF IPs, LimiterInv
  <2>2. requests' = [requests EXCEPT ![ip] = kept] \/ requests' = [requests EXCEPT ![ip] = more]
    BY <1>3 DEF Allow
  <2> HIDE DEF ip
  <2>3. kept \in Seq(0 .. Window) /\ Ordered(kept)
    BY <1>1, <2>1
  <2> HIDE DEF kept
  <2>4. more \in Seq(0 .. Window) /\ Ordered(more)
    BY <2>3, AppendedYoung
  <2> HIDE DEF more
  <2>5. \A other \in IPs : \/ requests'[other] = requests[other]
                           \/ requests'[other] = kept
                           \/ requests'[other] = more
    BY <2>1, <2>2
  <2> QED
    BY <1>1, <2>3, <2>4, <2>5 DEF YoungRequests
<1>4. CASE CleanupRequests
  BY <1>1, <1>4 DEF CleanupRequests, YoungRequests
<1>5. CASE LimiterTick
  <2>1. \A ip \in IPs : requests'[ip] = Aged(requests[ip])
    BY <1>5 DEF LimiterTick
  <2> QED
    BY <1>1, <2>1, AgedYoung DEF YoungRequests
<1> QED
  BY <1>2, <1>3, <1>4, <1>5 DEF LimiterNext

\* What was granted lately is what is retained; only that it is a map is left to show.
LEMMA GrantedStep ==
  ASSUME LimiterInv', YoungRequests',
         granted \in [IPs -> Seq(0 .. Window - 1)], [LimiterNext]_limiterVars
  PROVE  granted' \in [IPs -> Seq(0 .. Window - 1)]
<1>1. granted' = [ip \in IPs |-> granted'[ip]]
  <2>1. CASE UNCHANGED granted
    BY <2>1
  <2>2. ASSUME NEW addr \in Addresses,
               granted' = [granted EXCEPT ![addr.ip] = Append(@, 0)]
        PROVE  granted' = [ip \in IPs |-> granted'[ip]]
    BY <2>2
  <2>3. CASE LimiterTick
    BY <2>3 DEF LimiterTick
  <2> QED
    BY <2>1, <2>2, <2>3 DEF LimiterNext, Allow, CleanupRequests, limiterVars
<1>2. ASSUME NEW ip \in IPs PROVE granted'[ip] \in Seq(0 .. Window - 1)
  <2>1. granted'[ip] = Retained(requests'[ip])
    BY DEF LimiterInv
  <2>2. requests'[ip] \in Seq(0 .. Window) /\ Ordered(requests'[ip])
    BY DEF YoungRequests, Ordered
  <2> QED
    BY <2>1, <2>2, RetainedYoung
<1> QED
  BY <1>1, <1>2

LEMMA LimiterTyped == LimiterSpec => []LimiterTypes
<1>1. LimiterInit => LimiterTypes
  <2> SUFFICES ASSUME LimiterInit PROVE LimiterTypes
    OBVIOUS
  <2> DEFINE none == <<>>
  <2>1. granted = [ip \in IPs |-> none] /\ none \in Seq(0 .. Window - 1)
    BY EmptySeq DEF LimiterInit
  <2> HIDE DEF none
  <2> QED
    BY <2>1, RetainedInit, YoungInit DEF LimiterTypes
<1>2. LimiterTypes /\ [LimiterNext]_limiterVars => LimiterTypes'
  BY RetainedStep, YoungStep, GrantedStep DEF LimiterTypes
<1> QED
  BY <1>1, <1>2, PTL DEF LimiterSpec

\* The validator tracks no more tokens than it has room for, and the limiter keeps no
\* more timestamps of an address than requests are allowed, however many come: the two
\* ways in which the code makes room are enough.
THEOREM SecurityBounded == TokensSpec /\ LimiterSpec => []SecurityTypeOK
<1>1. TokensInv /\ TokenTypes /\ LimiterTypes => SecurityTypeOK
  <2> SUFFICES ASSUME TokensInv, TokenTypes, LimiterTypes PROVE SecurityTypeOK
    OBVIOUS
  <2>1. requests \in [IPs -> Seq(0 .. Window)]
    BY DEF LimiterTypes, YoungRequests, LimiterInv
  <2> QED
    BY <2>1 DEF SecurityTypeOK, TokensInv, TokenTypes, TrackedEntry, LimiterTypes, LimiterInv
<1> QED
  BY <1>1, TokensTyped, LimiterTyped, PTL

\* Fragments: a buffer holds some fragments of one message, but never all, unless its
\* header said that there are none.
PartialBuffer(id, buffer) ==
  /\ \E p \in Fragment : p.id = id /\ p.count = buffer.count
  /\ DOMAIN buffer.fragments \subseteq 0 .. (buffer.count - 1)
  /\ buffer.age \in 0 .. FragmentTimeout
  /\ IsComplete(buffer) => buffer.count = 0

PartialInv ==
  /\ HeldInv
  /\ \A id \in DOMAIN buffers : PartialBuffer(id, buffers[id])
  /\ repeats \in 0 .. MaxRepeats

LEMMA TakePartial ==
  ASSUME PartialInv, NEW p \in Fragment, Take(p)
  PROVE  /\ \A id \in DOMAIN buffers' : PartialBuffer(id, buffers'[id])
         /\ repeats' \in 0 .. MaxRepeats
<1>1. PICK expired \in Expirable(p.size) :
        LET kept   == Live \ expired
            before == BufferOf(p, kept)
            buffer == Inserted(p, before)
            stored == buffer # before
            total  == AfterExpiry(expired) + p.size
        IN  /\ \/ /\ Completes(p, before)
                  /\ buffers' = Restrict(buffers, kept \ {p.id})
                  /\ current_buffer_size' = SaturatingSub(total, TotalSize(p.id, buffer))
               \/ /\ ~Completes(p, before)
                  /\ buffers' = Put(Restrict(buffers, kept), p.id, buffer)
                  /\ current_buffer_size' = total
            /\ stored \/ repeats < MaxRepeats
            /\ repeated' = IF stored THEN repeated ELSE repeated + p.size
            /\ repeats' = IF stored THEN repeats ELSE repeats + 1
  BY Zenon DEF Take
<1> DEFINE kept   == Live \ expired
           before == BufferOf(p, kept)
           buffer == Inserted(p, before)
<1>2. kept \subseteq DOMAIN buffers /\ \A id \in kept : id \in Live
  BY DEF Live
<1>3. /\ p.count \in Nat /\ p.index \in Nat
      /\ FragmentTimeout \in Nat /\ MaxRepeats \in Nat
  BY FragmentsAssumption
<1>4. repeats' \in 0 .. MaxRepeats
  BY <1>1, <1>3 DEF PartialInv
<1>5. CASE buffers' = Restrict(buffers, kept \ {p.id})
  <2>1. DOMAIN buffers' \subseteq kept /\ \A id \in DOMAIN buffers' : buffers'[id] = buffers[id]
    BY <1>5 DEF Restrict
  <2> HIDE DEF kept
  <2> QED
    BY <1>2, <1>4, <2>1 DEF PartialInv
<1>6. CASE ~Completes(p, before) /\ buffers' = Put(Restrict(buffers, kept), p.id, buffer)
  <2>1. /\ DOMAIN before = {"count", "fragments", "age"}
        /\ before.count = p.count /\ before.age \in 0 .. FragmentTimeout
        /\ DOMAIN before.fragments \subseteq 0 .. (p.count - 1)
        /\ IsComplete(before) => before.count = 0
    <3>1. CASE p.id \in kept
      <4>1. before = buffers[p.id] /\ p.id \in DOMAIN buffers /\ p.id \in Live
        BY <1>2, <3>1 DEF BufferOf
      <4>2. buffers[p.id].count = p.count
        BY <4>1 DEF Take
      <4>3. SoundBuffer(buffers[p.id]) /\ PartialBuffer(p.id, buffers[p.id])
        BY <4>1 DEF PartialInv, HeldInv
      <4> HIDE DEF before
      <4> QED
        BY <4>1, <4>2, <4>3 DEF SoundBuffer, PartialBuffer
    <3>2. CASE p.id \notin kept
      <4>1. before = [count |-> p.count, fragments |-> [i \in {} |-> 0], age |-> 0]
        BY <3>2 DEF BufferOf
      <4> HIDE DEF before
      <4>2. DOMAIN before.fragments = {} /\ before.count = p.count
        BY <4>1
      <4>3. IsComplete(before) => before.count = 0
        BY <4>2, FS_EmptySet DEF IsComplete
      <4>4. 0 \in 0 .. FragmentTimeout
        BY <1>3
      <4> QED
        BY <4>1, <4>2, <4>3, <4>4
    <3> QED
      BY <3>1, <3>2
  <2> HIDE DEF before
  <2>2. /\ buffer.count = p.count /\ buffer.age \in 0 .. FragmentTimeout
        /\ DOMAIN buffer.fragments \subseteq 0 .. (p.count - 1)
        /\ IsComplete(buffer) => buffer.count = 0
    <3>1. CASE p.index >= before.count \/ p.index \in DOMAIN before.fragments
      <4>1. buffer = before
        BY <3>1 DEF Inserted
      <4> QED
        BY <2>1, <4>1
    <3>2. CASE ~(p.index >= before.count) /\ p.index \notin DOMAIN before.fragments
      <4>1. buffer = [before EXCEPT !.fragments = Put(@, p.index, p.size)]
        BY <3>2 DEF Inserted
      <4>2. /\ buffer.count = before.count /\ buffer.age = before.age
            /\ DOMAIN buffer.fragments = DOMAIN before.fragments \cup {p.index}
        BY <2>1, <4>1 DEF Put
      <4>3. p.index \in 0 .. (p.count - 1) /\ p.index < before.count
        BY <1>3, <2>1, <3>2
      <4>4. ~IsComplete(buffer)
        BY <1>6, <4>3 DEF Completes
      <4> HIDE DEF buffer
      <4> QED
        BY <2>1, <4>2, <4>3, <4>4
    <3> HIDE DEF buffer
    <3> QED
      BY <3>1, <3>2
  <2> HIDE DEF buffer, kept
  <2>3. PartialBuffer(p.id, buffer)
    BY <1>6, <2>2 DEF PartialBuffer
  <2>4. /\ \A id \in DOMAIN buffers' : id # p.id => id \in kept /\ buffers'[id] = buffers[id]
        /\ buffers'[p.id] = buffer
    BY <1>6 DEF Put, Restrict
  <2> QED
    BY <1>2, <1>4, <2>3, <2>4 DEF PartialInv
<1> QED
  BY <1>1, <1>5, <1>6

LEMMA PartialStep ==
  ASSUME PartialInv, [FragmentsNext]_fragmentsVars
  PROVE  PartialInv'
<1>1. HeldInv'
  BY HeldStep DEF PartialInv
<1>2. SUFFICES /\ \A id \in DOMAIN buffers' : PartialBuffer(id, buffers'[id])
               /\ repeats' \in 0 .. MaxRepeats
  BY <1>1, <1>2 DEF PartialInv, PartialBuffer, IsComplete
<1>3. CASE UNCHANGED fragmentsVars
  BY <1>3 DEF fragmentsVars, PartialInv
<1>4. CASE Cleanup
  <2>1. /\ DOMAIN buffers' \subseteq DOMAIN buffers /\ repeats' = repeats
        /\ \A id \in DOMAIN buffers' : buffers'[id] = buffers[id]
    BY <1>4 DEF Cleanup, Restrict, Live
  <2> QED
    BY <2>1 DEF PartialInv
<1>5. ASSUME NEW p \in Fragment, Take(p)
      PROVE  /\ \A id \in DOMAIN buffers' : PartialBuffer(id, buffers'[id])
             /\ repeats' \in 0 .. MaxRepeats
  BY <1>5, TakePartial
<1>6. CASE FragmentsTick
  <2>1. repeats' = repeats /\ DOMAIN buffers' = DOMAIN buffers
    BY <1>6 DEF FragmentsTick
  <2>2. ASSUME NEW id \in DOMAIN buffers PROVE PartialBuffer(id, buffers'[id])
    <3>1. buffers'[id] = [buffers[id] EXCEPT !.age = IF @ < FragmentTimeout THEN @ + 1 ELSE @]
      BY <1>6, <2>2 DEF FragmentsTick
    <3>2. DOMAIN buffers[id] = {"count", "fragments", "age"} /\ PartialBuffer(id, buffers[id])
      BY <2>2 DEF PartialInv, HeldInv, SoundBuffer
    <3>3. /\ buffers'[id].count = buffers[id].count
          /\ buffers'[id].fragments = buffers[id].fragments
          /\ buffers'[id].age = IF buffers[id].age < FragmentTimeout THEN buffers[id].age + 1
                                ELSE buffers[id].age
      BY <3>1, <3>2
    <3>4. buffers'[id].age \in 0 .. FragmentTimeout
      BY <3>2, <3>3, FragmentsAssumption DEF PartialBuffer
    <3> QED
      BY <3>2, <3>3, <3>4 DEF PartialBuffer, IsComplete
  <2> QED
    BY <2>1, <2>2 DEF PartialInv
<1> QED
  BY <1>3, <1>4, <1>5, <1>6 DEF FragmentsNext, ProcessFragment, DropMismatched

\* A message that has all its fragments never stays behind, none holds a fragment it does
\* not have, and the running total is never negative, whatever comes in, in which order
\* and how often: FragmentAssembler::process_fragment() and cleanup().
THEOREM FragmentsTypeCorrect == FragmentsSpec => []FragmentsTypeOK
<1>1. FragmentsInit => PartialInv
  BY HeldInit, FragmentsAssumption DEF FragmentsInit, PartialInv
<1>2. PartialInv => FragmentsTypeOK
  <2> SUFFICES ASSUME PartialInv PROVE FragmentsTypeOK
    OBVIOUS
  <2>1. current_buffer_size \in Nat
    <3>1. \A id \in DOMAIN buffers : SoundBuffer(buffers[id])
      BY DEF PartialInv, HeldInv
    <3>2. Cardinality(Bytes(buffers, DOMAIN buffers)) \in Nat
      BY <3>1, FiniteTotal DEF PartialInv, HeldInv
    <3> QED
      BY <3>2 DEF PartialInv, HeldInv, SizeAccounted, SizeOf, BytesOf, Bytes
  <2> QED
    BY <2>1 DEF PartialInv, HeldInv, PartialBuffer, FragmentsTypeOK
<1> QED
  BY <1>1, <1>2, PartialStep, PTL DEF FragmentsSpec

\* Delta: what is in flight gives values to some of the fields, a whole state to all.
SoundBody(body) ==
  /\ body.bitmask \subseteq FieldSet
  /\ Len(body.values) = Cardinality(body.bitmask)
  /\ ReadBack(body) \in [body.bitmask -> Nat]

SoundPayload(p) ==
  /\ p.base_seq \in Numbering /\ p.seq \in Numbering
  /\ p.whole \in BOOLEAN /\ p.state \in Ranks
  /\ SoundBody(p.body)
  /\ p.whole => p.body.bitmask = FieldSet

HeldSnapshot == [seq : Numbering, values : [FieldSet -> Nat]]

DeltaInv ==
  /\ DecodeInv
  /\ Len(pending) <= MaxPending
  /\ \A p \in payloads : SoundPayload(p)
  /\ acks \subseteq Numbering
  /\ snapshots \in Seq(HeldSnapshot) /\ Len(snapshots) <= MaxSnapshots

LEMMA WrittenSound ==
  ASSUME NEW fields \in SUBSET FieldSet, NEW delta \in [fields -> Nat],
         \A f \in fields : delta[f] < Capacity[f]
  PROVE  SoundBody(Written(delta)) /\ Written(delta).bitmask = fields
<1>1. ReadBack(Written(delta)) = delta
  BY WrittenIsRead
<1> DEFINE At(i) == CHOOSE f \in fields : PlaceOf(f, fields) = i
           n == Cardinality(fields)
           values == [i \in 1 .. n |-> delta[At(i)] % Capacity[At(i)]]
<1>2. DOMAIN delta = fields
  OBVIOUS
<1>3. Written(delta).bitmask = fields /\ Written(delta).values = values
  BY <1>2 DEF Written
<1>4. n \in Nat
  <2>1. 1 \in Int /\ FieldCount \in Int /\ FieldSet = 1 .. FieldCount
    <3>1. FieldCount \in 1 .. 64
      BY DeltaAssumption
    <3> QED BY <3>1 DEF FieldSet
  <2>2. IsFiniteSet(FieldSet)
    BY <2>1, FS_Interval
  <2> QED
    BY <2>2, FS_Subset, FS_CardinalityType
<1>5. DOMAIN values = 1 .. n
  OBVIOUS
<1> HIDE DEF values, n
<1>6. Len(values) = n
  BY <1>4, <1>5, LenProperties
<1> QED
  BY <1>1, <1>3, <1>6 DEF SoundBody, n

LEMMA EncodeTyped ==
  ASSUME DeltaInv, Encode
  PROVE  (\A p \in payloads' : SoundPayload(p)) /\ Len(pending') <= MaxPending
<1> DEFINE r == encoded + 1
           whole == confirmed_baseline = None
           base == confirmed_baseline.state
           delta == IF whole THEN Contents[r] ELSE Difference(Contents[r], Contents[base])
           p == [base_seq |-> confirmed_baseline.seq, seq |-> NumberOf(r),
                 whole |-> whole, body |-> Written(delta), state |-> r]
           room == IF Len(pending) >= MaxPending THEN Tail(pending) ELSE pending
           entry == [seq |-> NumberOf(r), state |-> r]
<1>1. payloads' = payloads \cup {p} /\ pending' = Append(room, entry)
  BY DEF Encode
<1>2. /\ r \in Ranks /\ confirmed_baseline \in Entries \cup {None} /\ pending \in Seq(Entries)
  BY DeltaAssumption, LenProperties DEF DeltaInv, DecodeInv, BaselineInv, Encode, Ranks
<1>3. NumberOf(r) \in Numbering /\ entry \in Entries
  BY <1>2, NumberIs DEF Entries
<1> HIDE DEF r, entry
<1>4. confirmed_baseline.seq \in Numbering /\ (~whole => base \in Ranks)
  <2>1. NO_BASELINE \in Numbering
    BY DeltaAssumption DEF Numbering
  <2> QED
    BY <1>2, <2>1, EntryIs, NoneIs, NumberIs
<1>5. SoundBody(Written(delta)) /\ (whole => Written(delta).bitmask = FieldSet)
  <2>1. Contents[r] \in [FieldSet -> Nat] /\ \A f \in FieldSet : Contents[r][f] < Capacity[f]
    BY <1>2, StateIs
  <2>2. CASE whole
    <3>1. delta = Contents[r]
      BY <2>2
    <3> HIDE DEF delta
    <3> QED
      BY <2>1, <2>2, <3>1, WrittenSound
  <2>3. CASE ~whole
    <3> DEFINE fields == {f \in FieldSet : Contents[r][f] # Contents[base][f]}
    <3>1. delta = [f \in fields |-> Contents[r][f]]
      BY <2>3 DEF Difference
    <3>2. delta \in [fields -> Nat] /\ \A f \in fields : delta[f] < Capacity[f]
      BY <2>1, <3>1
    <3>3. fields \in SUBSET FieldSet
      OBVIOUS
    <3> HIDE DEF delta, fields
    <3> QED
      BY <2>3, <3>2, <3>3, WrittenSound
  <2> QED
    BY <2>2, <2>3
<1> HIDE DEF delta
<1>6. SoundPayload(p)
  BY <1>2, <1>3, <1>4, <1>5 DEF SoundPayload
<1>7. Len(pending') <= MaxPending
  <2>1. /\ room \in Seq(Entries) /\ Len(room) < MaxPending
    <3>1. Len(pending) \in Nat /\ MaxPending \in Nat \ {0} /\ Len(pending) <= MaxPending
      BY <1>2, LenProperties, DeltaAssumption DEF DeltaInv
    <3>2. CASE Len(pending) >= MaxPending
      <4>1. pending # <<>>
        BY <3>1, <3>2, EmptySeq
      <4>2. Tail(pending) \in Seq(Entries) /\ Len(Tail(pending)) = Len(pending) - 1
        BY <1>2, <4>1, HeadTailProperties
      <4> QED
        BY <3>1, <3>2, <4>2
    <3>3. CASE ~(Len(pending) >= MaxPending)
      BY <1>2, <3>1, <3>3
    <3> QED
      BY <3>2, <3>3
  <2> HIDE DEF room
  <2>2. Len(pending') = Len(room) + 1 /\ Len(room) \in Nat
    BY <1>1, <1>3, <2>1, AppendProperties, LenProperties
  <2> QED
    BY <2>1, <2>2, DeltaAssumption
<1> QED
  BY <1>1, <1>6, <1>7 DEF DeltaInv

LEMMA AckTyped ==
  ASSUME DeltaInv, NEW ack_seq \in acks, OnAck(ack_seq), BaselineInv'
  PROVE  Len(pending') <= MaxPending
<1>1. /\ pending \in Seq(Entries) /\ Len(pending) \in Nat /\ Len(pending) <= MaxPending
      /\ MaxPending \in Nat
  BY LenProperties, DeltaAssumption DEF DeltaInv, DecodeInv, BaselineInv
<1>2. CASE pending' = pending
  BY <1>1, <1>2
<1>3. ASSUME NEW i \in 1 .. Len(pending), pending' = Kept(RemoveAt(pending, i), ack_seq)
      PROVE  Len(pending') <= MaxPending
  <2> DEFINE rest == RemoveAt(pending, i)
             n == Len(rest)
             fresh == {j \in 1 .. n : ~Before(rest[j].seq, ack_seq)}
  <2>1. rest \in Seq(Entries) /\ n = Len(pending) - 1 /\ n \in Nat
    BY <1>1, RemovedAt
  <2> HIDE DEF rest
  <2>2. CASE fresh = {}
    <3>1. pending' = <<>>
      BY <1>3, <2>2 DEF Kept, rest
    <3> QED
      BY <1>1, <3>1, EmptySeq
  <2>3. CASE fresh # {}
    <3> DEFINE first == CHOOSE j \in fresh : \A k \in fresh : j <= k
    <3>1. fresh \in SUBSET Nat
      BY <2>1
    <3>2. first \in fresh
      <4> HIDE DEF fresh
      <4> QED
        BY <2>3, <3>1, FirstOf
    <3>3. pending' = SubSeq(rest, first, n)
      BY <1>3, <2>3 DEF Kept, rest
    <3>4. first \in 1 .. n /\ first \in 1 .. n + 1
      BY <2>1, <3>2
    <3> HIDE DEF first
    <3>5. Len(SubSeq(rest, first, n)) = n - first + 1
      BY <2>1, <3>4, SuffixIs
    <3> QED
      BY <1>1, <2>1, <3>3, <3>4, <3>5
  <2> QED
    BY <2>2, <2>3
<1> QED
  BY <1>2, <1>3 DEF OnAck

LEMMA ReceiveTyped ==
  ASSUME DeltaInv, NEW p \in payloads, ReceivePayload(p)
  PROVE  snapshots' \in Seq(HeldSnapshot) /\ Len(snapshots') <= MaxSnapshots
<1>1. /\ SoundPayload(p) /\ snapshots \in Seq(HeldSnapshot) /\ Len(snapshots) \in Nat
      /\ MaxSnapshots \in Nat \ {0} /\ Len(snapshots) <= MaxSnapshots
  BY LenProperties, DeltaAssumption DEF DeltaInv
<1>2. Decoded(p) \in [FieldSet -> Nat]
  <2>1. ReadBack(p.body) \in [p.body.bitmask -> Nat] /\ p.body.bitmask \subseteq FieldSet
    BY <1>1 DEF SoundPayload, SoundBody
  <2>2. CASE p.base_seq # NO_BASELINE
    <3>1. HasBaseline(p.base_seq)
      BY <2>2 DEF ReceivePayload
    <3>2. PICK i \in 1 .. Len(snapshots) : Baseline(p.base_seq) = snapshots[i].values
      BY <1>1, <3>1, LatestFound
    <3>3. snapshots[i] \in HeldSnapshot
      BY <1>1, ElementOfSeq
    <3>4. Baseline(p.base_seq) \in [FieldSet -> Nat]
      BY <3>2, <3>3 DEF HeldSnapshot
    <3> QED
      BY <2>1, <2>2, <3>4 DEF Decoded, Applied
  <2>3. CASE p.base_seq = NO_BASELINE /\ p.whole
    BY <1>1, <2>1, <2>3 DEF Decoded, SoundPayload
  <2>4. CASE p.base_seq = NO_BASELINE /\ ~p.whole
    <3>1. \A f \in FieldSet : Capacity[f] \in Nat
      BY DeltaAssumption DEF FieldSet
    <3> QED
      BY <2>4, <3>1 DEF Decoded, Garbage
  <2> QED
    BY <2>2, <2>3, <2>4
<1> DEFINE snapshot == [seq |-> p.seq, values |-> Decoded(p)]
<1>3. snapshot \in HeldSnapshot
  BY <1>1, <1>2 DEF HeldSnapshot, SoundPayload
<1>4. PICK expired \in 0 .. Len(snapshots) : snapshots' = Pushed(snapshot, expired)
  BY DEF ReceivePayload
<1> HIDE DEF snapshot
<1> DEFINE live == SubSeq(snapshots, expired + 1, Len(snapshots))
           room == IF Len(live) >= MaxSnapshots THEN Tail(live) ELSE live
<1>5. live \in Seq(HeldSnapshot) /\ Len(live) \in Nat /\ Len(live) <= MaxSnapshots
  <2>1. expired + 1 \in 1 .. Len(snapshots) + 1
    BY <1>1
  <2>2. live \in Seq(HeldSnapshot) /\ Len(live) = Len(snapshots) - (expired + 1) + 1
    BY <1>1, <2>1, SuffixIs
  <2> QED
    BY <1>1, <2>2
<1>6. snapshots' = Append(room, snapshot)
  BY <1>4 DEF Pushed
<1> HIDE DEF live
<1>7. room \in Seq(HeldSnapshot) /\ Len(room) < MaxSnapshots
  <2>1. CASE Len(live) >= MaxSnapshots
    <3>1. live # <<>>
      BY <1>1, <1>5, <2>1, EmptySeq
    <3>2. Tail(live) \in Seq(HeldSnapshot) /\ Len(Tail(live)) = Len(live) - 1
      BY <1>5, <3>1, HeadTailProperties
    <3> QED
      BY <1>1, <1>5, <2>1, <3>2
  <2>2. CASE ~(Len(live) >= MaxSnapshots)
    BY <1>1, <1>5, <2>2
  <2> QED
    BY <2>1, <2>2
<1> HIDE DEF room
<1>8. snapshots' \in Seq(HeldSnapshot) /\ Len(snapshots') = Len(room) + 1 /\ Len(room) \in Nat
  BY <1>3, <1>6, <1>7, AppendProperties, LenProperties
<1> QED
  BY <1>1, <1>7, <1>8

LEMMA DeltaStep ==
  ASSUME DeltaInv, [DeltaNext]_deltaVars
  PROVE  DeltaInv'
<1>1. DecodeInv'
  BY DecodeStep DEF DeltaInv
<1>2. CASE UNCHANGED deltaVars
  BY <1>1, <1>2 DEF deltaVars, DeltaInv
<1>3. CASE Encode
  <2>1. UNCHANGED <<acks, snapshots>>
    BY <1>3 DEF Encode
  <2> QED
    BY <1>1, <1>3, <2>1, EncodeTyped DEF DeltaInv
<1>4. ASSUME NEW ack_seq \in acks, OnAck(ack_seq) PROVE DeltaInv'
  <2>1. UNCHANGED <<payloads, acks, snapshots>>
    BY <1>4 DEF OnAck
  <2>2. Len(pending') <= MaxPending
    BY <1>1, <1>4, AckTyped DEF DecodeInv
  <2> QED
    BY <1>1, <2>1, <2>2 DEF DeltaInv
<1>5. ASSUME NEW p \in payloads, ReceivePayload(p) PROVE DeltaInv'
  <2>1. UNCHANGED <<pending, payloads>> /\ acks' = acks \cup {p.seq}
    BY <1>5 DEF ReceivePayload
  <2>2. p.seq \in Numbering
    BY DEF DeltaInv, SoundPayload
  <2> QED
    BY <1>1, <1>5, <2>1, <2>2, ReceiveTyped DEF DeltaInv
<1> QED
  BY <1>2, <1>3, <1>4, <1>5 DEF DeltaNext

\* Neither side ever holds more states than it has room for, and whatever is decoded,
\* wrong baselines included, is a value for every field.
THEOREM DeltaTypeCorrect == DeltaSpec => []DeltaTypeOK
<1>1. DeltaInit => DeltaInv
  <2> SUFFICES ASSUME DeltaInit PROVE DeltaInv
    OBVIOUS
  <2>1. Len(pending) = 0 /\ snapshots \in Seq(HeldSnapshot) /\ Len(snapshots) = 0
    BY EmptySeq DEF DeltaInit
  <2>2. Len(pending) <= MaxPending /\ Len(snapshots) <= MaxSnapshots
    BY <2>1, DeltaAssumption
  <2>3. payloads = {} /\ acks = {}
    BY DEF DeltaInit
  <2> QED
    BY <2>1, <2>2, <2>3, DecodeInit DEF DeltaInv
<1>2. DeltaInv => DeltaTypeOK
  <2> SUFFICES ASSUME DeltaInv PROVE DeltaTypeOK
    OBVIOUS
  <2>1. \A e \in Entries : e \in [seq : Numbering, state : Ranks]
    BY NumberIs DEF Entries
  <2>2. pending \in Seq([seq : Numbering, state : Ranks])
    <3>1. pending \in Seq(Entries)
      BY DEF DeltaInv, DecodeInv, BaselineInv
    <3> QED
      BY <2>1, <3>1, ElementOfSeq, AllOfSeq
  <2>3. confirmed_baseline \in [seq : Numbering, state : Ranks] \cup {None}
    BY <2>1 DEF DeltaInv, DecodeInv, BaselineInv
  <2>4. \A i \in 1 .. Len(snapshots) : snapshots[i].seq \in Numbering
                                       /\ snapshots[i].values \in [FieldSet -> Nat]
    <3>1. \A i \in 1 .. Len(snapshots) : snapshots[i] \in HeldSnapshot
      BY ElementOfSeq DEF DeltaInv
    <3> QED
      BY <3>1 DEF HeldSnapshot
  <2>5. encoded \in 0 .. Len(Contents) /\ garbled \in BOOLEAN /\ mistaken \in BOOLEAN
    BY DEF DeltaInv, DecodeInv, BaselineInv
  <2> QED
    BY <2>2, <2>3, <2>4, <2>5 DEF DeltaInv, SoundPayload, SoundBody, DeltaTypeOK
<1> QED
  BY <1>1, <1>2, DeltaStep, PTL DEF DeltaSpec

=============================================================================
