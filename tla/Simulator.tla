------------------------------ MODULE Simulator -----------------------------
(***************************************************************************)
(* NetworkSimulator of gbnet/src/simulator.rs: packets are lost, delayed   *)
(* in a queue, repeated, or refused by a token bucket.  A draw of a random *)
(* number is a choice of whole ticks; a tick has `rate` bytes.             *)
(*                                                                         *)
(* The queue is released from its front only.  So a packet overtakes only  *)
(* one that waits when it does not wait itself, whatever delays are drawn, *)
(* and one that is due may be held up by one before it that is not.        *)
(***************************************************************************)
EXTENDS Integers, Sequences

CONSTANTS
  Rates,            \* config.bandwidth_limit_bytes_per_sec, per tick; 0 for no limit
  Second,           \* ticks to the second
  Latency, Jitter,  \* config.latency_ms, config.jitter_ms
  ReorderSpread,    \* what out_of_order_chance adds at most
  DuplicateSpread,  \* what a duplicate is later at most
  PacketSizes,
  MaxPackets        \* bound: packets processed

ASSUME SimulatorAssumption ==
  /\ Rates \subseteq Nat /\ Second \in Nat \ {0}
  /\ Latency \in Nat /\ Jitter \in Nat
  /\ ReorderSpread \in Nat /\ DuplicateSpread \in Nat
  /\ PacketSizes \subseteq Nat
  /\ MaxPackets \in Nat

VARIABLES
  rate,                 \* the configured one of Rates
  delayed_packets,      \* sequence of [packet, wait]; -1 is overdue
  token_bucket_tokens,
  last_token_refill,    \* its age, as far as it matters
  processed,            \* history: packets given to process_send
  passed                \* history: ticks -> bytes the bucket let through in the last so many

simulatorVars == <<rate, delayed_packets, token_bucket_tokens, last_token_refill, processed,
                   passed>>

-----------------------------------------------------------------------------
BucketSize == rate * Second
HistoryLength == 2 * Second
LongestWait == Latency + Jitter + ReorderSpread + DuplicateSpread

AtMostFull(tokens) == IF tokens > BucketSize THEN BucketSize ELSE tokens

\* refill_tokens(), and when it was last done.
Refilled == AtMostFull(token_bucket_tokens + last_token_refill * rate)
RefillNotNoted == last_token_refill
RefillNoted == 0

\* Delays that may come of a base and a draw below a spread.
DelaysFrom(base, spread) == base .. base + (IF spread = 0 THEN 0 ELSE spread - 1)

Delayed(delay) == IF delay = 0 THEN <<>> ELSE <<[packet |-> processed + 1, wait |-> delay]>>

\* What is left to do with a packet that is neither lost nor refused.  A packet
\* without delay is handed over at once, a duplicate always waits in the queue.
Enqueue ==
  \E delay \in DelaysFrom(Latency, Jitter) :
    \E total \in {delay} \cup DelaysFrom(delay, ReorderSpread) :
      \/ delayed_packets' = delayed_packets \o Delayed(total)
      \/ \E again \in DelaysFrom(delay, DuplicateSpread) :
           delayed_packets' = delayed_packets \o Delayed(total)
                                \o <<[packet |-> processed + 1, wait |-> again]>>

LosePacket ==
  UNCHANGED <<delayed_packets, token_bucket_tokens, last_token_refill, passed>>

Unlimited ==
  /\ rate = 0
  /\ Enqueue
  /\ UNCHANGED <<token_bucket_tokens, last_token_refill, passed>>

OverBandwidth(size) ==
  /\ rate > 0 /\ Refilled < size
  /\ token_bucket_tokens' = Refilled
  /\ last_token_refill' = RefillNoted
  /\ UNCHANGED <<delayed_packets, passed>>

WithinLimit(size) ==
  /\ rate > 0 /\ Refilled >= size
  /\ token_bucket_tokens' = Refilled - size
  /\ last_token_refill' = RefillNoted
  /\ passed' = [ticks \in 1 .. HistoryLength |-> passed[ticks] + size]
  /\ Enqueue

ProcessSend(size) ==
  /\ processed < MaxPackets
  /\ processed' = processed + 1
  /\ UNCHANGED rate
  /\ LosePacket \/ Unlimited \/ OverBandwidth(size) \/ WithinLimit(size)

DueExactly(p) == p.wait = 0
Due(p) == p.wait <= 0

\* receive_ready() hands over the packets before the first that is not due.
ReceiveReady ==
  /\ delayed_packets # <<>> /\ Due(Head(delayed_packets))
  /\ \E n \in 1 .. Len(delayed_packets) :
       /\ \A i \in 1 .. n : Due(delayed_packets[i])
       /\ n < Len(delayed_packets) => ~Due(delayed_packets[n + 1])
       /\ delayed_packets' = SubSeq(delayed_packets, n + 1, Len(delayed_packets))
  /\ UNCHANGED <<rate, token_bucket_tokens, last_token_refill, processed, passed>>

\* Beyond a second the age of the last refill makes no difference to a full bucket.
SimulatorTick ==
  /\ delayed_packets' = [i \in 1 .. Len(delayed_packets) |->
                           [delayed_packets[i] EXCEPT !.wait = IF @ < 0 THEN @ ELSE @ - 1]]
  /\ last_token_refill' = IF last_token_refill < Second THEN last_token_refill + 1
                          ELSE last_token_refill
  /\ passed' = [ticks \in 1 .. HistoryLength |->
                  IF ticks = 1 THEN 0 ELSE passed[ticks - 1]]
  /\ UNCHANGED <<rate, token_bucket_tokens, processed>>

SimulatorInit ==
  /\ rate \in Rates
  /\ delayed_packets = <<>>
  /\ token_bucket_tokens = 0
  /\ last_token_refill = 0
  /\ processed = 0
  /\ passed = [ticks \in 1 .. HistoryLength |-> 0]

SimulatorNext ==
  \/ \E size \in PacketSizes : ProcessSend(size)
  \/ ReceiveReady
  \/ SimulatorTick

-----------------------------------------------------------------------------
(* Properties *)

SimulatorTypeOK ==
  /\ rate \in Rates
  /\ delayed_packets \in Seq([packet : 1 .. MaxPackets, wait : -1 .. LongestWait])
  /\ token_bucket_tokens \in 0 .. BucketSize
  /\ last_token_refill \in 0 .. Second
  /\ processed \in 0 .. MaxPackets
  /\ passed \in [1 .. HistoryLength -> Nat]

\* In any stretch of ticks no more bytes pass than the bucket holds and is refilled
\* with meanwhile, however the lazy refills fall: at most twice the limit in one
\* second.  Duplicates are not charged.
WithinBandwidth ==
  \A ticks \in 1 .. HistoryLength :
    rate > 0 => passed[ticks] <= BucketSize + rate * (ticks - 1)

\* A delayed packet comes out, even if receive_ready() was not called at the moment
\* it became due and even if one with a longer delay is before it.
DelayedComesOut ==
  \A n \in 1 .. MaxPackets :
    (\E i \in 1 .. Len(delayed_packets) : delayed_packets[i].packet = n)
      ~> (\A i \in 1 .. Len(delayed_packets) : delayed_packets[i].packet # n)
=============================================================================
