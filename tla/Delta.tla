------------------------------- MODULE Delta --------------------------------
(***************************************************************************)
(* Delta compression, gbnet/src/delta.rs: a DeltaTracker at the sender of  *)
(* a changing state and a BaselineManager at its receiver.                 *)
(*                                                                         *)
(* A state gives each field a value, and a delta is what NetworkDelta      *)
(* (gbnet_macros/src/delta.rs) derives: the fields that changed.  At the   *)
(* sender a state is its rank, the how-manieth encode() got.  A delta read *)
(* as a full state gives Garbage.  The numbers of the states are those the *)
(* application counts, 0 .. NO_BASELINE, and around.                       *)
(*                                                                         *)
(* The application gives every state it decodes to push_snapshot() and     *)
(* acknowledges it.  Payloads may be lost, late and repeated, and so may   *)
(* acknowledgments.  Snapshots expire with time, oldest first.             *)
(*                                                                         *)
(* Left out: reset().                                                      *)
(***************************************************************************)
EXTENDS Naturals, Sequences, SequencesExt, FiniteSets

CONSTANTS
  NO_BASELINE,     \* u16::MAX in the code
  MaxPending,
  MaxSnapshots,
  FirstSeq,        \* the number of the first state sent
  FieldCount,
  Capacity,        \* field -> how many values the bits it is written with can hold
  Contents         \* bound: the states sent, a sequence of functions field -> value

ASSUME DeltaAssumption ==
  /\ NO_BASELINE \in Nat
  /\ MaxPending \in Nat \ {0} /\ MaxSnapshots \in Nat \ {0}
  /\ FirstSeq \in 0 .. NO_BASELINE
  /\ FieldCount \in 1 .. 64
  /\ Capacity \in [1 .. FieldCount -> Nat]
  /\ Contents \in Seq([1 .. FieldCount -> Nat])
  /\ 2 * Len(Contents) < NO_BASELINE
  /\ \A i \in 1 .. Len(Contents), f \in 1 .. FieldCount : Contents[i][f] < Capacity[f]

VARIABLES
  encoded,             \* how many states the sender encoded
  pending,             \* <<[seq, state], ...>>
  confirmed_baseline,  \* [seq, state], or None
  payloads,            \* in flight: [base_seq, seq, whole, body, state]
  acks,                \* in flight: numbers
  snapshots,           \* the receiver's <<[seq, values], ...>>
  garbled,             \* history: was something decoded that was not encoded?
  mistaken             \* history: was a baseline confirmed under the number NO_BASELINE?

deltaVars == <<encoded, pending, confirmed_baseline, payloads, acks, snapshots,
               garbled, mistaken>>

None == [seq |-> NO_BASELINE, state |-> 0]

Numbering == 0 .. NO_BASELINE
FieldSet == 1 .. FieldCount
Ranks == 1 .. Len(Contents)
NumberOf(rank) == (FirstSeq + rank - 1) % (NO_BASELINE + 1)

\* sequence_diff(a, b) < 0
Before(a, b) ==
  LET forward == (b + NO_BASELINE + 1 - a) % (NO_BASELINE + 1)
  IN  0 < forward /\ 2 * forward < NO_BASELINE + 1

-----------------------------------------------------------------------------
(* What the macro derives, and bit serialization *)

Difference(current, baseline) ==
  [f \in {f \in FieldSet : current[f] # baseline[f]} |-> current[f]]

Applied(delta, baseline) ==
  [f \in FieldSet |-> IF f \in DOMAIN delta THEN delta[f] ELSE baseline[f]]

\* How many of the fields come no later than field f in the struct.
PlaceOf(f, fields) == Cardinality({g \in fields : g <= f})

\* The fields in the order of the struct, after a bit for each whether it is there.  A
\* full state is written without these bits; here it has every one of them set.
Written(delta) ==
  LET present == DOMAIN delta
      At(i)   == CHOOSE f \in present : PlaceOf(f, present) = i
  IN  [bitmask |-> present,
       values  |-> [i \in 1 .. Cardinality(present) |-> delta[At(i)] % Capacity[At(i)]]]

ReadBack(body) == [f \in body.bitmask |-> body.values[PlaceOf(f, body.bitmask)]]

\* What no field can hold.
Garbage == [f \in FieldSet |-> Capacity[f]]

-----------------------------------------------------------------------------
(* The sender *)

Encode ==
  LET state   == encoded + 1
      whole   == confirmed_baseline = None
      delta   == IF whole THEN Contents[state]
                 ELSE Difference(Contents[state], Contents[confirmed_baseline.state])
      payload == [base_seq |-> confirmed_baseline.seq, seq |-> NumberOf(state),
                  whole |-> whole, body |-> Written(delta), state |-> state]
      room    == IF Len(pending) >= MaxPending THEN Tail(pending) ELSE pending
  IN  /\ encoded < Len(Contents)
      /\ encoded' = encoded + 1
      /\ payloads' = payloads \cup {payload}
      /\ pending' = Append(room, [seq |-> NumberOf(state), state |-> state])
      /\ UNCHANGED <<confirmed_baseline, acks, snapshots, garbled, mistaken>>

KeptAll(entries, ack_seq) == entries
\* What on_ack() leaves of the entries after it removed the acknowledged one.
Kept(entries, ack_seq) ==
  LET fresh == {i \in 1 .. Len(entries) : ~Before(entries[i].seq, ack_seq)}
  IN  IF fresh = {}
      THEN <<>>
      ELSE SubSeq(entries, CHOOSE i \in fresh : \A j \in fresh : i <= j, Len(entries))
OnAck(ack_seq) ==
  /\ ack_seq \in acks
  /\ \/ /\ \E i \in 1 .. Len(pending) :
             /\ pending[i].seq = ack_seq
             /\ \A j \in 1 .. (i - 1) : pending[j].seq # ack_seq
             /\ confirmed_baseline' = pending[i]
             /\ pending' = Kept(RemoveAt(pending, i), ack_seq)
        /\ mistaken' = (mistaken \/ ack_seq = NO_BASELINE)
     \/ /\ \A i \in 1 .. Len(pending) : pending[i].seq # ack_seq
        /\ UNCHANGED <<pending, confirmed_baseline, mistaken>>
  /\ UNCHANGED <<encoded, payloads, acks, snapshots, garbled>>

-----------------------------------------------------------------------------
(* The receiver *)

LatestBaseline(seq) == snapshots[Len(snapshots)].values
\* get_baseline() searches from the newest.
Baseline(seq) ==
  LET at == {i \in 1 .. Len(snapshots) : snapshots[i].seq = seq}
  IN  snapshots[CHOOSE i \in at : \A j \in at : i >= j].values

HasBaseline(seq) == \E i \in 1 .. Len(snapshots) : snapshots[i].seq = seq

Decoded(payload) ==
  IF payload.base_seq # NO_BASELINE
  THEN Applied(ReadBack(payload.body), Baseline(payload.base_seq))
  ELSE IF payload.whole THEN ReadBack(payload.body) ELSE Garbage

\* push_snapshot(), after `expired` snapshots at the front went.
Pushed(snapshot, expired) ==
  LET live == SubSeq(snapshots, expired + 1, Len(snapshots))
      room == IF Len(live) >= MaxSnapshots THEN Tail(live) ELSE live
  IN  Append(room, snapshot)

ReceivePayload(payload) ==
  /\ payload \in payloads
  /\ payload.base_seq = NO_BASELINE \/ HasBaseline(payload.base_seq)
  /\ \E expired \in 0 .. Len(snapshots) :
       snapshots' = Pushed([seq |-> payload.seq, values |-> Decoded(payload)], expired)
  /\ garbled' = (garbled \/ Decoded(payload) # Contents[payload.state])
  /\ acks' = acks \cup {payload.seq}
  /\ UNCHANGED <<encoded, pending, confirmed_baseline, payloads, mistaken>>

DeltaInit ==
  /\ encoded = 0
  /\ pending = <<>>
  /\ confirmed_baseline = None
  /\ payloads = {}
  /\ acks = {}
  /\ snapshots = <<>>
  /\ garbled = FALSE
  /\ mistaken = FALSE

DeltaNext ==
  \/ Encode
  \/ \E ack_seq \in acks : OnAck(ack_seq)
  \/ \E payload \in payloads : ReceivePayload(payload)

DeltaSpec == DeltaInit /\ [][DeltaNext]_deltaVars

-----------------------------------------------------------------------------
(* Properties *)

DeltaTypeOK ==
  /\ encoded \in 0 .. Len(Contents)
  /\ pending \in Seq([seq : Numbering, state : Ranks]) /\ Len(pending) <= MaxPending
  /\ confirmed_baseline \in [seq : Numbering, state : Ranks] \cup {None}
  /\ \A p \in payloads : /\ p.base_seq \in Numbering /\ p.seq \in Numbering
                          /\ p.whole \in BOOLEAN /\ p.state \in Ranks
                          /\ p.body.bitmask \subseteq FieldSet
                          /\ Len(p.body.values) = Cardinality(p.body.bitmask)
  /\ acks \subseteq Numbering
  /\ Len(snapshots) <= MaxSnapshots
  /\ \A i \in 1 .. Len(snapshots) : /\ snapshots[i].seq \in Numbering
                                    /\ snapshots[i].values \in [FieldSet -> Nat]
  /\ garbled \in BOOLEAN /\ mistaken \in BOOLEAN

\* Whatever the receiver decodes, it is the state that was encoded, or the decoding
\* is refused; except when a baseline bears the number that stands for none.
DecodedIsEncoded == garbled => mistaken

\* Acknowledgments may come in any order and again and again: the baseline never
\* goes back to an older state.
BaselineAdvances ==
  [][confirmed_baseline = None \/ confirmed_baseline.state <= confirmed_baseline'.state]_deltaVars
=============================================================================
