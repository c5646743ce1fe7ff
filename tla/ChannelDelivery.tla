--------------------------- MODULE ChannelDelivery --------------------------
(***************************************************************************)
(* What a channel promises the two applications that share it.  The sender *)
(* hands over messages numbered 1, 2, 3, ...; the log is what the receiver *)
(* has been handed.  Every channel delivers only messages that were sent.  *)
(* An ordered or sequenced one may leave messages out, but never repeats   *)
(* one and never goes back.                                                *)
(***************************************************************************)
EXTENDS Integers, Sequences

VARIABLES
  monotone,    \* does the channel promise order and at-most-once delivery?
  accepted,    \* number of messages handed over by the sender
  log          \* ranks of the messages handed to the receiver, in order

vars == <<monotone, accepted, log>>

Init ==
  /\ monotone \in BOOLEAN
  /\ accepted = 0
  /\ log = <<>>

Accept ==
  /\ accepted' = accepted + 1
  /\ UNCHANGED <<monotone, log>>

\* One or several messages reach the application.
Deliver ==
  /\ Len(log') > Len(log)
  /\ \A i \in 1 .. Len(log) : log'[i] = log[i]
  /\ \A i \in Len(log) + 1 .. Len(log') :
       /\ log'[i] \in 1 .. accepted
       /\ monotone /\ i > 1 => log'[i - 1] < log'[i]
  /\ UNCHANGED <<monotone, accepted>>

Next == Accept \/ Deliver

Spec == Init /\ [][Next]_vars
=============================================================================
