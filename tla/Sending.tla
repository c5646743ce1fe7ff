------------------------------- MODULE Sending ------------------------------
(***************************************************************************)
(* Which messages a tick of an open connection sends: the loop over the    *)
(* channels in update_tick (gbnet/src/connection/io.rs), in the order of   *)
(* their priorities, and the gates before each message: the packet count   *)
(* and the byte budget of CongestionController, and, if it is configured,  *)
(* the window and the pacing of CongestionWindow (congestion.rs).          *)
(*                                                                         *)
(* A message is its size. A tick is fine-grained, one step for each turn   *)
(* of the loop; the application and incoming acknowledgments come between  *)
(* ticks. Which of its two rates the controller is at, module Congestion   *)
(* says; here every tick may have either. Retransmissions, keep-alives and *)
(* probes pass no gate and are not counted.                                *)
(*                                                                         *)
(* Nothing in the crate calls on_loss, so the window never leaves its slow *)
(* start, and cwnd and bytes_in_flight are whole numbers of bytes.         *)
(***************************************************************************)
EXTENDS Naturals, Sequences

CONSTANTS
  ChannelCount,      \* channels are 1 .. ChannelCount, in the order of priority
  ReliableChannels,  \* those whose messages the endpoint tracks
  MessageSizes,
  SendBufferSize,    \* messages a channel holds
  SendRates,         \* configured send_rate, in half packets
  PacketMtu,         \* config.mtu
  FragmentThreshold, \* config.fragment_threshold
  InitialWindow,     \* INITIAL_CWND_PACKETS, in bytes
  MaxWindow,         \* bound: the window grows no further
  Rto,               \* retransmission timeout, in ticks
  MaxTrackedPackets  \* max_in_flight

\* Half of an odd rate that is not raised to one packet would be a quarter of a packet.
ASSUME SendingAssumption ==
  /\ ChannelCount \in Nat \ {0}
  /\ ReliableChannels \subseteq 1 .. ChannelCount
  /\ MessageSizes \subseteq Nat \ {0}
  /\ SendBufferSize \in Nat \ {0}
  /\ SendRates \subseteq Nat \ {0} /\ \A r \in SendRates : r > 4 => r % 2 = 0
  /\ PacketMtu \in Nat \ {0}
  /\ FragmentThreshold \in 1 .. PacketMtu
  /\ InitialWindow \in Nat /\ InitialWindow >= PacketMtu
  /\ MaxWindow \in Nat /\ MaxWindow >= InitialWindow
  /\ Rto \in Nat \ {0}
  /\ MaxTrackedPackets \in Nat \ {0}

VARIABLES
  use_cwnd,         \* config.use_cwnd_congestion
  base_send_rate,
  current_send_rate,
  send_buffers,     \* channel -> the messages waiting
  turn,             \* the channel the loop is at, or Idle between ticks
  packets_sent_this_cycle,
  budget_bytes_remaining,
  cwnd,
  bytes_in_flight,
  since_send,       \* age of last_send_time
  awaited,          \* tracked packets whose acknowledgment may come
  stray,            \* tracked packets that were lost, or never sent
  leaked            \* history: bytes in flight that no acknowledgment will take away

sendingVars == <<use_cwnd, base_send_rate, current_send_rate, send_buffers, turn,
                 packets_sent_this_cycle, budget_bytes_remaining, cwnd, bytes_in_flight,
                 since_send, awaited, stray, leaked>>

windowVars == <<cwnd, bytes_in_flight, since_send, awaited, stray, leaked>>

SendChannels == 1 .. ChannelCount
Idle == 0

-----------------------------------------------------------------------------
(* The gates, all of them for a packet of the size of the MTU *)

\* CongestionController::can_send, with rates in half packets.
WithinRate == 2 * packets_sent_this_cycle < current_send_rate
WithinBudget(bytes) == budget_bytes_remaining >= bytes

\* CongestionWindow::can_send
WithinWindow(bytes) == bytes_in_flight + bytes <= cwnd

\* can_send_paced: the delay is the timeout divided by the packets in the window.
Paced == since_send * cwnd >= Rto * PacketMtu

GateOpenFor(bytes) ==
  /\ WithinRate /\ WithinBudget(bytes)
  /\ use_cwnd => WithinWindow(bytes) /\ Paced

GateForMessage(c) == send_buffers[c] # <<>> /\ GateOpenFor(Head(send_buffers[c]))
GateOpen(c) == GateOpenFor(PacketMtu)

-----------------------------------------------------------------------------
(* A tick *)

\* The rate after conditions were bad; never less than one packet.
ReducedRate == IF base_send_rate \div 2 < 2 THEN 2 ELSE base_send_rate \div 2

RefillBudget(send_rate) ==
  /\ current_send_rate' = send_rate
  /\ budget_bytes_remaining' = (send_rate * PacketMtu) \div 2

\* Timestamps as old as the timeout delay nothing, nor does one that is not there.
StartTick ==
  /\ turn = Idle
  /\ turn' = 1
  /\ \E send_rate \in {base_send_rate, ReducedRate} : RefillBudget(send_rate)
  /\ packets_sent_this_cycle' = 0
  /\ since_send' = IF since_send < Rto THEN since_send + 1 ELSE since_send
  /\ UNCHANGED <<use_cwnd, base_send_rate, send_buffers, cwnd, bytes_in_flight, awaited,
                 stray, leaked>>

\* on_packet_sent evicts a record when it has max_in_flight of them. The record of a
\* fragmented message has the number of a packet that is never sent.
Track(bytes) ==
  \E evicted \in (IF awaited + stray < MaxTrackedPackets THEN {"none"}
                  ELSE {kind \in {"awaited", "stray"} :
                          (IF kind = "awaited" THEN awaited ELSE stray) > 0}) :
    LET left == IF evicted = "awaited" THEN awaited - 1 ELSE awaited
        lost == IF evicted = "stray" THEN stray - 1 ELSE stray
        sent_whole == bytes <= FragmentThreshold
    IN  /\ awaited' = left + (IF sent_whole THEN 1 ELSE 0)
        /\ stray' = lost + (IF sent_whole THEN 0 ELSE 1)
        /\ leaked' = (leaked \/ evicted = "awaited" \/ ~sent_whole)

\* CongestionWindow::on_send, if there is a window.
OnSend(bytes) ==
  IF use_cwnd
  THEN bytes_in_flight' = bytes_in_flight + bytes /\ since_send' = 0
  ELSE UNCHANGED <<bytes_in_flight, since_send>>

\* One turn of the loop over a channel's messages.
SendFrom(c) ==
  /\ turn = c
  /\ GateOpen(c)
  /\ send_buffers[c] # <<>>
  /\ LET bytes == Head(send_buffers[c])
     IN  /\ packets_sent_this_cycle' = packets_sent_this_cycle + 1
         /\ budget_bytes_remaining' = budget_bytes_remaining - bytes
         /\ OnSend(bytes)
         /\ IF c \in ReliableChannels
            THEN Track(bytes)
            ELSE leaked' = TRUE /\ UNCHANGED <<awaited, stray>>
  /\ send_buffers' = [send_buffers EXCEPT ![c] = Tail(@)]
  /\ UNCHANGED <<use_cwnd, base_send_rate, current_send_rate, turn, cwnd>>

\* The loop over the messages ends; the next channel has its turn, or the tick is over.
NextChannel ==
  /\ turn # Idle
  /\ ~(GateOpen(turn) /\ send_buffers[turn] # <<>>)
  /\ turn' = IF turn = ChannelCount THEN Idle ELSE turn + 1
  /\ UNCHANGED <<use_cwnd, base_send_rate, current_send_rate, send_buffers,
                 packets_sent_this_cycle, budget_bytes_remaining, windowVars>>

-----------------------------------------------------------------------------
(* Between ticks *)

\* The application: a full buffer drops its oldest message.
SendMessage(c, bytes) ==
  /\ turn = Idle
  /\ send_buffers' =
       [send_buffers EXCEPT ![c] = Append(IF Len(@) < SendBufferSize THEN @ ELSE Tail(@), bytes)]
  /\ UNCHANGED <<use_cwnd, base_send_rate, current_send_rate, turn, packets_sent_this_cycle,
                 budget_bytes_remaining, windowVars>>

\* Whatever the size of the packet acknowledged, the size of the MTU is taken away and
\* added to the window.
AckLeavesBytes(bytes) == bytes_in_flight' = bytes_in_flight
AckTakesBytes(bytes) ==
  bytes_in_flight' = IF bytes < bytes_in_flight THEN bytes_in_flight - bytes ELSE 0

Acknowledge ==
  /\ turn = Idle
  /\ awaited > 0
  /\ awaited' = awaited - 1
  /\ IF use_cwnd
     THEN /\ AckTakesBytes(PacketMtu)
          /\ cwnd' = IF cwnd + PacketMtu > MaxWindow THEN cwnd ELSE cwnd + PacketMtu
     ELSE UNCHANGED <<bytes_in_flight, cwnd>>
  /\ UNCHANGED <<use_cwnd, base_send_rate, current_send_rate, send_buffers, turn,
                 packets_sent_this_cycle, budget_bytes_remaining, since_send, stray, leaked>>

\* The packet is lost, or every acknowledgment of it.
LoseTracked ==
  /\ turn = Idle
  /\ awaited > 0
  /\ awaited' = awaited - 1
  /\ stray' = stray + 1
  /\ leaked' = TRUE
  /\ UNCHANGED <<use_cwnd, base_send_rate, current_send_rate, send_buffers, turn,
                 packets_sent_this_cycle, budget_bytes_remaining, cwnd, bytes_in_flight,
                 since_send>>

\* reset_connection empties the channels and renews the controller, but neither the
\* window nor the endpoint.
ResetConnection ==
  /\ turn = Idle
  /\ send_buffers' = [c \in SendChannels |-> <<>>]
  /\ current_send_rate' = base_send_rate
  /\ budget_bytes_remaining' = 0
  /\ UNCHANGED <<use_cwnd, base_send_rate, turn, packets_sent_this_cycle, windowVars>>

SendingInit ==
  /\ use_cwnd \in BOOLEAN
  /\ base_send_rate \in SendRates
  /\ current_send_rate = base_send_rate
  /\ send_buffers = [c \in SendChannels |-> <<>>]
  /\ turn = Idle
  /\ packets_sent_this_cycle = 0
  /\ budget_bytes_remaining = 0
  /\ cwnd = InitialWindow
  /\ bytes_in_flight = 0
  /\ since_send = Rto
  /\ awaited = 0 /\ stray = 0 /\ leaked = FALSE

\* What update_tick does.
SendingTick == StartTick \/ (\E c \in SendChannels : SendFrom(c)) \/ NextChannel

SendingNext ==
  \/ SendingTick
  \/ \E c \in SendChannels, bytes \in MessageSizes : SendMessage(c, bytes)
  \/ Acknowledge
  \/ LoseTracked
  \/ ResetConnection

-----------------------------------------------------------------------------
(* Properties *)

SendingTypeOK ==
  /\ current_send_rate \in {base_send_rate, ReducedRate}
  /\ \A c \in SendChannels : Len(send_buffers[c]) <= SendBufferSize
  /\ turn \in {Idle} \cup SendChannels
  /\ cwnd \in InitialWindow .. MaxWindow
  /\ awaited + stray <= MaxTrackedPackets
  /\ since_send \in 0 .. Rto

\* A message of a channel is only sent when the channels before it in priority have none
\* left, although the gates close and open with every packet, whatever its size.
PriorityKept ==
  [][ \A c \in SendChannels :
        SendFrom(c) => \A before \in 1 .. c - 1 : send_buffers[before] = <<>> ]_sendingVars

\* A channel in which messages wait for ever goes on sending, unless one before it in
\* priority does and leaves it nothing; or send_rate is less than one packet, so that
\* the budget of a tick never holds one; or the window has closed for good, which
\* takes bytes that are never acknowledged: those of unreliable messages, of
\* fragmented ones and of lost packets.
ChannelsServed ==
  \A c \in SendChannels :
    <>[](send_buffers[c] # <<>>) =>
      \/ \E d \in 1 .. c : []<><<SendFrom(d)>>_sendingVars
      \/ []<>(base_send_rate < 2)
      \/ <>[](use_cwnd /\ leaked /\ ~WithinWindow(PacketMtu))
=============================================================================
