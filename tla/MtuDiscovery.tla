---------------------------- MODULE MtuDiscovery ----------------------------
(***************************************************************************)
(* The search for the path MTU, MtuDiscovery of gbnet/src/fragment.rs, as  *)
(* Connection::update_tick() and the MtuProbeAck handlers use it.          *)
(*                                                                         *)
(* A probe no larger than the path allows may be answered, late or more    *)
(* than once, or be lost; a larger one is never answered.  update_tick()   *)
(* asks for the next probe at its beginning and looks for a timeout at its *)
(* end, and no packet is handled in between, though time may pass.         *)
(*                                                                         *)
(* In next_probe(), max_mtu - min_mtu wraps around when answers arrived so *)
(* late that max_mtu is the smaller one (a debug build panics); the huge   *)
(* difference is not within the threshold.                                 *)
(***************************************************************************)
EXTENDS Naturals

CONSTANTS
  MinMtu,
  MaxMtu,
  PathMtus,      \* what the path may let through
  ConvergenceThreshold,
  ProbeTimeout,
  MaxAttempts

ASSUME MtuAssumption ==
  /\ MinMtu \in Nat /\ MaxMtu \in Nat
  /\ MinMtu <= MaxMtu
  /\ PathMtus \subseteq Nat
  /\ ConvergenceThreshold \in Nat
  /\ ProbeTimeout \in Nat
  /\ MaxAttempts \in Nat

VARIABLES
  path_mtu,
  min_mtu,
  max_mtu,
  current_probe,
  discovered_mtu,
  complete,         \* state = MtuState::Complete
  last_probe_time,  \* its age, or NeverProbed
  attempts,
  ticking,          \* is update_tick() between its two calls?
  probed,           \* history: sizes sent
  answered,         \* history: sizes answered
  too_large         \* history: sizes on_probe_timeout() declared too large

mtuVars == <<path_mtu, min_mtu, max_mtu, current_probe, discovered_mtu, complete,
             last_probe_time, attempts, ticking, probed, answered, too_large>>

NeverProbed == ProbeTimeout + 1

-----------------------------------------------------------------------------
MidpointOfHalf(low, high) == low + high \div 2
Midpoint(low, high) == (low + high) \div 2

Converged ==
  /\ min_mtu <= max_mtu
  /\ max_mtu - min_mtu <= ConvergenceThreshold

NextProbe ==
  /\ ~ticking
  /\ ticking' = TRUE
  /\ \/ /\ complete \/ attempts >= MaxAttempts \/ Converged
        /\ complete' = TRUE
        /\ UNCHANGED <<current_probe, last_probe_time, attempts, probed>>
     \/ /\ ~(complete \/ attempts >= MaxAttempts \/ Converged)
        /\ last_probe_time < ProbeTimeout
        /\ UNCHANGED <<complete, current_probe, last_probe_time, attempts, probed>>
     \/ /\ ~(complete \/ attempts >= MaxAttempts \/ Converged)
        /\ last_probe_time >= ProbeTimeout
        /\ current_probe' = Midpoint(min_mtu, max_mtu)
        /\ last_probe_time' = 0
        /\ attempts' = attempts + 1
        /\ probed' = probed \cup {current_probe'}
        /\ UNCHANGED complete
  /\ UNCHANGED <<path_mtu, min_mtu, max_mtu, discovered_mtu, answered, too_large>>

\* check_probe_timeout(), on_probe_timeout()
CheckProbeTimeout ==
  /\ ticking
  /\ ticking' = FALSE
  /\ \/ /\ ~complete
        /\ last_probe_time = ProbeTimeout
        /\ max_mtu' = current_probe
        /\ too_large' = too_large \cup {current_probe}
     \/ /\ complete \/ last_probe_time # ProbeTimeout
        /\ UNCHANGED <<max_mtu, too_large>>
  /\ UNCHANGED <<path_mtu, min_mtu, current_probe, discovered_mtu, complete,
                 last_probe_time, attempts, probed, answered>>

OnProbeSuccess(size) ==
  /\ ~ticking
  /\ size \in probed
  /\ size <= path_mtu
  /\ answered' = answered \cup {size}
  /\ IF size >= min_mtu
     THEN discovered_mtu' = size /\ min_mtu' = size
     ELSE UNCHANGED <<discovered_mtu, min_mtu>>
  /\ UNCHANGED <<path_mtu, max_mtu, current_probe, complete, last_probe_time, attempts,
                 ticking, probed, too_large>>

\* An age stops at the timeout: the code does not tell older ones apart.
MtuTick ==
  /\ last_probe_time < ProbeTimeout
  /\ last_probe_time' = last_probe_time + 1
  /\ UNCHANGED <<path_mtu, min_mtu, max_mtu, current_probe, discovered_mtu, complete,
                 attempts, ticking, probed, answered, too_large>>

MtuInit ==
  /\ path_mtu \in PathMtus
  /\ min_mtu = MinMtu
  /\ max_mtu = MaxMtu
  /\ current_probe = Midpoint(MinMtu, MaxMtu)
  /\ discovered_mtu = MinMtu
  /\ complete = FALSE
  /\ last_probe_time = NeverProbed
  /\ attempts = 0
  /\ ticking = FALSE
  /\ probed = {}
  /\ answered = {}
  /\ too_large = {}

MtuNext ==
  \/ NextProbe
  \/ CheckProbeTimeout
  \/ \E size \in probed : OnProbeSuccess(size)
  \/ MtuTick

MtuSpec == MtuInit /\ [][MtuNext]_mtuVars

-----------------------------------------------------------------------------
(* Properties *)

MtuTypeOK ==
  /\ path_mtu \in PathMtus
  /\ {min_mtu, max_mtu, current_probe, discovered_mtu} \subseteq MinMtu .. MaxMtu
  /\ complete \in BOOLEAN
  /\ last_probe_time \in 0 .. NeverProbed
  /\ attempts \in 0 .. MaxAttempts
  /\ ticking \in BOOLEAN
  /\ too_large \subseteq probed
  /\ answered \subseteq probed

\* next_probe() subtracts min_mtu from max_mtu.  The interval is inverted only if a
\* size that was declared too large was answered after all; every size the search
\* settles on in the other cases lies within what it was given.
IntervalOrdered == min_mtu <= max_mtu \/ answered \cap too_large # {}
=============================================================================
