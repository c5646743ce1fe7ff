----------------------------- MODULE Congestion -----------------------------
(***************************************************************************)
(* The two modes of CongestionController, gbnet/src/congestion.rs, and the *)
(* time it takes to return to the better one, which doubles on a quick     *)
(* relapse and halves in good times.                                       *)
(*                                                                         *)
(* update() is called once in every update_tick(), and the network decides *)
(* what it sees.  Times are whole seconds and the recovery time a power of *)
(* two of them, so that halving is exact.  The send rate follows the mode; *)
(* the byte budget, which is filled anew in every tick, is left out.       *)
(***************************************************************************)
EXTENDS Naturals

CONSTANTS
  RecoveryTimes,        \* config.congestion_recovery_time, of any size
  MinRecovery, MaxRecovery,
  HalveInterval,
  QuickDropThreshold,
  MaxAge                \* bound: ages stop here

ASSUME CongestionAssumption ==
  /\ RecoveryTimes \subseteq Nat
  /\ MinRecovery \in Nat /\ MaxRecovery \in Nat /\ MinRecovery <= MaxRecovery
  /\ HalveInterval \in Nat \ {0}
  /\ QuickDropThreshold \in Nat
  /\ MaxAge \in Nat
  /\ \A t \in {MinRecovery, MaxRecovery, HalveInterval, QuickDropThreshold} \cup RecoveryTimes :
       t < MaxAge

VARIABLES
  recovery_time,          \* the configured one
  mode,
  good_conditions_start,  \* its age, or Never
  adaptive_recovery_secs,
  last_good_entry,        \* its age, or Never
  calm                    \* history: the time since update() saw bad conditions

congestionVars == <<recovery_time, mode, good_conditions_start, adaptive_recovery_secs,
                    last_good_entry, calm>>

Never == MaxAge + 1

-----------------------------------------------------------------------------
AtMost(limit, t) == IF t > limit THEN limit ELSE t
AtLeast(limit, t) == IF t < limit THEN limit ELSE t

\* One halving for each whole interval, down to MinRecovery: the times the loop goes
\* through.
Halvings(t, intervals) ==
  {h \in [0 .. intervals -> 0 .. MaxAge] :
     /\ h[0] = t
     /\ \A i \in 1 .. intervals : h[i] = AtLeast(MinRecovery, h[i - 1] \div 2)}

DoubledUncapped(t) == 2 * t
Doubled(t) == AtMost(MaxRecovery, 2 * t)

QuickRelapse == last_good_entry < QuickDropThreshold

EnterBad ==
  /\ mode' = "Bad"
  /\ good_conditions_start' = Never
  /\ adaptive_recovery_secs' = IF QuickRelapse
                               THEN Doubled(adaptive_recovery_secs)
                               ELSE adaptive_recovery_secs
  /\ UNCHANGED last_good_entry

StayGood ==
  /\ LET intervals == IF last_good_entry = Never THEN 0
                      ELSE last_good_entry \div HalveInterval
     IN  IF intervals > 0
         THEN /\ \E h \in Halvings(adaptive_recovery_secs, intervals) :
                   adaptive_recovery_secs' = h[intervals]
              /\ last_good_entry' = 0
         ELSE UNCHANGED <<adaptive_recovery_secs, last_good_entry>>
  /\ UNCHANGED <<mode, good_conditions_start>>

\* What becomes of good_conditions_start when conditions are bad again.
NotInterrupted == good_conditions_start
Interrupted == Never

StayBad ==
  /\ good_conditions_start' = Interrupted
  /\ UNCHANGED <<mode, adaptive_recovery_secs, last_good_entry>>

Recovered ==
  /\ good_conditions_start # Never
  /\ good_conditions_start >= adaptive_recovery_secs

Recover ==
  \/ /\ ~Recovered
     /\ good_conditions_start' = IF good_conditions_start = Never
                                 THEN 0
                                 ELSE good_conditions_start
     /\ UNCHANGED <<mode, adaptive_recovery_secs, last_good_entry>>
  \/ /\ Recovered
     /\ mode' = "Good"
     /\ last_good_entry' = 0
     /\ good_conditions_start' = Never
     /\ UNCHANGED adaptive_recovery_secs

Update(is_bad) ==
  /\ \/ mode = "Good" /\ is_bad /\ EnterBad
     \/ mode = "Good" /\ ~is_bad /\ StayGood
     \/ mode = "Bad" /\ is_bad /\ StayBad
     \/ mode = "Bad" /\ ~is_bad /\ Recover
  /\ calm' = IF is_bad THEN 0 ELSE calm
  /\ UNCHANGED recovery_time

NextAge(age) == IF age < MaxAge THEN age + 1 ELSE age

CongestionTick ==
  /\ good_conditions_start' = NextAge(good_conditions_start)
  /\ last_good_entry' = NextAge(last_good_entry)
  /\ calm' = NextAge(calm)
  /\ UNCHANGED <<recovery_time, mode, adaptive_recovery_secs>>

CongestionInit ==
  /\ recovery_time \in RecoveryTimes
  /\ mode = "Good"
  /\ good_conditions_start = Never
  /\ adaptive_recovery_secs = recovery_time
  /\ last_good_entry = Never
  /\ calm = Never

CongestionNext ==
  \/ \E is_bad \in BOOLEAN : Update(is_bad)
  \/ CongestionTick

CongestionSpec == CongestionInit /\ [][CongestionNext]_congestionVars

-----------------------------------------------------------------------------
(* Properties *)

\* The recovery time stays within its limits, unless it was configured outside.
CongestionTypeOK ==
  /\ recovery_time \in RecoveryTimes
  /\ mode \in {"Good", "Bad"}
  /\ good_conditions_start \in 0 .. Never
  /\ adaptive_recovery_secs \in AtMost(MinRecovery, recovery_time)
                                  .. AtLeast(MaxRecovery, recovery_time)
  /\ last_good_entry \in 0 .. Never
  /\ calm \in 0 .. Never
  /\ mode = "Good" => good_conditions_start = Never

\* The controller goes back to the full rate only after the whole current recovery
\* time without one bad measurement: good spells do not add up.
GoodOnlyAfterCalm ==
  [][mode = "Bad" /\ mode' = "Good" => calm >= adaptive_recovery_secs]_congestionVars
=============================================================================
