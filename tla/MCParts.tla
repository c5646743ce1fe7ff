------------------------------- MODULE MCParts ------------------------------
(***************************************************************************)
(* Small instances, for TLC, of the parts that keep a state of their own   *)
(* and share none: each behaviour is one of one part, chosen at the start, *)
(* while the others stay in their initial states.                          *)
(***************************************************************************)
EXTENDS Fragments, MtuDiscovery, Congestion, Delta, Security, Priority, Simulator,
        Interpolation, Batching, Sending, MCTypes

VARIABLE part

allVars == <<part, fragmentsVars, mtuVars, congestionVars, deltaVars, tokenVars,
             limiterVars, priorityVars, simulatorVars, interpolationVars, batchingVars,
             sendingVars, bitBufferVars, codecVars, packetsVars>>

\* Messages of two and of three fragments, one that a former session sent under an id
\* of this one, and headers that fit no message: an index too large, a count of 0.
MCFragment ==
  { [id |-> 1, index |-> i, count |-> 2, size |-> 2 - i] : i \in 0 .. 1 }
    \cup { [id |-> 2, index |-> i, count |-> 3, size |-> 1] : i \in 0 .. 2 }
    \cup { [id |-> 3, index |-> i, count |-> 2, size |-> 2] : i \in 0 .. 1 }
    \cup { [id |-> 1, index |-> 0, count |-> 3, size |-> 2],
           [id |-> 2, index |-> 3, count |-> 3, size |-> 1],
           [id |-> 4, index |-> 0, count |-> 0, size |-> 1] }

MCAddresses == { [ip |-> "A", port |-> 1], [ip |-> "A", port |-> 2], [ip |-> "B", port |-> 1] }

\* Everybody fits alone, but not all together; "huge" never fits.
MCEntities == {"near", "far", "small", "huge"}
MCBase == [e \in MCEntities |-> IF e = "near" THEN 3 ELSE IF e = "small" THEN 2 ELSE 1]
MCSize == [e \in MCEntities |-> CASE e = "near" -> 2 [] e = "far" -> 3 [] e = "small" -> 1
                                  [] OTHER -> 5]

\* From the middle, where "huge" is, the first two are on the border of the radius,
\* the third within; from where "near" is, only that; from far away, none.
MCPlace == [e \in MCEntities |-> CASE e = "near" -> <<3, 4, 0>> [] e = "far" -> <<-3, -4, 0>>
                                   [] e = "small" -> <<0, 0, 1>> [] OTHER -> <<0, 0, 0>>]
MCObservers == { <<0, 0, 0>>, <<3, 4, 0>>, <<-9, 0, 0>> }

\* Fields change one at a time, both at once, back, and not at all.
MCCapacity == <<2, 4>>
MCContents == << <<0, 3>>, <<1, 3>>, <<0, 2>>, <<0, 2>>, <<0, 3>> >>

\* Short messages, one as long as two digits are needed for, one of nothing.
MCMessages == { <<>>, <<1>>, <<2, 0>>, <<0, 1, 2, 1>> }

-----------------------------------------------------------------------------
KeepUnless(p, vars) == IF part = p THEN TRUE ELSE UNCHANGED vars

\* What a step of one part leaves alone.
Others ==
  /\ UNCHANGED part
  /\ KeepUnless("fragments", fragmentsVars)
  /\ KeepUnless("mtu", mtuVars)
  /\ KeepUnless("congestion", congestionVars)
  /\ KeepUnless("delta", deltaVars)
  /\ KeepUnless("tokens", tokenVars)
  /\ KeepUnless("limiter", limiterVars)
  /\ KeepUnless("priority", priorityVars)
  /\ KeepUnless("simulator", simulatorVars)
  /\ KeepUnless("interpolation", interpolationVars)
  /\ KeepUnless("batching", batchingVars)
  /\ KeepUnless("sending", sendingVars)
  /\ KeepUnless("bits", bitBufferVars)
  /\ KeepUnless("codec", codecVars)
  /\ KeepUnless("packets", packetsVars)

FragmentsStep == part = "fragments" /\ FragmentsNext /\ Others
MtuStep == part = "mtu" /\ MtuNext /\ Others
CongestionStep == part = "congestion" /\ CongestionNext /\ Others
DeltaStep == part = "delta" /\ DeltaNext /\ Others
TokensStep == part = "tokens" /\ TokensNext /\ Others
LimiterStep == part = "limiter" /\ LimiterNext /\ Others
PriorityStep == part = "priority" /\ PriorityNext /\ Others
SimulatorStep == part = "simulator" /\ SimulatorNext /\ Others
InterpolationStep == part = "interpolation" /\ InterpolationNext /\ Others
BatchingStep == part = "batching" /\ BatchingNext /\ Others
SendingStep == part = "sending" /\ SendingNext /\ Others
BitsStep == part = "bits" /\ BitBufferNext /\ Others
CodecStep == part = "codec" /\ CodecNext /\ Others
PacketsStep == part = "packets" /\ PacketsNext /\ Others

PartsInit ==
  /\ FragmentsInit /\ MtuInit /\ CongestionInit /\ DeltaInit /\ TokensInit /\ LimiterInit
  /\ PriorityInit /\ SimulatorInit /\ InterpolationInit /\ BatchingInit
  /\ SendingInit /\ BitBufferInit /\ CodecInit /\ PacketsInit
  /\ part \in {"fragments", "mtu", "congestion", "delta", "tokens", "limiter", "priority",
               "simulator", "interpolation", "batching", "sending", "bits", "codec",
               "packets"}
  /\ part # "mtu" => path_mtu = CHOOSE m \in PathMtus : TRUE
  /\ part # "congestion" => recovery_time = CHOOSE t \in RecoveryTimes : TRUE
  /\ part # "simulator" => rate = CHOOSE r \in Rates : TRUE
  /\ part # "batching" => max_size = CHOOSE m \in BatchSizes : TRUE
  /\ part # "priority" => manager = "grid" /\ observer = CHOOSE pos \in Observers : TRUE
  /\ part # "sending" => use_cwnd /\ base_send_rate = CHOOSE r \in SendRates : TRUE
  /\ part # "codec" => trait = "bit"
  /\ part # "packets" => size_limits = CHOOSE s \in SizeLimits : TRUE

PartsNext ==
  \/ FragmentsStep
  \/ MtuStep
  \/ CongestionStep
  \/ DeltaStep
  \/ TokensStep
  \/ LimiterStep
  \/ PriorityStep
  \/ SimulatorStep
  \/ InterpolationStep
  \/ BatchingStep
  \/ SendingStep
  \/ BitsStep
  \/ CodecStep
  \/ PacketsStep

\* The game loop never stops, and a user of the simulator polls it while time passes.
\* A packet that is tracked is acknowledged or lost.
FairLoop ==
  /\ WF_priorityVars(part = "priority" /\ Frame)
  /\ WF_simulatorVars(part = "simulator" /\ ReceiveReady)
  /\ WF_simulatorVars(part = "simulator" /\ SimulatorTick)
  /\ WF_sendingVars(part = "sending" /\ SendingTick)
  /\ SF_sendingVars(part = "sending" /\ (Acknowledge \/ LoseTracked))

PartsSpec == PartsInit /\ [][PartsNext]_allVars /\ FairLoop

\* The type invariants of all parts.
TypeOK ==
  /\ FragmentsTypeOK
  /\ MtuTypeOK
  /\ CongestionTypeOK
  /\ DeltaTypeOK
  /\ SecurityTypeOK
  /\ PriorityTypeOK
  /\ SimulatorTypeOK
  /\ InterpolationTypeOK
  /\ BatchingTypeOK
  /\ SendingTypeOK
  /\ BitBufferTypeOK
  /\ CodecTypeOK
  /\ PacketsTypeOK
=============================================================================
