------------------------------ MODULE Interest ------------------------------
(***************************************************************************)
(* RadiusInterest and GridInterest, gbnet/src/interest.rs: which entities  *)
(* are relevant to an observer, and what becomes of their priority.        *)
(*                                                                         *)
(* A position is a triple of whole numbers.  Left out: rounding, and cells *)
(* further out than an i32 reaches.                                        *)
(***************************************************************************)
EXTENDS Integers

CONSTANTS
  Radius,      \* of a RadiusInterest
  CellSize     \* of a GridInterest

ASSUME InterestAssumption ==
  /\ Radius \in Nat \ {0}
  /\ CellSize \in Nat \ {0}

Position == [1 .. 3 -> Int]

-----------------------------------------------------------------------------
(* RadiusInterest *)

Sq(x) == x * x

DistSq(entity_pos, observer_pos) ==
  Sq(entity_pos[1] - observer_pos[1]) + Sq(entity_pos[2] - observer_pos[2])
    + Sq(entity_pos[3] - observer_pos[3])

RadiusRelevant(entity_pos, observer_pos) ==
  DistSq(entity_pos, observer_pos) <= Sq(Radius)

\* The distance of two positions within the radius, down to a whole number.
Distance(entity_pos, observer_pos) ==
  CHOOSE d \in 0 .. Radius :
    /\ Sq(d) <= DistSq(entity_pos, observer_pos)
    /\ DistSq(entity_pos, observer_pos) < Sq(d + 1)

\* priority_mod(), in parts of which Radius make a whole: "linear falloff".
RadiusMod(entity_pos, observer_pos) ==
  IF DistSq(entity_pos, observer_pos) >= Sq(Radius)
  THEN 0
  ELSE Radius - Distance(entity_pos, observer_pos)

-----------------------------------------------------------------------------
(* GridInterest *)

ToCell(pos) == [axis \in 1 .. 3 |-> pos[axis] \div CellSize]

GridRelevant(entity_pos, observer_pos) ==
  \A axis \in 1 .. 3 : ToCell(entity_pos)[axis] - ToCell(observer_pos)[axis] \in -1 .. 1

\* The trait's default.
GridMod(entity_pos, observer_pos) == Radius

-----------------------------------------------------------------------------
(* InterestManager: a manager is one of the two. *)

Managers == {"radius", "grid"}

Relevant(manager, entity_pos, observer_pos) ==
  IF manager = "radius"
  THEN RadiusRelevant(entity_pos, observer_pos)
  ELSE GridRelevant(entity_pos, observer_pos)

PriorityMod(manager, entity_pos, observer_pos) ==
  IF manager = "radius"
  THEN RadiusMod(entity_pos, observer_pos)
  ELSE GridMod(entity_pos, observer_pos)
=============================================================================
