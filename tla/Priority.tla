------------------------------ MODULE Priority ------------------------------
(***************************************************************************)
(* PriorityAccumulator, gbnet/src/priority.rs: which entities are sent     *)
(* when not all of them fit, with an InterestManager at its side.          *)
(*                                                                         *)
(* The application's loop is a frame: accumulate(), apply_modifier() with  *)
(* what the manager says of each entity, then drain_top().  It registers   *)
(* an entity when the entity becomes relevant and may remove it at any     *)
(* time.  Priorities are whole numbers, down to which a product is         *)
(* rounded, and the time between frames is 1.  Entities of the same        *)
(* priority come in any order, as the map iterates.                        *)
(***************************************************************************)
EXTENDS Interest, Sequences, SequencesExt, FiniteSets, Functions, TLC

CONSTANTS
  Entities,
  Base,             \* entity -> base priority
  Size,             \* entity -> bytes
  Place,            \* entity -> its position
  Observers,        \* the positions the observer may take
  Budget,
  MaxAccumulated    \* bound: reached only by entities that never fit

ASSUME PriorityAssumption ==
  /\ Base \in [Entities -> Nat \ {0}]
  /\ Size \in [Entities -> Nat]
  /\ \A e \in Entities : Place[e] \in Position
  /\ \A pos \in Observers : pos \in Position
  /\ Budget \in Nat
  /\ MaxAccumulated \in Nat

VARIABLES
  accumulated,   \* registered entity -> priority
  selected,      \* what the latest frame sent
  manager,       \* the InterestManager in use
  observer       \* where the observer is

priorityVars == <<accumulated, selected, manager, observer>>

-----------------------------------------------------------------------------
Fits(e) == Size[e] <= Budget

Modifier(e) == PriorityMod(manager, Place[e], observer)

Register(e) ==
  /\ e \notin DOMAIN accumulated
  /\ Relevant(manager, Place[e], observer)
  /\ accumulated' = (e :> 0) @@ accumulated
  /\ UNCHANGED <<selected, manager, observer>>

Unregister(e) ==
  /\ e \in DOMAIN accumulated
  /\ accumulated' = Restrict(accumulated, DOMAIN accumulated \ {e})
  /\ UNCHANGED <<selected, manager, observer>>

MoveObserver ==
  /\ observer' \in Observers \ {observer}
  /\ UNCHANGED <<accumulated, selected, manager>>

\* A slip to check the properties against: nothing adds up.
GrownAfresh == [e \in DOMAIN accumulated |-> Base[e]]

\* accumulate()
Grown ==
  [e \in DOMAIN accumulated |->
     IF accumulated[e] + Base[e] <= MaxAccumulated
     THEN accumulated[e] + Base[e]
     ELSE MaxAccumulated]

\* apply_modifier() of every entity
Modified == [e \in DOMAIN accumulated |-> (Grown[e] * Modifier(e)) \div Radius]

\* The entities by priority, highest first, in an order sort_by() may produce.
ByPriority(priority) ==
  LET n == Cardinality(DOMAIN priority)
  IN  {order \in [1 .. n -> DOMAIN priority] :
         \A i, j \in 1 .. n :
           i < j => order[i] # order[j] /\ priority[order[i]] >= priority[order[j]]}

\* One entity of the loop: taken if it fits in what remains.
Consider(drain, e) ==
  IF Size[e] > drain.remaining
  THEN drain
  ELSE [remaining |-> drain.remaining - Size[e], selected |-> drain.selected \cup {e}]

Drained(order) ==
  FoldLeft(Consider, [remaining |-> Budget, selected |-> {}], order).selected

Frame ==
  /\ UNCHANGED <<manager, observer>>
  /\ \E priority \in {Modified} : \E order \in ByPriority(priority) :
       /\ selected' = Drained(order)
       /\ accumulated' = [e \in DOMAIN accumulated |->
                            IF e \in selected' THEN 0 ELSE priority[e]]

PriorityInit ==
  /\ accumulated = [e \in {} |-> 0]
  /\ selected = {}
  /\ manager \in Managers
  /\ observer \in Observers

PriorityNext ==
  \/ \E e \in Entities : Register(e) \/ Unregister(e)
  \/ MoveObserver
  \/ Frame

\* The game loop never stops.
PriorityFairness == WF_priorityVars(Frame)

-----------------------------------------------------------------------------
(* Properties *)

PriorityTypeOK ==
  /\ DOMAIN accumulated \subseteq Entities
  /\ accumulated \in [DOMAIN accumulated -> 0 .. MaxAccumulated]
  /\ \A e \in DOMAIN accumulated : accumulated[e] = MaxAccumulated => ~Fits(e)
  /\ selected \subseteq Entities
  /\ manager \in Managers
  /\ observer \in Observers

\* "ensuring all entities eventually get sent even at low priority": an entity that
\* fits the budget and stays registered is sent, whatever others come and go and
\* however often smaller ones are taken in its place, unless a modifier below 1 holds
\* it back: applied in every frame, it lets no priority grow beyond some limit.  A
\* GridInterest holds nothing back, wherever the observer goes.
HeldBack(e) == Modifier(e) < Radius

EntitiesSent ==
  \A e \in Entities :
    Fits(e) => (e \in DOMAIN accumulated ~>
                  e \in selected \/ e \notin DOMAIN accumulated \/ HeldBack(e))
=============================================================================
