---------------------------- MODULE MCFragments -----------------------------
(* A small instance of Fragments alone, for TLC. *)
EXTENDS Fragments

\* Two messages of two fragments, as fragment_message makes them.
MCFragment ==
  { [id |-> id, index |-> i, count |-> 2, size |-> 1] : id \in 1 .. 2, i \in 0 .. 1 }
=============================================================================
