------------------------------ MODULE MCSession -----------------------------
(* Small instances of Session for TLC. *)
EXTENDS Session, TLC

CookieOnly    == {[cookie |-> TRUE, migration |-> FALSE]}
WithMigration == {[cookie |-> FALSE, migration |-> TRUE]}
AllEnabled    == {[cookie |-> TRUE, migration |-> TRUE]}
MCSymmetry    == Permutations(Clients)
MCConfigs     == CookieOnly \cup WithMigration
=============================================================================
