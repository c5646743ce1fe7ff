---------------------------- MODULE MCReliability ---------------------------
(* Small instances of Reliability for TLC. *)
EXTENDS Reliability

\* A new connection, and one whose numbers are about to wrap around.
MCStarts == {0, FullRange - 2}

\* Only the latter.
MCRunning == {FullRange - 2}
=============================================================================
