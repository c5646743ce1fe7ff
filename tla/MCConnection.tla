----------------------------- MODULE MCConnection ---------------------------
(* Small instances of Connection for TLC. *)
EXTENDS Connection

Config(client_sends, probes, large, headers, sessions) ==
  [client_sends |-> client_sends, probes |-> probes, large |-> large,
   headers |-> headers, sessions |-> sessions]

\* One session with fragmented messages and retransmissions, and two sessions with
\* the client at either end, with and without probes.
MCConfigs ==
  { Config(TRUE, TRUE, {0, 1}, 7, 1), Config(TRUE, TRUE, {0}, 5, 2),
    Config(FALSE, TRUE, {}, 4, 2), Config(TRUE, FALSE, {}, 4, 2) }

\* A message sent again, and a client that reconnects when nothing is in flight.
MCOneSession  == { Config(TRUE, TRUE, {}, 3, 1) }
MCReconnected == { Config(TRUE, TRUE, {}, 4, 2) }
=============================================================================
