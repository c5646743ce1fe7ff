------------------------------ MODULE MCChannel -----------------------------
(* Small instances of Channel for TLC. *)
EXTENDS Channel

Config(mode, block, flags) ==
  [delivery_mode |-> mode, block_on_full |-> block, flags |-> flags]

\* Every delivery mode, on buffers that block and that forget; NetServer and
\* NetClient always ask for reliability, Connection::send takes either.
MCConfigs ==
  { Config("Unreliable", TRUE, {FALSE}),
    Config("UnreliableSequenced", FALSE, {TRUE, FALSE}),
    Config("ReliableUnordered", FALSE, {TRUE}),
    Config("ReliableOrdered", TRUE, {TRUE}),
    Config("ReliableSequenced", FALSE, {TRUE}) }

MCOrdered == { Config("ReliableOrdered", TRUE, {TRUE}) }
=============================================================================
