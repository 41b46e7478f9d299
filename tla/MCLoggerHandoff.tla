-------------------------- MODULE MCLoggerHandoff --------------------------
(* Platforms and bounds for LoggerHandoff. *)
EXTENDS LoggerHandoff

\* A log that starts in SEC, in PEI's temporary RAM, or in PEI's own memory.
PeiConfigs == {[sec |-> TRUE,  pei |-> TRUE, inRAM |-> FALSE],
               [sec |-> FALSE, pei |-> TRUE, inRAM |-> FALSE],
               [sec |-> FALSE, pei |-> TRUE, inRAM |-> TRUE]}

\* A log that starts in DXE core.
DxeConfigs == {[sec |-> FALSE, pei |-> FALSE, inRAM |-> FALSE]}

AllConfigs == PeiConfigs \cup DxeConfigs
=============================================================================
