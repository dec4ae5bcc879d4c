-------------------------- MODULE MCFunctionSwitch --------------------------
(***************************************************************************)
(* Nodes with one core and two functions; the thresholds are scaled down   *)
(* so that few requests reach them.                                        *)
(***************************************************************************)
EXTENDS FunctionSwitch

CONSTANTS n1, n2

MCCores   == [n \in Nodes |-> 1]
MCRam     == [n \in Nodes |-> 1]
MCOrder   == <<"f", "g">>
MCEnabled == [n \in Nodes |-> IF n = n1 THEN {"f", "g"} ELSE {"g"}]

\* A function the node can fetch.
MCEnabledFew == [n \in Nodes |-> IF n = n1 THEN {"g"} ELSE {}]
=============================================================================
