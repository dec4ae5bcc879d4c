------------------------- MODULE MCUdpOrchestration -------------------------
(***************************************************************************)
(* Two nodes.  Each is asked once for its bootstrap information; App0      *)
(* polls n1.  One execution makes a node busy, so that the functions it    *)
(* did not execute are to be disabled.  n2 has three functions enabled: a  *)
(* command that names two of them switches one, on n1.                     *)
(***************************************************************************)
EXTENDS UdpOrchestration

CONSTANTS n1, n2, poll1, boot1, boot2

MCPeer     == [a \in Apps |-> IF a = boot2 THEN n2 ELSE n1]
MCPeriodic == [a \in Apps |-> a = poll1]
MCContent  == [a \in Apps |-> IF a = poll1 THEN "NodeStatusFetch" ELSE "BootstrapInfo"]
MCCores    == [n \in Nodes |-> 1]
MCEnabled  == [n \in Nodes |-> IF n = n1 THEN {"f", "g"} ELSE {"f", "g", "h"}]
MCOrder    == <<"f", "g", "h">>

\* The node of application 0 has one function enabled: no command is for it.
MCEnabledOne == [n \in Nodes |-> IF n = n1 THEN {"g"} ELSE {"f", "g", "h"}]
=============================================================================
