--------------------------- MODULE MCStatusReports ---------------------------
(***************************************************************************)
(* A node with more RAM than cores that executes one function and has the  *)
(* other one disabled.                                                     *)
(***************************************************************************)
EXTENDS StatusReports

CONSTANT n1

MCCores   == [n \in Nodes |-> 1]
MCRam     == [n \in Nodes |-> 2]
MCEnabled == [n \in Nodes |-> {"f"}]
=============================================================================
