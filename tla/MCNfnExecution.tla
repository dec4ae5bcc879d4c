--------------------------- MODULE MCNfnExecution ---------------------------
(***************************************************************************)
(* A node with two cores and three units of RAM; a light function, and a   *)
(* heavy one that needs both cores, so that a heavy request at the head of *)
(* the queue blocks light ones and is overtaken by later arrivals.         *)
(***************************************************************************)
EXTENDS NfnExecution

CONSTANTS L1, L2, L3, H1, H2

MCJobs      == {L1, L2, L3, H1, H2}
MCFuncs     == {"light", "heavy"}
MCFuncOf    == [j \in MCJobs |-> IF j \in {H1, H2} THEN "heavy" ELSE "light"]
MCResources == {"ram", "cores"}
MCNeed      == [f \in MCFuncs |-> IF f = "heavy" THEN [ram |-> 1, cores |-> 2]
                                                  ELSE [ram |-> 1, cores |-> 1]]
MCCapacity  == [ram |-> 3, cores |-> 2]
=============================================================================
