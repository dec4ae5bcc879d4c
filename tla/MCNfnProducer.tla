--------------------------- MODULE MCNfnProducer ---------------------------
(***************************************************************************)
(* An edge node with one core, a queue of one, a function that is enabled  *)
(* from the start (on) and one that has to be fetched (off), two data      *)
(* names; two instances of one request, one that shares both arguments     *)
(* with it, and one for the function that is not there.                    *)
(***************************************************************************)
EXTENDS NfnProducer

CONSTANTS j1, j2, j3, j4, Stale, Lost, Switch

MCFuncs     == {"on", "off"}
MCFuncOf    == [j \in Jobs |-> IF j = j4 THEN "off" ELSE "on"]
MCResources == {"ram", "cores"}
MCNeed      == [f \in MCFuncs |-> [ram |-> 1, cores |-> 1]]
MCCapacity  == [ram |-> 2, cores |-> 1]
MCNameOf    == [j \in Jobs |-> CASE j \in {j1, j2} -> "A" [] j = j3 -> "B" [] OTHER -> "C"]
MCData      == {"d1", "d2"}
MCParamsOf  == [j \in Jobs |-> MCData]
MCBudget    == [stale |-> Stale, lost |-> Lost, switch |-> Switch]
MCArity     == [f \in MCFuncs |-> 2]
=============================================================================
