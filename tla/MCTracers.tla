------------------------------ MODULE MCTracers ------------------------------
\* Two nodes: a consumer beside a producer, and an orchestrator's node whose
\* first application obeys commands.
EXTENDS Tracers

MCApps == [n1 |-> <<"consumer", "producer">>, n2 |-> <<"ndnNode", "ndnComm">>]
MCLate == {"producer"}
MCLists == {<<"n2", "n1">>}
MCFiles == {"-", "a.txt", "closed.txt"}
MCClosed == {"closed.txt"}
MCFired == {"FirstInterestDataDelayInc", "RcvComputeInterests", "ExecutingFunctionTrace",
            "DisableFunction"}
MCCosts == {[cpu |-> 1, ram |-> 2, rom |-> 3, time |-> 4]}
=============================================================================
