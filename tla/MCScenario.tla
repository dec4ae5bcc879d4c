------------------------------ MODULE MCScenario ------------------------------
\* Small command lines: with a rest of consumers and a second node of tier 3
\* that hangs on the orchestrator only, with and without load distribution and
\* orchestration.  In base two the name of operand 1 begins those of 2 and 3; of
\* the third function it may be asked after 2.
EXTENDS Scenario

Line(t3, funcs, load, orch) ==
  [consumers |-> 3, t1 |-> 1, t2 |-> 1, t3 |-> t3, funcs |-> funcs, data |-> 3,
   inputs |-> 2, load |-> load, orch |-> orch]

MCSettings == {Line(2, 2, TRUE, TRUE), Line(2, 3, FALSE, TRUE), Line(3, 3, FALSE, FALSE)}

MCDraws ==
  {[func |-> 0, inputs |-> <<2>>], [func |-> 0, inputs |-> <<1, 3>>],
   [func |-> 1, inputs |-> <<1>>], [func |-> 1, inputs |-> <<0, 3>>],
   [func |-> 2, inputs |-> <<1>>], [func |-> 2, inputs |-> <<2>>]}
=============================================================================
