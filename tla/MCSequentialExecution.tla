------------------------ MODULE MCSequentialExecution ------------------------
(* Small instances of SequentialExecution for TLC. *)
EXTENDS SequentialExecution

\* The entry points and families whose fills the profiles bound, and the legs.
BoundedCallers ==
    {<<"runner", "adaptive">>, <<"runner", "technique">>,
     <<"engine", "technique">>, <<"engine", "legs">>}

\* BacktestExecutionEngine(policy="adaptive").
EngineAdaptive == {<<"engine", "adaptive">>}

=============================================================================
