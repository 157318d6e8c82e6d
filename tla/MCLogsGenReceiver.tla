-------------------------- MODULE MCLogsGenReceiver --------------------------
(***************************************************************************)
(* Small configurations of LogsGenReceiver for TLC.                        *)
(***************************************************************************)
EXTENDS LogsGenReceiver

\* A scenario with that many instances and workers, generating logs or not.
Scenario(scale, concurrency, logs) ==
    [scale |-> scale, concurrency |-> concurrency, logsPerInterval |-> logs]

\* Two workers with two instances each, a scenario that generates nothing, the
\* generator itself while those workers may be running, and one more worker.
MixedScenarios ==
    <<Scenario(4, 2, 1), Scenario(1, 0, 0), Scenario(2, 0, 1), Scenario(1, 1, 1)>>

\* First the generator, then workers: two in one scenario, one with no instance
\* in the next; and last a concurrent scenario that generates nothing.
SequentialFirstScenarios ==
    <<Scenario(1, 0, 1), Scenario(2, 2, 1), Scenario(0, 1, 1), Scenario(1, 1, 0)>>

\* A concurrent scenario that generates nothing before one that does.
SilentFirstScenarios == <<Scenario(2, 2, 0), Scenario(1, 1, 1), Scenario(2, 2, 1)>>

\* A sequential scenario after a concurrent one.
SequentialLastScenarios == <<Scenario(1, 1, 1), Scenario(1, 0, 1)>>
=============================================================================
