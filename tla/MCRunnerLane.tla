---------------------------- MODULE MCRunnerLane ----------------------------
(* Instances of RunnerLane.                                                *)
EXTENDS RunnerLane, TLC

Runs(profile, approves, last) == [profile |-> profile, approval |-> approves, last |-> last]

(* Every kind of task but the v1 task with an approval.                    *)
Settled ==
    {Runs("v1", FALSE, FALSE), Runs("v1", FALSE, TRUE),
     Runs("v2", FALSE, FALSE), Runs("v2", TRUE, FALSE), Runs("v2", TRUE, TRUE)}

(* The v1 task whose result needs an approval.                             *)
Approving == {Runs("v1", TRUE, FALSE)}
=============================================================================
