------------------------- MODULE MCRunnerSupervisor -------------------------
(* Model checking of RunnerSupervisor on small instances.                  *)
EXTENDS RunnerInvariants

=============================================================================
