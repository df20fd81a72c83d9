CONSTANTS
    Scheduler = {s1}
    Reconciler = {r1}
    Setups <- Approving
    MaxAttempts = 2
    MaxFaults = 1
SPECIFICATION Spec
CHECK_DEADLOCK FALSE
INVARIANT MovesOnce
