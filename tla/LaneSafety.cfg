CONSTANTS
    Scheduler = {s1, s2}
    Reconciler = {r1, r2}
    Setups <- Settled
    MaxAttempts = 3
    MaxFaults = 1
SPECIFICATION FairSpec
CHECK_DEADLOCK FALSE
INVARIANTS LaneTypeOK MovesOnce AcknowledgedIsSettled StartedOnce
PROPERTIES NoReopening Scheduled AcceptedIsAcknowledged
