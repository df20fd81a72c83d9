CONSTANTS
    w1 = w1
    w2 = w2
    Worker = {w1, w2}
    NoWorker = NoWorker
    Setups <- EverySetup
    MaxFaults = 1
    MaxUndo = 2
SPECIFICATION Spec
SYMMETRY Symmetry
CHECK_DEADLOCK FALSE
INVARIANT HostTypeOK
INVARIANT StepOnce
INVARIANT RequestsWithinBudget
INVARIANT SuccessHasEvidence
INVARIANT JoinExact
INVARIANT SleeperHasAlarm
INVARIANT EndsTogether
PROPERTY EndedStaysEnded
PROPERTY CancelledBeforeEffects
