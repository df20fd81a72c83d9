CONSTANTS
    w1 = w1
    w2 = w2
    Worker = {w1, w2}
    NoWorker = NoWorker
    Setups <- Progressing
    MaxFaults = 1
    MaxUndo = 2
SPECIFICATION FairSpec
CHECK_DEADLOCK FALSE
PROPERTY Concludes
