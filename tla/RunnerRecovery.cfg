SPECIFICATION ReclaimSpec
CONSTANTS
    Exec = {e1}
    Lease = {l1}
    NoLease = NoLease
    NoExec = NoExec
    Capacity = 1
    JournalMayFail = TRUE
    Outcomes = {"SUCCEEDED", "UNKNOWN"}
    Revocable = {e1}
    Perishable = {e1}
PROPERTIES
    Reclaimed
    RestartReplays
