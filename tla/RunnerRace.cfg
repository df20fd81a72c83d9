SPECIFICATION Spec
CONSTANTS
    Exec = {e1}
    Lease = {l1}
    NoLease = NoLease
    NoExec = NoExec
    Capacity = 1
    JournalMayFail = FALSE
    Outcomes = {"SUCCEEDED"}
    Revocable = {}
    Perishable = {}
PROPERTY TerminalImmutable
