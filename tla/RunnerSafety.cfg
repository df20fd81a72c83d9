SPECIFICATION Spec
CONSTANTS
    Exec = {e1}
    Lease = {l1, l2}
    NoLease = NoLease
    NoExec = NoExec
    Capacity = 1
    JournalMayFail = TRUE
    Outcomes = {"SUCCEEDED", "FAILED", "CANCELLED", "TIMED_OUT", "UNKNOWN"}
    Revocable = {e1}
    Perishable = {e1}
INVARIANTS
    AtMostOneExecution
    CleanupEvidence
    OutcomeKept
    CancelledByController
PROPERTIES
    SettledForGood
    ContractSpec
