SPECIFICATION DeliverySpec
CONSTANTS
    Exec = {e1, e2}
    Lease = {l1}
    NoLease = NoLease
    NoExec = NoExec
    Capacity = 1
    JournalMayFail = FALSE
    Outcomes = {"SUCCEEDED"}
    Revocable = {}
    Perishable = {}
PROPERTY Delivered
