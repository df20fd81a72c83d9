SPECIFICATION BrokerSpec
CONSTANTS
    small = small
    large = large
    None = None
    Conn = {c1, c2}
    Req = {r1, r2}
    Content = {small, large, bad, credential}
    Refused = {bad}
    Credentials = {credential}
    Resource = {tokens}
    Charge <- Charges
    MaxRequests = 2
    Maximum <- Maxima
    Answer = {answer}
    Secret = {secret}
    JournalMayFail = TRUE
    ProcessMayDie = TRUE
SYMMETRY Symmetry
INVARIANTS AtMostOneSend WithinBudget ReplyRecorded
PROPERTIES SettledRowsStay
CHECK_DEADLOCK FALSE
