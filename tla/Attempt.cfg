SPECIFICATION FairSpec
CONSTANTS
    None = None
    Conn = {c1, c2}
    Req = {r1}
    Content = {model}
    Refused = {}
    Credentials = {}
    Resource = {tokens}
    Charge <- Charges
    MaxRequests = 1
    Maximum <- Maxima
    Answer = {answer}
    Secret = {secret}
    JournalMayFail = TRUE
    ProcessMayDie = TRUE
INVARIANT SuccessEndsService
PROPERTIES UnknownStops IdsReleased
CHECK_DEADLOCK FALSE
