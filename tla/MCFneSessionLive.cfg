SPECIFICATION FairSpec
CONSTANTS
    Salts = {1}
    TimeoutRetries = 3
    QuietLimit = 2
    Prompt = TRUE
    MayFail <- Recoverable
    MaxInFlight = 3
INVARIANTS
    LoggedInMeansAccepted
    LoginHasStream
PROPERTIES
    Reconnects
