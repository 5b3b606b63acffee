SPECIFICATION FairSpec
CONSTANTS
    Salts = {1}
    TimeoutRetries = 3
    QuietLimit = 2
    Prompt = TRUE
    MayFail <- Crash
    MaxInFlight = 3
PROPERTY
    QuietPeerRemoved
