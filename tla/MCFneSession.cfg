SPECIFICATION Spec
CONSTANTS
    Salts = {1, 2}
    TimeoutRetries = 2
    QuietLimit = 2
    Prompt = FALSE
    MayFail <- Unreliable
    MaxInFlight = 3
INVARIANTS
    TypeOK
    WaitsAreTimed
    ChallengeAnswered
