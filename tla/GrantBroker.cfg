\* Timing and liveness: nothing fails but the logins themselves.
SPECIFICATION SoundSpec
CONSTANTS
    Helpers = {h1, h2}
    GrantTtl = 2
    PamWait = 2
    ReadWait = 1
    Margin = 3
    Lag = 1
    Faults = {"kill"}
    MaxIssues = 2
    LastArrival = 2
    MaxTime = 9
INVARIANTS TypeOK HelperOutlivesRequest TakenIsDelivered
PROPERTIES RequestsEnd
