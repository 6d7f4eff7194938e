\* Two logins, two consents and two runs of the listener, with audit failures,
\* crashes, failed starts, a stolen socket, abandoned logins and a loop that runs
\* its tasks late.  The clock reaches the time by which a consent has to be used.
SPECIFICATION SystemSpec
CONSTANTS
    Helpers = {h1, h2}
    Nonces = {n1, n2}
    Devices = {d1}
    GrantTtl = 1
    PamWait = 1
    ReadWait = 1
    Margin = 3
    Lag = 1
    ChallengeTtl = 1
    Faults = {"disk", "crash", "port", "rival"}
    MaxIssues = 2
    MaxStarts = 2
    LastArrival = 1
    MaxTime = 3
SYMMETRY SystemSymmetry
INVARIANTS LoginIsConsented NoLostWakeup ExitZeroIsAccounted
PROPERTIES OneShot GrantIsFresh ConsentIsFresh
