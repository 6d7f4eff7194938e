\* Two concurrent connections of two devices, revocation, a failing audit log and restarts;
\* client certificates are optional.
SPECIFICATION Spec
CONSTANTS
    Threshold = 1
    Base = 1
    Maximum = 2
    QuietReset = 2
    TableLimit = 2
    Conns = {c1, c2}
    Addrs = {ip1}
    Devices = {d1, d2}
    NoDevice = NoDevice
    RequireMtls = FALSE
    MaxConnections = 2
    MaxPending = 2
    ChallengeTtl = 1
    MsgTimeout = 1
    ReplySlack = 1
    AuditGap = 1
    Faults = {"disk", "crash"}
    StartTime = 2
    LastArrival = 2
    MaxTime = 4
SYMMETRY ServiceSymmetry
INVARIANTS TypeOK ResourcesBounded OneGrantPerChallenge GrantIsWarranted RevocationBindsNewSessions LockoutIsReported
PROPERTIES Authorises
