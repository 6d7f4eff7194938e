\* Three connections of one device compete for two slots and one challenge, with
\* certificates required and time for every wait to expire.
SPECIFICATION Spec
CONSTANTS
    Threshold = 2
    Base = 1
    Maximum = 2
    QuietReset = 2
    TableLimit = 2
    Conns = {c1, c2, c3}
    Addrs = {ip1}
    Devices = {d1}
    NoDevice = NoDevice
    RequireMtls = TRUE
    MaxConnections = 2
    MaxPending = 1
    ChallengeTtl = 1
    MsgTimeout = 1
    ReplySlack = 1
    AuditGap = 1
    Faults = {}
    StartTime = 2
    LastArrival = 2
    MaxTime = 5
INVARIANTS ResourcesBounded
PROPERTIES ConnectionsEnd
