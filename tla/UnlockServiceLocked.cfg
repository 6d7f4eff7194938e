\* A lockout starts while another session is waiting for its response.
SPECIFICATION Spec
CONSTANTS
    Threshold = 1
    Base = 2
    Maximum = 2
    QuietReset = 2
    TableLimit = 2
    Conns = {c1, c2}
    Addrs = {ip1}
    Devices = {d1}
    NoDevice = NoDevice
    RequireMtls = TRUE
    MaxConnections = 2
    MaxPending = 2
    ChallengeTtl = 1
    MsgTimeout = 1
    ReplySlack = 1
    AuditGap = 1
    Faults = {}
    StartTime = 2
    LastArrival = 3
    MaxTime = 6
PROPERTY NothingWhileLocked
