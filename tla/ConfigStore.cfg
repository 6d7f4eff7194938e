SPECIFICATION Spec
CONSTANTS
    Devices = {d1, d2}
    Admins = {a1}
    Crashes = TRUE
    MaxCommands = 4
INVARIANTS TypeOK RevokedStaysRevoked BundleIsPinned ServerIdentityMatches ReloadCatchesUp
