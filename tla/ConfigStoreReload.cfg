SPECIFICATION Spec
CONSTANTS
    Devices = {d1, d2}
    Admins = {a1}
    Crashes = FALSE
    MaxCommands = 3
INVARIANT ReloadIsCurrent
