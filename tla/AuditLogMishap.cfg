SPECIFICATION Spec
CONSTANTS
    Events = {"a", "b"}
    Titled = {"a"}
    Mishaps = {"refused"}
    Edits = {}
    MaxLines = 3
    MaxRecords = 4
    MaxChanges = 1
INVARIANT UneditedLogVerifies
