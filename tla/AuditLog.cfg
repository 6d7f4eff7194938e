\* Crashes, failing writes and edits in every combination of two; alerts that
\* arrive late, out of order or not at all.
SPECIFICATION Spec
CONSTANTS
    Events = {"a", "b"}
    Titled = {"a"}
    Mishaps = {"refused", "unsynced", "short"}
    Edits = {"edit", "delete", "swap", "truncate", "rewrite"}
    MaxLines = 3
    MaxRecords = 5
    MaxChanges = 2
INVARIANTS TypeOK HonestLogVerifies LocalEditsShow  AppendedIsKept
PROPERTIES BreakIsPermanent
