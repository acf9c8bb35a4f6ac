SPECIFICATION Spec
CONSTANTS
    Roles = {"maker"}
    MaxSwaps = 2
    MaxCrashes = 3
    MaxUnsaved = 1
    MaxNoReceipts = 0
    MaxClears = 1
    MaxPurges = 1
CHECK_DEADLOCK FALSE
INVARIANT SecretIsOwn
