CONSTANTS
    Platforms = {"injected"}
    Existing <- MCExisting
    MaxText = 3
    MaxKeys = 3
    EdgeSlack = 1
    JumpSlack = 1
    Suggests = "none"
SPECIFICATION Spec
INVARIANTS ClearedWordAlone
CHECK_DEADLOCK FALSE
