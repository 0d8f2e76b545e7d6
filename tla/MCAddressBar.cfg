CONSTANTS
    Platforms = {"wayland", "injected", "forwarded"}
    Existing <- MCExisting
    MaxText = 3
    MaxKeys = 3
    EdgeSlack = 1
    JumpSlack = 1
    Suggests = "first"
SPECIFICATION Spec
INVARIANTS ExactWithText PrefixKept FirstWordWhole PrefixCounted
CHECK_DEADLOCK FALSE
