\* Two batches of a Backspace, an Escape or both, one cancel, two keyboards, a session
\* that is closed once, one crash.
CONSTANTS
    MaxBatches = 2
    MaxTaps = 1
    MaxCancels = 1
    MaxDevices = 2
    MaxCloses = 1
    MaxRuns = 2
SPECIFICATION PortalFairSpec
INVARIANTS StopsAtTap OneDevice TokenWhole
PROPERTIES PortalProgress
