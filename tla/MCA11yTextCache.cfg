\* Two entries, one edit each, two losses of focus, and time for a lease to lapse
\* and for a failure and its backoff.  The monitor rests when nothing is demanded.
SPECIFICATION Spec
CHECK_DEADLOCK FALSE
CONSTANTS
    Entries = {e1, e2}
    NoEntry = NoEntry
    MinPoll = 1
    Poll = 2
    Idle = 3
    MaxBackoff = 3
    MaxFailures = 1
    MaxAge = 1
    GuardWait = 1
    Skew = 1
    MaxTime = 4
    MaxGeneration = 3
    MaxEdits = 1
SYMMETRY EntrySymmetry
INVARIANTS SnapshotBelongs
PROPERTIES ReadIsFresh BackoffHolds
