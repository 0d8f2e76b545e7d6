\* Three keys and one Backspace of the user, with lost loopbacks, a failed batch,
\* forced commits and a loss of the focus, genuine or not, at any moment, and one letter
\* typed twice at the speed of a repeated event; fair timers.
CONSTANTS
    MaxKeys = 3
    MaxBackspaces = 1
    MaxDelete = 1
    BufferCap = 2
    Apps = {"plain", "ordered", "chromium", "page"}
    MaxEaten = 0
    MaxLost = 2
    MaxFails = 1
    MaxForced = 3
    MaxLeaves = 1
    MaxRepeats = 1
    Losses = {"genuine", "cycle"}
SPECIFICATION FairSpec
INVARIANTS NoStrayDeletion
PROPERTIES CommitAfterBatch NothingWhileAway Progress
CHECK_DEADLOCK FALSE
