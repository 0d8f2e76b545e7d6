\* Two input contexts and two batches, of which one may wait; a window the batches
\* may name and another one, and one move of the focus between them; one event that
\* the connection reports as failed; a fair worker.
CONSTANTS
    Owners = {o1, o2}
    Windows = {w1}
    Shapes <- MCShapes
    MaxTickets = 2
    MaxCount = 2
    QueueCap = 1
    MaxMoves = 1
    MaxErrors = 1
SPECIFICATION FairSpec
INVARIANTS ReleasedUnlessRefused FallbackIsSafe StrayBounded
PROPERTIES Progress ImplementsService
