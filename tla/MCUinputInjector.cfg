\* Two input contexts and two batches, a selection or a tap each, that may wait
\* together; one EAGAIN is tolerated.  The worker is fair.
CONSTANTS
    Owners = {o1, o2}
    MaxTickets = 2
    MaxCount = 1
    QueueCap = 2
    MaxRetries = 1
SPECIFICATION FairSpec
INVARIANTS NoOrphan
PROPERTIES CancelStopsAtFrame Progress ImplementsService
