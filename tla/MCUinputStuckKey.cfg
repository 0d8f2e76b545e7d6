\* The comment on send() against a selection cancelled while Shift is down.
CONSTANTS
    Owners = {o1}
    MaxTickets = 1
    MaxCount = 1
    QueueCap = 1
    MaxRetries = 1
SPECIFICATION Spec
INVARIANT NoStuckKey
