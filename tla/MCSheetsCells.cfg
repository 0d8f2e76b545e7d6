CONSTANTS
    bar = bar
    s1 = s1
    s2 = s2
    note = note
    Buses = {"chrome", "kate"}
    Elements <- MCElements
    Nobody = nobody
    BusOf <- MCBusOf
    KindOf <- MCKindOf
    Cells = {"A1", "B1"}
    Browser = "chrome"
    Drain = 2
    MaxChanges = 3
    MaxFaults = 1
SYMMETRY MCSymmetry
SPECIFICATION Spec
INVARIANTS Converges NothingOutlivesFocus WordInOneCell
PROPERTIES NothingOfAnEarlierFocus LateEventsKeepTheWord BarWordEnds
CHECK_DEADLOCK FALSE
