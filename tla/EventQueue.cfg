\* Six events, so that a removed inner node can be replaced by one that has to
\* bubble up; distinct event times.
SPECIFICATION Spec
CONSTANTS
    e1 = e1
    e2 = e2
    e3 = e3
    e4 = e4
    e5 = e5
    e6 = e6
    Events <- SixEvents
    Delays = {0, 1, 2, 3, 4, 5, 6}
    MaxTime = 6
    TiesPossible = FALSE
    NULL = NULL
SYMMETRY Interchangeable
INVARIANTS HeapSound SizeFits
PROPERTY RefinesTimedEvents
