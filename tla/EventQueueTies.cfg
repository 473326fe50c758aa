\* Two events scheduled on the same reading of the clock.
SPECIFICATION Spec
CONSTANTS
    e1 = e1
    e2 = e2
    e3 = e3
    e4 = e4
    e5 = e5
    e6 = e6
    Events <- SixEvents
    Delays = {0, 1, 2, 3, 4, 5, 6}
    MaxTime = 6
    TiesPossible = TRUE
    NULL = NULL
SYMMETRY Interchangeable
INVARIANT HeapHoldsPending
