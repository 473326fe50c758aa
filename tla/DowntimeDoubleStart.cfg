\* Results come faster than the events they cause are run.
SPECIFICATION Spec
CONSTANTS
    o1 = o1
    o2 = o2
    Objects = {o1, o2}
    Requests <- ThreeRequests
    StartTime = 10
    MaxTime = 13
    MaxDowntimes = 3
    Prompt = FALSE
    SortedTriggers = TRUE
    NULL = NULL
INVARIANT DepthMatches
