\* A flexible downtime that a fixed one triggers.
SPECIFICATION Spec
CONSTANTS
    o1 = o1
    o2 = o2
    Objects = {o1, o2}
    Requests <- ThreeRequests
    StartTime = 10
    MaxTime = 13
    MaxDowntimes = 3
    Prompt = TRUE
    SortedTriggers = TRUE
    NULL = NULL
PROPERTY FlexLasts
