\* Three downtimes of two objects, and restarts at any time.
SPECIFICATION FairSpec
CONSTANTS
    o1 = o1
    o2 = o2
    Objects = {o1, o2}
    Requests <- ThreeRequests
    StartTime = 10
    MaxTime = 14
    MaxDowntimes = 3
    Prompt = TRUE
    SortedTriggers = TRUE
    NULL = NULL
INVARIANTS DepthMatches PointersLive ContactsInformed NoFreedRead
PROPERTIES CommentsOwned DowntimesEnd
