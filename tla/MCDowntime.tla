----------------------------- MODULE MCDowntime -----------------------------
(* Small instances of Downtime.                                             *)
EXTENDS Downtime

CONSTANTS o1, o2

Request(o, start, end, fixed, duration) ==
    [object |-> o, start_time |-> start, end_time |-> end, fixed |-> fixed, duration |-> duration]

(* Of one object a fixed and a flexible downtime that overlap; of another a *)
(* flexible one that outlasts its window.  Each may trigger others.         *)
ThreeRequests ==
    {Request(o1, 10, 13, TRUE, 3), Request(o1, 11, 13, FALSE, 1), Request(o2, 10, 11, FALSE, 2)}
=============================================================================
