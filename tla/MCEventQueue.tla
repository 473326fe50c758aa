---------------------------- MODULE MCEventQueue ----------------------------
(* Small instances of EventQueue.                                           *)
EXTENDS EventQueue, TLC

CONSTANTS e1, e2, e3, e4, e5, e6

SixEvents == {e1, e2, e3, e4, e5, e6}
Interchangeable == Permutations(Events)
=============================================================================
