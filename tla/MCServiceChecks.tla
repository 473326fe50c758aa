-------------------------- MODULE MCServiceChecks --------------------------
(* Small instances of ServiceChecks.                                        *)
EXTENDS ServiceChecks, TLC

CONSTANTS s1, s2

Exited(code) == [early_timeout |-> FALSE, exited_ok |-> TRUE, return_code |-> code]

(* OK, WARNING, a code that is out of bounds, an early timeout (UNKNOWN) and *)
(* a command that did not exit properly.                                     *)
AllResults == {Exited(0), Exited(1), Exited(127),
               [early_timeout |-> TRUE, exited_ok |-> FALSE, return_code |-> 0],
               [early_timeout |-> FALSE, exited_ok |-> FALSE, return_code |-> 0]}
OkOrCritical == {Exited(0), Exited(2)}
OnlyCritical == {Exited(2)}

KeepState == -1

NotVolatile == [s \in Services |-> FALSE]
NoMasters == [s \in Services |-> {}]
OneMaster == [s \in Services |-> IF s = s1 THEN {s2} ELSE {}]
NoInterval == [s \in Services |-> 0]
IntervalOne == [s \in Services |-> 1]
IntervalTwo == [s \in Services |-> 2]
=============================================================================
