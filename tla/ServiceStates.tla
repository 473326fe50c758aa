---------------------------- MODULE ServiceStates ----------------------------
(* The soft/hard state machine of a service: what a check result makes of   *)
(* its state, and what it has other components do                           *)
(* (handle_async_service_check_result in checks_service.c).                 *)
EXTENDS Integers

CONSTANTS TimeoutState,  \* service_check_timeout_state
          IsVolatile     \* is_volatile of each service

STATE_OK == 0
STATE_CRITICAL == 2
STATE_UNKNOWN == 3
States == 0..3

ServiceState ==
    [current_state : States, last_hard_state : States,
     state_type : {"SOFT", "HARD"}, current_attempt : Nat, max_attempts : Nat \ {0},
     host_problem_at_last_check : BOOLEAN, problem_id : BOOLEAN,
     acknowledged : BOOLEAN, ack_type : {"none", "normal", "sticky"}]

(* The state a result stands for.                                           *)
ResultState(r) ==
    IF r.early_timeout THEN TimeoutState
    ELSE IF ~r.exited_ok \/ r.return_code \notin States THEN STATE_CRITICAL
    ELSE r.return_code

(* process_passive_service_check: the command has a return code only.       *)
PassiveState(r) == IF r.return_code \in States THEN r.return_code ELSE STATE_UNKNOWN

(* A state the service is rechecked in brings it one attempt further.       *)
NextAttempt(v) ==
    IF v.state_type = "SOFT" /\ v.current_attempt < v.max_attempts
    THEN v.current_attempt + 1 ELSE v.current_attempt

(* Mutant: the last attempt is counted as one that is retried.              *)
HardChangeLate(v, st) ==
    \/ v.host_problem_at_last_check /\ st = STATE_OK
    \/ NextAttempt(v) > v.max_attempts /\ st # v.last_hard_state

(* A hard change seen before the state of the host is looked at.            *)
HardChange(v, st) ==
    \/ v.host_problem_at_last_check /\ st = STATE_OK
    \/ NextAttempt(v) >= v.max_attempts /\ st # v.last_hard_state

(* Does this result end the acknowledgement?                                *)
AckEnds(v, st) ==
    LET state_change == st # v.current_state
        hard_state_change == HardChange(v, st)
    IN  \/ st = STATE_OK
        \/ /\ state_change \/ hard_state_change
           /\ v.ack_type = "normal"
           /\ state_change \/ ~hard_state_change

(* Mutant: the host problem is remembered.                                  *)
OkResultKeepsHostProblem(v) ==
    [v EXCEPT !.current_state = STATE_OK, !.last_hard_state = STATE_OK,
              !.state_type = "HARD", !.current_attempt = 1,
              !.problem_id = IF v.current_state # STATE_OK THEN FALSE ELSE @,
              !.acknowledged = FALSE, !.ack_type = "none"]

(* A service that is OK starts over.                                        *)
OkResult(v) ==
    [v EXCEPT !.current_state = STATE_OK, !.last_hard_state = STATE_OK,
              !.state_type = "HARD", !.current_attempt = 1,
              !.host_problem_at_last_check = FALSE,
              !.problem_id = IF v.current_state # STATE_OK THEN FALSE ELSE @,
              !.acknowledged = FALSE, !.ack_type = "none"]

(* Mutant: the event handler is run for hard recoveries only.               *)
OkCallsHardOnly(v) == IF HardChange(v, STATE_OK) THEN {"notify", "handler"} ELSE {}

OkCalls(v) ==
    IF HardChange(v, STATE_OK) THEN {"notify", "handler"}
    ELSE IF v.current_state # STATE_OK THEN {"handler"}
    ELSE {}

(* Mutant: they begin again for a hard problem too.                         *)
ProblemAttemptRestart(v, up) ==
    IF up /\ v.host_problem_at_last_check THEN 1 ELSE NextAttempt(v)

(* The attempts of a problem begin again when the host has recovered.       *)
ProblemAttempt(v, up) ==
    IF up /\ v.host_problem_at_last_check /\ v.state_type = "SOFT" THEN 1 ELSE NextAttempt(v)

(* With the host down a problem that is new is hard at once.                *)
ProblemHardChange(v, st, up) ==
    HardChange(v, st) \/ (~up /\ v.last_hard_state # st)

Retrying(v, up) == ProblemAttempt(v, up) < v.max_attempts

(* A problem: retried while attempts are left, unless the host is down.     *)
ProblemResult(v, st, up) ==
    [v EXCEPT !.current_state = st,
              !.current_attempt = ProblemAttempt(v, up),
              !.host_problem_at_last_check = ~up,
              !.state_type = IF ~Retrying(v, up) THEN "HARD"
                             ELSE IF up THEN "SOFT"
                             ELSE IF ProblemHardChange(v, st, up) THEN "HARD" ELSE @,
              !.last_hard_state = IF \/ ~Retrying(v, up)
                                     \/ ~up /\ ProblemHardChange(v, st, up)
                                  THEN st ELSE @,
              !.problem_id = IF st # v.current_state /\ v.current_state = STATE_OK
                             THEN TRUE ELSE @,
              !.acknowledged = IF AckEnds(v, st) THEN FALSE ELSE @,
              !.ack_type = IF AckEnds(v, st) THEN "none" ELSE @]

(* flexStarts: a pending flexible downtime starts with this problem, so the *)
(* contacts are not told of it.                                             *)
ProblemCalls(s, v, st, up, flexStarts) ==
    LET hard == ProblemHardChange(v, st, up)
    IN  IF Retrying(v, up)
        THEN IF up \/ hard THEN {"handler"} ELSE {}
        ELSE (IF hard \/ IsVolatile[s] THEN {"handler"} ELSE {})
             \cup (IF hard \/ st # v.current_state THEN {"flex"} ELSE {})
             \cup (IF flexStarts /\ (hard \/ st # v.current_state) THEN {} ELSE {"notify"})

StateAfter(v, st, up) == IF st = STATE_OK THEN OkResult(v) ELSE ProblemResult(v, st, up)
CallsAfter(s, v, st, up, flexStarts) ==
    IF st = STATE_OK THEN OkCalls(v) ELSE ProblemCalls(s, v, st, up, flexStarts)
=============================================================================
