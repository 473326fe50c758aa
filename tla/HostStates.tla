----------------------------- MODULE HostStates -----------------------------
(* The soft/hard state machine of a host: what a check result makes of its  *)
(* state (update_host_state_post_check, process_host_check_result and       *)
(* handle_host_state in checks_host.c).  A host h is a record of the fields *)
(* of struct host that those functions read and write.                      *)
EXTENDS Integers

CONSTANTS Aggressive,        \* use_aggressive_host_checking
          PassiveSoft,       \* passive_host_checks_are_soft
          TranslatePassive   \* translate_passive_host_checks

STATE_UP == 0
STATE_DOWN == 1
STATE_UNREACHABLE == 2
HostStateValues == 0..2

(* A result r is [active, early_timeout, exited_ok, return_code]; passive   *)
(* ones carry the final state.  STATE_WARNING is 1.                         *)
CheckCode(r) ==
    IF r.early_timeout THEN 3
    ELSE IF ~r.exited_ok \/ r.return_code \notin 0..3 THEN 2
    ELSE r.return_code

HostResultState(r) ==
    IF ~r.active THEN r.return_code
    ELSE IF CheckCode(r) = 0 \/ (CheckCode(r) = 1 /\ ~Aggressive) THEN STATE_UP
    ELSE STATE_DOWN

(* adjust_host_check_attempt                                                *)
adjust_host_check_attempt(h, active) ==
    IF h.state_type = "HARD" \/ (active /\ h.current_state = STATE_UP) THEN 1
    ELSE IF h.current_attempt < h.max_attempts THEN h.current_attempt + 1
    ELSE h.current_attempt

(* update_host_state_post_check for a result that is not discarded.         *)
update_host_state_post_check(h, r) ==
    LET attempt == IF r.active \/ PassiveSoft
                   THEN adjust_host_check_attempt(h, r.active) ELSE h.current_attempt
    IN  [h EXCEPT !.last_state = h.current_state,
                  !.last_hard_state = IF h.state_type = "HARD" THEN h.current_state ELSE @,
                  !.check_active = r.active,
                  !.current_attempt = attempt,
                  !.state_type = IF \/ ~r.active /\ ~PassiveSoft
                                    \/ attempt >= h.max_attempts
                                 THEN "HARD" ELSE @,
                  !.current_state = HostResultState(r)]

(* determine_host_reachability, of a host that is not UP: noParents if it   *)
(* has none, parentUp if one of them is UP.                                 *)
determine_host_reachability(noParents, parentUp) ==
    IF noParents \/ parentUp THEN STATE_DOWN ELSE STATE_UNREACHABLE

(* Are the results of this kind soft until the attempts are used up?        *)
MayBeSoft(h) == h.check_active \/ PassiveSoft
Translated(h) == h.check_active \/ TranslatePassive

(* The parts of process_host_check_result up to handle_host_state; before   *)
(* is the state of the host before the result, reach what its parents say.  *)
RecoveredHost(h) ==
    [h EXCEPT !.state_type = IF @ = "HARD" \/ ~MayBeSoft(h) THEN "HARD" ELSE "SOFT"]

StillNotUp(h, reach) ==
    [h EXCEPT !.state_type = IF \/ ~MayBeSoft(h)
                                \/ h.current_attempt \in {1, h.max_attempts}
                             THEN "HARD" ELSE "SOFT",
              !.current_attempt = IF MayBeSoft(h) THEN @ ELSE 1,
              !.current_state = IF Translated(h) THEN reach ELSE @]

WentDown(h, reach) ==
    [h EXCEPT !.state_type = IF ~MayBeSoft(h) \/ h.current_attempt = h.max_attempts
                             THEN "HARD" ELSE "SOFT",
              !.current_attempt = IF MayBeSoft(h) THEN @ ELSE 1,
              !.current_state = IF Translated(h) THEN reach ELSE @]

HostDetermined(h, before, reach) ==
    IF before # STATE_UP
    THEN IF h.current_state = STATE_UP THEN RecoveredHost(h) ELSE StillNotUp(h, reach)
    ELSE IF h.current_state = STATE_UP THEN [h EXCEPT !.state_type = "HARD"]
         ELSE WentDown(h, reach)

(* handle_host_state: has the state changed, softly or hard, when the       *)
(* acknowledgement and the times of the notifications are looked at ...     *)
HostStateChange(h) ==
    h.last_state # h.current_state \/ (h.current_state = STATE_UP /\ h.state_type = "SOFT")

HostHardChange(h) ==
    h.current_attempt >= h.max_attempts /\ h.last_hard_state # h.current_state

HostChanged(h) == HostStateChange(h) \/ HostHardChange(h)

(* ... and when the contacts and the event handler are told.                *)
HostTold(h) == HostStateChange(h) \/ h.last_hard_state # h.current_state

HostAckEnds(h) ==
    /\ HostChanged(h)
    /\ \/ h.ack_type = "normal" /\ (HostStateChange(h) \/ ~HostHardChange(h))
       \/ h.ack_type = "sticky" /\ h.current_state = STATE_UP

(* The attempts start over with a recovery, once it has been handled.       *)
HostHandled(h) ==
    IF HostTold(h) /\ h.current_state = STATE_UP THEN [h EXCEPT !.current_attempt = 1] ELSE h
=============================================================================
