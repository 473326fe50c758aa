------------------------------ MODULE Flapping ------------------------------
(* Flap detection (flapping.c): the history of the states of a host or a    *)
(* service, how much it changes, and what is done when the object starts or *)
(* stops flapping.  The history is kept as a sequence, oldest state first:  *)
(* the ring buffer read from state_history_index on.                        *)
EXTENDS Notifications, Comments

CONSTANTS HistorySize,    \* MAX_STATE_HISTORY_ENTRIES
          LowThreshold,   \* low_flap_threshold, in percent
          HighThreshold,  \* high_flap_threshold
          FlapStates      \* flap_detection_options: the states that are recorded

ASSUME FlappingAssumption ==
    /\ HistorySize \in Nat /\ HistorySize > 2
    /\ LowThreshold \in Nat /\ HighThreshold \in Nat /\ LowThreshold < HighThreshold

(* The weight of a change at place x, in units of 1 / (4 * (HistorySize-2)):*)
(* from 0.75 for the oldest to 1.25 for the newest.                         *)
Weight(x) == 2 * (x - 1) + 3 * (HistorySize - 2)

(* flapping_pct, in units of 1 / (4 * (HistorySize-2) * (HistorySize-1))    *)
(* percent.  The loop starts from the oldest state, compares it with        *)
(* itself, and ends before the newest.                                      *)
flapping_pct(h) ==
    LET sum[x \in 1..(HistorySize - 1)] ==
            IF x = 1 THEN 0
            ELSE sum[x - 1] + (IF h[x] # h[x - 1] THEN Weight(x) ELSE 0)
    IN  100 * sum[HistorySize - 1]

Percent(p) == 4 * (HistorySize - 2) * (HistorySize - 1) * p

Recorded(o) == Append(Tail(o.history), o.current_state)

-----------------------------------------------------------------------------
FlapBegan(o, id) ==
    [o EXCEPT !.is_flapping = TRUE, !.flapping_comment_id = id,
              !.check_recovery = o.current_state # 0 /\ o.number > 0]

set_service_flap(w, e, mod) ==
    service_notification(
        [w EXCEPT !.o = FlapBegan(@, get_next_comment_id(w.cs)),
                  !.cs = add_new_service_comment(@, "service", "FLAPPING", FALSE)],
        e, "FLAPPINGSTART", {}, mod)

set_host_flap(w, e, mod) ==
    host_notification(
        [w EXCEPT !.o = FlapBegan(@, get_next_comment_id(w.cs)),
                  !.cs = add_new_host_comment(@, "host", "FLAPPING", FALSE)],
        e, "FLAPPINGSTART", {}, mod)

(* Mutant: the comment is left when flapping ends.                          *)
FlapEndedKeepsComment(w) ==
    [w EXCEPT !.o.is_flapping = FALSE, !.o.flapping_comment_id = 0]

FlapEnded(w) ==
    [w EXCEPT !.o.is_flapping = FALSE, !.o.flapping_comment_id = 0,
              !.cs = IF w.o.flapping_comment_id # 0
                     THEN delete_comment(@, w.o.flapping_comment_id) ELSE @]

RecoveryDue(o) == o.check_recovery /\ o.current_state = 0

(* The contacts are told, and of a recovery as well if one was due.         *)
ServiceFlapEnds(w, e, type, mod) ==
    LET w1 == service_notification(FlapEnded(w), e, type, {}, mod)
        w2 == IF RecoveryDue(w.o) THEN service_notification(w1, e, "NORMAL", {}, mod) ELSE w1
    IN  [w2 EXCEPT !.o.check_recovery = FALSE]

HostFlapEnds(w, e, type, mod) ==
    LET w1 == host_notification(FlapEnded(w), e, type, {}, mod)
        w2 == IF RecoveryDue(w.o) THEN host_notification(w1, e, "NORMAL", {}, mod) ELSE w1
    IN  [w2 EXCEPT !.o.check_recovery = FALSE]

clear_service_flap(w, e, mod) == ServiceFlapEnds(w, e, "FLAPPINGSTOP", mod)
clear_host_flap(w, e, mod) == HostFlapEnds(w, e, "FLAPPINGSTOP", mod)

(* The decision, once a state has been recorded: "start", "stop" or "keep". *)
FlapDecision(o, e) ==
    IF ~e.enable_flap_detection \/ ~o.flap_detection_enabled THEN "keep"
    ELSE CASE flapping_pct(o.history) <= Percent(LowThreshold) /\ o.is_flapping -> "stop"
           [] flapping_pct(o.history) >= Percent(HighThreshold) /\ ~o.is_flapping -> "start"
           [] OTHER -> "keep"

(* A state is recorded if flap detection is about it; soft problems of      *)
(* services are not.  update is always TRUE in the calls that matter.       *)
check_for_service_flapping(w, e, mod) ==
    LET w1 == [w EXCEPT !.o.history = Recorded(w.o)]
    IN  IF \/ w.o.current_state \notin FlapStates
           \/ w.o.state_type = "SOFT" /\ w.o.current_state # 0
        THEN w
        ELSE CASE FlapDecision(w1.o, e) = "start" -> set_service_flap(w1, e, mod)
               [] FlapDecision(w1.o, e) = "stop" -> clear_service_flap(w1, e, mod)
               [] OTHER -> w1

check_for_host_flapping(w, e, mod) ==
    LET w1 == [w EXCEPT !.o.history = Recorded(w.o)]
    IN  IF w.o.current_state \notin FlapStates THEN w
        ELSE CASE FlapDecision(w1.o, e) = "start" -> set_host_flap(w1, e, mod)
               [] FlapDecision(w1.o, e) = "stop" -> clear_host_flap(w1, e, mod)
               [] OTHER -> w1

handle_service_flap_detection_disabled(w, e, mod) ==
    IF w.o.is_flapping THEN ServiceFlapEnds(w, e, "FLAPPINGDISABLED", mod) ELSE w

handle_host_flap_detection_disabled(w, e, mod) ==
    IF w.o.is_flapping THEN HostFlapEnds(w, e, "FLAPPINGDISABLED", mod) ELSE w

disable_service_flap_detection(w, e, mod) ==
    IF ~w.o.flap_detection_enabled THEN w
    ELSE handle_service_flap_detection_disabled(
             [w EXCEPT !.o.flap_detection_enabled = FALSE], e, mod)

disable_host_flap_detection(w, e, mod) ==
    IF ~w.o.flap_detection_enabled THEN w
    ELSE handle_host_flap_detection_disabled(
             [w EXCEPT !.o.flap_detection_enabled = FALSE], e, mod)

(* The check that follows records nothing, except for a host whose history  *)
(* is old (late).                                                           *)
enable_service_flap_detection(w) == [w EXCEPT !.o.flap_detection_enabled = TRUE]

enable_host_flap_detection(w, e, mod, late) ==
    LET w1 == [w EXCEPT !.o.flap_detection_enabled = TRUE]
    IN  IF late /\ ~w.o.flap_detection_enabled THEN check_for_host_flapping(w1, e, mod) ELSE w1

(* enable_flap_detection_routines and its opposite, for one object; e is    *)
(* what is then read.                                                       *)
enable_flap_detection_routines(w, e, mod, late) ==
    IF w.o.kind = "host" /\ late THEN check_for_host_flapping(w, e, mod) ELSE w

disable_flap_detection_routines(w, e, mod) ==
    IF w.o.kind = "host" THEN handle_host_flap_detection_disabled(w, e, mod)
    ELSE handle_service_flap_detection_disabled(w, e, mod)
=============================================================================
