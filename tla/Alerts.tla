------------------------------- MODULE Alerts -------------------------------
(* One host or one service, and everything that decides what its contacts   *)
(* hear of it: its check results, flap detection, acknowledgements,         *)
(* comments, downtime, the external commands about them, the passage of     *)
(* time, and restarts that carry its state over in the retention file.      *)
(* Composes ServiceStates, HostStates, Notifications, Flapping and Comments.*)
EXTENDS ServiceStates, HostStates, Flapping

CONSTANTS Scenarios,      \* what is looked at: a set of [kind, given, varies], the kind of
                          \* the object, the external commands that are given and the
                          \* parts of env that change
          MaxAttempts,    \* max_attempts
          ServiceResults, \* the states results bring to a service
          HostResults,    \* the results of host checks
          AckTimes,       \* after how long an acknowledgement may be set to expire
          MaxNumber,      \* bound on the notifications of one problem
          MaxComments     \* bound on the comment ids

Switches == {"enable_notifications", "enable_flap_detection", "in_period", "deps_fail",
             "parents_bad", "host_up", "host_downtime"}
Choices == {"contacts_on", "escalations_on"}

ASSUME AlertsAssumption ==
    /\ Scenarios \subseteq [kind : {"host", "service"}, given : SUBSET STRING,
                             varies : SUBSET (Switches \cup Choices)]
    /\ MaxAttempts \in Nat \ {0}
    /\ ServiceResults \subseteq States
    /\ HostResults \subseteq [active : BOOLEAN, early_timeout : BOOLEAN, exited_ok : BOOLEAN,
                               return_code : Int]
    /\ \A r \in HostResults : ~r.active => r.return_code \in HostStateValues
    /\ AckTimes \subseteq Nat

VARIABLES scene,     \* the scenario, one of Scenarios
          obj,       \* the host or service
          comments,  \* all comments
          env,       \* what else the filters read
          expire,    \* the expiry events of acknowledgements, by the time left
          sent,      \* what the last step sent
          told,      \* history: who was told of the present problem, last
          told_under \* history: the escalations whose period it was then

vars == <<scene, obj, comments, env, expire, sent, told, told_under>>

Object ==
    [kind : {"host", "service"}, current_state : 0..3, last_state : 0..3, last_hard_state : 0..3,
     state_type : {"SOFT", "HARD"}, current_attempt : 1..MaxAttempts, max_attempts : {MaxAttempts},
     check_active : BOOLEAN, host_problem_at_last_check : BOOLEAN, problem_id : BOOLEAN,
     acknowledged : BOOLEAN, ack_type : {"none", "normal", "sticky"}, ack_end : Nat \cup {-1},
     number : Nat, notified_on : SUBSET (0..3), next_notification : Nat,
     last_notification : Nat \cup {-1}, no_more : BOOLEAN, notifications_enabled : BOOLEAN,
     depth : Nat, hard_age : Nat, is_flapping : BOOLEAN, check_recovery : BOOLEAN,
     flapping_comment_id : Nat, flap_detection_enabled : BOOLEAN, history : [1..HistorySize -> 0..3]]

Notice == [type : NotificationTypes, state : 0..3, number : Nat, to : SUBSET Contacts]

TypeOK ==
    /\ scene \in Scenarios /\ obj \in Object /\ obj.kind = scene.kind
    /\ comments \in [next : Nat, table : SUBSET Comment]
    /\ env \in [enable_notifications : BOOLEAN, enable_flap_detection : BOOLEAN,
                in_period : BOOLEAN, deps_fail : BOOLEAN, parents_bad : BOOLEAN,
                host_up : BOOLEAN, host_downtime : BOOLEAN, contacts_on : SUBSET Contacts,
                escalations_on : SUBSET Escalations]
    /\ expire \subseteq Nat
    /\ sent \in Seq(Notice)
    /\ told \subseteq Contacts /\ told_under \subseteq Escalations

Environment ==
    [enable_notifications |-> TRUE, enable_flap_detection |-> TRUE, in_period |-> TRUE,
     deps_fail |-> FALSE, parents_bad |-> FALSE, host_up |-> TRUE, host_downtime |-> FALSE,
     contacts_on |-> Contacts, escalations_on |-> Escalations]

Init ==
    /\ scene \in Scenarios
    /\ obj =
         [kind |-> scene.kind, current_state |-> 0, last_state |-> 0, last_hard_state |-> 0,
          state_type |-> "HARD", current_attempt |-> 1, max_attempts |-> MaxAttempts,
          check_active |-> TRUE, host_problem_at_last_check |-> FALSE, problem_id |-> FALSE,
          acknowledged |-> FALSE, ack_type |-> "none", ack_end |-> -1,
          number |-> 0, notified_on |-> {}, next_notification |-> 0, last_notification |-> -1,
          no_more |-> FALSE, notifications_enabled |-> TRUE, depth |-> 0, hard_age |-> 0,
          is_flapping |-> FALSE, check_recovery |-> FALSE, flapping_comment_id |-> 0,
          flap_detection_enabled |-> TRUE, history |-> [x \in 1..HistorySize |-> 0]]
    /\ comments = initialize_comment_data
    /\ env = Environment
    /\ expire = {}
    /\ sent = <<>>
    /\ told = {} /\ told_under = Escalations

World == [o |-> obj, cs |-> comments, sent |-> <<>>]

(* The places of the problems that were notified of in w.                   *)
Problems(w) == {i \in 1..Len(w.sent) : w.sent[i].type = "NORMAL" /\ w.sent[i].state # 0}
Last(places) == CHOOSE i \in places : \A j \in places : j <= i

Commit(w) ==
    /\ w.cs.next <= MaxComments + 1 /\ w.o.number <= MaxNumber
    /\ obj' = w.o /\ comments' = w.cs /\ sent' = w.sent
    /\ told' = IF w.o.current_state = 0 THEN {}
               ELSE IF Problems(w) # {} THEN w.sent[Last(Problems(w))].to ELSE told
    /\ told_under' = IF w.o.current_state = 0 THEN Escalations
                     ELSE IF Problems(w) # {} THEN env.escalations_on ELSE told_under
    /\ UNCHANGED scene

-----------------------------------------------------------------------------
(* Check results.                                                           *)

(* The times of the notifications start over.                               *)
TimesReset(o) ==
    [o EXCEPT !.next_notification = 0, !.last_notification = -1, !.no_more = FALSE]

(* Mutant: the comments of the acknowledgement are kept.                    *)
AckDroppedKeepsComments(w) ==
    [w EXCEPT !.o.acknowledged = FALSE, !.o.ack_type = "none", !.o.ack_end = -1]

(* The acknowledgement ends with the problem or its change.                 *)
AckDropped(w) ==
    [w EXCEPT !.o.acknowledged = FALSE, !.o.ack_type = "none", !.o.ack_end = -1,
              !.cs = delete_acknowledgement_comments(@, w.o.kind)]

AckCommentsGo(o, st) ==
    /\ st # o.current_state \/ HardChange(o, st)
    /\ \/ o.ack_type = "normal" /\ (st # o.current_state \/ ~HardChange(o, st))
       \/ o.ack_type = "sticky" /\ st = STATE_OK

(* Mutant: a recovery leaves the states that were notified of.              *)
ServiceRecoveredKeepsNotified(o) ==
    [o EXCEPT !.number = 0, !.next_notification = 0, !.last_notification = -1, !.ack_end = -1]

ServiceRecovered(o) ==
    [o EXCEPT !.number = 0, !.notified_on = {}, !.next_notification = 0,
              !.last_notification = -1, !.ack_end = -1]

ServiceOk(w, hard, mod) ==
    LET w1 == IF hard THEN service_notification(check_for_service_flapping(w, env, mod),
                                                env, "NORMAL", {}, mod)
              ELSE w
        w2 == [w1 EXCEPT !.o = ServiceRecovered(@)]
    IN  IF hard THEN w2 ELSE check_for_service_flapping(w2, env, mod)

ServiceProblem(w, retry, quiet, mod) ==
    LET w1 == check_for_service_flapping(w, env, mod)
    IN  IF retry \/ quiet THEN w1 ELSE service_notification(w1, env, "NORMAL", {}, mod)

(* handle_async_service_check_result, from the change of state on.          *)
ServiceResult(st, flexStarts, mod) ==
    LET changed == st # obj.current_state \/ HardChange(obj, st)
        hard == IF st = STATE_OK THEN HardChange(obj, st)
                ELSE ProblemHardChange(obj, st, env.host_up)
        after == StateAfter(obj, st, env.host_up)
        o1 == [after EXCEPT !.hard_age = IF hard THEN 0 ELSE @,
                            !.ack_end = IF after.acknowledged THEN @ ELSE -1]
        o2 == IF changed THEN TimesReset(o1) ELSE o1
        cs == IF AckCommentsGo(obj, st) THEN AckDropped(World).cs ELSE comments
        w == [World EXCEPT !.o = o2, !.cs = cs]
    IN  /\ obj.kind = "service"
        /\ Commit(IF st = STATE_OK THEN ServiceOk(w, hard, mod)
                  ELSE ServiceProblem(w, Retrying(obj, env.host_up),
                                      flexStarts /\ (hard \/ st # obj.current_state), mod))
        /\ UNCHANGED <<env, expire>>

HostRecovered(o) == [o EXCEPT !.number = 0, !.notified_on = {}]

(* handle_host_state                                                        *)
handle_host_state(w, flexStarts, mod) ==
    LET h == w.o
        w1 == IF HostChanged(h) THEN [w EXCEPT !.o = TimesReset(@)] ELSE w
        w2 == IF HostAckEnds(h) THEN AckDropped(w1) ELSE w1
        w3 == IF HostTold(h) /\ h.state_type = "HARD" THEN [w2 EXCEPT !.o.hard_age = 0] ELSE w2
        w4 == IF /\ h.state_type = "HARD"
                 /\ IF HostTold(h) THEN ~flexStarts ELSE h.current_state # STATE_UP
              THEN host_notification(w3, env, "NORMAL", {}, mod) ELSE w3
        w5 == [w4 EXCEPT !.o = HostHandled(@)]
    IN  IF HostTold(h) /\ h.current_state = STATE_UP THEN [w5 EXCEPT !.o = HostRecovered(@)] ELSE w5

(* handle_async_host_check_result: a freshness check that was discarded     *)
(* leaves the state as it was, and is handled all the same.                 *)
HostResult(r, discarded, parentUp, flexStarts, mod) ==
    LET posted == IF discarded THEN obj ELSE update_host_state_post_check(obj, r)
        h == HostDetermined(posted, obj.current_state,
                            determine_host_reachability(FALSE, parentUp))
        w == handle_host_state([World EXCEPT !.o = h], flexStarts, mod)
    IN  /\ obj.kind = "host" /\ (discarded => r.active)
        /\ Commit(check_for_host_flapping(w, env, mod))
        /\ UNCHANGED <<env, expire>>

(* A result of a service of the host records the state of the host as well, *)
(* and may send the notification of its problem again if it is not checked. *)
ServiceResultOfHost(renotifies, mod) ==
    /\ obj.kind = "host" /\ (renotifies => obj.current_state # STATE_UP)
    /\ LET w == IF renotifies THEN host_notification(World, env, "NORMAL", {}, mod) ELSE World
       IN  Commit(check_for_host_flapping(w, env, mod))
    /\ UNCHANGED <<env, expire>>

-----------------------------------------------------------------------------
(* Acknowledgements.                                                        *)

(* acknowledge_host_problem, acknowledge_service_problem; end is -1 for one *)
(* that does not expire.                                                    *)
acknowledge_problem(type, notify, persistent, end, mod) ==
    LET w1 == IF notify THEN notification(World, env, "ACKNOWLEDGEMENT", {}, mod) ELSE World
        w2 == [w1 EXCEPT !.o.acknowledged = TRUE, !.o.ack_type = type, !.o.ack_end = end]
    IN  /\ obj.current_state # 0
        /\ Commit([w2 EXCEPT !.cs = add_new_comment(@, obj.kind, "ACKNOWLEDGEMENT", persistent)])
        /\ expire' = IF end > 0 THEN expire \cup {end} ELSE expire
        /\ UNCHANGED env

(* remove_host_acknowledgement, remove_service_acknowledgement: the type of *)
(* the acknowledgement stays.                                               *)
AckRemoved(w) ==
    [w EXCEPT !.o.acknowledged = FALSE, !.o.ack_end = -1,
              !.cs = delete_acknowledgement_comments(@, w.o.kind)]

remove_acknowledgement ==
    /\ Commit(AckRemoved(World))
    /\ UNCHANGED <<env, expire>>

handle_acknowledgement_expire_event ==
    /\ 0 \in expire
    /\ Commit(IF obj.acknowledged /\ obj.ack_end = 0 THEN AckRemoved(World) ELSE World)
    /\ expire' = expire \ {0}
    /\ UNCHANGED env

-----------------------------------------------------------------------------
(* Other commands.                                                          *)

SendCustomNotification(options, mod) ==
    /\ Commit(notification(World, env, "CUSTOM", options, mod))
    /\ UNCHANGED <<env, expire>>

DelayNotification(d) ==
    /\ Commit([World EXCEPT !.o.next_notification = d])
    /\ UNCHANGED <<env, expire>>

set_notification_number(n) ==
    /\ Commit([World EXCEPT !.o.number = n])
    /\ UNCHANGED <<env, expire>>

(* enable_service_notifications and its kin.                                *)
SwitchNotifications ==
    /\ Commit([World EXCEPT !.o.notifications_enabled = ~@])
    /\ UNCHANGED <<env, expire>>

SwitchFlapDetection(late, mod) ==
    /\ Commit(CASE obj.kind = "host" /\ obj.flap_detection_enabled ->
                     disable_host_flap_detection(World, env, mod)
                [] obj.kind = "host" /\ ~obj.flap_detection_enabled ->
                     enable_host_flap_detection(World, env, mod, late)
                [] obj.kind = "service" /\ obj.flap_detection_enabled ->
                     disable_service_flap_detection(World, env, mod)
                [] OTHER -> enable_service_flap_detection(World))
    /\ UNCHANGED <<env, expire>>

SwitchAllFlapDetection(late, mod) ==
    LET e == [env EXCEPT !.enable_flap_detection = ~@]
    IN  /\ Commit(IF env.enable_flap_detection THEN disable_flap_detection_routines(World, e, mod)
                  ELSE enable_flap_detection_routines(World, e, mod, late))
        /\ env' = e
        /\ UNCHANGED expire

AddComment(persistent) ==
    /\ Commit([World EXCEPT !.cs = add_new_comment(@, obj.kind, "USER", persistent)])
    /\ UNCHANGED <<env, expire>>

DeleteComment(id) ==
    /\ Commit([World EXCEPT !.cs = delete_comment(@, id)])
    /\ UNCHANGED <<env, expire>>

DeleteAllComments ==
    /\ Commit([World EXCEPT !.cs = delete_all_comments(@, obj.kind)])
    /\ UNCHANGED <<env, expire>>

-----------------------------------------------------------------------------
(* The rest of the system.                                                  *)

(* A downtime of the object starts or ends: see Downtime.                   *)
DowntimeStarts(mod) ==
    /\ obj.depth = 0
    /\ LET w == notification(World, env, "DOWNTIMESTART", {}, mod)
       IN  Commit([w EXCEPT !.o.depth = 1])
    /\ UNCHANGED <<env, expire>>

DowntimeEnds(mod) ==
    /\ obj.depth = 1
    /\ Commit(notification([World EXCEPT !.o.depth = 0], env, "DOWNTIMEEND", {}, mod))
    /\ UNCHANGED <<env, expire>>

EnvChanges ==
    /\ \E f \in scene.varies \ Choices : env' = [env EXCEPT ![f] = ~@]
    /\ sent' = <<>>
    /\ UNCHANGED <<scene, obj, comments, expire, told, told_under>>

ContactSwitched ==
    /\ "contacts_on" \in scene.varies
    /\ \E c \in Contacts :
         env' = [env EXCEPT !.contacts_on = IF c \in @ THEN @ \ {c} ELSE @ \cup {c}]
    /\ sent' = <<>>
    /\ UNCHANGED <<scene, obj, comments, expire, told, told_under>>

(* The period of an escalation begins or ends.                              *)
EscalationPeriodTurns ==
    /\ "escalations_on" \in scene.varies
    /\ \E x \in {y \in Escalations : y.timed} :
         env' = [env EXCEPT !.escalations_on = IF x \in @ THEN @ \ {x} ELSE @ \cup {x}]
    /\ sent' = <<>>
    /\ UNCHANGED <<scene, obj, comments, expire, told, told_under>>

(* Mutant: acknowledgements that expire are restored without their event.   *)
RestoredExpiryForgotten(o) == {}

(* xrddefault_read_state_information: the expiry event is made anew.        *)
RestoredExpiry(o) == IF o.acknowledged /\ o.ack_end > 0 THEN {o.ack_end} ELSE {}

(* The fields that are saved, and what is made of the others.  The time of  *)
(* the next notification is computed again from that of the last.  The      *)
(* attempt of a host is read as a truth value.                              *)
Restored(o) ==
    LET o1 == [o EXCEPT !.flapping_comment_id = 0, !.no_more = FALSE, !.next_notification = 0,
                        !.host_problem_at_last_check = FALSE,
                        !.notified_on = @ \ {0},
                        !.current_attempt = IF o.current_state # 0 /\ o.state_type = "HARD"
                                            THEN o.max_attempts
                                            ELSE IF o.kind = "host" THEN 1 ELSE @,
                        !.acknowledged = @ /\ o.ack_end # 0,
                        !.ack_type = IF o.acknowledged /\ o.ack_end = 0 THEN "none" ELSE @,
                        !.ack_end = IF o.acknowledged /\ @ = 0 THEN -1 ELSE @]
    IN  IF o.current_state # 0 /\ o.last_notification >= 0
        THEN IF o.kind = "host" THEN get_next_host_notification_time(o1, env, o.last_notification)
             ELSE get_next_service_notification_time(o1, env, o.last_notification)
        ELSE o1

Restart ==
    LET o == Restored(obj)
    IN  /\ Commit([World EXCEPT !.o = o, !.cs = RetainedComments(@, o.acknowledged)])
        /\ expire' = RestoredExpiry(o)
        /\ UNCHANGED env

LongestInterval == NotificationInterval + Cardinality(Escalations) + PeriodGap

Tick ==
    LET older(x) == IF x > 0 THEN x - 1 ELSE x
    IN  /\ 0 \notin expire
        /\ obj' = [obj EXCEPT !.next_notification = older(@), !.ack_end = older(@),
                              !.hard_age = IF @ < FirstDelay THEN @ + 1 ELSE @,
                              !.last_notification =
                                  IF @ >= 0 /\ @ < LongestInterval THEN @ + 1 ELSE @]
        /\ expire' = {x - 1 : x \in expire}
        /\ sent' = <<>>
        /\ UNCHANGED <<scene, comments, env, told, told_under>>

Given(c) == c \in scene.given

Mods == IF Given("modules") THEN {"none", "cancel", "contact"} ELSE {"none"}

Next ==
    \/ \E st \in ServiceResults, flex \in BOOLEAN, mod \in Mods : ServiceResult(st, flex, mod)
    \/ \E r \in HostResults, discarded, parentUp, flex \in BOOLEAN, mod \in Mods :
          HostResult(r, discarded, parentUp, flex, mod)
    \/ \E renotifies \in BOOLEAN, mod \in Mods : ServiceResultOfHost(renotifies, mod)
    \/ /\ Given("ack")
       /\ \E type \in {"normal", "sticky"}, notify, persistent \in BOOLEAN,
             end \in AckTimes \cup {-1}, mod \in Mods :
            acknowledge_problem(type, notify, persistent, end, mod)
    \/ Given("ack") /\ remove_acknowledgement
    \/ handle_acknowledgement_expire_event
    \/ /\ Given("custom")
       /\ \E options \in SUBSET NotificationOptions, mod \in Mods :
            SendCustomNotification(options, mod)
    \/ Given("delay") /\ \E d \in 0..1 : DelayNotification(d)
    \/ Given("number") /\ \E n \in 0..1 : set_notification_number(n)
    \/ Given("notifications") /\ SwitchNotifications
    \/ Given("flap") /\ \E late \in BOOLEAN, mod \in Mods : SwitchFlapDetection(late, mod)
    \/ Given("allflap") /\ \E late \in BOOLEAN, mod \in Mods : SwitchAllFlapDetection(late, mod)
    \/ Given("comment") /\ \E persistent \in BOOLEAN : AddComment(persistent)
    \/ Given("comment") /\ \E id \in Ids(comments) : DeleteComment(id)
    \/ Given("comment") /\ DeleteAllComments
    \/ Given("downtime") /\ \E mod \in Mods : DowntimeStarts(mod)
    \/ Given("downtime") /\ \E mod \in Mods : DowntimeEnds(mod)
    \/ EnvChanges
    \/ ContactSwitched
    \/ EscalationPeriodTurns
    \/ Given("restart") /\ Restart
    \/ Tick

(* The clock does not stop, and the main loop runs the events that are due. *)
Fairness == WF_vars(Tick) /\ WF_vars(handle_acknowledgement_expire_event)

Spec == Init /\ [][Next]_vars /\ Fairness

-----------------------------------------------------------------------------
(* Recoveries are sent only of problems that the contacts were told of:     *)
(* notified_on, which decides it, is kept over restarts and forgotten with  *)
(* the recovery.                                                            *)
RecoveryFollowsProblem ==
    [][\A i \in 1..Len(sent') :
          sent'[i].type = "NORMAL" /\ sent'[i].state = 0 => told # {}]_vars

(* The count that escalations go by is not set by commands, and contacts do *)
(* not change their minds.                                                  *)
Undisturbed == scene.given \cap {"number", "custom"} = {} /\ "contacts_on" \notin scene.varies

Recoveries == {i \in 1..Len(sent') : sent'[i].type = "NORMAL" /\ sent'[i].state = 0}

(* A recovery goes to nobody but those who were last told of the problem,   *)
(* whether that was escalated or not (is_valid_escalation_for_...), if no   *)
(* escalation period began or ended between the two: the escalations of the *)
(* recovery are those of the present.  Of the recoveries that one result    *)
(* sends this is about the first.                                           *)
RecoveryToTheTold ==
    [][Undisturbed /\ told_under = env.escalations_on /\ Recoveries # {} =>
          sent'[CHOOSE i \in Recoveries : \A j \in Recoveries : i <= j].to \subseteq told]_vars

(* The first recovery whatever the escalation periods do in between, as the *)
(* comment in is_valid_escalation_for_... has it: "if this is a recovery,   *)
(* really we check for who got notified about a previous problem".          *)
RecoveryWhateverThePeriods ==
    [][Undisturbed /\ Recoveries # {} =>
          sent'[CHOOSE i \in Recoveries : \A j \in Recoveries : i <= j].to \subseteq told]_vars

(* The same of all recoveries, while the periods last.                      *)
EveryRecoveryToTheTold ==
    [][Undisturbed /\ told_under = env.escalations_on =>
          \A i \in Recoveries : sent'[i].to \subseteq told]_vars

(* The comment of an acknowledgement, unless it is persistent, is there no  *)
(* longer than the acknowledgement, and that no longer than the problem.    *)
AcksEndWithProblems ==
    /\ AckComments(comments, obj.kind) # {} => obj.acknowledged
    /\ obj.acknowledged => obj.current_state # 0

(* A comment that says that notifications are suppressed by flapping is the *)
(* one the object remembers, of flapping that goes on; and the id an object *)
(* remembers is that of no other comment, which would be deleted in its     *)
(* place when flapping ends.                                                *)
FlapCommentsOwned ==
    /\ \A c \in comments.table :
          c.entry_type = "FLAPPING" => obj.is_flapping /\ obj.flapping_comment_id = c.id
    /\ \A c \in find_comment(comments, obj.flapping_comment_id) : c.entry_type = "FLAPPING"

(* An acknowledgement with an end does end, over restarts as well.          *)
AcksExpire == (obj.ack_end >= 0) ~> (obj.ack_end = -1)
=============================================================================
