--------------------------- MODULE Notifications ---------------------------
(* Who is notified of what (notifications.c): the filters a notification    *)
(* passes, the escalations that say whom it goes to, the count of the       *)
(* notifications of a problem and the time of the next one.  An object o is *)
(* a record of the fields of a host or a service that are read here; e is   *)
(* what the filters read of everything else:                                *)
(*   [enable_notifications, enable_flap_detection : BOOLEAN,                *)
(*    in_period : BOOLEAN, whether the notification period allows it,       *)
(*    deps_fail : BOOLEAN, whether a notification dependency fails,         *)
(*    parents_bad : BOOLEAN, whether all service parents have problems,     *)
(*    host_up, host_downtime : BOOLEAN, for the host of a service,          *)
(*    contacts_on : SUBSET Contacts, whom contact filters let through,      *)
(*    escalations_on : SUBSET Escalations, those whose period it is].       *)
(* Times are counted from the present.                                      *)
EXTENDS Integers, Sequences, FiniteSets

CONSTANTS Contacts,
          ContactOptions,       \* of each contact: [states, flapping, downtime]
          ContactsOf,           \* the contacts of the object, its groups expanded
          Options,              \* its notification_options: [states, flapping, downtime]
          Escalations,          \* its escalations, a set of [first, last, interval, states,
                                \* contacts, timed]; timed is: has an escalation_period
          NotificationInterval, \* in ticks, 0 for a single notification
          FirstDelay,           \* first_notification_delay
          Volatile,             \* is_volatile, of a service
          GlobalHandler,        \* is there a global notification handler?
          PeriodGap             \* how long until the notification period begins

ASSUME NotificationsAssumption ==
    /\ ContactsOf \subseteq Contacts
    /\ IsFiniteSet(Escalations)
    /\ Escalations \subseteq [first : Nat, last : Nat, interval : Int, states : SUBSET (0..3),
                               contacts : SUBSET Contacts, timed : BOOLEAN]
    /\ {NotificationInterval, FirstDelay, PeriodGap} \subseteq Nat
    /\ {Volatile, GlobalHandler} \subseteq BOOLEAN

FlappingTypes == {"FLAPPINGSTART", "FLAPPINGSTOP", "FLAPPINGDISABLED"}
DowntimeTypes == {"DOWNTIMESTART", "DOWNTIMEEND", "DOWNTIMECANCELLED"}
NotificationTypes == {"NORMAL", "ACKNOWLEDGEMENT", "CUSTOM"} \cup FlappingTypes \cup DowntimeTypes
NotificationOptions == {"BROADCAST", "FORCED", "INCREMENT"}

-----------------------------------------------------------------------------
(* The filters of the object.                                               *)

GeneralFilters(o, e) == e.enable_notifications /\ e.in_period /\ o.notifications_enabled

(* Every type but NORMAL has a filter of its own.                           *)
ServiceSpecial(o, e, type) ==
    CASE type = "CUSTOM" -> o.depth = 0 /\ ~e.host_downtime
      [] type = "ACKNOWLEDGEMENT" -> o.current_state # 0
      [] type \in FlappingTypes -> Options.flapping /\ o.depth = 0 /\ ~e.host_downtime
      [] type \in DowntimeTypes -> Options.downtime /\ o.depth = 0

HostSpecial(o, e, type) ==
    CASE type = "CUSTOM" -> o.depth = 0
      [] type = "ACKNOWLEDGEMENT" -> o.current_state # 0
      [] type \in FlappingTypes -> Options.flapping /\ o.depth = 0
      [] type \in DowntimeTypes -> Options.downtime /\ o.depth = 0

Delayed(o) == o.number = 0 /\ o.current_state # 0 /\ o.hard_age < FirstDelay

Flaps(o, e) == e.enable_flap_detection /\ o.flap_detection_enabled /\ o.is_flapping

(* What problems and recoveries have in common; recoveries need no more.    *)
ViableAlert(o, e) ==
    /\ o.state_type = "HARD" /\ ~o.acknowledged
    /\ ~e.deps_fail
    /\ o.current_state \in Options.states
    /\ o.current_state = 0 => o.notified_on # {}
    /\ ~Delayed(o)
    /\ ~Flaps(o, e)

ServiceNormal(o, e) ==
    /\ ~(e.parents_bad /\ o.current_state # 0)
    /\ ViableAlert(o, e)
    /\ \/ o.current_state = 0
       \/ /\ ~o.no_more /\ e.host_up
          /\ o.next_notification = 0 \/ Volatile
          /\ o.depth = 0 /\ ~e.host_downtime

HostNormal(o, e) ==
    /\ ViableAlert(o, e)
    /\ \/ o.current_state = 0
       \/ o.depth = 0 /\ ~o.no_more /\ o.next_notification = 0

check_service_notification_viability(o, e, type, options) ==
    \/ "FORCED" \in options
    \/ /\ GeneralFilters(o, e)
       /\ IF type = "NORMAL" THEN ServiceNormal(o, e) ELSE ServiceSpecial(o, e, type)

check_host_notification_viability(o, e, type, options) ==
    \/ "FORCED" \in options
    \/ /\ GeneralFilters(o, e)
       /\ IF type = "NORMAL" THEN HostNormal(o, e) ELSE HostSpecial(o, e, type)

(* Outside the period a NORMAL one also moves the next one.                 *)
PeriodBlocked(o, e, type, options) ==
    /\ "FORCED" \notin options /\ type = "NORMAL"
    /\ e.enable_notifications /\ ~e.in_period

Postponed(o) == [o EXCEPT !.next_notification = PeriodGap]

-----------------------------------------------------------------------------
(* The contacts.                                                            *)

check_contact_service_notification_viability(o, e, c, type, options) ==
    \/ "FORCED" \in options
    \/ /\ c \in e.contacts_on
       /\ CASE type = "CUSTOM" -> TRUE
            [] type \in FlappingTypes -> ContactOptions[c].flapping
            [] type \in DowntimeTypes -> ContactOptions[c].downtime
            [] OTHER -> /\ o.current_state \in ContactOptions[c].states
                        /\ o.current_state = 0 =>
                              o.notified_on \cap ContactOptions[c].states # {}

check_contact_host_notification_viability(o, e, c, type, options) ==
    \/ "FORCED" \in options
    \/ /\ c \in e.contacts_on
       /\ CASE type = "CUSTOM" -> TRUE
            [] type \in FlappingTypes -> ContactOptions[c].flapping
            [] type \in DowntimeTypes -> ContactOptions[c].downtime
            [] OTHER -> /\ o.current_state \in ContactOptions[c].states
                        /\ o.current_state = 0 => o.notified_on # {}

(* Mutant: the recovery is counted as one more problem.                     *)
EscalatedNumberPlain(o) == o.number

(* A recovery goes to those who were told of the last problem.              *)
EscalatedNumber(o) == IF o.current_state = 0 THEN o.number - 1 ELSE o.number

is_valid_escalation(o, e, esc, options) ==
    \/ "BROADCAST" \in options
    \/ /\ esc.first <= EscalatedNumber(o)
       /\ esc.last = 0 \/ esc.last >= EscalatedNumber(o)
       /\ o.current_state \in esc.states
       /\ esc.timed => esc \in e.escalations_on

should_be_escalated(o, e) == \E esc \in Escalations : is_valid_escalation(o, e, esc, {})

(* Contacts, without duplicates, before each is asked.                      *)
Candidates(o, e, options) ==
    LET escalated == UNION {esc.contacts : esc \in {x \in Escalations :
                                                     is_valid_escalation(o, e, x, options)}}
    IN  IF "BROADCAST" \in options THEN escalated \cup ContactsOf
        ELSE IF should_be_escalated(o, e) THEN escalated
        ELSE ContactsOf

create_notification_list_from_service(o, e, type, options) ==
    {c \in Candidates(o, e, options) :
        check_contact_service_notification_viability(o, e, c, type, options)}

create_notification_list_from_host(o, e, type, options) ==
    {c \in Candidates(o, e, options) :
        check_contact_host_notification_viability(o, e, c, type, options)}

(* get_next_service_notification_time and its twin for hosts: the shortest  *)
(* interval of the escalations that apply, or the one of the object.        *)
Intervals(o, e) ==
    {esc.interval : esc \in {x \in Escalations :
                                 x.interval >= 0 /\ is_valid_escalation(o, e, x, {})}}

IntervalToUse(o, e) ==
    IF Intervals(o, e) = {} THEN NotificationInterval
    ELSE CHOOSE i \in Intervals(o, e) : \A j \in Intervals(o, e) : i <= j

get_next_service_notification_time(o, e, since) ==
    [o EXCEPT !.no_more = IntervalToUse(o, e) = 0 /\ ~Volatile,
              !.next_notification = IF IntervalToUse(o, e) > since
                                    THEN IntervalToUse(o, e) - since ELSE 0]

get_next_host_notification_time(o, e, since) ==
    [o EXCEPT !.no_more = IntervalToUse(o, e) = 0,
              !.next_notification = IF IntervalToUse(o, e) > since
                                    THEN IntervalToUse(o, e) - since ELSE 0]

-----------------------------------------------------------------------------
(* The notification.  mod is what the broker modules do: "none", "cancel"   *)
(* the notification, or "contact" if they cancel that of each contact.      *)

Counted(o, type, options) ==
    IF type = "NORMAL" \/ "INCREMENT" \in options THEN [o EXCEPT !.number = @ + 1] ELSE o

(* Is the contact told?  The commands of the contact are run, unless a      *)
(* module cancels them.                                                     *)
notify_contact_of_service(c, mod) == mod # "contact"
notify_contact_of_host(c, mod) == mod # "contact"

Anyone(reached) == reached # {} \/ GlobalHandler

(* What is left of it: o before, o1 with the count raised, next with the    *)
(* time of the next one.  The count is taken back if nobody was told,       *)
(* unless the notification was not NORMAL and modules kept it from every    *)
(* contact.                                                                 *)
Settled(o, o1, list, reached, type, next) ==
    IF list = {} /\ ~GlobalHandler THEN o
    ELSE IF type # "NORMAL" THEN o1
    ELSE IF ~Anyone(reached) THEN o
    ELSE [next EXCEPT !.last_notification = 0, !.notified_on = @ \cup {o.current_state}]

Message(o, type, reached) ==
    [type |-> type, state |-> o.current_state, number |-> o.number, to |-> reached]

(* w is [o, cs, sent]: the object, the comments and what has been sent.     *)
service_notification(w, e, type, options, mod) ==
    LET o == w.o
        o1 == Counted(o, type, options)
        list == create_notification_list_from_service(o1, e, type, options)
        reached == {c \in list : notify_contact_of_service(c, mod)}
    IN  IF ~check_service_notification_viability(o, e, type, options)
        THEN [w EXCEPT !.o = IF PeriodBlocked(o, e, type, options) THEN Postponed(o) ELSE o]
        ELSE IF mod = "cancel" THEN w
        ELSE [w EXCEPT !.o = Settled(o, o1, list, reached, type,
                                     get_next_service_notification_time(o1, e, 0)),
                       !.sent = IF Anyone(reached) THEN Append(@, Message(o1, type, reached))
                                ELSE @]

host_notification(w, e, type, options, mod) ==
    LET o == w.o
        o1 == Counted(o, type, options)
        list == create_notification_list_from_host(o1, e, type, options)
        reached == {c \in list : notify_contact_of_host(c, mod)}
    IN  IF ~check_host_notification_viability(o, e, type, options)
        THEN [w EXCEPT !.o = IF PeriodBlocked(o, e, type, options) THEN Postponed(o) ELSE o]
        ELSE IF mod = "cancel" THEN w
        ELSE [w EXCEPT !.o = Settled(o, o1, list, reached, type,
                                     get_next_host_notification_time(o1, e, 0)),
                       !.sent = IF Anyone(reached) THEN Append(@, Message(o1, type, reached))
                                ELSE @]

(* Of the object's kind.                                                    *)
notification(w, e, type, options, mod) ==
    IF w.o.kind = "host" THEN host_notification(w, e, type, options, mod)
    ELSE service_notification(w, e, type, options, mod)
=============================================================================
