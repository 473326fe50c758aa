------------------------------ MODULE Downtime ------------------------------
(* Scheduled downtime (downtime.c): the list of downtimes, the events that  *)
(* start, stop and expire them, the depth counter of each host and service, *)
(* and what a restart makes of them (xrddefault.c).  A downtime may be      *)
(* triggered by another one: it starts, stops and is cancelled with it.     *)
(* Commands, results and events are handled one at a time, in any order; an *)
(* event knows a downtime by its id, and a downtime its events by pointers. *)
EXTENDS Integers, FiniteSets, Functions

CONSTANTS Objects,        \* hosts and services
          Requests,       \* the downtimes that are asked for
          StartTime,      \* when the daemon is started
          MaxTime,        \* bound on the clock
          MaxDowntimes,   \* bound on the ids given out
          Prompt,         \* are due events run before the next result is read?
          SortedTriggers, \* is a trigger listed before what it triggers?
          NULL

ASSUME DowntimeAssumption ==
    /\ IsFiniteSet(Objects)
    /\ Requests \subseteq [object : Objects, start_time : Nat, end_time : Nat,
                            fixed : BOOLEAN, duration : Nat]
    /\ {StartTime, MaxTime, MaxDowntimes} \subseteq Nat /\ StartTime <= MaxTime
    /\ {Prompt, SortedTriggers} \subseteq BOOLEAN

VARIABLES now,
          dts,        \* the downtimes in memory, by downtime_id
          list,       \* scheduled_downtime_list: the pairs <<x, y>> with x before y
          next_downtime_id,
          events,     \* what is in the event queue for downtimes
          depth,      \* scheduled_downtime_depth of each object
          told,       \* were contacts told that the object is in downtime?
          comments,   \* the downtimes that have a comment
          freedRead   \* was a downtime read after it was freed?

vars == <<now, dts, list, next_downtime_id, events, depth, told, comments, freedRead>>

Ids == 1..MaxDowntimes

Event == [kind : {"start", "stop", "expire"}, id : Ids, at : Nat, n : Nat]

(* start_notification_sent is left out: it is set for downtimes in effect   *)
(* only, whose objects have a depth that keeps it from being looked at.     *)
scheduled_downtime ==
    [object : Objects, start_time : Nat, end_time : Nat, flex_downtime_start : Nat,
     fixed : BOOLEAN, duration : Nat, triggered_by : Ids \cup {0},
     is_in_effect : BOOLEAN, start_event : Event \cup {NULL}, stop_event : Event \cup {NULL}]

Known == DOMAIN dts

TypeOK ==
    /\ now \in StartTime..MaxTime
    /\ Known \subseteq Ids
    /\ dts \in [Known -> scheduled_downtime]
    /\ list \subseteq Known \X Known
    /\ \A x, y \in Known : <<x, y>> \in list <=> x # y /\ <<y, x>> \notin list
    /\ next_downtime_id \in 1..MaxDowntimes + 1
    /\ events \subseteq Event
    /\ depth \in [Objects -> Nat]
    /\ told \in [Objects -> BOOLEAN]
    /\ comments \subseteq Ids
    /\ freedRead \in BOOLEAN

-----------------------------------------------------------------------------
(* An event new to queue q.  n tells apart events that are otherwise the    *)
(* same.                                                                    *)
schedule_event(q, kind, id, at) ==
    LET used == {e.n : e \in {f \in q : f.kind = kind /\ f.id = id /\ f.at = at}}
    IN  [kind |-> kind, id |-> id, at |-> at, n |-> CHOOSE n \in 0..Cardinality(used) : n \notin used]

(* downtime_compar(d1, d2) < 0                                              *)
Before(d1, d2) ==
    \/ d1.start_time < d2.start_time
    \/ d1.start_time = d2.start_time /\ d1.triggered_by = 0 /\ d2.triggered_by # 0

(* When a downtime that is in effect ends.                                  *)
StopTime(d) == IF d.fixed THEN d.end_time ELSE d.flex_downtime_start + d.duration

(* The downtimes S with all that they trigger, directly or not: what the    *)
(* recursive calls reach.                                                   *)
Closed(C) == \A x \in Known \ C : dts[x].triggered_by \notin C
Cascade(S) ==
    LET triggered == {x \in Known \ S : dts[x].triggered_by # 0}
    IN  S \cup {x \in triggered : \A C \in SUBSET triggered : Closed(S \cup C) => x \in C}

On(S, o) == {x \in S : dts[x].object = o}
InEffect(S) == {x \in S : dts[x].is_in_effect}

(* The depth counters less the downtimes S, never below zero.               *)
Less(S) == [o \in Objects |-> LET n == Cardinality(On(S, o))
                              IN  IF depth[o] > n THEN depth[o] - n ELSE 0]

(* Mutant: the comment of the downtime is left.                             *)
DeleteKeepsComment(S) ==
    /\ dts' = Restrict(dts, Known \ S)
    /\ list' = list \cap ((Known \ S) \X (Known \ S))
    /\ UNCHANGED comments

(* delete_downtime: it goes with its comment; its events are not touched.   *)
Delete(S) ==
    /\ dts' = Restrict(dts, Known \ S)
    /\ list' = list \cap ((Known \ S) \X (Known \ S))
    /\ comments' = comments \ S

-----------------------------------------------------------------------------
(* register_downtime, of a downtime that has no event in the queue: the end *)
(* of one in effect, the beginning of a fixed one, or the expiry of a       *)
(* flexible one.  A fixed one that is triggered needs no event.  The event  *)
(* that ends one in effect is not remembered.                               *)
StartEvents(q, id, d) ==
    IF d.is_in_effect THEN {}
    ELSE IF d.fixed THEN IF d.triggered_by = 0 THEN {schedule_event(q, "start", id, d.start_time)} ELSE {}
    ELSE IF d.flex_downtime_start > 0 THEN {schedule_event(q, "start", id, d.flex_downtime_start)} ELSE {}

(* Mutant: no event is scheduled for a downtime that is in effect.          *)
StopEventsForgotten(q, id, d) ==
    IF ~d.is_in_effect /\ ~d.fixed THEN {schedule_event(q, "expire", id, d.end_time + 1)} ELSE {}

StopEvents(q, id, d) ==
    IF d.is_in_effect THEN {schedule_event(q, "stop", id, StopTime(d))}
    ELSE IF ~d.fixed THEN {schedule_event(q, "expire", id, d.end_time + 1)} ELSE {}

Pointer(evs) == IF evs = {} THEN NULL ELSE CHOOSE e \in evs : TRUE

register_downtime(q, id, d) ==
    [d EXCEPT !.start_event = Pointer(StartEvents(q, id, d)),
              !.stop_event = IF d.is_in_effect THEN NULL ELSE Pointer(StopEvents(q, id, d))]

(* A downtime as add_downtime makes it for a request.                       *)
add_downtime(r, triggered_by) ==
    [object |-> r.object, start_time |-> r.start_time, end_time |-> r.end_time,
     flex_downtime_start |-> 0, fixed |-> r.fixed, duration |-> r.duration,
     triggered_by |-> triggered_by, is_in_effect |-> FALSE,
     start_event |-> NULL, stop_event |-> NULL]

(* downtime_add accepts a downtime if its trigger is known and, when it is  *)
(* flexible, it has a duration; it goes into the list behind all that are   *)
(* not after it.                                                            *)
Accepted(d) == d.triggered_by \in Known \cup {0} /\ (d.fixed \/ d.duration # 0)
Inserted(id, d) == list \cup {<<x, id>> : x \in {y \in Known : ~Before(d, dts[y])}}
                        \cup {<<id, x>> : x \in {y \in Known : Before(d, dts[y])}}

(* schedule_downtime: one that is over is refused.  If it is not accepted   *)
(* later on, its id is used up all the same.                                *)
schedule_downtime(r, triggered_by) ==
    LET id == next_downtime_id
        d == add_downtime(r, triggered_by)
    IN  /\ id <= MaxDowntimes
        /\ r.start_time < r.end_time /\ r.end_time > now
        /\ next_downtime_id' = id + 1
        /\ \/ /\ Accepted(d)
              /\ SortedTriggers /\ triggered_by # 0 => Before(dts[triggered_by], d)
              /\ dts' = [x \in Known \cup {id} |-> IF x = id THEN register_downtime(events, id, d) ELSE dts[x]]
              /\ list' = Inserted(id, d)
              /\ events' = events \cup StartEvents(events, id, d) \cup StopEvents(events, id, d)
              /\ comments' = comments \cup {id}
           \/ /\ ~Accepted(d)
              /\ UNCHANGED <<dts, list, events, comments>>
        /\ UNCHANGED <<now, depth, told, freedRead>>

(* Mutant: the depth loses only the downtimes that were named.              *)
UnscheduleKeepsDepth(S) ==
    LET all == Cascade(S)
    IN  /\ S # {}
        /\ depth' = Less(InEffect(S))
        /\ told' = [o \in Objects |->
                      told[o] /\ ~(depth'[o] = 0 /\ On(InEffect(all), o) # {})]
        /\ events' = events \ UNION {{dts[x].start_event, dts[x].stop_event} : x \in all}
        /\ Delete(all)
        /\ UNCHANGED <<now, next_downtime_id, freedRead>>

(* unschedule_downtime of each downtime of S, with what they trigger: those *)
(* in effect are taken off the depth, and the events they know destroyed.   *)
unschedule_downtime(S) ==
    LET all == Cascade(S)
    IN  /\ S # {}
        /\ depth' = Less(InEffect(all))
        /\ told' = [o \in Objects |->
                      told[o] /\ ~(depth'[o] = 0 /\ On(InEffect(all), o) # {})]
        /\ events' = events \ UNION {{dts[x].start_event, dts[x].stop_event} : x \in all}
        /\ Delete(all)
        /\ UNCHANGED <<now, next_downtime_id, freedRead>>

-----------------------------------------------------------------------------
(* What the code does once it has read freed memory is not defined.         *)
Undefined == freedRead' = TRUE /\ UNCHANGED <<dts, list, depth, told, comments>>

(* Mutant: the pointer to the event that is being run is kept.              *)
StartedKeepsEvent(x, id) ==
    [dts[x] EXCEPT !.flex_downtime_start = dts[id].flex_downtime_start,
                   !.is_in_effect = TRUE]

(* Downtime x after it was started by the start event of id, except for the *)
(* event that will stop it.                                                 *)
Started(x, id) ==
    [dts[x] EXCEPT !.flex_downtime_start = dts[id].flex_downtime_start,
                   !.is_in_effect = TRUE,
                   !.start_event = IF x = id THEN NULL ELSE @]

(* handle_scheduled_downtime_start: not even a downtime that is in effect   *)
(* is refused.  What it triggers is started with it, at the time it has     *)
(* itself as start of a flexible downtime.  One of those that is in effect  *)
(* already would be stopped instead and freed, and the loop reads it then.  *)
handle_scheduled_downtime_start(id, e) ==
    LET all == Cascade({id})
        stop(x) == schedule_event(events, "stop", x, StopTime(Started(x, id)))
    IN  \/ /\ InEffect(all \ {id}) # {}
           /\ Undefined
           /\ events' = events \ {e}
        \/ /\ InEffect(all \ {id}) = {}
           /\ dts' = [x \in Known |->
                        IF x \in all THEN [Started(x, id) EXCEPT !.stop_event = stop(x)]
                        ELSE dts[x]]
           /\ events' = (events \ {e}) \cup {stop(x) : x \in all}
           /\ depth' = [o \in Objects |-> depth[o] + Cardinality(On(all, o))]
           /\ told' = [o \in Objects |-> told[o] \/ (depth[o] = 0 /\ On(all, o) # {})]
           /\ UNCHANGED <<list, comments, freedRead>>

(* handle_scheduled_downtime_stop, with what it triggers.  One of those     *)
(* that is not in effect is started and then stopped, which leaves the      *)
(* depth as it was, and an event for a downtime that is gone.               *)
handle_scheduled_downtime_stop(id, e) ==
    LET all == Cascade({id})
        unstarted == all \ ({id} \cup InEffect(all))
        readsFreed == \E x \in unstarted : InEffect(Cascade({x})) # {}
    IN  /\ events' = (events \ {e})
                     \cup {schedule_event(events, "stop", x, StopTime(dts[x])) : x \in unstarted}
        /\ \/ readsFreed /\ Undefined
           \/ /\ ~readsFreed
              /\ depth' = Less({id} \cup InEffect(all))
              /\ told' = [o \in Objects |-> told[o] /\ ~(depth'[o] = 0 /\ On(all, o) # {})]
              /\ Delete(all)
              /\ UNCHANGED freedRead

Gone(e) == /\ e.id \notin Known
           /\ events' = events \ {e}
           /\ UNCHANGED <<dts, list, depth, told, comments, freedRead>>

(* Events are run earliest first.                                           *)
Due(e) == e \in events /\ e.at <= now
First(e) == Due(e) /\ \A f \in events : e.at <= f.at

handle_downtime_start_event(e) ==
    /\ First(e) /\ e.kind = "start"
    /\ Gone(e) \/ (e.id \in Known /\ handle_scheduled_downtime_start(e.id, e))
    /\ UNCHANGED <<now, next_downtime_id>>

handle_downtime_stop_event(e) ==
    /\ First(e) /\ e.kind = "stop"
    /\ Gone(e) \/ (e.id \in Known /\ handle_scheduled_downtime_stop(e.id, e))
    /\ UNCHANGED <<now, next_downtime_id>>

(* Mutant: contacts are told of the end whatever else lasts.                *)
ExpiredAlwaysTold(e) ==
    LET expired == {x \in Known : ~dts[x].is_in_effect /\ dts[x].end_time <= now}
    IN  /\ First(e) /\ e.kind = "expire"
        /\ events' = events \ {e}
        /\ told' = [o \in Objects |-> told[o] /\ On(expired, o) = {}]
        /\ Delete(expired)
        /\ UNCHANGED <<now, next_downtime_id, depth, freedRead>>

(* Every downtime whose time is over and that is not in effect is deleted,  *)
(* not only the one the event was scheduled for.  The notification of its   *)
(* end is blocked while the object is in another downtime.                  *)
check_for_expired_downtime(e) ==
    LET expired == {x \in Known : ~dts[x].is_in_effect /\ dts[x].end_time <= now}
    IN  /\ First(e) /\ e.kind = "expire"
        /\ events' = events \ {e}
        /\ told' = [o \in Objects |-> told[o] /\ ~(depth[o] = 0 /\ On(expired, o) # {})]
        /\ Delete(expired)
        /\ UNCHANGED <<now, next_downtime_id, depth, freedRead>>

-----------------------------------------------------------------------------
(* Mutant: one that is in effect is started again.                          *)
PendingInEffect(x, o) ==
    /\ dts[x].object = o
    /\ ~dts[x].fixed
    /\ dts[x].triggered_by = 0
    /\ dts[x].start_time <= now /\ now <= dts[x].end_time

(* A flexible downtime that a problem of its object starts.                 *)
Pending(x, o) ==
    /\ dts[x].object = o
    /\ ~dts[x].fixed
    /\ ~dts[x].is_in_effect
    /\ dts[x].triggered_by = 0
    /\ dts[x].start_time <= now /\ now <= dts[x].end_time

(* check_pending_flex_host_downtime and _service_downtime, called when a    *)
(* result has changed the state of o and it is a problem.                   *)
check_pending_flex_downtime(o) ==
    LET pending == {x \in Known : Pending(x, o)}
        start(x) == schedule_event(events, "start", x, now)
    IN  /\ Prompt => \A e \in events : ~Due(e)
        /\ pending # {}
        /\ dts' = [x \in Known |->
                     IF x \in pending
                     THEN [dts[x] EXCEPT !.flex_downtime_start = now, !.start_event = start(x)]
                     ELSE dts[x]]
        /\ events' = events \cup {start(x) : x \in pending}
        /\ UNCHANGED <<now, list, next_downtime_id, depth, told, comments, freedRead>>

(* A restart writes the list to the retention file in order, clears the     *)
(* event queue and reads the file.  A downtime is left out if its trigger   *)
(* has not been read before it; the depth counts it nevertheless.  Some     *)
(* time may pass until the daemon is up again.                              *)
TriggerRead(x) == dts[x].triggered_by = 0 \/ <<dts[x].triggered_by, x>> \in list
Restored == Known \ Cascade({x \in Known : ~TriggerRead(x)})

(* sort_downtime: qsort need not keep the order of equal ones.              *)
Sorted(s) == \A i, j \in DOMAIN s : i < j => ~Before(dts[s[j]], dts[s[i]])
Pairs(s) == {p \in Restored \X Restored :
               \E i, j \in DOMAIN s : i < j /\ s[i] = p[1] /\ s[j] = p[2]}

Restart ==
    /\ dts' = [x \in Restored |-> register_downtime({}, x, dts[x])]
    /\ events' = UNION {StartEvents({}, x, dts[x]) \cup StopEvents({}, x, dts[x]) : x \in Restored}
    /\ \E s \in Bijection(1..Cardinality(Restored), Restored) : Sorted(s) /\ list' = Pairs(s)
    /\ depth' = [o \in Objects |-> Cardinality(On(InEffect(Known), o))]
    /\ comments' = comments \cup Restored
    /\ now' \in {now, now + 1} /\ now' <= MaxTime
    /\ UNCHANGED <<next_downtime_id, told, freedRead>>

Tick ==
    /\ now < MaxTime
    /\ Prompt => \A e \in events : ~Due(e)
    /\ now' = now + 1
    /\ UNCHANGED <<dts, list, next_downtime_id, events, depth, told, comments, freedRead>>

-----------------------------------------------------------------------------
Init ==
    /\ now = StartTime
    /\ dts = << >>
    /\ list = {}
    /\ next_downtime_id = 1
    /\ events = {}
    /\ depth = [o \in Objects |-> 0]
    /\ told = [o \in Objects |-> FALSE]
    /\ comments = {}
    /\ freedRead = FALSE

RunEvent ==
    \E e \in events :
        \/ handle_downtime_start_event(e)
        \/ handle_downtime_stop_event(e)
        \/ check_for_expired_downtime(e)

(* All downtimes that match a filter are deleted: those of an object, or    *)
(* those with a start time.                                                 *)
delete_downtime_by_filter ==
    \/ \E o \in Objects : unschedule_downtime(On(Known, o))
    \/ \E x \in Known : unschedule_downtime({y \in Known : dts[y].start_time = dts[x].start_time})

(* SCHEDULE_..._DOWNTIME, DEL_..._DOWNTIME and DEL_DOWNTIME_BY_...          *)
Command ==
    \/ \E r \in Requests, t \in 0..next_downtime_id - 1 : schedule_downtime(r, t)
    \/ \E x \in Known : unschedule_downtime({x})
    \/ delete_downtime_by_filter

Next ==
    /\ ~freedRead
    /\ \/ RunEvent
       \/ Command
       \/ \E o \in Objects : check_pending_flex_downtime(o)
       \/ Restart
       \/ Tick

Spec == Init /\ [][Next]_vars

(* The main loop runs events that are due, and time passes.                 *)
Fairness == WF_vars(~freedRead /\ RunEvent) /\ WF_vars(~freedRead /\ Tick)
FairSpec == Spec /\ Fairness

-----------------------------------------------------------------------------
(* The depth of an object, which keeps notifications from being sent, is    *)
(* the number of its downtimes that are in effect, through cancellations,   *)
(* triggered downtimes and restarts: it does not stay above zero when they  *)
(* are over, nor reach zero while one lasts.                                *)
DepthMatches == \A o \in Objects : depth[o] = Cardinality(On(InEffect(Known), o))

(* A downtime points only to events of its own that are in the queue, so    *)
(* that cancelling it destroys no event that has been run and freed.        *)
PointersLive ==
    \A x \in Known : \A e \in {dts[x].start_event, dts[x].stop_event} :
        e # NULL => e \in events /\ e.id = x

(* What contacts were told last of an object is what holds: it is in        *)
(* downtime, or it is not.                                                  *)
ContactsInformed == \A o \in Objects : told[o] <=> depth[o] > 0

(* Each downtime has its comment, and when a downtime goes the comment goes *)
(* with it, in every step but a restart that leaves the downtime out.       *)
CommentsOwned ==
    [][/\ DOMAIN dts' \subseteq comments'
       /\ Known \cap comments' \subseteq DOMAIN dts' \/ Restart]_vars

(* Handlers that free downtimes while loops go over them leave no loop with *)
(* a freed one.                                                             *)
NoFreedRead == ~freedRead

(* A flexible downtime lasts as long as its duration.                       *)
FlexLasts ==
    [][\A x \in Known \cap DOMAIN dts' :
         ~dts[x].fixed /\ ~dts[x].is_in_effect /\ dts'[x].is_in_effect
         => dts'[x].stop_event.at >= now + dts[x].duration]_vars

(* Every downtime that comes into effect ends, restarts or not.             *)
DowntimesEnd == \A x \in Ids : (x \in InEffect(Known)) ~> (x \notin Known)
=============================================================================
