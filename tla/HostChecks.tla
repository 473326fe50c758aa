----------------------------- MODULE HostChecks -----------------------------
(* Host checks (checks_host.c): the event that starts each check, the       *)
(* checks that run in workers, what a result does to the state of the host  *)
(* (HostStates) and which parents and children it has checked in turn, so   *)
(* that DOWN and UNREACHABLE are told apart.  The network is part of the    *)
(* model: a host answers if it works and a route to it does.  Results come  *)
(* late, out of order, or never.  Times are counted from the present.       *)
EXTENDS HostStates, FiniteSets

CONSTANTS Hosts,
          Parents,           \* the hosts through which each host is reached
          Masters,           \* the hosts each host depends on, by inheritance too
          FailureStates,     \* execution_failure_criteria; 3 stands for pending
          SkipStatus,        \* host_skip_check_dependency_status, -1 for none, -2 for "u"
          MaxAttempts,       \* max_attempts of each host
          CheckInterval, RetryInterval,  \* of each host; 0 for none
          Horizon,           \* cached_host_check_horizon
          FreshnessThreshold,\* of each host; 0 if check_freshness is off
          Timeout,           \* check_timeout, which the workers enforce
          OrphanSlack,       \* check_timeout + check_reaper_interval + 600
          Delays,            \* how far ahead commands and check periods schedule
          Environment,       \* the kinds of things that happen to the program
          MaxOutstanding,    \* bound on the running checks of one host
          MaxDisturbances    \* bound on what happens to the program

ASSUME HostChecksAssumption ==
    /\ IsFiniteSet(Hosts)
    /\ Parents \in [Hosts -> SUBSET Hosts]
    /\ Masters \in [Hosts -> SUBSET Hosts]
    /\ \A h \in Hosts : h \notin Parents[h] \cup Masters[h]
    /\ FailureStates \subseteq 0..3
    /\ SkipStatus \in HostStateValues \cup {-1, -2}
    /\ MaxAttempts \in [Hosts -> Nat \ {0}]
    /\ {CheckInterval, RetryInterval, FreshnessThreshold} \subseteq [Hosts -> Nat]
    /\ {Horizon, Timeout, OrphanSlack, MaxOutstanding, MaxDisturbances} \subseteq Nat
    /\ OrphanSlack >= Timeout
    /\ Delays \subseteq Nat \ {0}

VARIABLES host,       \* the state of each host, as results change it
          sched,      \* its next check and the flags of the one under way
          jobs,       \* the checks of it that run in workers
          executeChecks, \* execute_host_checks
          closed,     \* how long the check period stays closed
          works,      \* the network: the hosts that work
          dropped,    \* the hosts whose last check event was spent in vain
          disturbed   \* how much has happened to the program

vars == <<host, sched, jobs, executeChecks, closed, works, dropped, disturbed>>

Opts == {"force", "fresh"}

HostState ==
    [current_state : HostStateValues, last_state : HostStateValues,
     last_hard_state : HostStateValues, state_type : {"SOFT", "HARD"},
     current_attempt : Nat, max_attempts : Nat, check_active : BOOLEAN]

(* next_check and last_check are counted from the present; last_check is    *)
(* that of event_start while has_been_checked is FALSE.                     *)
Schedule ==
    [event : BOOLEAN, next_check : Int, check_options : SUBSET Opts,
     is_executing : BOOLEAN, is_being_freshened : BOOLEAN, checks_enabled : BOOLEAN,
     has_been_checked : BOOLEAN, last_check : Int]

(* up: did the host answer when its check was started?                      *)
Job == [n : Nat, age : Nat, up : BOOLEAN, check_options : SUBSET Opts]

TypeOK ==
    /\ host \in [Hosts -> HostState]
    /\ sched \in [Hosts -> Schedule]
    /\ jobs \in [Hosts -> SUBSET Job]
    /\ executeChecks \in BOOLEAN
    /\ closed \in Nat
    /\ works \subseteq Hosts
    /\ dropped \subseteq Hosts
    /\ disturbed \in Nat

-----------------------------------------------------------------------------
(* The network.  A host answers if a chain of working parents leads to it.  *)
Answers(h) ==
    \E S \in SUBSET works :
        /\ h \in S
        /\ \A k \in S : Parents[k] = {} \/ Parents[k] \cap S # {}

Children(h) == {k \in Hosts : h \in Parents[k]}

StateIs(k, states) == host[k].current_state \in states

ParentUp(h) == \E p \in Parents[h] : StateIs(p, {STATE_UP})

-----------------------------------------------------------------------------
(* schedule_next_host_check: the sooner of two checks is kept, unless the   *)
(* new one is forced or may postpone it.                                    *)
schedule_next_host_check(c, delay, options) ==
    IF c.event /\ c.next_check < delay /\ options \cap {"force", "postpone"} = {}
    THEN c
    ELSE [c EXCEPT !.event = TRUE, !.next_check = delay, !.check_options = options \cap Opts]

(* Mutant: only children that are UP are checked when a host recovers.      *)
PropagatedToUpChildren(h, before, s) ==
    IF before # STATE_UP /\ s.current_state = STATE_UP
    THEN {p \in Parents[h] : StateIs(p, {STATE_DOWN, STATE_UNREACHABLE})}
         \cup {k \in Children(h) : StateIs(k, {STATE_UP})}
    ELSE IF before = STATE_UP /\ s.current_state # STATE_UP
    THEN {p \in Parents[h] : StateIs(p, {STATE_UP})}
         \cup {k \in Children(h) : StateIs(k, {STATE_UP, STATE_DOWN})}
    ELSE {}

(* The hosts that a result of h has checked at once: s is the state of h    *)
(* that was determined, before the one it had.                              *)
Propagated(h, before, s) ==
    IF before # STATE_UP /\ s.current_state = STATE_UP
    THEN {k \in Parents[h] \cup Children(h) : StateIs(k, {STATE_DOWN, STATE_UNREACHABLE})}
    ELSE IF before = STATE_UP /\ s.current_state # STATE_UP
    THEN {p \in Parents[h] : StateIs(p, {STATE_UP})}
         \cup {k \in Children(h) : StateIs(k, {STATE_UP, STATE_DOWN})}
         \cup {m \in Masters[h] : s.current_attempt = s.max_attempts - 1}
    ELSE {}

(* What a result does to the schedule of its own host: the retry of a soft  *)
(* problem takes the place of the next check, and no host that is checked   *)
(* at intervals is left without a next check.                               *)
ScheduleAfter(h, c, s) ==
    LET retried == IF s.current_state # STATE_UP /\ s.state_type = "SOFT" /\ RetryInterval[h] # 0
                   THEN schedule_next_host_check(c, RetryInterval[h], {"postpone"})
                   ELSE c
    IN  IF CheckInterval[h] # 0 /\ ~retried.event
        THEN schedule_next_host_check(retried, CheckInterval[h], {})
        ELSE retried

(* handle_async_host_check_result of result r, whose check began at start:  *)
(* c is the schedule of h with the flags of the check cleared.  A discarded *)
(* result is not looked at, but what follows is done for it all the same.   *)
handle_async_host_check_result(h, r, start, c, discarded) ==
    LET old == host[h]
        posted == IF discarded THEN old ELSE update_host_state_post_check(old, r)
        s == HostDetermined(posted, old.current_state,
                            determine_host_reachability(Parents[h] = {}, ParentUp(h)))
        after == HostHandled(s)
        checked == IF discarded THEN c
                   ELSE [c EXCEPT !.last_check = start, !.has_been_checked = TRUE]
    IN  /\ host' = [host EXCEPT ![h] = after]
        /\ sched' = [k \in Hosts |->
                       IF k = h THEN ScheduleAfter(h, checked, after)
                       ELSE IF k \in Propagated(h, old.current_state, s)
                       THEN schedule_next_host_check(sched[k], 0, {})
                       ELSE sched[k]]

(* is_host_result_fresh, with a freshness_threshold                         *)
Fresh(h) == -sched[h].last_check <= FreshnessThreshold[h]

FlagsCleared(h, j) ==
    [sched[h] EXCEPT !.is_executing = FALSE,
                     !.is_being_freshened = IF "fresh" \in j.check_options THEN FALSE ELSE @]

(* The result of an active check comes back from a worker: what the host    *)
(* did when the check began, or what it does now.                           *)
handle_worker_host_check(h, j, up) ==
    /\ j \in jobs[h]
    /\ up \in {j.up, Answers(h)}
    /\ jobs' = [jobs EXCEPT ![h] = @ \ {j}]
    /\ handle_async_host_check_result(
          h, [active |-> TRUE, early_timeout |-> FALSE, exited_ok |-> TRUE,
              return_code |-> IF up THEN 0 ELSE 2],
          -j.age, FlagsCleared(h, j), "fresh" \in j.check_options /\ Fresh(h))
    /\ UNCHANGED <<executeChecks, closed, works, dropped, disturbed>>

-----------------------------------------------------------------------------
(* check_host_dependencies: has a host it depends on a state that fails the *)
(* dependency?  A soft state does not count, the last hard one does.        *)
DependenciesFailed(h) ==
    \E m \in Masters[h] :
        \/ (IF host[m].state_type = "SOFT" THEN host[m].last_hard_state
            ELSE host[m].current_state) \in FailureStates
        \/ 3 \in FailureStates /\ ~sched[m].has_been_checked

(* Mutant: a check that was not run is left to the next interval.           *)
RetriedNever(h, c) == c

(* The rest of handle_host_check_event, if the check was not run.           *)
RetriedLater(h, c) ==
    IF RetryInterval[h] # 0 /\ ~c.is_executing
    THEN schedule_next_host_check(c, RetryInterval[h], {}) ELSE c

Cached(c) == c.has_been_checked /\ c.last_check + Horizon > 0

NotTried(c) == c.is_executing \/ Cached(c) \/ ~c.checks_enabled

(* What keeps a check that is not forced from being run, in this order.     *)
Aborted(h, c) ==
    /\ NotTried(c)
    /\ sched' = [sched EXCEPT ![h] = RetriedLater(h, c)]
    /\ UNCHANGED <<host, jobs, dropped, disturbed>>

OutsidePeriod(h, c) ==
    /\ ~NotTried(c) /\ closed > 0
    /\ \E d \in Delays :
         /\ d >= closed
         /\ sched' = [sched EXCEPT ![h] =
                        RetriedLater(h, schedule_next_host_check(c, d, {"postpone"}))]
    /\ UNCHANGED <<host, jobs, dropped, disturbed>>

KeepsRunning(h) == SkipStatus = -2 /\ StateIs(h, {STATE_UP})

Skipped(h, c) ==
    /\ ~NotTried(c) /\ closed = 0
    /\ DependenciesFailed(h) /\ ~KeepsRunning(h)
    /\ host' = IF SkipStatus \in HostStateValues
               THEN [host EXCEPT ![h].current_state = SkipStatus] ELSE host
    /\ sched' = [sched EXCEPT ![h] = RetriedLater(h, c)]
    /\ UNCHANGED <<jobs, dropped, disturbed>>

Viable(h, c) ==
    /\ ~NotTried(c) /\ closed = 0
    /\ DependenciesFailed(h) => KeepsRunning(h)

(* The check is handed to a worker, or none can take it: the caller is not  *)
(* told of that.                                                            *)
Started(h, c, options) ==
    LET free == {n \in 1..MaxOutstanding : \A j \in jobs[h] : j.n # n}
        slot == CHOOSE n \in free : TRUE
    IN  /\ free # {}
        /\ jobs' = [jobs EXCEPT ![h] = @ \cup {[n |-> slot, age |-> 0, up |-> Answers(h),
                                                check_options |-> options]}]
        /\ sched' = [sched EXCEPT ![h] = [c EXCEPT !.is_executing = TRUE]]
        /\ dropped' = dropped \ {h}
        /\ UNCHANGED <<host, disturbed>>

Disturbance(kind) ==
    /\ kind \in Environment
    /\ disturbed < MaxDisturbances
    /\ disturbed' = disturbed + 1

NotSent(h, c) ==
    /\ Disturbance("full")
    /\ sched' = [sched EXCEPT ![h] = c]
    /\ dropped' = dropped \cup {h}
    /\ UNCHANGED <<host, jobs>>

run_async_host_check(h, c, options) ==
    \/ "force" \notin options /\ Aborted(h, c)
    \/ "force" \notin options /\ OutsidePeriod(h, c)
    \/ "force" \notin options /\ Skipped(h, c)
    \/ /\ "force" \in options \/ Viable(h, c)
       /\ Started(h, c, options) \/ NotSent(h, c)

(* The event of the next check.  Unless a check is under way the next event *)
(* is scheduled at once, with the normal interval.                          *)
handle_host_check_event(h) ==
    LET old == sched[h]
        gone == [old EXCEPT !.event = FALSE]
        c == IF CheckInterval[h] # 0 /\ ~old.is_executing
             THEN schedule_next_host_check(gone, CheckInterval[h], {}) ELSE gone
    IN  /\ old.event /\ old.next_check <= 0
        /\ IF ~executeChecks /\ "force" \notin old.check_options
           THEN /\ sched' = [sched EXCEPT ![h] = c]
                /\ dropped' = dropped \cup {h}
                /\ UNCHANGED <<host, jobs, disturbed>>
           ELSE run_async_host_check(h, c, old.check_options)
        /\ UNCHANGED <<executeChecks, closed, works>>

Orphaned(h) == sched[h].is_executing /\ sched[h].next_check + OrphanSlack < 0

check_for_orphaned_hosts ==
    /\ \E h \in Hosts : Orphaned(h)
    /\ sched' = [h \in Hosts |->
                   IF Orphaned(h)
                   THEN schedule_next_host_check(
                          [sched[h] EXCEPT !.is_executing = FALSE], 0, {})
                   ELSE sched[h]]
    /\ UNCHANGED <<host, jobs, executeChecks, closed, works, dropped, disturbed>>

Stale(h) ==
    /\ FreshnessThreshold[h] # 0
    /\ ~sched[h].is_executing
    /\ ~sched[h].is_being_freshened
    /\ closed = 0
    /\ ~Fresh(h)

check_host_result_freshness ==
    /\ \E h \in Hosts : Stale(h)
    /\ sched' = [h \in Hosts |->
                   IF Stale(h)
                   THEN schedule_next_host_check(
                          [sched[h] EXCEPT !.is_being_freshened = TRUE], 0, {"force", "fresh"})
                   ELSE sched[h]]
    /\ UNCHANGED <<host, jobs, executeChecks, closed, works, dropped, disturbed>>

-----------------------------------------------------------------------------
(* External commands.                                                       *)
process_passive_host_check(h, st) ==
    /\ Disturbance("passive")
    /\ handle_async_host_check_result(
          h, [active |-> FALSE, early_timeout |-> FALSE, exited_ok |-> TRUE, return_code |-> st],
          0, sched[h], FALSE)
    /\ UNCHANGED <<jobs, executeChecks, closed, works, dropped>>

schedule_host_check(h, d, options) ==
    /\ Disturbance("schedule")
    /\ sched' = [sched EXCEPT ![h] = schedule_next_host_check(@, d, options)]
    /\ UNCHANGED <<host, jobs, executeChecks, closed, works, dropped>>

disable_host_checks(h) ==
    /\ Disturbance("checks")
    /\ sched' = [sched EXCEPT ![h].checks_enabled = FALSE]
    /\ UNCHANGED <<host, jobs, executeChecks, closed, works, dropped>>

(* How long a host waits for its next check.                                *)
check_window(h) ==
    IF ~StateIs(h, {STATE_UP}) /\ host[h].state_type = "SOFT"
    THEN RetryInterval[h] ELSE CheckInterval[h]

enable_host_checks(h) ==
    /\ ~sched[h].checks_enabled
    /\ sched' = [sched EXCEPT ![h] =
                   schedule_next_host_check([@ EXCEPT !.checks_enabled = TRUE],
                                            check_window(h), {})]
    /\ UNCHANGED <<host, jobs, executeChecks, closed, works, dropped, disturbed>>

stop_executing_host_checks ==
    /\ Disturbance("execute")
    /\ executeChecks' = FALSE
    /\ UNCHANGED <<host, sched, jobs, closed, works, dropped>>

start_executing_host_checks ==
    /\ ~executeChecks
    /\ executeChecks' = TRUE
    /\ UNCHANGED <<host, sched, jobs, closed, works, dropped, disturbed>>

-----------------------------------------------------------------------------
(* The environment: a result that never comes (see WorkerPool), hosts that  *)
(* break or are repaired, a check period that closes, and time.             *)
LoseResult(h, j) ==
    /\ j \in jobs[h]
    /\ Disturbance("lose")
    /\ jobs' = [jobs EXCEPT ![h] = @ \ {j}]
    /\ UNCHANGED <<host, sched, executeChecks, closed, works, dropped>>

NetworkChanges(h) ==
    /\ Disturbance("network")
    /\ works' = IF h \in works THEN works \ {h} ELSE works \cup {h}
    /\ UNCHANGED <<host, sched, jobs, executeChecks, closed, dropped>>

PeriodCloses(d) ==
    /\ closed = 0
    /\ Disturbance("period")
    /\ closed' = d
    /\ UNCHANGED <<host, sched, jobs, executeChecks, works, dropped>>

(* Nothing tells apart times further back than these.                       *)
OldestNextCheck == -OrphanSlack - 1
OldestLastCheck(h) == -(IF FreshnessThreshold[h] > Horizon THEN FreshnessThreshold[h] ELSE Horizon) - 1

Earlier(t, oldest) == IF t > oldest THEN t - 1 ELSE oldest

Tick ==
    /\ \A h \in Hosts : /\ ~(sched[h].event /\ sched[h].next_check <= 0)
                        /\ \A j \in jobs[h] : j.age < Timeout
    /\ sched' = [h \in Hosts |->
                   [sched[h] EXCEPT !.next_check = Earlier(@, OldestNextCheck),
                                    !.last_check = Earlier(@, OldestLastCheck(h))]]
    /\ jobs' = [h \in Hosts |-> {[j EXCEPT !.age = @ + 1] : j \in jobs[h]}]
    /\ closed' = IF closed > 0 THEN closed - 1 ELSE 0
    /\ UNCHANGED <<host, executeChecks, works, dropped, disturbed>>

(* checks_init_hosts schedules a first check of every host, within its      *)
(* interval (at once if it has none).                                       *)
Init ==
    /\ host = [h \in Hosts |->
                 [current_state |-> STATE_UP, last_state |-> STATE_UP,
                  last_hard_state |-> STATE_UP, state_type |-> "HARD",
                  current_attempt |-> 1, max_attempts |-> MaxAttempts[h],
                  check_active |-> TRUE]]
    /\ \E delay \in [Hosts -> UNION {0..CheckInterval[h] : h \in Hosts}] :
         /\ \A h \in Hosts : delay[h] \in 0..CheckInterval[h]
         /\ sched = [h \in Hosts |->
                      [event |-> TRUE, next_check |-> delay[h],
                       check_options |-> {}, is_executing |-> FALSE,
                       is_being_freshened |-> FALSE, checks_enabled |-> TRUE,
                       has_been_checked |-> FALSE, last_check |-> 0]]
    /\ jobs = [h \in Hosts |-> {}]
    /\ executeChecks = TRUE
    /\ closed = 0
    /\ works \in SUBSET Hosts
    /\ dropped = {}
    /\ disturbed = 0

ResultArrives(h) ==
    \E j \in jobs[h], up \in BOOLEAN : handle_worker_host_check(h, j, up)

Command(h) ==
    \/ \E d \in Delays \cup {0} : schedule_host_check(h, d, {}) \/ schedule_host_check(h, d, {"force"})
    \/ disable_host_checks(h) \/ enable_host_checks(h)
    \/ \E st \in HostStateValues : process_passive_host_check(h, st)

Next ==
    \/ \E h \in Hosts :
         \/ handle_host_check_event(h)
         \/ ResultArrives(h)
         \/ \E j \in jobs[h] : LoseResult(h, j)
         \/ NetworkChanges(h)
         \/ Command(h)
    \/ check_for_orphaned_hosts
    \/ check_host_result_freshness
    \/ stop_executing_host_checks \/ start_executing_host_checks
    \/ \E d \in Delays : PeriodCloses(d)
    \/ Tick

Spec == Init /\ [][Next]_vars

(* The main loop runs events and reads results; the handlers of orphaned    *)
(* and stale hosts are events that schedule themselves again.               *)
Fairness ==
    /\ \A h \in Hosts : WF_vars(handle_host_check_event(h)) /\ WF_vars(ResultArrives(h))
    /\ WF_vars(check_for_orphaned_hosts)
    /\ WF_vars(check_host_result_freshness)
    /\ WF_vars(Tick)

FairSpec == Spec /\ Fairness

-----------------------------------------------------------------------------
(* Is the difference between DOWN and UNREACHABLE, of a host whose results  *)
(* are translated, the one that the states of its parents make now?         *)
RouteAgrees(h) ==
    \/ StateIs(h, {STATE_UP})
    \/ ~Translated(host[h])
    \/ StateIs(h, {determine_host_reachability(Parents[h] = {}, ParentUp(h))})

(* A host that is called DOWN although none of its parents is UP, or        *)
(* UNREACHABLE although one is, is being checked, or a check of it is       *)
(* scheduled, even if it is checked on demand only: whoever changes the     *)
(* state of a host has its neighbours checked, and no check that is under   *)
(* way, cached, lost, discarded, disabled or out of its period makes them   *)
(* miss it.  (A check that no worker could take, or that came while host    *)
(* checks were switched off, is not repeated.)                              *)
RoutesRechecked ==
    \A h \in Hosts :
        RetryInterval[h] # 0 /\ h \notin dropped /\ ~RouteAgrees(h) =>
            sched[h].is_executing \/ sched[h].event

(* What the network makes of a host.                                        *)
RightState(h) ==
    IF Answers(h) THEN STATE_UP
    ELSE determine_host_reachability(Parents[h] = {}, \E p \in Parents[h] : Answers(p))

(* Once the network stays as it is and checks are not switched off, every   *)
(* host that is checked at intervals comes to have the state the network    *)
(* gives it, and keeps it, and one that is checked on demand only comes to  *)
(* agree with its parents: lost, stale and overlapping checks are made up   *)
(* for.                                                                     *)
Settled(h) ==
    IF CheckInterval[h] # 0 THEN StateIs(h, {RightState(h)})
    ELSE RouteAgrees(h) \/ h \in dropped

StatesSettle ==
    <>[](executeChecks /\ \A h \in Hosts : sched[h].checks_enabled)
        => <>[](\A h \in Hosts : Settled(h))

(* "Discarding host freshness check result because the host is currently    *)
(* fresh (race condition avoided)": a freshness check that comes back after *)
(* a newer result leaves the state of the host as it is.                    *)
DiscardedChangesNothing ==
    [][\A h \in Hosts :
         (\E j \in jobs[h] : /\ jobs'[h] = jobs[h] \ {j}
                             /\ disturbed' = disturbed
                             /\ "fresh" \in j.check_options
                             /\ Fresh(h))
         => host'[h] = host[h]]_vars
=============================================================================
