--------------------------- MODULE ServiceChecks ---------------------------
(* Service checks (checks_service.c): the event that starts each check, the *)
(* checks that run in workers, the count of them, the state machine their   *)
(* results drive, and the handlers that look for orphaned checks and stale  *)
(* results.  One thread handles the events, the results and the external    *)
(* commands, in whatever order they come; results come late, out of order,  *)
(* or never.  Times are kept relative to the present, so that a behaviour   *)
(* may go on for ever: Tick moves them all.  The host of the services is    *)
(* the environment: it may change at any time.                              *)
EXTENDS ServiceStates, FiniteSets

CONSTANTS Services,
          Results,           \* what a check can return, as a check_result says it
          InitialStates,     \* the initial_state of a service
          MaxAttemptsValues, \* what max_attempts may be set to
          SkipStatus,        \* service_skip_check_dependency_status, -1 for none
          Masters,           \* the services a service depends on (predictive checks)
          CheckInterval, RetryInterval,  \* of each service; 0 for none
          Horizon,           \* cached_service_check_horizon
          FreshnessThreshold,\* of each service; 0 if check_freshness is off
          Timeout,           \* check_timeout, which the workers enforce
          OrphanSlack,       \* check_timeout + check_reaper_interval + 600
          MaxParallel,       \* max_parallel_service_checks, 0 for no limit
          Delays,            \* how far ahead commands and timeperiods schedule
          Commands,          \* which external commands are given, and "host" if it changes
          MaxOutstanding,    \* bound on the running checks of one service
          MaxLost            \* bound on the checks whose results never come

ASSUME ServiceChecksAssumption ==
    /\ IsFiniteSet(Services)
    /\ Results \subseteq [early_timeout : BOOLEAN, exited_ok : BOOLEAN, return_code : Int]
    /\ InitialStates \subseteq States
    /\ MaxAttemptsValues \subseteq Nat \ {0}
    /\ TimeoutState \in States
    /\ SkipStatus \in States \cup {-1, -2}
    /\ IsVolatile \in [Services -> BOOLEAN]
    /\ Masters \in [Services -> SUBSET Services]
    /\ \A s \in Services : s \notin Masters[s]
    /\ CheckInterval \in [Services -> Nat]
    /\ RetryInterval \in [Services -> Nat]
    /\ FreshnessThreshold \in [Services -> Nat]
    /\ {Horizon, Timeout, MaxParallel, MaxOutstanding, MaxLost} \subseteq Nat
    /\ OrphanSlack \in Nat /\ OrphanSlack >= Timeout
    /\ Delays \subseteq Nat

VARIABLES svc,        \* the state of each service, as results change it
          sched,      \* its next check and the flags of the one under way
          jobs,       \* the checks of it that run in workers
          running,    \* currently_running_service_checks
          executeChecks, \* execute_service_checks
          hostUp,     \* is the host of the services up?
          calls,      \* what the last result had other components do
          notified,   \* was a notification asked for since the service was OK?
          lost        \* how many results have been lost

vars == <<svc, sched, jobs, running, executeChecks, hostUp, calls, notified, lost>>

Opts == {"force", "fresh"}

(* next_check and last_check are counted from the present; last_check is    *)
(* that of event_start while has_been_checked is FALSE.                     *)
Schedule ==
    [event : BOOLEAN, next_check : Int, check_options : SUBSET Opts,
     is_executing : BOOLEAN, is_being_freshened : BOOLEAN, checks_enabled : BOOLEAN,
     has_been_checked : BOOLEAN, last_check : Int]

Job == [n : Nat, age : Nat, check_options : SUBSET Opts]

Calls == {"handler", "notify", "flex"}

TypeOK ==
    /\ svc \in [Services -> ServiceState]
    /\ sched \in [Services -> Schedule]
    /\ jobs \in [Services -> SUBSET Job]
    /\ running \in Nat
    /\ executeChecks \in BOOLEAN
    /\ hostUp \in BOOLEAN
    /\ calls \in [Services -> SUBSET Calls]
    /\ notified \in [Services -> BOOLEAN]
    /\ lost \in Nat

-----------------------------------------------------------------------------
(* Scheduling.                                                              *)

(* schedule_next_service_check: the sooner of two checks is kept, unless    *)
(* the new one is forced or may postpone it.                                *)
schedule_next_service_check(c, delay, options) ==
    IF c.event /\ c.next_check < delay /\ options \cap {"force", "postpone"} = {}
    THEN c
    ELSE [c EXCEPT !.event = TRUE, !.next_check = delay, !.check_options = options \cap Opts]

(* Mutant: only a soft problem gets its next check here.                    *)
ScheduleAfterRetryOnly(s, c, v, st, up, start) ==
    LET checked == [c EXCEPT !.last_check = start, !.has_been_checked = TRUE]
    IN  IF st # STATE_OK /\ Retrying(v, up) /\ up /\ RetryInterval[s] # 0
        THEN schedule_next_service_check(checked, RetryInterval[s], {"postpone"})
        ELSE checked

(* What a result does to the schedule of its own service: the retry of a    *)
(* soft problem takes the place of the next check, and no service that is   *)
(* checked at intervals is left without a next check.                       *)
ScheduleAfter(s, c, v, st, up, start) ==
    LET checked == [c EXCEPT !.last_check = start, !.has_been_checked = TRUE]
        retried == IF st # STATE_OK /\ Retrying(v, up) /\ up /\ RetryInterval[s] # 0
                   THEN schedule_next_service_check(checked, RetryInterval[s], {"postpone"})
                   ELSE checked
    IN  IF ~retried.event /\ CheckInterval[s] # 0
        THEN schedule_next_service_check(retried, CheckInterval[s], {})
        ELSE retried

(* On the second to last attempt the services it depends on are checked.    *)
Predicted(s, v, st, up) ==
    IF /\ executeChecks /\ st # STATE_OK /\ Retrying(v, up)
       /\ ProblemAttempt(v, up) = v.max_attempts - 1
    THEN Masters[s] ELSE {}

(* The part of handle_async_service_check_result that follows the refusals: *)
(* c is the schedule of s with the flags of the check cleared.              *)
ProcessResult(s, st, start, c, flexStarts) ==
    LET v == svc[s]
        own == ScheduleAfter(s, c, v, st, hostUp, start)
    IN  /\ svc' = [svc EXCEPT ![s] = StateAfter(v, st, hostUp)]
        /\ calls' = [calls EXCEPT ![s] = CallsAfter(s, v, st, hostUp, flexStarts)]
        /\ notified' = [notified EXCEPT ![s] =
                           st # STATE_OK /\ (@ \/ "notify" \in calls'[s])]
        /\ sched' = [t \in Services |->
                        LET base == IF t = s THEN own ELSE sched[t]
                        IN  IF t \in Predicted(s, v, st, hostUp)
                            THEN schedule_next_service_check(base, 0, {})
                            ELSE base]

(* is_service_result_fresh                                                  *)
Fresh(s) == -sched[s].last_check <= FreshnessThreshold[s]

FlagsCleared(s, j) ==
    [sched[s] EXCEPT !.is_executing = FALSE,
                     !.is_being_freshened = IF "fresh" \in j.check_options THEN FALSE ELSE @]

(* The result of an active check comes back from a worker.  That of a       *)
(* freshness check is discarded if the service has become fresh meanwhile.  *)
handle_worker_service_check(s, j, r, flexStarts) ==
    /\ j \in jobs[s]
    /\ jobs' = [jobs EXCEPT ![s] = @ \ {j}]
    /\ running' = IF running > 0 THEN running - 1 ELSE 0
    /\ IF "fresh" \in j.check_options /\ Fresh(s)
       THEN /\ sched' = [sched EXCEPT ![s] = FlagsCleared(s, j)]
            /\ UNCHANGED <<svc, calls, notified>>
       ELSE ProcessResult(s, ResultState(r), -j.age, FlagsCleared(s, j), flexStarts)
    /\ UNCHANGED <<executeChecks, hostUp, lost>>

(* A passive result, from an external command.                              *)
process_passive_service_check(s, st, flexStarts) ==
    /\ ProcessResult(s, st, 0, sched[s], flexStarts)
    /\ UNCHANGED <<jobs, running, executeChecks, hostUp, lost>>

-----------------------------------------------------------------------------
(* run_scheduled_service_check: a module may cancel or take over the check, *)
(* and no worker may have room for it; otherwise it is under way.           *)
NotStarted == UNCHANGED <<jobs, running>>

Started(s, options) ==
    LET free == {n \in 1..MaxOutstanding : \A j \in jobs[s] : j.n # n}
        slot == CHOOSE n \in free : TRUE
    IN  /\ free # {}
        /\ jobs' = [jobs EXCEPT ![s] = @ \cup {[n |-> slot, age |-> 0, check_options |-> options]}]
        /\ running' = running + 1

run_scheduled_service_check(s, c, options) ==
    /\ \/ NotStarted /\ sched' = [sched EXCEPT ![s] = c]
       \/ Started(s, options) /\ sched' = [sched EXCEPT ![s] = [c EXCEPT !.is_executing = TRUE]]
    /\ UNCHANGED svc

MaxedOut == MaxParallel # 0 /\ running >= MaxParallel

(* Was the last result obtained within the cache horizon?                   *)
Cached(c) == c.has_been_checked /\ c.last_check + Horizon > 0

(* What an event that was not forced meets before the check may be run.     *)
NudgedToRetry(s, c) ==
    /\ MaxedOut
    /\ sched' = [sched EXCEPT ![s] =
                   IF RetryInterval[s] # 0 /\ ~c.is_executing
                   THEN schedule_next_service_check(c, RetryInterval[s], {}) ELSE c]
    /\ NotStarted
    /\ UNCHANGED svc

Aborted(s, c) ==
    /\ ~MaxedOut
    /\ ~executeChecks \/ Cached(c) \/ ~c.checks_enabled
    /\ sched' = [sched EXCEPT ![s] = c]
    /\ NotStarted
    /\ UNCHANGED svc

Allowed(c) == ~MaxedOut /\ executeChecks /\ ~Cached(c) /\ c.checks_enabled

(* delay_service_check_till_next_timeperiod_slot, unless there is no slot.  *)
OutsidePeriod(s, c) ==
    /\ Allowed(c)
    /\ \E d \in Delays :
         sched' = [sched EXCEPT ![s] = schedule_next_service_check(c, d, {"postpone"})]
    /\ NotStarted
    /\ UNCHANGED svc

(* A dependency, the parents or the host keep the check from being run: the *)
(* state may be overwritten by the one configured for that.                 *)
Skipped(s, c) ==
    /\ Allowed(c)
    /\ SkipStatus = -2 => svc[s].current_state > 1 \/ ~c.has_been_checked
    /\ svc' = IF SkipStatus \in States THEN [svc EXCEPT ![s].current_state = SkipStatus] ELSE svc
    /\ sched' = [sched EXCEPT ![s] = c]
    /\ NotStarted

(* The event of the next check.  Unless a check is under way the next event *)
(* is scheduled at once, with the normal interval.                          *)
handle_service_check_event(s) ==
    LET old == sched[s]
        gone == [old EXCEPT !.event = FALSE]
        c == IF CheckInterval[s] # 0 /\ ~old.is_executing
             THEN schedule_next_service_check(gone, CheckInterval[s], {}) ELSE gone
        forced == "force" \in old.check_options
    IN  /\ old.event /\ old.next_check <= 0
        /\ \/ forced /\ run_scheduled_service_check(s, c, old.check_options)
           \/ ~forced /\ Allowed(c) /\ run_scheduled_service_check(s, c, old.check_options)
           \/ ~forced /\ NudgedToRetry(s, c)
           \/ ~forced /\ Aborted(s, c)
           \/ ~forced /\ OutsidePeriod(s, c)
           \/ ~forced /\ Skipped(s, c)
        /\ UNCHANGED <<executeChecks, hostUp, calls, notified, lost>>

(* Mutant: overdue as soon as the next check is.                            *)
OrphanedNoSlack(s) == sched[s].is_executing /\ sched[s].next_check < 0

(* A service whose result is overdue by its next check and the slack.       *)
Orphaned(s) == sched[s].is_executing /\ sched[s].next_check + OrphanSlack < 0

check_for_orphaned_services ==
    /\ \E s \in Services : Orphaned(s)
    /\ LET n == Cardinality({s \in Services : Orphaned(s)})
       IN  running' = IF running > n THEN running - n ELSE 0
    /\ sched' = [s \in Services |->
                   IF Orphaned(s)
                   THEN schedule_next_service_check(
                          [sched[s] EXCEPT !.is_executing = FALSE], 0, {})
                   ELSE sched[s]]
    /\ UNCHANGED <<svc, jobs, executeChecks, hostUp, calls, notified, lost>>

Stale(s) ==
    /\ FreshnessThreshold[s] # 0
    /\ ~sched[s].is_executing
    /\ ~sched[s].is_being_freshened
    /\ ~Fresh(s)

(* Stale services that are in their check period are forced to be checked.  *)
check_service_result_freshness(inPeriod) ==
    /\ \E s \in inPeriod : Stale(s)
    /\ sched' = [s \in Services |->
                   IF s \in inPeriod /\ Stale(s)
                   THEN schedule_next_service_check(
                          [sched[s] EXCEPT !.is_being_freshened = TRUE], 0, {"force", "fresh"})
                   ELSE sched[s]]
    /\ UNCHANGED <<svc, jobs, running, executeChecks, hostUp, calls, notified, lost>>

-----------------------------------------------------------------------------
(* External commands.                                                       *)
ScheduleCommand(s, d, options) ==
    /\ sched' = [sched EXCEPT ![s] = schedule_next_service_check(@, d, options)]
    /\ UNCHANGED <<svc, jobs, running, executeChecks, hostUp, calls, notified, lost>>

disable_service_checks(s) ==
    /\ sched' = [sched EXCEPT ![s].checks_enabled = FALSE]
    /\ UNCHANGED <<svc, jobs, running, executeChecks, hostUp, calls, notified, lost>>

(* How long a service waits for its next check.                             *)
check_window(s) ==
    IF svc[s].current_state # STATE_OK /\ svc[s].state_type = "SOFT"
    THEN RetryInterval[s] ELSE CheckInterval[s]

enable_service_checks(s) ==
    /\ ~sched[s].checks_enabled
    /\ sched' = [sched EXCEPT ![s] =
                   LET c == [@ EXCEPT !.checks_enabled = TRUE]
                   IN  IF CheckInterval[s] > 0
                       THEN schedule_next_service_check(c, check_window(s), {}) ELSE c]
    /\ UNCHANGED <<svc, jobs, running, executeChecks, hostUp, calls, notified, lost>>

(* start_ and stop_executing_service_checks                                 *)
SwitchServiceChecks ==
    /\ executeChecks' = ~executeChecks
    /\ UNCHANGED <<svc, sched, jobs, running, hostUp, calls, notified, lost>>

acknowledge_service_problem(s, type) ==
    /\ svc[s].current_state # STATE_OK
    /\ svc' = [svc EXCEPT ![s].acknowledged = TRUE, ![s].ack_type = type]
    /\ UNCHANGED <<sched, jobs, running, executeChecks, hostUp, calls, notified, lost>>

(* The command, or the expiry of the acknowledgement: its type stays.       *)
remove_service_acknowledgement(s) ==
    /\ svc' = [svc EXCEPT ![s].acknowledged = FALSE]
    /\ UNCHANGED <<sched, jobs, running, executeChecks, hostUp, calls, notified, lost>>

(* CHANGE_MAX_SVC_CHECK_ATTEMPTS: a hard problem keeps having made all of   *)
(* its attempts, unless it has made only one.                               *)
ChangeMaxAttempts(s, n) ==
    /\ svc' = [svc EXCEPT ![s].max_attempts = n,
                          ![s].current_attempt =
                             IF /\ svc[s].state_type = "HARD"
                                /\ svc[s].current_state # STATE_OK
                                /\ svc[s].current_attempt > 1
                             THEN n ELSE @]
    /\ UNCHANGED <<sched, jobs, running, executeChecks, hostUp, calls, notified, lost>>

-----------------------------------------------------------------------------
(* The environment: a result that never comes (a job that was dropped, see  *)
(* WorkerPool), the host, and time.  The loop keeps up with the clock, so   *)
(* latency is 0, and workers end a check when its time is over.             *)
LoseResult(s, j) ==
    /\ j \in jobs[s]
    /\ lost < MaxLost
    /\ lost' = lost + 1
    /\ jobs' = [jobs EXCEPT ![s] = @ \ {j}]
    /\ UNCHANGED <<svc, sched, running, executeChecks, hostUp, calls, notified>>

HostChanges ==
    /\ hostUp' = ~hostUp
    /\ UNCHANGED <<svc, sched, jobs, running, executeChecks, calls, notified, lost>>

(* Nothing tells apart times further back than these.                       *)
OldestNextCheck == -OrphanSlack - 1
OldestLastCheck(s) == -(IF FreshnessThreshold[s] > Horizon THEN FreshnessThreshold[s] ELSE Horizon) - 1

Earlier(t, oldest) == IF t > oldest THEN t - 1 ELSE oldest

Tick ==
    /\ \A s \in Services : /\ ~(sched[s].event /\ sched[s].next_check <= 0)
                           /\ \A j \in jobs[s] : j.age < Timeout
    /\ sched' = [s \in Services |->
                   [sched[s] EXCEPT !.next_check = Earlier(@, OldestNextCheck),
                                    !.last_check = Earlier(@, OldestLastCheck(s))]]
    /\ jobs' = [s \in Services |-> {[j EXCEPT !.age = @ + 1] : j \in jobs[s]}]
    /\ UNCHANGED <<svc, running, executeChecks, hostUp, calls, notified, lost>>

(* checks_init_services schedules the first check of each service.          *)
Init ==
    /\ svc \in [Services ->
                 {[current_state |-> st, last_hard_state |-> st, state_type |-> "HARD",
                   current_attempt |-> IF st = STATE_OK THEN 1 ELSE n, max_attempts |-> n,
                   host_problem_at_last_check |-> FALSE, problem_id |-> FALSE,
                   acknowledged |-> FALSE, ack_type |-> "none"] :
                     st \in InitialStates, n \in MaxAttemptsValues}]
    /\ \E delay \in [Services -> UNION {0..CheckInterval[s] : s \in Services}] :
         /\ \A s \in Services : delay[s] \in 0..CheckInterval[s]
         /\ sched = [s \in Services |->
                      [event |-> CheckInterval[s] # 0, next_check |-> delay[s],
                       check_options |-> {}, is_executing |-> FALSE,
                       is_being_freshened |-> FALSE, checks_enabled |-> TRUE,
                       has_been_checked |-> FALSE, last_check |-> 0]]
    /\ jobs = [s \in Services |-> {}]
    /\ running = 0
    /\ executeChecks = TRUE
    /\ hostUp \in BOOLEAN
    /\ calls = [s \in Services |-> {}]
    /\ notified = [s \in Services |-> FALSE]
    /\ lost = 0

ResultArrives(s) ==
    \E j \in jobs[s], r \in Results, flexStarts \in BOOLEAN :
        handle_worker_service_check(s, j, r, flexStarts)

Command(s) ==
    \/ /\ "schedule" \in Commands
       /\ \E d \in Delays : ScheduleCommand(s, d, {}) \/ ScheduleCommand(s, d, {"force"})
    \/ /\ "checks" \in Commands
       /\ disable_service_checks(s) \/ enable_service_checks(s)
    \/ /\ "passive" \in Commands
       /\ \E r \in Results, flexStarts \in BOOLEAN :
            process_passive_service_check(s, PassiveState(r), flexStarts)
    \/ /\ "acknowledge" \in Commands
       /\ \/ \E type \in {"normal", "sticky"} : acknowledge_service_problem(s, type)
          \/ remove_service_acknowledgement(s)
    \/ /\ "max_attempts" \in Commands
       /\ \E n \in MaxAttemptsValues : ChangeMaxAttempts(s, n)

Next ==
    \/ \E s \in Services :
         \/ handle_service_check_event(s)
         \/ ResultArrives(s)
         \/ \E j \in jobs[s] : LoseResult(s, j)
         \/ Command(s)
    \/ check_for_orphaned_services
    \/ \E inPeriod \in SUBSET Services : check_service_result_freshness(inPeriod)
    \/ "execute" \in Commands /\ SwitchServiceChecks
    \/ "host" \in Commands /\ HostChanges
    \/ Tick

Spec == Init /\ [][Next]_vars

(* The main loop runs events and reads results; the handlers of orphaned    *)
(* and stale services are events that schedule themselves again.            *)
Fairness ==
    /\ \A s \in Services : WF_vars(handle_service_check_event(s)) /\ WF_vars(ResultArrives(s))
    /\ WF_vars(check_for_orphaned_services)
    /\ WF_vars(check_service_result_freshness(Services))
    /\ WF_vars(Tick)

FairSpec == Spec /\ Fairness

-----------------------------------------------------------------------------
(* What the rest of the program reads as the state of a service hangs       *)
(* together after every result: a hard state is the last hard state; an OK  *)
(* service is hard, on its first attempt, with nothing left over from a     *)
(* problem (no id of it, no acknowledgement, no host problem), so that the  *)
(* next problem gets all of its attempts.                                   *)
Consistent(v) ==
    /\ v.current_attempt >= 1
    /\ v.state_type = "HARD" => v.last_hard_state = v.current_state
    /\ v.current_state = STATE_OK =>
         /\ v.state_type = "HARD"
         /\ v.current_attempt = 1
         /\ ~v.host_problem_at_last_check
         /\ ~v.problem_id
         /\ ~v.acknowledged

StateConsistent ==
    \A s \in Services :
        Consistent(svc[s]) /\ (svc[s].current_state = STATE_OK => ~notified[s])

(* A hard problem that has made all of its attempts stays hard until the    *)
(* service is OK, whatever its host does meanwhile: it does not come back   *)
(* as a soft problem after the host has recovered.                          *)
HardStaysHard ==
    [][\A s \in Services :
         /\ svc[s].state_type = "HARD"
         /\ svc[s].current_state # STATE_OK
         /\ svc[s].current_attempt >= svc[s].max_attempts
         /\ svc'[s].current_state # STATE_OK
         => svc'[s].state_type = "HARD"]_vars

(* The event handler is run whenever the last hard state changes: no branch *)
(* of the result handler changes it silently.                               *)
HandlerTold ==
    [][\A s \in Services :
         svc'[s].last_hard_state # svc[s].last_hard_state => "handler" \in calls'[s]]_vars

(* Contacts that were notified of a problem are notified of its end.        *)
RecoveryNotified ==
    [][\A s \in Services :
         notified[s] /\ svc'[s].current_state = STATE_OK => "notify" \in calls'[s]]_vars

(* max_concurrent_checks: no more checks than that run at any time that     *)
(* were not forced, although lost results and the orphan handler change the *)
(* count as well.                                                           *)
ParallelLimit ==
    MaxParallel # 0 =>
        Cardinality(UNION {{<<s, j>> : j \in {k \in jobs[s] : "force" \notin k.check_options}} :
                              s \in Services}) <= MaxParallel

(* Each check that currently_running_service_checks counts is running, or   *)
(* its service is marked as executing, so that the orphan handler will take *)
(* it off the count.                                                        *)
SlotsAccounted ==
    running <= Cardinality(UNION {{<<s, j>> : j \in jobs[s]} : s \in Services})
               + Cardinality({s \in Services : sched[s].is_executing})

(* A service that is being freshened has its freshness check scheduled or   *)
(* under way: the freshness handler leaves it alone until then.             *)
FreshnessUnderWay ==
    \A s \in Services :
        sched[s].is_being_freshened =>
            \/ sched[s].event /\ "fresh" \in sched[s].check_options
            \/ \E j \in jobs[s] : "fresh" \in j.check_options

(* A service that is checked at intervals always has another check event to *)
(* come, although events that find it executing are not scheduled again and *)
(* results may be lost or discarded.                                        *)
EventsRecur == \A s \in Services : CheckInterval[s] # 0 => []<>(sched[s].event)
=============================================================================
