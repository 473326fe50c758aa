------------------------ MODULE ServiceChecksProofs ------------------------
(* Proofs about ServiceChecks, for any number of services, any intervals,   *)
(* any numbers of attempts and any results.                                 *)
EXTENDS ServiceChecks, FiniteSetTheorems, TLAPS

-----------------------------------------------------------------------------
(* What the operators of the state machine and of the schedule return.      *)

(* Every result stands for one of the four states.                          *)
LEMMA ResultStateType ==
    ASSUME NEW r \in Results
    PROVE  ResultState(r) \in States /\ PassiveState(r) \in States
BY ServiceChecksAssumption
   DEF ResultState, PassiveState, States, STATE_CRITICAL, STATE_UNKNOWN

LEMMA NextAttemptType ==
    ASSUME NEW v \in ServiceState, NEW up \in BOOLEAN
    PROVE  NextAttempt(v) \in Nat /\ ProblemAttempt(v, up) \in Nat
BY DEF ServiceState, NextAttempt, ProblemAttempt

(* The fields of a service after an OK result.                              *)
LEMMA OkResultFields ==
    ASSUME NEW v \in ServiceState
    PROVE  /\ OkResult(v) \in ServiceState
           /\ OkResult(v).current_state = STATE_OK
           /\ Consistent(v) => Consistent(OkResult(v))
<1> DEFINE w == OkResult(v)
<1>1. w \in ServiceState
  <2> DEFINE pid == IF v.current_state # STATE_OK THEN FALSE ELSE v.problem_id
             no == FALSE
  <2>1. pid \in BOOLEAN /\ no \in BOOLEAN
    BY DEF ServiceState
  <2>2. w = [v EXCEPT !.current_state = STATE_OK, !.last_hard_state = STATE_OK,
                      !.state_type = "HARD", !.current_attempt = 1,
                      !.host_problem_at_last_check = no, !.problem_id = pid,
                      !.acknowledged = no, !.ack_type = "none"]
    BY DEF OkResult
  <2> HIDE DEF pid, no, w
  <2>3. STATE_OK \in States
    BY DEF States, STATE_OK
  <2>4. QED
    BY <2>1, <2>2, <2>3 DEF ServiceState
<1>2. w.current_state = STATE_OK
  BY DEF OkResult, ServiceState
<1>3. w.last_hard_state = STATE_OK /\ w.state_type = "HARD" /\ w.current_attempt = 1
  BY DEF OkResult, ServiceState
<1>4. w.host_problem_at_last_check = FALSE /\ w.acknowledged = FALSE
  BY DEF OkResult, ServiceState
<1>5. w.problem_id = IF v.current_state # STATE_OK THEN FALSE ELSE v.problem_id
  BY DEF OkResult, ServiceState
<1>6. Consistent(v) => Consistent(w)
  <2> HIDE DEF w
  <2> QED BY <1>2, <1>3, <1>4, <1>5 DEF Consistent
<1>7. QED
  BY <1>1, <1>2, <1>6

(* The fields of a service after a problem.                                 *)
LEMMA ProblemResultFields ==
    ASSUME NEW v \in ServiceState, NEW st \in States, NEW up \in BOOLEAN
    PROVE  /\ ProblemResult(v, st, up) \in ServiceState
           /\ ProblemResult(v, st, up).current_state = st
           /\ ProblemResult(v, st, up).current_attempt = ProblemAttempt(v, up)
           /\ ProblemResult(v, st, up).max_attempts = v.max_attempts
           /\ ~Retrying(v, up) => /\ ProblemResult(v, st, up).state_type = "HARD"
                                  /\ ProblemResult(v, st, up).last_hard_state = st
           /\ Retrying(v, up) /\ up =>
                /\ ProblemResult(v, st, up).state_type = "SOFT"
                /\ ProblemResult(v, st, up).last_hard_state = v.last_hard_state
           /\ Retrying(v, up) /\ ~up /\ ProblemHardChange(v, st, up) =>
                /\ ProblemResult(v, st, up).state_type = "HARD"
                /\ ProblemResult(v, st, up).last_hard_state = st
           /\ Retrying(v, up) /\ ~up /\ ~ProblemHardChange(v, st, up) =>
                /\ ProblemResult(v, st, up).state_type = v.state_type
                /\ ProblemResult(v, st, up).last_hard_state = v.last_hard_state
<1> DEFINE w == ProblemResult(v, st, up)
           type == IF ~Retrying(v, up) THEN "HARD"
                   ELSE IF up THEN "SOFT"
                   ELSE IF ProblemHardChange(v, st, up) THEN "HARD" ELSE v.state_type
           hard == IF ~Retrying(v, up) \/ (~up /\ ProblemHardChange(v, st, up))
                   THEN st ELSE v.last_hard_state
           pid == IF st # v.current_state /\ v.current_state = STATE_OK
                  THEN TRUE ELSE v.problem_id
           ack == IF AckEnds(v, st) THEN FALSE ELSE v.acknowledged
           ackType == IF AckEnds(v, st) THEN "none" ELSE v.ack_type
           attempt == ProblemAttempt(v, up)
           host == ~up
<1>1. /\ type \in {"SOFT", "HARD"} /\ hard \in States
      /\ ackType \in {"none", "normal", "sticky"} /\ attempt \in Nat
  BY NextAttemptType DEF ServiceState
<1>2. pid \in BOOLEAN /\ ack \in BOOLEAN /\ host \in BOOLEAN
  BY DEF ServiceState
<1>3. w = [v EXCEPT !.current_state = st, !.current_attempt = attempt,
                    !.host_problem_at_last_check = host, !.state_type = type,
                    !.last_hard_state = hard, !.problem_id = pid,
                    !.acknowledged = ack, !.ack_type = ackType]
  BY DEF ProblemResult
<1>4. /\ w \in ServiceState
      /\ w.current_state = st /\ w.current_attempt = attempt
      /\ w.max_attempts = v.max_attempts
      /\ w.state_type = type /\ w.last_hard_state = hard
  <2> HIDE DEF w, type, hard, pid, ack, ackType, attempt, host
  <2> QED BY <1>1, <1>2, <1>3, ZenonT(30) DEF ServiceState
<1>5. QED
  <2> HIDE DEF w
  <2>1. /\ ~Retrying(v, up) => type = "HARD" /\ hard = st
        /\ Retrying(v, up) /\ up => type = "SOFT" /\ hard = v.last_hard_state
        /\ Retrying(v, up) /\ ~up /\ ProblemHardChange(v, st, up) => type = "HARD" /\ hard = st
        /\ Retrying(v, up) /\ ~up /\ ~ProblemHardChange(v, st, up) =>
             type = v.state_type /\ hard = v.last_hard_state
    OBVIOUS
  <2>2. w = ProblemResult(v, st, up)
    BY DEF w
  <2> HIDE DEF type, hard, attempt
  <2>3. attempt = ProblemAttempt(v, up)
    BY DEF attempt
  <2>4. QED
    BY <1>4, <2>1, <2>2, <2>3

(* A problem keeps the state consistent.                                    *)
LEMMA ProblemResultConsistent ==
    ASSUME NEW v \in ServiceState, NEW st \in States \ {STATE_OK}, NEW up \in BOOLEAN,
           Consistent(v)
    PROVE  Consistent(ProblemResult(v, st, up))
<1> DEFINE w == ProblemResult(v, st, up)
<1>1. w.current_attempt >= 1
  BY ProblemResultFields DEF ProblemAttempt, NextAttempt, Consistent, ServiceState
<1>2. w.state_type = "HARD" => w.last_hard_state = w.current_state
  <2>1. CASE ~Retrying(v, up)
    BY <2>1, ProblemResultFields
  <2>2. CASE Retrying(v, up) /\ up
    BY <2>2, ProblemResultFields
  <2>3. CASE Retrying(v, up) /\ ~up
    BY <2>3, ProblemResultFields DEF ProblemHardChange, Consistent
  <2>4. QED
    BY <2>1, <2>2, <2>3
<1>3. w.current_state # STATE_OK
  BY ProblemResultFields
<1>4. QED
  BY <1>1, <1>2, <1>3 DEF Consistent

(* Whatever the result, the service is consistent after it.                 *)
LEMMA StateAfterConsistent ==
    ASSUME NEW v \in ServiceState, NEW st \in States, NEW up \in BOOLEAN
    PROVE  /\ StateAfter(v, st, up) \in ServiceState
           /\ StateAfter(v, st, up).current_state = st
           /\ Consistent(v) => Consistent(StateAfter(v, st, up))
BY OkResultFields, ProblemResultFields, ProblemResultConsistent DEF StateAfter

LEMMA CallsAfterType ==
    ASSUME NEW s, NEW v, NEW st, NEW up, NEW flexStarts
    PROVE  CallsAfter(s, v, st, up, flexStarts) \in SUBSET Calls
BY DEF CallsAfter, OkCalls, ProblemCalls, Calls

(* Scheduling a check keeps the type of a schedule.                         *)
LEMMA ScheduleNextType ==
    ASSUME NEW c \in Schedule, NEW delay \in Int, NEW options
    PROVE  schedule_next_service_check(c, delay, options) \in Schedule
BY DEF schedule_next_service_check, Schedule, Opts

LEMMA ScheduleAfterType ==
    ASSUME NEW s \in Services, NEW c \in Schedule, NEW v, NEW st, NEW up, NEW start \in Int
    PROVE  ScheduleAfter(s, c, v, st, up, start) \in Schedule
<1> DEFINE checked == [c EXCEPT !.last_check = start, !.has_been_checked = TRUE]
           retried == IF st # STATE_OK /\ Retrying(v, up) /\ up /\ RetryInterval[s] # 0
                      THEN schedule_next_service_check(checked, RetryInterval[s], {"postpone"})
                      ELSE checked
<1>1. checked \in Schedule
  BY DEF Schedule
<1>2. RetryInterval[s] \in Int /\ CheckInterval[s] \in Int
  BY ServiceChecksAssumption
<1>3. retried \in Schedule
  <2> HIDE DEF checked
  <2> QED BY <1>1, <1>2, ScheduleNextType
<1>4. schedule_next_service_check(retried, CheckInterval[s], {}) \in Schedule
  <2> HIDE DEF retried
  <2> QED BY <1>2, <1>3, ScheduleNextType
<1>5. QED
  BY <1>3, <1>4 DEF ScheduleAfter

-----------------------------------------------------------------------------
(* Type correctness.                                                        *)

LEMMA ProcessResultType ==
    ASSUME TypeOK, NEW s \in Services, NEW st \in States, NEW start \in Int,
           NEW c \in Schedule, NEW flexStarts \in BOOLEAN,
           ProcessResult(s, st, start, c, flexStarts)
    PROVE  /\ svc' \in [Services -> ServiceState]
           /\ sched' \in [Services -> Schedule]
           /\ calls' \in [Services -> SUBSET Calls]
           /\ notified' \in [Services -> BOOLEAN]
<1>1. svc' \in [Services -> ServiceState]
  BY StateAfterConsistent DEF ProcessResult, TypeOK
<1>2. calls' \in [Services -> SUBSET Calls]
  BY CallsAfterType DEF ProcessResult, TypeOK
<1>3. notified' \in [Services -> BOOLEAN]
  BY DEF ProcessResult, TypeOK
<1>4. sched' \in [Services -> Schedule]
  <2> DEFINE own == ScheduleAfter(s, c, svc[s], st, hostUp, start)
             base(t) == IF t = s THEN own ELSE sched[t]
  <2>1. own \in Schedule
    BY ScheduleAfterType
  <2>2. \A t \in Services : base(t) \in Schedule
    <3> HIDE DEF own
    <3> QED BY <2>1 DEF TypeOK
  <2>3. \A t \in Services : schedule_next_service_check(base(t), 0, {}) \in Schedule
    <3> HIDE DEF base
    <3> QED BY <2>2, ScheduleNextType
  <2>4. sched' = [t \in Services |-> IF t \in Predicted(s, svc[s], st, hostUp)
                                     THEN schedule_next_service_check(base(t), 0, {})
                                     ELSE base(t)]
    BY DEF ProcessResult
  <2>5. QED
    <3> HIDE DEF base
    <3> QED BY <2>2, <2>3, <2>4
<1>5. QED
  BY <1>1, <1>2, <1>3, <1>4

LEMMA WorkerResultType ==
    ASSUME TypeOK, NEW s \in Services, NEW j \in jobs[s], NEW r \in Results,
           NEW flexStarts \in BOOLEAN, handle_worker_service_check(s, j, r, flexStarts)
    PROVE  TypeOK'
<1> DEFINE c == FlagsCleared(s, j)
<1>1. c \in Schedule /\ -j.age \in Int
  <2>1. sched[s] \in Schedule /\ j \in Job
    BY DEF TypeOK
  <2>2. -j.age \in Int
    BY <2>1 DEF Job
  <2> DEFINE b == IF "fresh" \in j.check_options THEN FALSE ELSE sched[s].is_being_freshened
             no == FALSE
  <2>3. b \in BOOLEAN /\ no \in BOOLEAN
    BY <2>1 DEF Schedule
  <2>4. c = [sched[s] EXCEPT !.is_executing = no, !.is_being_freshened = b]
    BY DEF FlagsCleared
  <2>5. c \in Schedule
    <3> HIDE DEF b, no, c
    <3> QED BY <2>1, <2>3, <2>4 DEF Schedule
  <2>6. QED
    BY <2>2, <2>5
<1>2. /\ jobs' \in [Services -> SUBSET Job]
      /\ running' \in Nat
      /\ executeChecks' \in BOOLEAN /\ hostUp' \in BOOLEAN /\ lost' \in Nat
  BY DEF handle_worker_service_check, TypeOK
<1>3. CASE "fresh" \in j.check_options /\ Fresh(s)
  <2>1. sched' = [sched EXCEPT ![s] = c] /\ UNCHANGED <<svc, calls, notified>>
    BY <1>3 DEF handle_worker_service_check
  <2>2. sched' \in [Services -> Schedule]
    <3> HIDE DEF c
    <3> QED BY <1>1, <2>1 DEF TypeOK
  <2>3. QED
    BY <1>2, <2>1, <2>2 DEF TypeOK
<1>4. CASE ~("fresh" \in j.check_options /\ Fresh(s))
  <2>1. ProcessResult(s, ResultState(r), -j.age, c, flexStarts)
    BY <1>4 DEF handle_worker_service_check
  <2>2. ResultState(r) \in States
    BY ResultStateType
  <2>3. QED
    <3> HIDE DEF c
    <3> QED BY <1>1, <1>2, <2>1, <2>2, ProcessResultType DEF TypeOK
<1>5. QED
  BY <1>3, <1>4

LEMMA PassiveResultType ==
    ASSUME TypeOK, NEW s \in Services, NEW r \in Results, NEW flexStarts \in BOOLEAN,
           process_passive_service_check(s, PassiveState(r), flexStarts)
    PROVE  TypeOK'
<1>1. sched[s] \in Schedule
  BY DEF TypeOK
<1>2. QED
  BY <1>1, ResultStateType, ProcessResultType DEF process_passive_service_check, TypeOK

(* The event handler: every branch leaves a schedule, and a check that is   *)
(* started is a job.                                                        *)
LEMMA CheckEventType ==
    ASSUME TypeOK, NEW s \in Services, handle_service_check_event(s)
    PROVE  TypeOK'
<1> DEFINE old == sched[s]
           gone == [old EXCEPT !.event = FALSE]
           c == IF CheckInterval[s] # 0 /\ ~old.is_executing
                THEN schedule_next_service_check(gone, CheckInterval[s], {}) ELSE gone
<1>1. CheckInterval[s] \in Int /\ RetryInterval[s] \in Int /\ Delays \subseteq Int
  BY ServiceChecksAssumption
<1>2. c \in Schedule
  <2>1. gone \in Schedule
    BY DEF TypeOK, Schedule
  <2>2. QED
    <3> HIDE DEF gone
    <3> QED BY <1>1, <2>1, ScheduleNextType
<1>3. old.check_options \in SUBSET Opts
  BY DEF TypeOK, Schedule
<1>4. NotStarted => jobs' \in [Services -> SUBSET Job] /\ running' \in Nat
  BY DEF NotStarted, TypeOK
<1>5. Started(s, old.check_options) => jobs' \in [Services -> SUBSET Job] /\ running' \in Nat
  <2> SUFFICES ASSUME Started(s, old.check_options)
               PROVE  jobs' \in [Services -> SUBSET Job] /\ running' \in Nat
    OBVIOUS
  <2> DEFINE free == {n \in 1..MaxOutstanding : \A j \in jobs[s] : j.n # n}
             slot == CHOOSE n \in free : TRUE
             new == [n |-> slot, age |-> 0, check_options |-> old.check_options]
  <2>0. free # {} /\ free \subseteq Nat
    BY ServiceChecksAssumption DEF Started
  <2>2. slot \in Nat
    <3> HIDE DEF free
    <3> QED BY <2>0
  <2>3. new \in Job
    <3> HIDE DEF slot
    <3> QED BY <1>3, <2>2 DEF Job
  <2>4. jobs' = [jobs EXCEPT ![s] = @ \cup {new}] /\ running' = running + 1
    BY DEF Started
  <2>5. QED
    <3> HIDE DEF new
    <3> QED BY <2>3, <2>4 DEF TypeOK
<1>6. svc' = svc \/ (SkipStatus \in States /\ svc' = [svc EXCEPT ![s].current_state = SkipStatus])
  BY DEF handle_service_check_event, run_scheduled_service_check, NudgedToRetry, Aborted,
         OutsidePeriod, Skipped
<1>7. svc' \in [Services -> ServiceState]
  BY <1>6 DEF TypeOK, ServiceState
<1> HIDE DEF old, gone, c
<1>8. /\ executeChecks' \in BOOLEAN /\ hostUp' \in BOOLEAN /\ lost' \in Nat
      /\ calls' \in [Services -> SUBSET Calls] /\ notified' \in [Services -> BOOLEAN]
  BY DEF handle_service_check_event, TypeOK
<1>9. \/ run_scheduled_service_check(s, c, old.check_options)
      \/ NudgedToRetry(s, c) \/ Aborted(s, c) \/ OutsidePeriod(s, c) \/ Skipped(s, c)
  BY DEF handle_service_check_event, old, gone, c
<1>10. /\ sched' \in [Services -> Schedule]
       /\ jobs' \in [Services -> SUBSET Job] /\ running' \in Nat
  <2>1. CASE run_scheduled_service_check(s, c, old.check_options)
    <3>1. CASE NotStarted /\ sched' = [sched EXCEPT ![s] = c]
      BY <1>2, <1>4, <3>1 DEF TypeOK
    <3>2. CASE /\ Started(s, old.check_options)
               /\ sched' = [sched EXCEPT ![s] = [c EXCEPT !.is_executing = TRUE]]
      <4>1. [c EXCEPT !.is_executing = TRUE] \in Schedule
        BY <1>2 DEF Schedule
      <4>2. QED
        BY <1>5, <3>2, <4>1 DEF TypeOK
    <3>3. QED
      BY <2>1, <3>1, <3>2 DEF run_scheduled_service_check
  <2>2. CASE NudgedToRetry(s, c)
    <3>1. schedule_next_service_check(c, RetryInterval[s], {}) \in Schedule
      BY <1>1, <1>2, ScheduleNextType
    <3>2. QED
      BY <1>2, <1>4, <2>2, <3>1 DEF NudgedToRetry, TypeOK
  <2>3. CASE Aborted(s, c) \/ Skipped(s, c)
    BY <1>2, <1>4, <2>3 DEF Aborted, Skipped, TypeOK
  <2>4. CASE OutsidePeriod(s, c)
    <3>1. PICK d \in Delays :
            sched' = [sched EXCEPT ![s] = schedule_next_service_check(c, d, {"postpone"})]
      BY <2>4 DEF OutsidePeriod
    <3>2. schedule_next_service_check(c, d, {"postpone"}) \in Schedule
      BY <1>1, <1>2, ScheduleNextType
    <3>3. QED
      BY <1>4, <2>4, <3>1, <3>2 DEF OutsidePeriod, TypeOK
  <2>5. QED
    BY <1>9, <2>1, <2>2, <2>3, <2>4
<1>11. QED
  BY <1>7, <1>8, <1>10 DEF TypeOK

(* The handlers that go through all services.                               *)
LEMMA OrphansType ==
    ASSUME TypeOK, check_for_orphaned_services
    PROVE  TypeOK'
<1>1. \A s \in Services :
        schedule_next_service_check([sched[s] EXCEPT !.is_executing = FALSE], 0, {}) \in Schedule
  <2>1. \A s \in Services : [sched[s] EXCEPT !.is_executing = FALSE] \in Schedule
    BY DEF TypeOK, Schedule
  <2>2. QED
    BY <2>1, ScheduleNextType
<1>2. sched' \in [Services -> Schedule]
  BY <1>1 DEF check_for_orphaned_services, TypeOK
<1>3. running' \in Nat
  <2> DEFINE O == {s \in Services : Orphaned(s)}
             n == Cardinality(O)
  <2>1. n \in Nat
    BY ServiceChecksAssumption, FS_Subset, FS_CardinalityType
  <2>2. running' = IF running > n THEN running - n ELSE 0
    BY DEF check_for_orphaned_services
  <2>3. QED
    <3> HIDE DEF n
    <3> QED BY <2>1, <2>2 DEF TypeOK
<1>4. QED
  BY <1>2, <1>3 DEF check_for_orphaned_services, TypeOK

LEMMA FreshnessType ==
    ASSUME TypeOK, NEW inPeriod \in SUBSET Services, check_service_result_freshness(inPeriod)
    PROVE  TypeOK'
<1>1. \A s \in Services :
        schedule_next_service_check([sched[s] EXCEPT !.is_being_freshened = TRUE],
                                    0, {"force", "fresh"}) \in Schedule
  <2>1. \A s \in Services : [sched[s] EXCEPT !.is_being_freshened = TRUE] \in Schedule
    BY DEF TypeOK, Schedule
  <2>2. QED
    BY <2>1, ScheduleNextType
<1>2. QED
  BY <1>1 DEF check_service_result_freshness, TypeOK

LEMMA CommandType ==
    ASSUME TypeOK, NEW s \in Services, Command(s)
    PROVE  TypeOK'
<1>1. sched[s] \in Schedule /\ svc[s] \in ServiceState
  BY DEF TypeOK
<1>2. CheckInterval[s] \in Int /\ Delays \subseteq Int
  BY ServiceChecksAssumption
<1>3. ASSUME NEW d \in Delays, NEW options, ScheduleCommand(s, d, options)
      PROVE  TypeOK'
  <2>1. schedule_next_service_check(sched[s], d, options) \in Schedule
    BY <1>1, <1>2, ScheduleNextType
  <2>2. QED
    BY <1>3, <2>1 DEF ScheduleCommand, TypeOK
<1>4. CASE disable_service_checks(s)
  BY <1>1, <1>4 DEF disable_service_checks, TypeOK, Schedule
<1>5. CASE enable_service_checks(s)
  <2> DEFINE c == [sched[s] EXCEPT !.checks_enabled = TRUE]
  <2>1. c \in Schedule
    BY <1>1 DEF Schedule
  <2>2. check_window(s) \in Int
    BY ServiceChecksAssumption DEF check_window
  <2>3. schedule_next_service_check(c, check_window(s), {}) \in Schedule
    <3> HIDE DEF c
    <3> QED BY <2>1, <2>2, ScheduleNextType
  <2>4. QED
    BY <1>5, <2>1, <2>3 DEF enable_service_checks, TypeOK
<1>6. ASSUME NEW r \in Results, NEW flexStarts \in BOOLEAN,
             process_passive_service_check(s, PassiveState(r), flexStarts)
      PROVE  TypeOK'
  BY <1>6, PassiveResultType
<1>7. ASSUME NEW type \in {"normal", "sticky"}, acknowledge_service_problem(s, type)
      PROVE  TypeOK'
  BY <1>1, <1>7 DEF acknowledge_service_problem, TypeOK, ServiceState
<1>8. CASE remove_service_acknowledgement(s)
  BY <1>1, <1>8 DEF remove_service_acknowledgement, TypeOK, ServiceState
<1>9. ASSUME NEW n \in MaxAttemptsValues, ChangeMaxAttempts(s, n)
      PROVE  TypeOK'
  <2>1. n \in Nat \ {0}
    BY ServiceChecksAssumption
  <2>2. svc' \in [Services -> ServiceState]
    BY <1>1, <1>9, <2>1 DEF ChangeMaxAttempts, TypeOK, ServiceState
  <2>3. QED
    BY <1>9, <2>2 DEF ChangeMaxAttempts, TypeOK
<1>10. QED
  BY <1>3, <1>4, <1>5, <1>6, <1>7, <1>8, <1>9 DEF Command

LEMMA TickType ==
    ASSUME TypeOK, Tick
    PROVE  TypeOK'
<1>1. \A s \in Services : /\ Earlier(sched[s].next_check, OldestNextCheck) \in Int
                          /\ Earlier(sched[s].last_check, OldestLastCheck(s)) \in Int
  BY ServiceChecksAssumption
     DEF TypeOK, Schedule, Earlier, OldestNextCheck, OldestLastCheck
<1>2. sched' \in [Services -> Schedule]
  <2>1. \A s \in Services :
          [sched[s] EXCEPT !.next_check = Earlier(@, OldestNextCheck),
                           !.last_check = Earlier(@, OldestLastCheck(s))] \in Schedule
    BY <1>1 DEF TypeOK, Schedule
  <2>2. QED
    BY <2>1 DEF Tick
<1>3. jobs' \in [Services -> SUBSET Job]
  <2>1. \A s \in Services : \A j \in jobs[s] : [j EXCEPT !.age = @ + 1] \in Job
    BY DEF TypeOK, Job
  <2>2. QED
    BY <2>1 DEF Tick
<1>4. QED
  BY <1>2, <1>3 DEF Tick, TypeOK

LEMMA InitType ==
    ASSUME Init
    PROVE  TypeOK
<1>1. svc \in [Services -> ServiceState]
  <2> DEFINE no == FALSE
             initial(st, n) ==
               [current_state |-> st, last_hard_state |-> st, state_type |-> "HARD",
                current_attempt |-> IF st = STATE_OK THEN 1 ELSE n, max_attempts |-> n,
                host_problem_at_last_check |-> no, problem_id |-> no,
                acknowledged |-> no, ack_type |-> "none"]
  <2>1. no \in BOOLEAN
    OBVIOUS
  <2>2. \A st \in InitialStates, n \in MaxAttemptsValues : st \in States /\ n \in Nat \ {0}
    BY ServiceChecksAssumption
  <2>3. svc \in [Services -> {initial(st, n) : st \in InitialStates, n \in MaxAttemptsValues}]
    BY DEF Init
  <2>4. \A st \in InitialStates, n \in MaxAttemptsValues : initial(st, n) \in ServiceState
    <3> HIDE DEF no
    <3> QED BY <2>1, <2>2 DEF ServiceState
  <2>5. QED
    <3> HIDE DEF initial
    <3> QED BY <2>3, <2>4
<1>2. sched \in [Services -> Schedule]
  BY ServiceChecksAssumption DEF Init, Schedule, Opts
<1>3. QED
  BY <1>1, <1>2 DEF Init, TypeOK

LEMMA StepType ==
    ASSUME TypeOK, [Next]_vars
    PROVE  TypeOK'
<1>1. ASSUME NEW s \in Services, handle_service_check_event(s) PROVE TypeOK'
  BY <1>1, CheckEventType
<1>2. ASSUME NEW s \in Services, ResultArrives(s) PROVE TypeOK'
  BY <1>2, WorkerResultType DEF ResultArrives
<1>3. ASSUME NEW s \in Services, NEW j \in jobs[s], LoseResult(s, j) PROVE TypeOK'
  BY <1>3 DEF LoseResult, TypeOK
<1>4. ASSUME NEW s \in Services, Command(s) PROVE TypeOK'
  BY <1>4, CommandType
<1>5. CASE check_for_orphaned_services
  BY <1>5, OrphansType
<1>6. ASSUME NEW inPeriod \in SUBSET Services, check_service_result_freshness(inPeriod)
      PROVE  TypeOK'
  BY <1>6, FreshnessType
<1>7. CASE SwitchServiceChecks
  BY <1>7 DEF SwitchServiceChecks, TypeOK
<1>8. CASE HostChanges
  BY <1>8 DEF HostChanges, TypeOK
<1>9. CASE Tick
  BY <1>9, TickType
<1>10. CASE UNCHANGED vars
  BY <1>10 DEF vars, TypeOK
<1>11. QED
  BY <1>1, <1>2, <1>3, <1>4, <1>5, <1>6, <1>7, <1>8, <1>9, <1>10 DEF Next

(* Every field of every service keeps its type.                             *)
THEOREM ServiceTypeCorrect == Spec => []TypeOK
<1>1. Init => TypeOK
  BY InitType
<1>2. TypeOK /\ [Next]_vars => TypeOK'
  BY StepType
<1>3. QED
  BY <1>1, <1>2, PTL DEF Spec
-----------------------------------------------------------------------------
(* What a step may do to the state of a service.                            *)

(* A result of state st was applied to s: ProcessResult without schedules.  *)
Applied(s, st, flexStarts) ==
    /\ svc' = [svc EXCEPT ![s] = StateAfter(svc[s], st, hostUp)]
    /\ calls' = [calls EXCEPT ![s] = CallsAfter(s, svc[s], st, hostUp, flexStarts)]
    /\ notified' = [notified EXCEPT ![s] = st # STATE_OK /\ (@ \/ "notify" \in calls'[s])]

(* The state was overwritten because the check was skipped.                 *)
Overwritten(s) ==
    /\ SkipStatus \in States
    /\ svc' = [svc EXCEPT ![s].current_state = SkipStatus]
    /\ UNCHANGED <<calls, notified>>

(* There are no other ways to change it than these.                         *)
LEMMA StateChanges ==
    ASSUME TypeOK, [Next]_vars
    PROVE  \/ UNCHANGED <<svc, calls, notified>>
           \/ \E s \in Services, st \in States, f \in BOOLEAN : Applied(s, st, f)
           \/ \E s \in Services : Overwritten(s)
           \/ \E s \in Services, type \in {"normal", "sticky"} :
                acknowledge_service_problem(s, type)
           \/ \E s \in Services : remove_service_acknowledgement(s)
           \/ "max_attempts" \in Commands
                /\ \E s \in Services, n \in MaxAttemptsValues : ChangeMaxAttempts(s, n)
<1> DEFINE Kept == UNCHANGED <<svc, calls, notified>>
           Changed == \E s \in Services, st \in States, f \in BOOLEAN : Applied(s, st, f)
<1>1. ASSUME NEW s \in Services, handle_service_check_event(s)
      PROVE  Kept \/ Overwritten(s)
  BY <1>1 DEF handle_service_check_event, run_scheduled_service_check, NudgedToRetry, Aborted,
              OutsidePeriod, Skipped, Overwritten
<1>2. ASSUME NEW s \in Services, NEW st \in States, NEW start, NEW c, NEW f \in BOOLEAN,
             ProcessResult(s, st, start, c, f)
      PROVE  Applied(s, st, f)
  BY <1>2 DEF ProcessResult, Applied
<1>3. ASSUME NEW s \in Services, ResultArrives(s) PROVE Kept \/ Changed
  <2>1. PICK j \in jobs[s], r \in Results, f \in BOOLEAN :
          handle_worker_service_check(s, j, r, f)
    BY <1>3 DEF ResultArrives
  <2>2. Kept \/ ProcessResult(s, ResultState(r), -j.age, FlagsCleared(s, j), f)
    BY <2>1 DEF handle_worker_service_check
  <2>3. QED
    BY <1>2, <2>2, ResultStateType
<1>4. ASSUME NEW s \in Services, Command(s)
      PROVE  \/ Kept \/ Changed
             \/ \E type \in {"normal", "sticky"} : acknowledge_service_problem(s, type)
             \/ remove_service_acknowledgement(s)
             \/ "max_attempts" \in Commands /\ \E n \in MaxAttemptsValues : ChangeMaxAttempts(s, n)
  <2>1. ASSUME NEW r \in Results, NEW f \in BOOLEAN,
               process_passive_service_check(s, PassiveState(r), f)
        PROVE  Changed
    BY <1>2, <2>1, ResultStateType DEF process_passive_service_check
  <2>2. ASSUME NEW d, NEW options, ScheduleCommand(s, d, options) PROVE Kept
    BY <2>2 DEF ScheduleCommand
  <2>3. disable_service_checks(s) => Kept
    BY DEF disable_service_checks
  <2>4. enable_service_checks(s) => Kept
    BY DEF enable_service_checks
  <2>5. QED
    <3> HIDE DEF Kept, Changed
    <3> QED BY <1>4, <2>1, <2>2, <2>3, <2>4 DEF Command
<1>5. ASSUME NEW s \in Services, NEW j \in jobs[s], LoseResult(s, j) PROVE Kept
  BY <1>5 DEF LoseResult
<1>6. ASSUME check_for_orphaned_services \/ SwitchServiceChecks \/ HostChanges \/ Tick
      PROVE  Kept
  BY <1>6 DEF check_for_orphaned_services, SwitchServiceChecks, HostChanges, Tick
<1>7. ASSUME NEW inPeriod \in SUBSET Services, check_service_result_freshness(inPeriod)
      PROVE  Kept
  BY <1>7 DEF check_service_result_freshness
<1>8. UNCHANGED vars => Kept
  BY DEF vars
<1>9. QED
  <2> HIDE DEF Kept, Changed
  <2>1. \/ Kept \/ Changed \/ \E s \in Services : Overwritten(s)
        \/ \E s \in Services, type \in {"normal", "sticky"} :
             acknowledge_service_problem(s, type)
        \/ \E s \in Services : remove_service_acknowledgement(s)
        \/ "max_attempts" \in Commands
             /\ \E s \in Services, n \in MaxAttemptsValues : ChangeMaxAttempts(s, n)
    BY <1>1, <1>3, <1>4, <1>5, <1>6, <1>7, <1>8 DEF Next
  <2>2. QED
    BY <2>1 DEF Kept, Changed
-----------------------------------------------------------------------------
(* The state of a service hangs together.                                   *)

LEMMA InitConsistent ==
    ASSUME Init
    PROVE  StateConsistent
<1> SUFFICES ASSUME NEW s \in Services
             PROVE  Consistent(svc[s]) /\ ~notified[s]
  BY DEF StateConsistent
<1>1. PICK st \in InitialStates, n \in MaxAttemptsValues :
        svc[s] = [current_state |-> st, last_hard_state |-> st, state_type |-> "HARD",
                  current_attempt |-> IF st = STATE_OK THEN 1 ELSE n, max_attempts |-> n,
                  host_problem_at_last_check |-> FALSE, problem_id |-> FALSE,
                  acknowledged |-> FALSE, ack_type |-> "none"]
  BY DEF Init
<1>2. n \in Nat \ {0}
  BY ServiceChecksAssumption
<1>3. /\ svc[s].current_state = st /\ svc[s].last_hard_state = st
      /\ svc[s].state_type = "HARD"
      /\ svc[s].current_attempt = IF st = STATE_OK THEN 1 ELSE n
  BY <1>1
<1>4. ~svc[s].host_problem_at_last_check /\ ~svc[s].problem_id /\ ~svc[s].acknowledged
  BY <1>1
<1>5. Consistent(svc[s])
  BY <1>2, <1>3, <1>4 DEF Consistent
<1>6. ~notified[s]
  BY DEF Init
<1>7. QED
  BY <1>5, <1>6

LEMMA StepConsistent ==
    ASSUME TypeOK, StateConsistent, [Next]_vars, SkipStatus \notin States
    PROVE  StateConsistent'
<1> SUFFICES ASSUME NEW t \in Services
             PROVE  Consistent(svc'[t]) /\ (svc'[t].current_state = STATE_OK => ~notified'[t])
  BY DEF StateConsistent
<1>0. /\ svc[t] \in ServiceState
      /\ Consistent(svc[t]) /\ (svc[t].current_state = STATE_OK => ~notified[t])
  BY DEF StateConsistent, TypeOK
<1>1. CASE UNCHANGED <<svc, calls, notified>>
  BY <1>0, <1>1
<1>2. ASSUME NEW s \in Services, NEW st \in States, NEW f \in BOOLEAN, Applied(s, st, f)
      PROVE  Consistent(svc'[t]) /\ (svc'[t].current_state = STATE_OK => ~notified'[t])
  <2>1. CASE t = s
    <3>1. svc'[t] = StateAfter(svc[t], st, hostUp) /\ hostUp \in BOOLEAN
      BY <1>2, <2>1 DEF Applied, TypeOK
    <3>2. Consistent(svc'[t]) /\ svc'[t].current_state = st
      BY <1>0, <3>1, StateAfterConsistent
    <3>3. notified'[t] = (st # STATE_OK /\ (notified[t] \/ "notify" \in calls'[t]))
      BY <1>2, <2>1 DEF Applied, TypeOK
    <3>4. QED
      BY <3>2, <3>3
  <2>2. CASE t # s
    BY <1>0, <1>2, <2>2 DEF Applied, TypeOK
  <2>3. QED
    BY <2>1, <2>2
<1>3. ASSUME NEW s \in Services, Overwritten(s) PROVE FALSE
  BY <1>3 DEF Overwritten
<1>4. ASSUME NEW s \in Services, NEW type \in {"normal", "sticky"},
             acknowledge_service_problem(s, type)
      PROVE  Consistent(svc'[t]) /\ (svc'[t].current_state = STATE_OK => ~notified'[t])
  <2>1. CASE t = s
    <3>1. /\ svc'[t].current_state = svc[t].current_state
          /\ svc'[t].last_hard_state = svc[t].last_hard_state
          /\ svc'[t].state_type = svc[t].state_type
          /\ svc'[t].current_attempt = svc[t].current_attempt
          /\ svc[t].current_state # STATE_OK
      BY <1>0, <1>4, <2>1 DEF acknowledge_service_problem, TypeOK, ServiceState
    <3>2. QED
      BY <1>0, <3>1 DEF Consistent
  <2>2. CASE t # s
    BY <1>0, <1>4, <2>2 DEF acknowledge_service_problem, TypeOK
  <2>3. QED
    BY <2>1, <2>2
<1>5. ASSUME NEW s \in Services, remove_service_acknowledgement(s)
      PROVE  Consistent(svc'[t]) /\ (svc'[t].current_state = STATE_OK => ~notified'[t])
  <2>1. CASE t = s
    <3>1. /\ svc'[t].current_state = svc[t].current_state
          /\ svc'[t].last_hard_state = svc[t].last_hard_state
          /\ svc'[t].state_type = svc[t].state_type
          /\ svc'[t].current_attempt = svc[t].current_attempt
      BY <1>0, <1>5, <2>1 DEF remove_service_acknowledgement, TypeOK, ServiceState
    <3>2. /\ svc'[t].host_problem_at_last_check = svc[t].host_problem_at_last_check
          /\ svc'[t].problem_id = svc[t].problem_id
      BY <1>0, <1>5, <2>1 DEF remove_service_acknowledgement, TypeOK, ServiceState
    <3>3. svc'[t].acknowledged = FALSE /\ notified' = notified
      BY <1>0, <1>5, <2>1 DEF remove_service_acknowledgement, TypeOK, ServiceState
    <3>4. QED
      BY <1>0, <3>1, <3>2, <3>3 DEF Consistent
  <2>2. CASE t # s
    BY <1>0, <1>5, <2>2 DEF remove_service_acknowledgement, TypeOK
  <2>3. QED
    BY <2>1, <2>2
<1>6. ASSUME NEW s \in Services, NEW n \in MaxAttemptsValues, ChangeMaxAttempts(s, n)
      PROVE  Consistent(svc'[t]) /\ (svc'[t].current_state = STATE_OK => ~notified'[t])
  <2>1. CASE t = s
    <3>0. n \in Nat \ {0}
      BY ServiceChecksAssumption
    <3>1. /\ svc'[t].current_state = svc[t].current_state
          /\ svc'[t].last_hard_state = svc[t].last_hard_state
          /\ svc'[t].state_type = svc[t].state_type
          /\ svc'[t].current_attempt \in {svc[t].current_attempt, n}
          /\ svc[t].current_state = STATE_OK => svc'[t].current_attempt = svc[t].current_attempt
      BY <1>0, <1>6, <2>1 DEF ChangeMaxAttempts, TypeOK, ServiceState
    <3>2. /\ svc'[t].host_problem_at_last_check = svc[t].host_problem_at_last_check
          /\ svc'[t].problem_id = svc[t].problem_id
          /\ svc'[t].acknowledged = svc[t].acknowledged
          /\ notified' = notified
      BY <1>0, <1>6, <2>1 DEF ChangeMaxAttempts, TypeOK, ServiceState
    <3>3. svc'[t].current_attempt >= 1
      BY <1>0, <3>0, <3>1 DEF Consistent
    <3>4. QED
      BY <1>0, <3>1, <3>2, <3>3 DEF Consistent
  <2>2. CASE t # s
    BY <1>0, <1>6, <2>2 DEF ChangeMaxAttempts, TypeOK
  <2>3. QED
    BY <2>1, <2>2
<1>7. QED
  BY <1>1, <1>2, <1>3, <1>4, <1>5, <1>6, StateChanges

(* Unless skipped checks overwrite the state of a service, its fields hang  *)
(* together: StateConsistent, for all results, hosts and commands.          *)
THEOREM StatesAreConsistent ==
    SkipStatus \notin States => (Spec => []StateConsistent)
<1> SUFFICES ASSUME SkipStatus \notin States PROVE Spec => []StateConsistent
  OBVIOUS
<1>1. Init => StateConsistent
  BY InitConsistent
<1>2. TypeOK /\ StateConsistent /\ [Next]_vars => StateConsistent'
  BY StepConsistent
<1>3. QED
  BY <1>1, <1>2, ServiceTypeCorrect, PTL DEF Spec

-----------------------------------------------------------------------------
(* What a step may not do.                                                  *)

(* A change that no result makes: it leaves the type of the state and the   *)
(* last hard state alone.                                                   *)
OtherChange(s) ==
    \/ Overwritten(s)
    \/ \E type \in {"normal", "sticky"} : acknowledge_service_problem(s, type)
    \/ remove_service_acknowledgement(s)
    \/ \E n \in MaxAttemptsValues : ChangeMaxAttempts(s, n)

LEMMA OtherChangeKeeps ==
    ASSUME TypeOK, NEW s \in Services, OtherChange(s), NEW t \in Services
    PROVE  /\ svc'[t].state_type = svc[t].state_type
           /\ svc'[t].last_hard_state = svc[t].last_hard_state
           /\ calls' = calls /\ notified' = notified
<1>0. svc[t] \in ServiceState /\ svc[s] \in ServiceState
  BY DEF TypeOK
<1>1. CASE Overwritten(s)
  BY <1>0, <1>1 DEF Overwritten, TypeOK, ServiceState
<1>2. ASSUME NEW type, acknowledge_service_problem(s, type)
      PROVE  /\ svc'[t].state_type = svc[t].state_type
             /\ svc'[t].last_hard_state = svc[t].last_hard_state
             /\ calls' = calls /\ notified' = notified
  BY <1>0, <1>2 DEF acknowledge_service_problem, TypeOK, ServiceState
<1>3. CASE remove_service_acknowledgement(s)
  BY <1>0, <1>3 DEF remove_service_acknowledgement, TypeOK, ServiceState
<1>4. ASSUME NEW n, ChangeMaxAttempts(s, n)
      PROVE  /\ svc'[t].state_type = svc[t].state_type
             /\ svc'[t].last_hard_state = svc[t].last_hard_state
             /\ calls' = calls /\ notified' = notified
  BY <1>0, <1>4 DEF ChangeMaxAttempts, TypeOK, ServiceState
<1>5. QED
  BY <1>1, <1>2, <1>3, <1>4 DEF OtherChange

LEMMA HardProblemStep ==
    ASSUME TypeOK, [Next]_vars, NEW t \in Services,
           svc[t].state_type = "HARD", svc[t].current_state # STATE_OK,
           svc[t].current_attempt >= svc[t].max_attempts,
           svc'[t].current_state # STATE_OK
    PROVE  svc'[t].state_type = "HARD"
<1>0. svc[t] \in ServiceState
  BY DEF TypeOK
<1>1. CASE UNCHANGED <<svc, calls, notified>>
  BY <1>1
<1>2. ASSUME NEW s \in Services, NEW st \in States, NEW f \in BOOLEAN, Applied(s, st, f)
      PROVE  svc'[t].state_type = "HARD"
  <2>1. CASE t = s
    <3>1. svc'[t] = StateAfter(svc[t], st, hostUp) /\ hostUp \in BOOLEAN
      BY <1>2, <2>1 DEF Applied, TypeOK
    <3>2. svc'[t].current_state = st
      BY <1>0, <3>1, StateAfterConsistent
    <3>3. svc'[t] = ProblemResult(svc[t], st, hostUp)
      BY <3>1, <3>2 DEF StateAfter
    <3>4. ~Retrying(svc[t], hostUp)
      BY <1>0 DEF Retrying, ProblemAttempt, NextAttempt, ServiceState
    <3>5. QED
      BY <1>0, <3>1, <3>3, <3>4, ProblemResultFields
  <2>2. CASE t # s
    BY <1>2, <2>2 DEF Applied, TypeOK
  <2>3. QED
    BY <2>1, <2>2
<1>3. ASSUME NEW s \in Services, OtherChange(s)
      PROVE  svc'[t].state_type = "HARD"
  BY <1>3, OtherChangeKeeps
<1>4. QED
  BY <1>1, <1>2, <1>3, StateChanges DEF OtherChange

(* HardStaysHard, whatever the configuration.                               *)
THEOREM HardProblemsStayHard == Spec => HardStaysHard
<1>1. TypeOK /\ [Next]_vars =>
        [\A s \in Services :
           /\ svc[s].state_type = "HARD"
           /\ svc[s].current_state # STATE_OK
           /\ svc[s].current_attempt >= svc[s].max_attempts
           /\ svc'[s].current_state # STATE_OK
           => svc'[s].state_type = "HARD"]_vars
  BY HardProblemStep
<1>2. QED
  BY <1>1, ServiceTypeCorrect, PTL DEF Spec, HardStaysHard

(* A result that changes the last hard state has the event handler run.     *)
LEMMA HandlerCalled ==
    ASSUME NEW s \in Services, NEW v \in ServiceState, NEW st \in States, NEW up \in BOOLEAN,
           NEW f \in BOOLEAN, Consistent(v),
           StateAfter(v, st, up).last_hard_state # v.last_hard_state
    PROVE  "handler" \in CallsAfter(s, v, st, up, f)
<1>1. CASE st = STATE_OK
  <2>1. v.last_hard_state # STATE_OK
    BY <1>1 DEF StateAfter, OkResult, ServiceState
  <2>2. v.current_state # STATE_OK
    BY <2>1 DEF Consistent
  <2>3. QED
    BY <1>1, <2>2 DEF CallsAfter, OkCalls
<1>2. CASE st # STATE_OK
  <2> DEFINE w == ProblemResult(v, st, up)
  <2>1. w.last_hard_state # v.last_hard_state
    BY <1>2 DEF StateAfter
  <2>2. CASE ~Retrying(v, up)
    <3>1. st # v.last_hard_state
      BY <2>1, <2>2, ProblemResultFields
    <3>2. NextAttempt(v) >= v.max_attempts
      BY <2>2 DEF Retrying, ProblemAttempt, NextAttempt, Consistent, ServiceState
    <3>3. ProblemHardChange(v, st, up)
      BY <3>1, <3>2 DEF ProblemHardChange, HardChange
    <3>4. QED
      BY <1>2, <2>2, <3>3 DEF CallsAfter, ProblemCalls
  <2>3. CASE Retrying(v, up)
    <3>1. ~up /\ ProblemHardChange(v, st, up)
      BY <2>1, <2>3, ProblemResultFields
    <3>2. QED
      BY <1>2, <2>3, <3>1 DEF CallsAfter, ProblemCalls
  <2>4. QED
    BY <2>2, <2>3
<1>3. QED
  BY <1>1, <1>2

LEMMA HandlerStep ==
    ASSUME TypeOK, StateConsistent, [Next]_vars, NEW t \in Services,
           svc'[t].last_hard_state # svc[t].last_hard_state
    PROVE  "handler" \in calls'[t]
<1>1. ASSUME NEW s \in Services, NEW st \in States, NEW f \in BOOLEAN, Applied(s, st, f)
      PROVE  "handler" \in calls'[t]
  <2>1. t = s
    BY <1>1 DEF Applied, TypeOK
  <2>2. /\ svc'[t] = StateAfter(svc[t], st, hostUp)
        /\ calls'[t] = CallsAfter(t, svc[t], st, hostUp, f)
    BY <1>1, <2>1 DEF Applied, TypeOK
  <2>3. svc[t] \in ServiceState /\ hostUp \in BOOLEAN /\ Consistent(svc[t])
    BY DEF TypeOK, StateConsistent
  <2>4. QED
    BY <2>2, <2>3, HandlerCalled
<1>2. ASSUME NEW s \in Services, OtherChange(s) PROVE FALSE
  BY <1>2, OtherChangeKeeps
<1>3. QED
  BY <1>1, <1>2, StateChanges DEF OtherChange

(* HandlerTold, unless skipped checks overwrite the state of a service.     *)
THEOREM HandlersAreTold == SkipStatus \notin States => (Spec => HandlerTold)
<1> SUFFICES ASSUME SkipStatus \notin States PROVE Spec => HandlerTold
  OBVIOUS
<1>1. TypeOK /\ StateConsistent /\ [Next]_vars =>
        [\A s \in Services :
           svc'[s].last_hard_state # svc[s].last_hard_state => "handler" \in calls'[s]]_vars
  BY HandlerStep
<1>2. Spec => []StateConsistent
  BY StatesAreConsistent
<1>3. QED
  BY <1>1, <1>2, ServiceTypeCorrect, PTL DEF Spec, HandlerTold

-----------------------------------------------------------------------------
(* Recoveries.  A service whose contacts were notified is in a hard problem *)
(* that has made all of its attempts, so that an OK result is a hard change.*)

NotifiedInv ==
    \A s \in Services :
        /\ svc[s].max_attempts \in MaxAttemptsValues
        /\ notified[s] => /\ svc[s].current_state # STATE_OK
                          /\ svc[s].last_hard_state # STATE_OK
                          /\ svc[s].state_type = "HARD"
                          /\ svc[s].current_attempt >= svc[s].max_attempts

(* The number of attempts stays above one, or is never changed.             *)
AttemptsKept == "max_attempts" \in Commands => \A n \in MaxAttemptsValues : n >= 2

LEMMA StateAfterMaxAttempts ==
    ASSUME NEW v \in ServiceState, NEW st \in States, NEW up \in BOOLEAN
    PROVE  StateAfter(v, st, up).max_attempts = v.max_attempts
<1>1. OkResult(v).max_attempts = v.max_attempts
  BY DEF OkResult, ServiceState
<1>2. QED
  BY <1>1, ProblemResultFields DEF StateAfter

(* Contacts are notified of problems that have made all of their attempts.  *)
LEMMA NotifiedAfter ==
    ASSUME NEW s \in Services, NEW v \in ServiceState, NEW st \in States \ {STATE_OK},
           NEW up \in BOOLEAN, NEW f \in BOOLEAN,
           \/ "notify" \in CallsAfter(s, v, st, up, f)
           \/ v.state_type = "HARD" /\ v.current_attempt >= v.max_attempts
    PROVE  /\ StateAfter(v, st, up).last_hard_state = st
           /\ StateAfter(v, st, up).state_type = "HARD"
           /\ StateAfter(v, st, up).current_attempt >= v.max_attempts
<1>1. ~Retrying(v, up)
  <2>1. CASE "notify" \in CallsAfter(s, v, st, up, f)
    BY <2>1 DEF CallsAfter, ProblemCalls
  <2>2. CASE v.state_type = "HARD" /\ v.current_attempt >= v.max_attempts
    BY <2>2 DEF Retrying, ProblemAttempt, NextAttempt, ServiceState
  <2>3. QED
    BY <2>1, <2>2
<1>2. StateAfter(v, st, up) = ProblemResult(v, st, up)
  BY DEF StateAfter
<1>3. ProblemAttempt(v, up) >= v.max_attempts
  BY <1>1, NextAttemptType DEF Retrying, ServiceState
<1>4. QED
  BY <1>1, <1>2, <1>3, ProblemResultFields

LEMMA InitNotified ==
    ASSUME Init
    PROVE  NotifiedInv
<1> SUFFICES ASSUME NEW s \in Services
             PROVE  svc[s].max_attempts \in MaxAttemptsValues /\ ~notified[s]
  BY DEF NotifiedInv
<1>1. PICK st \in InitialStates, n \in MaxAttemptsValues :
        svc[s] = [current_state |-> st, last_hard_state |-> st, state_type |-> "HARD",
                  current_attempt |-> IF st = STATE_OK THEN 1 ELSE n, max_attempts |-> n,
                  host_problem_at_last_check |-> FALSE, problem_id |-> FALSE,
                  acknowledged |-> FALSE, ack_type |-> "none"]
  BY DEF Init
<1>2. svc[s].max_attempts = n
  BY <1>1
<1>3. ~notified[s]
  BY DEF Init
<1>4. QED
  BY <1>2, <1>3

LEMMA StepNotified ==
    ASSUME TypeOK, NotifiedInv, [Next]_vars, SkipStatus \notin States, AttemptsKept
    PROVE  NotifiedInv'
<1> DEFINE Good(w, b) ==
             /\ w.max_attempts \in MaxAttemptsValues
             /\ b => /\ w.current_state # STATE_OK /\ w.last_hard_state # STATE_OK
                     /\ w.state_type = "HARD" /\ w.current_attempt >= w.max_attempts
<1> SUFFICES ASSUME NEW t \in Services
             PROVE  Good(svc'[t], notified'[t])
  BY DEF NotifiedInv
<1>0. svc[t] \in ServiceState /\ hostUp \in BOOLEAN /\ Good(svc[t], notified[t])
  BY DEF NotifiedInv, TypeOK
<1>1. CASE UNCHANGED <<svc, calls, notified>>
  BY <1>0, <1>1
<1>2. ASSUME NEW s \in Services, NEW st \in States, NEW f \in BOOLEAN, Applied(s, st, f)
      PROVE  Good(svc'[t], notified'[t])
  <2>1. CASE t = s
    <3>1. /\ svc'[t] = StateAfter(svc[t], st, hostUp)
          /\ calls'[t] = CallsAfter(t, svc[t], st, hostUp, f)
          /\ notified'[t] = (st # STATE_OK /\ (notified[t] \/ "notify" \in calls'[t]))
      BY <1>2, <2>1 DEF Applied, TypeOK
    <3>2. svc'[t].max_attempts = svc[t].max_attempts /\ svc'[t].current_state = st
      BY <1>0, <3>1, StateAfterMaxAttempts, StateAfterConsistent
    <3>3. ASSUME notified'[t]
          PROVE  /\ svc'[t].last_hard_state = st /\ svc'[t].state_type = "HARD"
                 /\ svc'[t].current_attempt >= svc[t].max_attempts /\ st # STATE_OK
      <4>1. st # STATE_OK /\ (notified[t] \/ "notify" \in CallsAfter(t, svc[t], st, hostUp, f))
        BY <3>1, <3>3
      <4>2. \/ "notify" \in CallsAfter(t, svc[t], st, hostUp, f)
            \/ svc[t].state_type = "HARD" /\ svc[t].current_attempt >= svc[t].max_attempts
        BY <1>0, <4>1
      <4>3. QED
        BY <1>0, <3>1, <4>1, <4>2, NotifiedAfter
    <3>4. QED
      BY <1>0, <3>2, <3>3
  <2>2. CASE t # s
    BY <1>0, <1>2, <2>2 DEF Applied, TypeOK
  <2>3. QED
    BY <2>1, <2>2
<1>3. ASSUME NEW s \in Services, Overwritten(s) PROVE FALSE
  BY <1>3 DEF Overwritten
<1>4. ASSUME NEW s \in Services, NEW type, acknowledge_service_problem(s, type)
      PROVE  Good(svc'[t], notified'[t])
  <2>1. /\ svc'[t].current_state = svc[t].current_state
        /\ svc'[t].last_hard_state = svc[t].last_hard_state
        /\ svc'[t].state_type = svc[t].state_type
        /\ svc'[t].current_attempt = svc[t].current_attempt
        /\ svc'[t].max_attempts = svc[t].max_attempts
        /\ notified' = notified
    BY <1>0, <1>4 DEF acknowledge_service_problem, TypeOK, ServiceState
  <2>2. QED
    BY <1>0, <2>1
<1>5. ASSUME NEW s \in Services, remove_service_acknowledgement(s)
      PROVE  Good(svc'[t], notified'[t])
  <2>1. /\ svc'[t].current_state = svc[t].current_state
        /\ svc'[t].last_hard_state = svc[t].last_hard_state
        /\ svc'[t].state_type = svc[t].state_type
        /\ svc'[t].current_attempt = svc[t].current_attempt
        /\ svc'[t].max_attempts = svc[t].max_attempts
        /\ notified' = notified
    BY <1>0, <1>5 DEF remove_service_acknowledgement, TypeOK, ServiceState
  <2>2. QED
    BY <1>0, <2>1
<1>6. ASSUME "max_attempts" \in Commands,
             NEW s \in Services, NEW n \in MaxAttemptsValues, ChangeMaxAttempts(s, n)
      PROVE  Good(svc'[t], notified'[t])
  <2>0. n >= 2 /\ n \in Nat /\ svc[t].max_attempts >= 2
    BY <1>0, <1>6, ServiceChecksAssumption DEF AttemptsKept
  <2>1. CASE t = s
    <3>1. /\ svc'[t].current_state = svc[t].current_state
          /\ svc'[t].last_hard_state = svc[t].last_hard_state
          /\ svc'[t].state_type = svc[t].state_type
          /\ svc'[t].max_attempts = n
          /\ svc'[t].current_attempt =
               IF /\ svc[t].state_type = "HARD" /\ svc[t].current_state # STATE_OK
                  /\ svc[t].current_attempt > 1
               THEN n ELSE svc[t].current_attempt
          /\ notified' = notified
      BY <1>0, <1>6, <2>1 DEF ChangeMaxAttempts, TypeOK, ServiceState
    <3>2. notified[t] => svc[t].current_attempt > 1
      BY <1>0, <2>0 DEF ServiceState
    <3>3. QED
      BY <1>0, <2>0, <3>1, <3>2
  <2>2. CASE t # s
    BY <1>0, <1>6, <2>2 DEF ChangeMaxAttempts, TypeOK
  <2>3. QED
    BY <2>1, <2>2
<1>7. QED
  BY <1>1, <1>2, <1>3, <1>4, <1>5, <1>6, StateChanges

LEMMA RecoveryStep ==
    ASSUME TypeOK, NotifiedInv, [Next]_vars, SkipStatus \notin States,
           NEW t \in Services, notified[t], svc'[t].current_state = STATE_OK
    PROVE  "notify" \in calls'[t]
<1>0. /\ svc[t] \in ServiceState /\ hostUp \in BOOLEAN
      /\ svc[t].current_state # STATE_OK /\ svc[t].last_hard_state # STATE_OK
      /\ svc[t].state_type = "HARD" /\ svc[t].current_attempt >= svc[t].max_attempts
  BY DEF NotifiedInv, TypeOK
<1>1. ASSUME NEW s \in Services, NEW st \in States, NEW f \in BOOLEAN, Applied(s, st, f)
      PROVE  "notify" \in calls'[t]
  <2>1. t = s
    BY <1>0, <1>1 DEF Applied, TypeOK
  <2>2. /\ svc'[t] = StateAfter(svc[t], st, hostUp)
        /\ calls'[t] = CallsAfter(t, svc[t], st, hostUp, f)
    BY <1>1, <2>1 DEF Applied, TypeOK
  <2>3. st = STATE_OK
    BY <1>0, <2>2, StateAfterConsistent
  <2>4. HardChange(svc[t], STATE_OK)
    BY <1>0 DEF HardChange, NextAttempt, ServiceState
  <2>5. QED
    BY <2>2, <2>3, <2>4 DEF CallsAfter, OkCalls
<1>2. ASSUME NEW s \in Services, Overwritten(s) PROVE FALSE
  BY <1>2 DEF Overwritten
<1>3. ASSUME NEW s \in Services,
             \/ \E type \in {"normal", "sticky"} : acknowledge_service_problem(s, type)
             \/ remove_service_acknowledgement(s)
             \/ \E n \in MaxAttemptsValues : ChangeMaxAttempts(s, n)
      PROVE  svc'[t].current_state = svc[t].current_state
  <2>1. ASSUME NEW type, acknowledge_service_problem(s, type)
        PROVE  svc'[t].current_state = svc[t].current_state
    BY <1>0, <2>1 DEF acknowledge_service_problem, TypeOK, ServiceState
  <2>2. ASSUME remove_service_acknowledgement(s)
        PROVE  svc'[t].current_state = svc[t].current_state
    BY <1>0, <2>2 DEF remove_service_acknowledgement, TypeOK, ServiceState
  <2>3. ASSUME NEW n, ChangeMaxAttempts(s, n)
        PROVE  svc'[t].current_state = svc[t].current_state
    BY <1>0, <2>3 DEF ChangeMaxAttempts, TypeOK, ServiceState
  <2>4. QED
    BY <1>3, <2>1, <2>2, <2>3
<1>4. QED
  BY <1>0, <1>1, <1>2, <1>3, StateChanges

(* RecoveryNotified, if the numbers of attempts that the command may set    *)
(* are above one, or are not changed at all; with a number of one the run   *)
(* service_max_attempts shows that a recovery can be missed.                *)
THEOREM RecoveriesAreNotified ==
    SkipStatus \notin States /\ AttemptsKept => (Spec => RecoveryNotified)
<1> SUFFICES ASSUME SkipStatus \notin States, AttemptsKept PROVE Spec => RecoveryNotified
  OBVIOUS
<1>1. Init => NotifiedInv
  BY InitNotified
<1>2. TypeOK /\ NotifiedInv /\ [Next]_vars => NotifiedInv'
  BY StepNotified
<1>3. TypeOK /\ NotifiedInv /\ [Next]_vars =>
        [\A s \in Services :
           notified[s] /\ svc'[s].current_state = STATE_OK => "notify" \in calls'[s]]_vars
  BY RecoveryStep
<1>4. QED
  BY <1>1, <1>2, <1>3, ServiceTypeCorrect, PTL DEF Spec, RecoveryNotified

-----------------------------------------------------------------------------
(* The count of running checks.  It is at least the number of checks that   *)
(* run and of the services that are left executing by a lost result; a      *)
(* service whose check still runs is not overdue, as the worker ends the    *)
(* check within its timeout, so the orphan handler takes lost checks only.  *)

Pairs(js) == UNION {{<<s, j>> : j \in js[s]} : s \in Services}
Unforced(js) == [s \in Services |-> {k \in js[s] : "force" \notin k.check_options}]
Abandoned(c, js) == {s \in Services : c[s].is_executing /\ js[s] = {}}

(* No next check is further back than the start of a check that runs.       *)
OnTime(c, js) ==
    \A s \in Services :
        /\ c[s].event => c[s].next_check >= 0
        /\ \A j \in js[s] : j.age <= Timeout /\ -j.age <= c[s].next_check

CountInv ==
    /\ IsFiniteSet(Pairs(jobs))
    /\ Cardinality(Pairs(jobs)) + Cardinality(Abandoned(sched, jobs)) <= running
    /\ OnTime(sched, jobs)
    /\ MaxParallel # 0 => Cardinality(Pairs(Unforced(jobs))) <= MaxParallel

LEMMA PairsMember ==
    ASSUME NEW js, NEW p
    PROVE  p \in Pairs(js) <=> \E s \in Services : \E j \in js[s] : p = <<s, j>>
BY DEF Pairs

LEMMA UnforcedPairs ==
    ASSUME NEW js
    PROVE  /\ Pairs(Unforced(js)) \subseteq Pairs(js)
           /\ \A p : p \in Pairs(Unforced(js)) <=>
                \E s \in Services : \E j \in js[s] : p = <<s, j>> /\ "force" \notin j.check_options
<1>1. \A s \in Services : \A j : j \in Unforced(js)[s] <=> j \in js[s] /\ "force" \notin j.check_options
  BY DEF Unforced
<1>2. QED
  BY <1>1, PairsMember

LEMMA AbandonedFinite ==
    ASSUME NEW c, NEW js
    PROVE  IsFiniteSet(Abandoned(c, js)) /\ Cardinality(Abandoned(c, js)) \in Nat
<1>1. Abandoned(c, js) \subseteq Services
  BY DEF Abandoned
<1>2. QED
  BY <1>1, ServiceChecksAssumption, FS_Subset, FS_CardinalityType

(* A schedule changed so that it lets go of no running check.               *)
Later(c, d) ==
    /\ d.event => d.next_check >= 0
    /\ d.next_check = c.next_check \/ d.next_check >= 0
    /\ d.is_executing => c.is_executing

LEMMA ScheduleNextLater ==
    ASSUME NEW c \in Schedule, NEW d \in Schedule, NEW delay \in Nat, NEW options, Later(c, d)
    PROVE  Later(c, schedule_next_service_check(d, delay, options))
BY DEF schedule_next_service_check, Schedule, Later

LEMMA SlotKept ==
    ASSUME TypeOK, CountInv, TypeOK',
           \A s \in Services : jobs'[s] \subseteq jobs[s] /\ Later(sched[s], sched'[s]),
           IF jobs' = jobs THEN running' = running
           ELSE \E s \in Services : \E j \in jobs[s] :
                  /\ jobs' = [jobs EXCEPT ![s] = @ \ {j}]
                  /\ \/ running' = running
                     \/ ~sched'[s].is_executing /\ running' = IF running > 0 THEN running - 1 ELSE 0
    PROVE  CountInv'
<1> DEFINE P == Pairs(jobs)
           Q == Pairs(jobs')
           A == Abandoned(sched, jobs)
           B == Abandoned(sched', jobs')
<1>1. OnTime(sched', jobs')
  <2> SUFFICES ASSUME NEW s \in Services
               PROVE  /\ sched'[s].event => sched'[s].next_check >= 0
                      /\ \A j \in jobs'[s] : j.age <= Timeout /\ -j.age <= sched'[s].next_check
    BY DEF OnTime
  <2>1. Later(sched[s], sched'[s]) /\ sched[s] \in Schedule /\ sched'[s] \in Schedule
    BY DEF TypeOK
  <2>2. \A j \in jobs'[s] : j \in Job /\ j.age <= Timeout /\ -j.age <= sched[s].next_check
    BY DEF CountInv, OnTime, TypeOK
  <2>3. QED
    BY <2>1, <2>2 DEF Later, Job, Schedule
<1>2. Q \subseteq P /\ Pairs(Unforced(jobs')) \subseteq Pairs(Unforced(jobs))
  BY PairsMember, UnforcedPairs
<1>3. /\ IsFiniteSet(P) /\ IsFiniteSet(Q) /\ IsFiniteSet(Pairs(Unforced(jobs)))
      /\ Cardinality(P) \in Nat /\ Cardinality(Q) \in Nat
  BY <1>2, UnforcedPairs, FS_Subset, FS_CardinalityType DEF CountInv
<1>4. MaxParallel # 0 => Cardinality(Pairs(Unforced(jobs'))) <= MaxParallel
  <2>1. /\ Cardinality(Pairs(Unforced(jobs'))) <= Cardinality(Pairs(Unforced(jobs)))
        /\ Cardinality(Pairs(Unforced(jobs))) \in Nat
        /\ Cardinality(Pairs(Unforced(jobs'))) \in Nat
    BY <1>2, <1>3, FS_Subset, FS_CardinalityType
  <2>2. QED
    BY <2>1, ServiceChecksAssumption DEF CountInv
<1>5. IsFiniteSet(A) /\ IsFiniteSet(B) /\ Cardinality(A) \in Nat /\ Cardinality(B) \in Nat
  BY AbandonedFinite
<1>6. running \in Nat /\ Cardinality(P) + Cardinality(A) <= running
  BY DEF CountInv, TypeOK
<1>7. Cardinality(Q) + Cardinality(B) <= running'
  <2>1. CASE jobs' = jobs
    <3>1. B \subseteq A /\ Q = P
      BY <2>1 DEF Abandoned, Later
    <3>2. Cardinality(B) <= Cardinality(A)
      BY <3>1, <1>5, FS_Subset
    <3>3. QED
      BY <2>1, <3>1, <3>2, <1>3, <1>5, <1>6
  <2>2. CASE jobs' # jobs
    <3>0. PICK s \in Services : \E j \in jobs[s] :
            /\ jobs' = [jobs EXCEPT ![s] = @ \ {j}]
            /\ \/ running' = running
               \/ ~sched'[s].is_executing /\ running' = IF running > 0 THEN running - 1 ELSE 0
      BY <2>2
    <3>1. PICK j \in jobs[s] :
            /\ jobs' = [jobs EXCEPT ![s] = @ \ {j}]
            /\ \/ running' = running
               \/ ~sched'[s].is_executing /\ running' = IF running > 0 THEN running - 1 ELSE 0
      BY <3>0
    <3>2. <<s, j>> \in P /\ Q \subseteq P \ {<<s, j>>}
      <4>1. \A t \in Services : jobs'[t] = IF t = s THEN jobs[t] \ {j} ELSE jobs[t]
        BY <3>1 DEF TypeOK
      <4>2. <<s, j>> \in P
        BY PairsMember
      <4>3. ASSUME NEW p \in Q PROVE p \in P /\ p # <<s, j>>
        <5>1. PICK t \in Services : \E k \in jobs'[t] : p = <<t, k>>
          BY <4>3, PairsMember
        <5>2. PICK k \in jobs'[t] : p = <<t, k>>
          BY <5>1
        <5>3. ~(t = s /\ k = j)
          BY <4>1, <5>2
        <5>4. QED
          BY <5>2, <5>3, <4>3, <1>2
      <4>4. QED
        BY <4>2, <4>3
    <3>3. Cardinality(Q) <= Cardinality(P) - 1
      <4> DEFINE R == P \ {<<s, j>>}
      <4>1. IsFiniteSet(R) /\ Cardinality(R) = Cardinality(P) - 1
        BY <3>2, <1>3, FS_RemoveElement
      <4>2. Q \in SUBSET R
        BY <3>2
      <4> HIDE DEF R, P, Q
      <4>3. QED
        BY <4>1, <4>2, FS_Subset
    <3>4. s \notin A /\ B \subseteq A \cup {s}
      BY <3>1 DEF Abandoned, Later, TypeOK
    <3>5. Cardinality(B) <= Cardinality(A) + 1
      <4> DEFINE R == A \cup {s}
      <4>1. IsFiniteSet(R) /\ Cardinality(R) = Cardinality(A) + 1
        BY <3>4, <1>5, FS_AddElement
      <4>2. B \in SUBSET R
        BY <3>4
      <4> HIDE DEF R, A, B
      <4>3. QED
        BY <4>1, <4>2, FS_Subset
    <3>6. CASE running' = running
      BY <3>3, <3>5, <3>6, <1>3, <1>5, <1>6
    <3>7. CASE ~sched'[s].is_executing /\ running' = IF running > 0 THEN running - 1 ELSE 0
      <4>1. B \subseteq A
        BY <3>4, <3>7 DEF Abandoned
      <4>2. Cardinality(B) <= Cardinality(A)
        BY <4>1, <1>5, FS_Subset
      <4>3. running > 0
        BY <3>3, <1>3, <1>5, <1>6
      <4>4. QED
        BY <3>3, <3>7, <4>2, <4>3, <1>3, <1>5, <1>6
    <3>8. QED
      BY <3>1, <3>6, <3>7
  <2>3. QED
    BY <2>1, <2>2
<1>8. QED
  BY <1>1, <1>3, <1>4, <1>7 DEF CountInv

(* A check that is started takes a slot of its own, and one that was not    *)
(* forced finds the limit not reached.                                      *)
LEMMA SlotTaken ==
    ASSUME TypeOK, CountInv, TypeOK', NEW s \in Services, NEW options,
           Started(s, options), "force" \in options \/ ~MaxedOut,
           \A t \in Services \ {s} : sched'[t] = sched[t],
           sched'[s].event => sched'[s].next_check >= 0,
           sched'[s].next_check >= 0
    PROVE  CountInv'
<1> DEFINE P == Pairs(jobs)
           Q == Pairs(jobs')
           U == Pairs(Unforced(jobs))
           V == Pairs(Unforced(jobs'))
           A == Abandoned(sched, jobs)
           B == Abandoned(sched', jobs')
           slot == CHOOSE n \in {m \in 1..MaxOutstanding : \A k \in jobs[s] : k.n # m} : TRUE
           j == [n |-> slot, age |-> 0, check_options |-> options]
<1>1. jobs' = [jobs EXCEPT ![s] = @ \cup {j}] /\ running' = running + 1
  BY DEF Started
<1>2. /\ jobs'[s] = jobs[s] \cup {j}
      /\ \A t \in Services \ {s} : jobs'[t] = jobs[t]
  BY <1>1 DEF TypeOK
<1>3. j.age = 0 /\ j.check_options = options
  OBVIOUS
<1> HIDE DEF j
<1>4. OnTime(sched', jobs')
  <2> SUFFICES ASSUME NEW t \in Services
               PROVE  /\ sched'[t].event => sched'[t].next_check >= 0
                      /\ \A k \in jobs'[t] : k.age <= Timeout /\ -k.age <= sched'[t].next_check
    BY DEF OnTime
  <2>1. CASE t # s
    BY <2>1, <1>2 DEF CountInv, OnTime
  <2>2. CASE t = s
    <3>1. \A k \in jobs[s] : k \in Job /\ k.age <= Timeout
      BY DEF CountInv, OnTime, TypeOK
    <3>2. sched'[s].next_check \in Int
      BY DEF TypeOK, Schedule
    <3>3. Timeout \in Nat
      BY ServiceChecksAssumption
    <3>4. QED
      BY <2>2, <3>1, <3>2, <3>3, <1>2, <1>3 DEF Job
  <2>3. QED
    BY <2>1, <2>2
<1>5. Q \in SUBSET (P \cup {<<s, j>>})
  BY <1>2, PairsMember
<1>6. V \in SUBSET (U \cup {<<s, j>>}) /\ ("force" \in options => V \in SUBSET U)
  BY <1>2, <1>3, UnforcedPairs
<1>7. U \in SUBSET P
  BY UnforcedPairs
<1>8. /\ B \in SUBSET A
      /\ IsFiniteSet(A) /\ Cardinality(A) \in Nat /\ Cardinality(B) \in Nat
  BY <1>2, AbandonedFinite DEF Abandoned
<1>9. running \in Nat /\ IsFiniteSet(P) /\ Cardinality(P) + Cardinality(A) <= running
  BY DEF CountInv, TypeOK
<1>10. (MaxParallel # 0 => Cardinality(U) <= MaxParallel) /\ MaxParallel \in Nat
  BY ServiceChecksAssumption DEF CountInv
<1>11. MaxParallel # 0 /\ "force" \notin options => running < MaxParallel
  BY <1>9, <1>10 DEF MaxedOut
<1> HIDE DEF P, Q, U, V, A, B
<1>12. /\ IsFiniteSet(Q) /\ Cardinality(Q) \in Nat /\ Cardinality(P) \in Nat
       /\ Cardinality(Q) <= Cardinality(P) + 1
  <2>1. /\ IsFiniteSet(P \cup {<<s, j>>})
        /\ Cardinality(P \cup {<<s, j>>}) <= Cardinality(P) + 1
        /\ Cardinality(P) \in Nat /\ Cardinality(P \cup {<<s, j>>}) \in Nat
    <3>1. IsFiniteSet(P \cup {<<s, j>>}) /\ Cardinality(P) \in Nat
      BY <1>9, FS_AddElement, FS_CardinalityType
    <3>2. Cardinality(P \cup {<<s, j>>}) =
            IF <<s, j>> \in P THEN Cardinality(P) ELSE Cardinality(P) + 1
      BY <1>9, FS_AddElement
    <3>3. QED
      BY <3>1, <3>2
  <2>2. IsFiniteSet(Q) /\ Cardinality(Q) <= Cardinality(P \cup {<<s, j>>})
    BY <1>5, <2>1, FS_Subset
  <2>3. QED
    BY <2>1, <2>2, FS_CardinalityType
<1>13. /\ IsFiniteSet(V) /\ Cardinality(V) \in Nat /\ Cardinality(U) \in Nat
       /\ Cardinality(U) <= Cardinality(P)
       /\ Cardinality(V) <= Cardinality(U) + 1
       /\ "force" \in options => Cardinality(V) <= Cardinality(U)
  <2>0. IsFiniteSet(U) /\ Cardinality(U) \in Nat /\ Cardinality(U) <= Cardinality(P)
    BY <1>7, <1>9, FS_Subset, FS_CardinalityType
  <2>1. /\ IsFiniteSet(U \cup {<<s, j>>})
        /\ Cardinality(U \cup {<<s, j>>}) <= Cardinality(U) + 1
        /\ Cardinality(U \cup {<<s, j>>}) \in Nat
    <3>1. IsFiniteSet(U \cup {<<s, j>>}) /\ Cardinality(U) \in Nat
      BY <2>0, FS_AddElement, FS_CardinalityType
    <3>2. Cardinality(U \cup {<<s, j>>}) =
            IF <<s, j>> \in U THEN Cardinality(U) ELSE Cardinality(U) + 1
      BY <2>0, FS_AddElement
    <3>3. QED
      BY <3>1, <3>2
  <2>2. IsFiniteSet(V) /\ Cardinality(V) <= Cardinality(U \cup {<<s, j>>})
    BY <1>6, <2>1, FS_Subset
  <2>3. "force" \in options => Cardinality(V) <= Cardinality(U)
    BY <1>6, <2>0, FS_Subset
  <2>4. QED
    BY <2>0, <2>1, <2>2, <2>3, FS_CardinalityType
<1>14. Cardinality(B) <= Cardinality(A)
  BY <1>8, FS_Subset
<1>15. Cardinality(Q) + Cardinality(B) <= running'
  BY <1>1, <1>8, <1>9, <1>12, <1>14
<1>16. MaxParallel # 0 => Cardinality(V) <= MaxParallel
  BY <1>8, <1>9, <1>10, <1>11, <1>12, <1>13
<1>17. QED
  BY <1>4, <1>12, <1>15, <1>16 DEF CountInv, P, Q, U, V, A, B

(* An overdue service has no check that runs, since checks end in time.     *)
LEMMA OrphanedHasNoJob ==
    ASSUME TypeOK, CountInv, NEW s \in Services, Orphaned(s)
    PROVE  s \in Abandoned(sched, jobs)
<1>1. sched[s] \in Schedule /\ sched[s].is_executing /\ sched[s].next_check + OrphanSlack < 0
  BY DEF TypeOK, Orphaned
<1>2. Timeout \in Nat /\ OrphanSlack \in Nat /\ OrphanSlack >= Timeout
  BY ServiceChecksAssumption
<1>3. ASSUME NEW j \in jobs[s] PROVE FALSE
  <2>1. j.age \in Nat /\ j.age <= Timeout /\ -j.age <= sched[s].next_check
    BY <1>3 DEF CountInv, OnTime, TypeOK, Job
  <2>2. QED
    BY <1>1, <1>2, <2>1 DEF Schedule
<1>4. QED
  BY <1>1, <1>3 DEF Abandoned

LEMMA SlotOrphans ==
    ASSUME TypeOK, CountInv, TypeOK', check_for_orphaned_services
    PROVE  CountInv'
<1> DEFINE P == Pairs(jobs)
           A == Abandoned(sched, jobs)
           B == Abandoned(sched', jobs)
           O == {s \in Services : Orphaned(s)}
<1>1. jobs' = jobs /\ running' = IF running > Cardinality(O) THEN running - Cardinality(O) ELSE 0
  BY DEF check_for_orphaned_services
<1>2. \A s \in Services : /\ Later(sched[s], sched'[s])
                          /\ Orphaned(s) => ~sched'[s].is_executing
  <2> SUFFICES ASSUME NEW s \in Services
               PROVE  Later(sched[s], sched'[s]) /\ (Orphaned(s) => ~sched'[s].is_executing)
    OBVIOUS
  <2>1. sched[s] \in Schedule /\ (sched[s].event => sched[s].next_check >= 0)
    BY DEF TypeOK, CountInv, OnTime
  <2>2. CASE Orphaned(s)
    <3> DEFINE c == [sched[s] EXCEPT !.is_executing = FALSE]
    <3>1. /\ c \in Schedule /\ c.event = sched[s].event /\ c.next_check = sched[s].next_check
          /\ c.is_executing = FALSE
      BY <2>1 DEF Schedule
    <3>2. sched'[s] = schedule_next_service_check(c, 0, {})
      BY <2>2 DEF check_for_orphaned_services
    <3> HIDE DEF c
    <3>3. Later(sched[s], c)
      BY <2>1, <3>1 DEF Later
    <3>4. ~schedule_next_service_check(c, 0, {}).is_executing
      BY <3>1 DEF schedule_next_service_check, Schedule
    <3>5. QED
      BY <2>1, <3>1, <3>2, <3>3, <3>4, ScheduleNextLater
  <2>3. CASE ~Orphaned(s)
    <3>1. sched'[s] = sched[s]
      BY <2>3 DEF check_for_orphaned_services
    <3>2. QED
      BY <2>1, <2>3, <3>1 DEF Later
  <2>4. QED
    BY <2>2, <2>3
<1>3. O \in SUBSET A /\ B \in SUBSET (A \ O)
  BY <1>2, OrphanedHasNoJob DEF Abandoned, Later
<1>4. OnTime(sched', jobs)
  <2> SUFFICES ASSUME NEW s \in Services
               PROVE  /\ sched'[s].event => sched'[s].next_check >= 0
                      /\ \A j \in jobs[s] : j.age <= Timeout /\ -j.age <= sched'[s].next_check
    BY DEF OnTime
  <2>1. Later(sched[s], sched'[s]) /\ sched[s] \in Schedule /\ sched'[s] \in Schedule
    BY <1>2 DEF TypeOK
  <2>2. \A j \in jobs[s] : j \in Job /\ j.age <= Timeout /\ -j.age <= sched[s].next_check
    BY DEF CountInv, OnTime, TypeOK
  <2>3. QED
    BY <2>1, <2>2 DEF Later, Job, Schedule
<1>5. /\ running \in Nat /\ IsFiniteSet(P) /\ Cardinality(P) + Cardinality(A) <= running
      /\ Cardinality(P) \in Nat
  BY FS_CardinalityType DEF CountInv, TypeOK
<1>6. IsFiniteSet(A) /\ Cardinality(A) \in Nat /\ Cardinality(B) \in Nat
  BY AbandonedFinite
<1> HIDE DEF P, A, B, O
<1>7. A \cap O = O
  BY <1>3
<1>8. /\ IsFiniteSet(O) /\ Cardinality(O) \in Nat /\ IsFiniteSet(A \ O)
      /\ Cardinality(A \ O) = Cardinality(A) - Cardinality(O)
  BY <1>3, <1>6, <1>7, FS_Subset, FS_Difference, FS_CardinalityType
<1>9. Cardinality(B) <= Cardinality(A) - Cardinality(O)
  BY <1>3, <1>8, FS_Subset
<1>10. Cardinality(P) + Cardinality(B) <= running'
  BY <1>1, <1>5, <1>6, <1>8, <1>9
<1>11. MaxParallel # 0 => Cardinality(Pairs(Unforced(jobs))) <= MaxParallel
  BY DEF CountInv
<1>12. QED
  BY <1>1, <1>4, <1>5, <1>10, <1>11 DEF CountInv, P, B

Older(j) == [j EXCEPT !.age = @ + 1]

LEMMA OlderPairs ==
    ASSUME NEW js, NEW ks, IsFiniteSet(Pairs(js)),
           \A s \in Services : ks[s] = {Older(j) : j \in js[s]}
    PROVE  IsFiniteSet(Pairs(ks)) /\ Cardinality(Pairs(ks)) <= Cardinality(Pairs(js))
<1> DEFINE P == Pairs(js)
           Q == Pairs(ks)
           f == [p \in P |-> <<p[1], Older(p[2])>>]
<1>1. \A p \in P : f[p] \in Q
  <2> SUFFICES ASSUME NEW p \in P PROVE f[p] \in Q
    OBVIOUS
  <2>1. PICK s \in Services : \E j \in js[s] : p = <<s, j>>
    BY PairsMember
  <2>2. PICK j \in js[s] : p = <<s, j>>
    BY <2>1
  <2>3. f[p] = <<s, Older(j)>> /\ Older(j) \in ks[s]
    BY <2>2
  <2>4. QED
    BY <2>3, PairsMember
<1>2. \A q \in Q : \E p \in P : f[p] = q
  <2> SUFFICES ASSUME NEW q \in Q PROVE \E p \in P : f[p] = q
    OBVIOUS
  <2>1. PICK s \in Services : \E k \in ks[s] : q = <<s, k>>
    BY PairsMember
  <2>2. PICK j \in js[s] : q = <<s, Older(j)>>
    BY <2>1
  <2>3. <<s, j>> \in P
    BY PairsMember
  <2>4. f[<<s, j>>] = q
    BY <2>2, <2>3
  <2>5. QED
    BY <2>3, <2>4
<1>3. f \in Surjection(P, Q)
  <2>1. f \in [P -> Q]
    BY <1>1
  <2> HIDE DEF f, P, Q
  <2>2. QED
    BY <1>2, <2>1 DEF Surjection
<1> HIDE DEF f, P, Q
<1>4. IsFiniteSet(P)
  BY DEF P
<1>5. IsFiniteSet(Q) /\ Cardinality(Q) <= Cardinality(P)
  BY <1>3, <1>4, FS_Surjection
<1>6. QED
  BY <1>5 DEF P, Q

LEMMA SlotTick ==
    ASSUME TypeOK, CountInv, TypeOK', Tick
    PROVE  CountInv'
<1>1. /\ \A s \in Services : jobs'[s] = {Older(j) : j \in jobs[s]}
      /\ running' = running
  BY DEF Tick, Older
<1>2. \A s \in Services :
        /\ sched'[s].event = sched[s].event /\ sched'[s].is_executing = sched[s].is_executing
        /\ sched'[s].next_check = Earlier(sched[s].next_check, OldestNextCheck)
  <2> SUFFICES ASSUME NEW s \in Services
               PROVE  /\ sched'[s].event = sched[s].event
                      /\ sched'[s].is_executing = sched[s].is_executing
                      /\ sched'[s].next_check = Earlier(sched[s].next_check, OldestNextCheck)
    OBVIOUS
  <2>1. sched'[s] = [sched[s] EXCEPT !.next_check = Earlier(@, OldestNextCheck),
                                     !.last_check = Earlier(@, OldestLastCheck(s))]
    BY DEF Tick
  <2>2. sched[s] \in Schedule
    BY DEF TypeOK
  <2>3. QED
    BY <2>1, <2>2 DEF Schedule
<1>3. \A s \in Services : \A j \in jobs[s] :
        Older(j).age = j.age + 1 /\ Older(j).check_options = j.check_options
  BY DEF TypeOK, Job, Older
<1>4. OnTime(sched', jobs')
  <2> SUFFICES ASSUME NEW s \in Services
               PROVE  /\ sched'[s].event => sched'[s].next_check >= 0
                      /\ \A k \in jobs'[s] : k.age <= Timeout /\ -k.age <= sched'[s].next_check
    BY DEF OnTime
  <2>1. /\ sched[s].next_check \in Int /\ OldestNextCheck \in Int /\ OldestNextCheck < 0
        /\ Timeout \in Nat
    <3>1. OrphanSlack \in Nat /\ Timeout \in Nat
      BY ServiceChecksAssumption
    <3>2. sched[s].next_check \in Int
      BY DEF TypeOK, Schedule
    <3>3. QED
      BY <3>1, <3>2 DEF OldestNextCheck
  <2>2. sched[s].event => sched[s].next_check > 0
    <3>1. ~(sched[s].event /\ sched[s].next_check <= 0)
      BY DEF Tick
    <3>2. QED
      BY <2>1, <3>1
  <2>3. sched'[s].event => sched'[s].next_check >= 0
    BY <1>2, <2>1, <2>2 DEF Earlier
  <2>4. ASSUME NEW k \in jobs'[s]
        PROVE  k.age <= Timeout /\ -k.age <= sched'[s].next_check
    <3>1. PICK j \in jobs[s] : k = Older(j)
      BY <2>4, <1>1
    <3>2. j.age \in Nat /\ -j.age <= sched[s].next_check /\ j.age < Timeout
      <4>1. j.age \in Nat
        BY DEF TypeOK, Job
      <4>2. -j.age <= sched[s].next_check
        BY DEF CountInv, OnTime
      <4>3. j.age < Timeout
        BY DEF Tick
      <4>4. QED
        BY <4>1, <4>2, <4>3
    <3>3. QED
      BY <1>2, <1>3, <2>1, <3>1, <3>2 DEF Earlier
  <2>5. QED
    BY <2>3, <2>4
<1>5. /\ IsFiniteSet(Pairs(jobs')) /\ Cardinality(Pairs(jobs')) <= Cardinality(Pairs(jobs))
  BY <1>1, OlderPairs DEF CountInv
<1>6. \A s \in Services : Unforced(jobs')[s] = {Older(j) : j \in Unforced(jobs)[s]}
  BY <1>1, <1>3 DEF Unforced
<1>7. IsFiniteSet(Pairs(Unforced(jobs)))
  BY UnforcedPairs, FS_Subset DEF CountInv
<1>8. /\ IsFiniteSet(Pairs(Unforced(jobs')))
      /\ Cardinality(Pairs(Unforced(jobs'))) <= Cardinality(Pairs(Unforced(jobs)))
  BY <1>6, <1>7, OlderPairs
<1>9. MaxParallel # 0 => Cardinality(Pairs(Unforced(jobs'))) <= MaxParallel
  <2>1. /\ Cardinality(Pairs(Unforced(jobs))) \in Nat /\ Cardinality(Pairs(Unforced(jobs'))) \in Nat
        /\ MaxParallel \in Nat
    BY <1>7, <1>8, FS_CardinalityType, ServiceChecksAssumption
  <2>2. QED
    BY <1>8, <2>1 DEF CountInv
<1>10. Abandoned(sched', jobs') = Abandoned(sched, jobs)
  BY <1>1, <1>2 DEF Abandoned
<1>11. Cardinality(Pairs(jobs')) + Cardinality(Abandoned(sched', jobs')) <= running'
  <2>1. /\ Cardinality(Pairs(jobs)) \in Nat /\ Cardinality(Pairs(jobs')) \in Nat
        /\ Cardinality(Abandoned(sched, jobs)) \in Nat
    BY <1>5, FS_CardinalityType, AbandonedFinite DEF CountInv
  <2>2. running \in Nat /\ Cardinality(Pairs(jobs)) + Cardinality(Abandoned(sched, jobs)) <= running
    BY DEF CountInv, TypeOK
  <2>3. QED
    BY <1>1, <1>5, <1>10, <2>1, <2>2
<1>12. QED
  BY <1>4, <1>5, <1>9, <1>11 DEF CountInv

(* What a result does to the schedules lets go of no running check.         *)
LEMMA ScheduleAfterLater ==
    ASSUME NEW s \in Services, NEW b \in Schedule, NEW c \in Schedule, NEW v, NEW st, NEW up,
           NEW start \in Int, Later(b, c)
    PROVE  Later(b, ScheduleAfter(s, c, v, st, up, start))
<1> DEFINE checked == [c EXCEPT !.last_check = start, !.has_been_checked = TRUE]
           retried == IF st # STATE_OK /\ Retrying(v, up) /\ up /\ RetryInterval[s] # 0
                      THEN schedule_next_service_check(checked, RetryInterval[s], {"postpone"})
                      ELSE checked
<1>1. RetryInterval[s] \in Nat /\ CheckInterval[s] \in Nat
  BY ServiceChecksAssumption
<1>2. checked \in Schedule /\ Later(b, checked)
  BY DEF Schedule, Later
<1> HIDE DEF checked
<1>3. retried \in Schedule /\ Later(b, retried)
  BY <1>1, <1>2, ScheduleNextType, ScheduleNextLater
<1>4. ScheduleAfter(s, c, v, st, up, start) =
        IF ~retried.event /\ CheckInterval[s] # 0
        THEN schedule_next_service_check(retried, CheckInterval[s], {}) ELSE retried
  BY DEF ScheduleAfter, checked
<1> HIDE DEF retried
<1>5. QED
  BY <1>1, <1>3, <1>4, ScheduleNextLater

LEMMA ProcessResultLater ==
    ASSUME TypeOK, CountInv, NEW s \in Services, NEW st, NEW start \in Int, NEW c \in Schedule,
           NEW flexStarts, Later(sched[s], c), ProcessResult(s, st, start, c, flexStarts)
    PROVE  /\ \A t \in Services : Later(sched[t], sched'[t])
           /\ sched'[s].is_executing => c.is_executing
<1> DEFINE own == ScheduleAfter(s, c, svc[s], st, hostUp, start)
           base(t) == IF t = s THEN own ELSE sched[t]
<1>1. own \in Schedule /\ Later(sched[s], own) /\ Later(c, own)
  <2>1. sched[s] \in Schedule /\ Later(c, c)
    BY DEF TypeOK, Later
  <2>2. QED
    BY <2>1, ScheduleAfterType, ScheduleAfterLater
<1>2. \A t \in Services : sched[t] \in Schedule /\ Later(sched[t], sched[t])
  BY DEF TypeOK, CountInv, OnTime, Later
<1>3. \A t \in Services :
        sched'[t] = base(t) \/ sched'[t] = schedule_next_service_check(base(t), 0, {})
  BY DEF ProcessResult
<1> HIDE DEF own
<1>4. ASSUME NEW t \in Services PROVE Later(sched[t], sched'[t])
  BY <1>1, <1>2, <1>3, ScheduleNextLater
<1>5. Later(c, sched'[s])
  BY <1>1, <1>3, ScheduleNextLater
<1>6. QED
  BY <1>4, <1>5 DEF Later

LEMMA SlotEvent ==
    ASSUME TypeOK, CountInv, TypeOK', NEW s \in Services, handle_service_check_event(s)
    PROVE  CountInv'
<1> DEFINE old == sched[s]
           gone == [old EXCEPT !.event = FALSE]
           c == IF CheckInterval[s] # 0 /\ ~old.is_executing
                THEN schedule_next_service_check(gone, CheckInterval[s], {}) ELSE gone
<1>0. /\ CheckInterval[s] \in Nat /\ RetryInterval[s] \in Nat /\ Delays \subseteq Nat
      /\ sched \in [Services -> Schedule] /\ old \in Schedule
  BY ServiceChecksAssumption DEF TypeOK
<1>1. old.event /\ old.next_check = 0
  BY <1>0 DEF handle_service_check_event, CountInv, OnTime, Schedule
<1>2. gone \in Schedule /\ Later(old, gone)
  BY <1>0 DEF Schedule, Later
<1> HIDE DEF gone
<1>3. c \in Schedule /\ Later(old, c)
  BY <1>0, <1>2, ScheduleNextType, ScheduleNextLater
<1>4. \/ "force" \in old.check_options /\ run_scheduled_service_check(s, c, old.check_options)
      \/ Allowed(c) /\ run_scheduled_service_check(s, c, old.check_options)
      \/ NudgedToRetry(s, c)
      \/ Aborted(s, c)
      \/ OutsidePeriod(s, c)
      \/ Skipped(s, c)
  BY DEF handle_service_check_event, gone
<1> HIDE DEF c, old
<1>5. \A t \in Services : Later(sched[t], sched[t])
  BY DEF CountInv, OnTime, Later
<1>6. ASSUME NEW d, Later(old, d), sched' = [sched EXCEPT ![s] = d], NotStarted
      PROVE  CountInv'
  <2>1. \A t \in Services : jobs'[t] \subseteq jobs[t] /\ Later(sched[t], sched'[t])
    BY <1>0, <1>5, <1>6 DEF NotStarted, old
  <2>2. jobs' = jobs /\ running' = running
    BY <1>6 DEF NotStarted
  <2>3. QED
    BY <2>1, <2>2, SlotKept
<1>7. ASSUME run_scheduled_service_check(s, c, old.check_options),
             "force" \in old.check_options \/ ~MaxedOut
      PROVE  CountInv'
  <2>1. CASE NotStarted /\ sched' = [sched EXCEPT ![s] = c]
    BY <1>3, <1>6, <2>1
  <2>2. CASE /\ Started(s, old.check_options)
             /\ sched' = [sched EXCEPT ![s] = [c EXCEPT !.is_executing = TRUE]]
    <3>1. sched'[s] = [c EXCEPT !.is_executing = TRUE] /\ \A t \in Services \ {s} : sched'[t] = sched[t]
      BY <1>0, <2>2
    <3>2. sched'[s].event = c.event /\ sched'[s].next_check = c.next_check
      BY <1>3, <3>1 DEF Schedule
    <3>3. (c.event => c.next_check >= 0) /\ c.next_check >= 0
      BY <1>1, <1>3 DEF Later
    <3>4. QED
      BY <1>7, <2>2, <3>1, <3>2, <3>3, SlotTaken
  <2>3. QED
    BY <1>7, <2>1, <2>2 DEF run_scheduled_service_check
<1>8. CASE NudgedToRetry(s, c)
  BY <1>0, <1>3, <1>6, <1>8, ScheduleNextLater DEF NudgedToRetry, old
<1>9. CASE Aborted(s, c)
  BY <1>3, <1>6, <1>9 DEF Aborted
<1>10. CASE OutsidePeriod(s, c)
  <2>1. PICK d \in Delays :
          sched' = [sched EXCEPT ![s] = schedule_next_service_check(c, d, {"postpone"})]
    BY <1>10 DEF OutsidePeriod
  <2>2. Later(old, schedule_next_service_check(c, d, {"postpone"}))
    BY <1>0, <1>3, ScheduleNextLater DEF old
  <2>3. QED
    BY <1>6, <1>10, <2>1, <2>2 DEF OutsidePeriod
<1>11. CASE Skipped(s, c)
  BY <1>3, <1>6, <1>11 DEF Skipped
<1>12. QED
  BY <1>4, <1>7, <1>8, <1>9, <1>10, <1>11 DEF Allowed

LEMMA SlotResult ==
    ASSUME TypeOK, CountInv, TypeOK', NEW s \in Services, NEW j \in jobs[s], NEW r, NEW flexStarts,
           handle_worker_service_check(s, j, r, flexStarts)
    PROVE  CountInv'
<1> DEFINE c == FlagsCleared(s, j)
<1>1. sched \in [Services -> Schedule] /\ sched[s] \in Schedule /\ j \in Job /\ jobs \in [Services -> SUBSET Job]
  BY DEF TypeOK
<1>2. \A t \in Services : Later(sched[t], sched[t])
  BY DEF CountInv, OnTime, Later
<1>3. c \in Schedule /\ ~c.is_executing /\ c.event = sched[s].event /\ c.next_check = sched[s].next_check
  BY <1>1 DEF FlagsCleared, Schedule
<1>4. Later(sched[s], c)
  BY <1>2, <1>3 DEF Later
<1>5. -j.age \in Int
  BY <1>1 DEF Job
<1> HIDE DEF c
<1>6. /\ \A t \in Services : Later(sched[t], sched'[t])
      /\ ~sched'[s].is_executing
  <2>1. CASE sched' = [sched EXCEPT ![s] = c]
    BY <1>1, <1>2, <1>3, <1>4, <2>1
  <2>2. CASE ProcessResult(s, ResultState(r), -j.age, c, flexStarts)
    BY <1>3, <1>4, <1>5, <2>2, ProcessResultLater
  <2>3. QED
    BY <2>1, <2>2 DEF handle_worker_service_check, c
<1>7. /\ jobs' = [jobs EXCEPT ![s] = @ \ {j}]
      /\ running' = IF running > 0 THEN running - 1 ELSE 0
  BY DEF handle_worker_service_check
<1>8. jobs' # jobs
  BY <1>1, <1>7
<1>9. \A t \in Services : jobs'[t] \subseteq jobs[t]
  BY <1>1, <1>7
<1>10. QED
  BY <1>6, <1>7, <1>8, <1>9, SlotKept

LEMMA SlotCommand ==
    ASSUME TypeOK, CountInv, TypeOK', NEW s \in Services, Command(s)
    PROVE  CountInv'
<1>0. /\ sched \in [Services -> Schedule] /\ sched[s] \in Schedule /\ Delays \subseteq Nat
      /\ CheckInterval[s] \in Nat /\ RetryInterval[s] \in Nat
  BY ServiceChecksAssumption DEF TypeOK
<1>1. \A t \in Services : Later(sched[t], sched[t])
  BY DEF CountInv, OnTime, Later
<1>2. ASSUME \A t \in Services : Later(sched[t], sched'[t]), UNCHANGED <<jobs, running>>
      PROVE  CountInv'
  BY <1>2, SlotKept
<1>3. ASSUME NEW d, Later(sched[s], d), sched' = [sched EXCEPT ![s] = d], UNCHANGED <<jobs, running>>
      PROVE  CountInv'
  BY <1>0, <1>1, <1>2, <1>3
<1>4. ASSUME NEW d \in Delays, NEW options, ScheduleCommand(s, d, options)
      PROVE  CountInv'
  <2>1. Later(sched[s], schedule_next_service_check(sched[s], d, options))
    BY <1>0, <1>1, ScheduleNextLater
  <2>2. sched' = [sched EXCEPT ![s] = schedule_next_service_check(sched[s], d, options)]
    BY <1>4 DEF ScheduleCommand
  <2>3. QED
    BY <1>3, <1>4, <2>1, <2>2 DEF ScheduleCommand
<1>5. CASE disable_service_checks(s)
  <2> DEFINE c == [sched[s] EXCEPT !.checks_enabled = FALSE]
  <2>1. Later(sched[s], c)
    BY <1>0, <1>1 DEF Schedule, Later
  <2>2. sched' = [sched EXCEPT ![s] = c]
    BY <1>5 DEF disable_service_checks
  <2>3. QED
    BY <1>3, <1>5, <2>1, <2>2 DEF disable_service_checks
<1>6. CASE enable_service_checks(s)
  <2> DEFINE c == [sched[s] EXCEPT !.checks_enabled = TRUE]
             d == IF CheckInterval[s] > 0
                  THEN schedule_next_service_check(c, check_window(s), {}) ELSE c
  <2>1. c \in Schedule /\ Later(sched[s], c)
    BY <1>0, <1>1 DEF Schedule, Later
  <2>2. check_window(s) \in Nat
    BY <1>0 DEF check_window
  <2>3. sched' = [sched EXCEPT ![s] = d]
    BY <1>6 DEF enable_service_checks
  <2> HIDE DEF c
  <2>4. Later(sched[s], d)
    BY <1>0, <2>1, <2>2, ScheduleNextLater
  <2>5. QED
    BY <1>3, <1>6, <2>3, <2>4 DEF enable_service_checks
<1>7. ASSUME NEW r, NEW flexStarts,
             process_passive_service_check(s, PassiveState(r), flexStarts)
      PROVE  CountInv'
  <2>1. ProcessResult(s, PassiveState(r), 0, sched[s], flexStarts)
    BY <1>7 DEF process_passive_service_check
  <2>2. \A t \in Services : Later(sched[t], sched'[t])
    BY <1>0, <1>1, <2>1, ProcessResultLater
  <2>3. QED
    BY <1>2, <1>7, <2>2 DEF process_passive_service_check
<1>8. CASE UNCHANGED <<sched, jobs, running>>
  BY <1>1, <1>2, <1>8
<1>9. \/ \E d \in Delays : ScheduleCommand(s, d, {}) \/ ScheduleCommand(s, d, {"force"})
      \/ disable_service_checks(s) \/ enable_service_checks(s)
      \/ \E r \in Results, flexStarts \in BOOLEAN :
           process_passive_service_check(s, PassiveState(r), flexStarts)
      \/ UNCHANGED <<sched, jobs, running>>
  BY DEF Command, acknowledge_service_problem, remove_service_acknowledgement, ChangeMaxAttempts
<1>10. QED
  BY <1>4, <1>5, <1>6, <1>7, <1>8, <1>9

LEMMA SlotFreshness ==
    ASSUME TypeOK, CountInv, TypeOK', NEW inPeriod, check_service_result_freshness(inPeriod)
    PROVE  CountInv'
<1>1. ASSUME NEW s \in Services PROVE Later(sched[s], sched'[s])
  <2> DEFINE c == [sched[s] EXCEPT !.is_being_freshened = TRUE]
  <2>1. sched[s] \in Schedule /\ Later(sched[s], sched[s])
    BY DEF TypeOK, CountInv, OnTime, Later
  <2>2. c \in Schedule /\ Later(sched[s], c)
    BY <2>1 DEF Schedule, Later
  <2>3. \/ sched'[s] = schedule_next_service_check(c, 0, {"force", "fresh"})
        \/ sched'[s] = sched[s]
    BY DEF check_service_result_freshness
  <2> HIDE DEF c
  <2>4. QED
    BY <2>1, <2>2, <2>3, ScheduleNextLater
<1>2. UNCHANGED <<jobs, running>>
  BY DEF check_service_result_freshness
<1>3. QED
  BY <1>1, <1>2, SlotKept

LEMMA StepCount ==
    ASSUME TypeOK, CountInv, [Next]_vars
    PROVE  CountInv'
<1>0. TypeOK'
  BY StepType
<1>1. \A t \in Services : Later(sched[t], sched[t])
  BY DEF CountInv, OnTime, Later
<1>2. CASE UNCHANGED <<sched, jobs, running>>
  BY <1>0, <1>1, <1>2, SlotKept
<1>3. ASSUME NEW s \in Services, handle_service_check_event(s) PROVE CountInv'
  BY <1>0, <1>3, SlotEvent
<1>4. ASSUME NEW s \in Services, ResultArrives(s) PROVE CountInv'
  BY <1>0, <1>4, SlotResult DEF ResultArrives
<1>5. ASSUME NEW s \in Services, NEW j \in jobs[s], LoseResult(s, j) PROVE CountInv'
  <2>1. /\ jobs' = [jobs EXCEPT ![s] = @ \ {j}] /\ running' = running /\ sched' = sched
    BY <1>5 DEF LoseResult
  <2>2. jobs \in [Services -> SUBSET Job]
    BY DEF TypeOK
  <2>3. jobs' # jobs /\ \A t \in Services : jobs'[t] \subseteq jobs[t]
    BY <2>1, <2>2
  <2>4. QED
    BY <1>0, <1>1, <2>1, <2>3, SlotKept
<1>6. ASSUME NEW s \in Services, Command(s) PROVE CountInv'
  BY <1>0, <1>6, SlotCommand
<1>7. CASE check_for_orphaned_services
  BY <1>0, <1>7, SlotOrphans
<1>8. ASSUME NEW inPeriod, check_service_result_freshness(inPeriod) PROVE CountInv'
  BY <1>0, <1>8, SlotFreshness
<1>9. CASE SwitchServiceChecks \/ HostChanges
  BY <1>2, <1>9 DEF SwitchServiceChecks, HostChanges
<1>10. CASE Tick
  BY <1>0, <1>10, SlotTick
<1>11. CASE UNCHANGED vars
  BY <1>2, <1>11 DEF vars
<1>12. QED
  BY <1>3, <1>4, <1>5, <1>6, <1>7, <1>8, <1>9, <1>10, <1>11 DEF Next

LEMMA InitCount ==
    ASSUME Init
    PROVE  CountInv
<1>1. /\ jobs = [s \in Services |-> {}] /\ running = 0
      /\ \A s \in Services : sched[s].next_check >= 0 /\ ~sched[s].is_executing
  BY ServiceChecksAssumption DEF Init
<1>2. Pairs(jobs) = {} /\ Pairs(Unforced(jobs)) = {} /\ Abandoned(sched, jobs) = {}
  BY <1>1, PairsMember, UnforcedPairs DEF Abandoned
<1>3. OnTime(sched, jobs)
  BY <1>1 DEF OnTime
<1>4. MaxParallel \in Nat
  BY ServiceChecksAssumption
<1>5. /\ IsFiniteSet(Pairs(jobs)) /\ Cardinality(Pairs(jobs)) = 0
      /\ Cardinality(Pairs(Unforced(jobs))) = 0 /\ Cardinality(Abandoned(sched, jobs)) = 0
  BY <1>2, FS_EmptySet
<1>6. QED
  BY <1>1, <1>3, <1>4, <1>5 DEF CountInv

(* ParallelLimit: no more than max_concurrent_checks checks that were not   *)
(* forced run at once, for any number of services, limit and timeouts, as   *)
(* long as the orphan handler waits longer than a worker lets a check run.  *)
THEOREM ParallelChecksAreLimited == Spec => []ParallelLimit
<1>1. Init => CountInv
  BY InitCount
<1>2. TypeOK /\ CountInv /\ [Next]_vars => CountInv'
  BY StepCount
<1>3. CountInv => ParallelLimit
  <2>1. Pairs(Unforced(jobs)) =
          UNION {{<<s, j>> : j \in {k \in jobs[s] : "force" \notin k.check_options}} : s \in Services}
    BY DEF Pairs, Unforced
  <2>2. QED
    BY <2>1 DEF CountInv, ParallelLimit
<1>4. QED
  BY <1>1, <1>2, <1>3, ServiceTypeCorrect, PTL DEF Spec
=============================================================================
