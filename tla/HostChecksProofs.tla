-------------------------- MODULE HostChecksProofs --------------------------
(* Proofs about HostChecks for any network of hosts, parents and            *)
(* dependencies: types, and that a change of a route has what it makes      *)
(* doubtful checked again.                                                  *)
EXTENDS HostChecks, TLAPS

-----------------------------------------------------------------------------
(* What the operators on one host return.                                   *)

Result == [active : BOOLEAN, early_timeout : BOOLEAN, exited_ok : BOOLEAN, return_code : HostStateValues]

LEMMA ResultStateType ==
    ASSUME NEW r \in Result
    PROVE  HostResultState(r) \in HostStateValues
BY DEF Result, HostResultState, HostStateValues, STATE_UP, STATE_DOWN

LEMMA AttemptType ==
    ASSUME NEW s \in HostState, NEW active \in BOOLEAN
    PROVE  adjust_host_check_attempt(s, active) \in Nat
BY DEF adjust_host_check_attempt, HostState

LEMMA PostCheckType ==
    ASSUME NEW s \in HostState, NEW r \in Result
    PROVE  update_host_state_post_check(s, r) \in HostState
<1> DEFINE attempt == IF r.active \/ PassiveSoft
                      THEN adjust_host_check_attempt(s, r.active) ELSE s.current_attempt
           type == IF (~r.active /\ ~PassiveSoft) \/ attempt >= s.max_attempts
                   THEN "HARD" ELSE s.state_type
           hard == IF s.state_type = "HARD" THEN s.current_state ELSE s.last_hard_state
<1>1. /\ attempt \in Nat /\ type \in {"SOFT", "HARD"} /\ hard \in HostStateValues
      /\ r.active \in BOOLEAN /\ HostResultState(r) \in HostStateValues
  BY AttemptType, ResultStateType DEF HostState, Result
<1>2. update_host_state_post_check(s, r)
        = [s EXCEPT !.last_state = s.current_state, !.last_hard_state = hard,
                    !.check_active = r.active, !.current_attempt = attempt,
                    !.state_type = type, !.current_state = HostResultState(r)]
  BY DEF update_host_state_post_check
<1> HIDE DEF attempt, type, hard
<1>3. QED
  BY <1>1, <1>2 DEF HostState

(* Once a result was handled a host that is not UP has the state that its   *)
(* parents make, unless passive results are taken as they are.              *)
LEMMA DeterminedType ==
    ASSUME NEW s \in HostState, NEW before \in HostStateValues, NEW reach \in {STATE_DOWN, STATE_UNREACHABLE}
    PROVE  LET d == HostDetermined(s, before, reach)
           IN  /\ d \in HostState /\ d.check_active = s.check_active
               /\ d.current_state \in {STATE_UP, reach} \/ ~Translated(s)
<1>1. reach \in HostStateValues /\ reach # STATE_UP
  BY DEF STATE_UP, STATE_DOWN, STATE_UNREACHABLE, HostStateValues
<1>2. HostDetermined(s, before, reach) \in HostState
  BY <1>1 DEF HostDetermined, RecoveredHost, StillNotUp, WentDown, HostState
<1>3. HostDetermined(s, before, reach).check_active = s.check_active
  BY DEF HostDetermined, RecoveredHost, StillNotUp, WentDown, HostState
<1>4. HostDetermined(s, before, reach).current_state \in {STATE_UP, reach} \/ ~Translated(s)
  BY DEF HostDetermined, RecoveredHost, StillNotUp, WentDown, HostState
<1>5. QED
  BY <1>2, <1>3, <1>4

LEMMA HandledType ==
    ASSUME NEW s \in HostState
    PROVE  /\ HostHandled(s) \in HostState
           /\ HostHandled(s).current_state = s.current_state
           /\ HostHandled(s).check_active = s.check_active
BY DEF HostHandled, HostState

LEMMA ReachabilityType ==
    ASSUME NEW n, NEW p
    PROVE  determine_host_reachability(n, p) \in {STATE_DOWN, STATE_UNREACHABLE}
BY DEF determine_host_reachability

LEMMA ScheduleNextType ==
    ASSUME NEW c \in Schedule, NEW delay \in Int, NEW options
    PROVE  LET n == schedule_next_host_check(c, delay, options)
           IN  /\ n \in Schedule /\ n.event /\ n.is_executing = c.is_executing
<1>1. CASE c.event /\ c.next_check < delay /\ options \cap {"force", "postpone"} = {}
  BY <1>1 DEF schedule_next_host_check
<1>2. CASE ~(c.event /\ c.next_check < delay /\ options \cap {"force", "postpone"} = {})
  <2>1. schedule_next_host_check(c, delay, options)
          = [c EXCEPT !.event = TRUE, !.next_check = delay, !.check_options = options \cap Opts]
    BY <1>2 DEF schedule_next_host_check
  <2>2. options \cap Opts \in SUBSET Opts
    OBVIOUS
  <2>3. QED
    BY <2>1, <2>2 DEF Schedule
<1>3. QED
  BY <1>1, <1>2

LEMMA ScheduleAfterType ==
    ASSUME NEW h \in Hosts, NEW c \in Schedule, NEW s
    PROVE  ScheduleAfter(h, c, s) \in Schedule
<1>1. RetryInterval[h] \in Int /\ CheckInterval[h] \in Int
  BY HostChecksAssumption
<1>2. QED
  BY <1>1, ScheduleNextType DEF ScheduleAfter

LEMMA RetriedLaterType ==
    ASSUME NEW h \in Hosts, NEW c \in Schedule
    PROVE  LET n == RetriedLater(h, c)
           IN  /\ n \in Schedule /\ n.is_executing = c.is_executing
               /\ RetryInterval[h] # 0 => n.event \/ n.is_executing
               /\ c.event => n.event
<1>1. RetryInterval[h] \in Int
  BY HostChecksAssumption
<1>2. QED
  BY <1>1, ScheduleNextType DEF RetriedLater

-----------------------------------------------------------------------------
(* A host that is being checked or will be.                                 *)
Busy(c) == c.is_executing \/ c.event

(* A step that changes no state of a host keeps the routes rechecked if no  *)
(* host loses its check, except those that are dropped.                     *)
LEMMA StatesKept ==
    ASSUME RoutesRechecked, host' = host,
           \A k \in Hosts : RetryInterval[k] # 0 /\ k \notin dropped' =>
               Busy(sched'[k]) \/ (k \notin dropped /\ (Busy(sched[k]) => Busy(sched'[k])))
    PROVE  RoutesRechecked'
<1>1. \A k \in Hosts : RouteAgrees(k)' <=> RouteAgrees(k)
  BY DEF RouteAgrees, StateIs, ParentUp
<1>2. QED
  BY <1>1 DEF RoutesRechecked, Busy

LEMMA OneHostChanges ==
    ASSUME sched \in [Hosts -> Schedule], NEW h \in Hosts, NEW n \in Schedule,
           sched' = [sched EXCEPT ![h] = n]
    PROVE  /\ sched' \in [Hosts -> Schedule] /\ sched'[h] = n
           /\ \A k \in Hosts \ {h} : sched'[k] = sched[k]
OBVIOUS

LEMMA OneScheduleKept ==
    ASSUME RoutesRechecked, host' = host, sched \in [Hosts -> Schedule],
           NEW h \in Hosts, NEW n \in Schedule, sched' = [sched EXCEPT ![h] = n],
           \A k \in Hosts \ {h} : k \in dropped' <=> k \in dropped,
           RetryInterval[h] # 0 /\ h \notin dropped' =>
               Busy(n) \/ (h \notin dropped /\ (Busy(sched[h]) => Busy(n)))
    PROVE  RoutesRechecked'
<1>1. sched'[h] = n /\ \A k \in Hosts \ {h} : sched'[k] = sched[k]
  BY OneHostChanges
<1>2. \A k \in Hosts : RetryInterval[k] # 0 /\ k \notin dropped' =>
        Busy(sched'[k]) \/ (k \notin dropped /\ (Busy(sched[k]) => Busy(sched'[k])))
  <2> SUFFICES ASSUME NEW k \in Hosts, RetryInterval[k] # 0, k \notin dropped'
               PROVE  Busy(sched'[k]) \/ (k \notin dropped /\ (Busy(sched[k]) => Busy(sched'[k])))
    OBVIOUS
  <2>1. CASE k = h
    BY <1>1, <2>1
  <2>2. CASE k # h
    BY <1>1, <2>2
  <2>3. QED
    BY <2>1, <2>2
<1>3. QED
  BY <1>2, StatesKept

-----------------------------------------------------------------------------
(* A result.  Its host has the state that its parents make; a child for     *)
(* which that is no longer so is among the propagated ones, or was being    *)
(* checked before.                                                          *)
LEMMA ResultKeeps ==
    ASSUME TypeOK, NEW h \in Hosts, NEW r \in Result, NEW start \in Int, NEW c \in Schedule,
           NEW discarded \in BOOLEAN,
           handle_async_host_check_result(h, r, start, c, discarded)
    PROVE  /\ host' \in [Hosts -> HostState] /\ sched' \in [Hosts -> Schedule]
           /\ RoutesRechecked /\ dropped' = dropped => RoutesRechecked'
<1> DEFINE reach == determine_host_reachability(Parents[h] = {}, ParentUp(h))
<1>1. PICK posted : posted = IF discarded THEN host[h] ELSE update_host_state_post_check(host[h], r)
  OBVIOUS
<1>2. PICK s : s = HostDetermined(posted, host[h].current_state, reach)
  OBVIOUS
<1>3. PICK checked : checked = IF discarded THEN c
                               ELSE [c EXCEPT !.last_check = start, !.has_been_checked = TRUE]
  OBVIOUS
<1>4. PICK P : P = Propagated(h, host[h].current_state, s)
  OBVIOUS
<1>5. /\ host' = [host EXCEPT ![h] = HostHandled(s)]
      /\ sched' = [k \in Hosts |->
                     IF k = h THEN ScheduleAfter(h, checked, HostHandled(s))
                     ELSE IF k \in P THEN schedule_next_host_check(sched[k], 0, {})
                     ELSE sched[k]]
  BY <1>1, <1>2, <1>3, <1>4 DEF handle_async_host_check_result
<1>6. host \in [Hosts -> HostState] /\ sched \in [Hosts -> Schedule] /\ host[h] \in HostState
  BY DEF TypeOK
<1>7. posted \in HostState /\ host[h].current_state \in HostStateValues
  BY <1>1, <1>6, PostCheckType DEF HostState
<1>8. reach \in {STATE_DOWN, STATE_UNREACHABLE}
  BY ReachabilityType
<1> HIDE DEF reach
<1>9. /\ s \in HostState /\ s.check_active = posted.check_active
      /\ s.current_state \in {STATE_UP, reach} \/ ~Translated(posted)
  BY <1>2, <1>7, <1>8, DeterminedType
<1>10. /\ HostHandled(s) \in HostState /\ HostHandled(s).current_state = s.current_state
       /\ HostHandled(s).check_active = s.check_active
  BY <1>9, HandledType
<1>11. checked \in Schedule
  BY <1>3 DEF Schedule
<1>12. \A k \in Hosts : sched[k] \in Schedule /\
         LET n == schedule_next_host_check(sched[k], 0, {}) IN n \in Schedule /\ n.event
  BY <1>6, ScheduleNextType
<1>13. ScheduleAfter(h, checked, HostHandled(s)) \in Schedule
  BY <1>11, ScheduleAfterType
<1>14. host' \in [Hosts -> HostState] /\ sched' \in [Hosts -> Schedule]
  BY <1>5, <1>6, <1>10, <1>12, <1>13
<1>15. ASSUME RoutesRechecked, dropped' = dropped, NEW k \in Hosts,
              RetryInterval[k] # 0, k \notin dropped', ~RouteAgrees(k)'
       PROVE  Busy(sched'[k])
  <2>1. /\ host'[h] = HostHandled(s) /\ \A p \in Hosts \ {h} : host'[p] = host[p]
        /\ h \notin Parents[h]
    BY <1>5, <1>6, HostChecksAssumption
  <2>a. \A p \in Hosts : Parents[p] \subseteq Hosts
    BY HostChecksAssumption
  <2>2. CASE k = h
    <3>1. ParentUp(h)' <=> ParentUp(h)
      BY <2>1, <2>a DEF ParentUp, StateIs
    <3>2. determine_host_reachability(Parents[h] = {}, ParentUp(h)') = reach
      BY <3>1 DEF reach, determine_host_reachability
    <3>3. Translated(host'[h]) <=> Translated(posted)
      BY <1>9, <1>10, <2>1 DEF Translated
    <3>4. host'[h].current_state = s.current_state
      BY <1>10, <2>1
    <3>5. RouteAgrees(h)'
      BY <1>9, <3>2, <3>3, <3>4 DEF RouteAgrees, StateIs
    <3>6. QED
      BY <1>15, <2>2, <3>5
  <2>3. CASE k # h
    <3>1. host'[k] = host[k]
      BY <2>1, <2>3
    <3>2. CASE k \in P
      <4>1. sched'[k] = schedule_next_host_check(sched[k], 0, {})
        BY <1>5, <2>3, <3>2
      <4>2. QED
        BY <1>12, <4>1 DEF Busy
    <3>3. CASE k \notin P
      <4>1. sched'[k] = sched[k]
        BY <1>5, <2>3, <3>3
      <4>2. SUFFICES ASSUME RouteAgrees(k) PROVE FALSE
        BY <1>15, <4>1 DEF RoutesRechecked, Busy
      <4>3. /\ host[k].current_state # STATE_UP /\ Translated(host[k])
            /\ host[k].current_state = determine_host_reachability(Parents[k] = {}, ParentUp(k))
            /\ host[k].current_state # determine_host_reachability(Parents[k] = {}, ParentUp(k)')
        BY <1>15, <3>1, <4>2 DEF RouteAgrees, StateIs
      <4>4. (ParentUp(k)' /\ ~ParentUp(k)) \/ (ParentUp(k) /\ ~ParentUp(k)')
        BY <4>3 DEF determine_host_reachability
      <4>5. k \in Children(h) /\ Parents[k] # {}
        BY <2>1, <2>a, <4>4 DEF Children, ParentUp, StateIs
      <4>6. host'[h].current_state = s.current_state
        BY <1>10, <2>1
      <4>7. host[k].current_state \in {STATE_DOWN, STATE_UNREACHABLE}
        BY <4>3, ReachabilityType
      <4>8. CASE ParentUp(k)' /\ ~ParentUp(k)
        <5>1. host[h].current_state # STATE_UP
          BY <4>5, <4>8 DEF ParentUp, StateIs, Children
        <5>2. s.current_state = STATE_UP
          BY <2>1, <2>a, <4>6, <4>8 DEF ParentUp, StateIs
        <5>3. k \in P
          BY <1>4, <4>5, <4>7, <5>1, <5>2 DEF Propagated, StateIs
        <5>4. QED
          BY <3>3, <5>3
      <4>9. CASE ParentUp(k) /\ ~ParentUp(k)'
        <5>1. s.current_state # STATE_UP
          BY <4>5, <4>6, <4>9 DEF ParentUp, StateIs, Children
        <5>2. host[h].current_state = STATE_UP
          BY <2>1, <2>a, <4>9 DEF ParentUp, StateIs
        <5>3. host[k].current_state = STATE_DOWN
          BY <4>3, <4>9 DEF determine_host_reachability
        <5>4. k \in P
          BY <1>4, <4>5, <5>1, <5>2, <5>3 DEF Propagated, StateIs
        <5>5. QED
          BY <3>3, <5>4
      <4>10. QED
        BY <4>4, <4>8, <4>9
    <3>4. QED
      BY <3>2, <3>3
  <2>4. QED
    BY <2>2, <2>3
<1>16. QED
  BY <1>14, <1>15 DEF RoutesRechecked, Busy
-----------------------------------------------------------------------------
(* The event of a check: whatever keeps the check from being run, another   *)
(* event is scheduled, unless the host is noted as dropped.                 *)

SkippedKeepsStates == SkipStatus \notin HostStateValues

(* What a step that may change states must leave in order.                  *)
Keeps == TypeOK' /\ (SkippedKeepsStates /\ RoutesRechecked => RoutesRechecked')

LEMMA RunKeeps ==
    ASSUME TypeOK, NEW h \in Hosts, NEW c \in Schedule, NEW options \in SUBSET Opts,
           run_async_host_check(h, c, options), UNCHANGED <<executeChecks, closed, works>>
    PROVE  Keeps
<1> USE DEF Keeps
<1>0. host \in [Hosts -> HostState] /\ sched \in [Hosts -> Schedule] /\ jobs \in [Hosts -> SUBSET Job]
  BY DEF TypeOK
<1>1. /\ RetriedLater(h, c) \in Schedule /\ RetriedLater(h, c).is_executing = c.is_executing
      /\ RetryInterval[h] # 0 => Busy(RetriedLater(h, c))
  BY RetriedLaterType DEF Busy
<1>2. CASE Aborted(h, c)
  <2>1. sched' = [sched EXCEPT ![h] = RetriedLater(h, c)] /\ UNCHANGED <<host, jobs, dropped, disturbed>>
    BY <1>2 DEF Aborted
  <2>2. TypeOK'
    BY <1>0, <1>1, <2>1, OneHostChanges DEF TypeOK
  <2>3. QED
    BY <1>0, <1>1, <2>1, <2>2, OneScheduleKept
<1>3. CASE OutsidePeriod(h, c)
  <2>1. PICK d \in Delays : sched' = [sched EXCEPT ![h] =
                              RetriedLater(h, schedule_next_host_check(c, d, {"postpone"}))]
    BY <1>3 DEF OutsidePeriod
  <2>2. PICK n : n = schedule_next_host_check(c, d, {"postpone"})
    OBVIOUS
  <2>3. d \in Int
    BY HostChecksAssumption
  <2>4. n \in Schedule /\ n.event
    BY <2>2, <2>3, ScheduleNextType
  <2>5. RetriedLater(h, n) \in Schedule /\ (RetryInterval[h] # 0 => Busy(RetriedLater(h, n)))
    BY <2>4, RetriedLaterType DEF Busy
  <2>6. sched' = [sched EXCEPT ![h] = RetriedLater(h, n)] /\ UNCHANGED <<host, jobs, dropped, disturbed>>
    BY <1>3, <2>1, <2>2 DEF OutsidePeriod
  <2>7. TypeOK'
    BY <1>0, <2>5, <2>6, OneHostChanges DEF TypeOK
  <2>8. QED
    BY <1>0, <2>5, <2>6, <2>7, OneScheduleKept
<1>4. CASE Skipped(h, c)
  <2>1. /\ sched' = [sched EXCEPT ![h] = RetriedLater(h, c)] /\ UNCHANGED <<jobs, dropped, disturbed>>
        /\ host' = IF SkipStatus \in HostStateValues
                   THEN [host EXCEPT ![h].current_state = SkipStatus] ELSE host
    BY <1>4 DEF Skipped
  <2>2. host' \in [Hosts -> HostState]
    BY <1>0, <2>1 DEF HostState
  <2>3. TypeOK'
    BY <1>0, <1>1, <2>1, <2>2, OneHostChanges DEF TypeOK
  <2>4. SkippedKeepsStates => host' = host
    BY <2>1 DEF SkippedKeepsStates
  <2>5. QED
    BY <1>0, <1>1, <2>1, <2>3, <2>4, OneScheduleKept
<1>5. CASE Started(h, c, options)
  <2> DEFINE free == {n \in 1..MaxOutstanding : \A j \in jobs[h] : j.n # n}
             slot == CHOOSE n \in free : TRUE
             j == [n |-> slot, age |-> 0, up |-> Answers(h), check_options |-> options]
             n == [c EXCEPT !.is_executing = TRUE]
  <2>1. /\ free # {} /\ jobs' = [jobs EXCEPT ![h] = @ \cup {j}] /\ sched' = [sched EXCEPT ![h] = n]
        /\ dropped' = dropped \ {h} /\ UNCHANGED <<host, disturbed>>
    BY <1>5 DEF Started
  <2>2. slot \in Nat
    BY <2>1
  <2>3. Answers(h) \in BOOLEAN
    BY DEF Answers
  <2>4. j \in Job
    BY <2>2, <2>3 DEF Job
  <2>5. n \in Schedule /\ Busy(n)
    BY DEF Schedule, Busy
  <2> HIDE DEF j, n
  <2>6. jobs' \in [Hosts -> SUBSET Job]
    BY <1>0, <2>1, <2>4
  <2>7. TypeOK'
    BY <1>0, <2>1, <2>5, <2>6, OneHostChanges DEF TypeOK
  <2>8. QED
    BY <1>0, <2>1, <2>5, <2>7, OneScheduleKept
<1>6. CASE NotSent(h, c)
  <2>1. /\ sched' = [sched EXCEPT ![h] = c] /\ dropped' = dropped \cup {h} /\ UNCHANGED <<host, jobs>>
        /\ disturbed' = disturbed + 1
    BY <1>6 DEF NotSent, Disturbance
  <2>2. TypeOK'
    BY <1>0, <2>1, OneHostChanges DEF TypeOK
  <2>3. QED
    BY <1>0, <2>1, <2>2, OneScheduleKept
<1>7. QED
  BY <1>2, <1>3, <1>4, <1>5, <1>6 DEF run_async_host_check

LEMMA EventKeeps ==
    ASSUME TypeOK, NEW h \in Hosts, handle_host_check_event(h)
    PROVE  Keeps
<1>0. host \in [Hosts -> HostState] /\ sched \in [Hosts -> Schedule] /\ sched[h] \in Schedule
  BY DEF TypeOK
<1>1. PICK gone : gone = [sched[h] EXCEPT !.event = FALSE]
  OBVIOUS
<1>2. PICK c : c = IF CheckInterval[h] # 0 /\ ~sched[h].is_executing
                   THEN schedule_next_host_check(gone, CheckInterval[h], {}) ELSE gone
  OBVIOUS
<1>3. gone \in Schedule
  BY <1>0, <1>1 DEF Schedule
<1>4. CheckInterval[h] \in Int
  BY HostChecksAssumption
<1>5. c \in Schedule
  BY <1>2, <1>3, <1>4, ScheduleNextType
<1>6. /\ IF ~executeChecks /\ "force" \notin sched[h].check_options
         THEN /\ sched' = [sched EXCEPT ![h] = c]
              /\ dropped' = dropped \cup {h}
              /\ UNCHANGED <<host, jobs, disturbed>>
         ELSE run_async_host_check(h, c, sched[h].check_options)
      /\ UNCHANGED <<executeChecks, closed, works>>
  BY <1>1, <1>2 DEF handle_host_check_event
<1>7. CASE run_async_host_check(h, c, sched[h].check_options)
  <2>1. sched[h].check_options \in SUBSET Opts
    BY <1>0 DEF Schedule
  <2>2. QED
    BY <1>5, <1>6, <1>7, <2>1, RunKeeps
<1>8. CASE ~executeChecks /\ "force" \notin sched[h].check_options
  <2>1. /\ sched' = [sched EXCEPT ![h] = c] /\ dropped' = dropped \cup {h}
        /\ UNCHANGED <<host, jobs, disturbed, executeChecks, closed, works>>
    BY <1>6, <1>8
  <2>2. TypeOK'
    BY <1>0, <1>5, <2>1, OneHostChanges DEF TypeOK
  <2>3. QED
    BY <1>0, <1>5, <2>1, <2>2, OneScheduleKept DEF Keeps
<1>9. QED
  BY <1>6, <1>7, <1>8

-----------------------------------------------------------------------------
(* The other handlers, commands, and time.                                  *)

LEMMA WorkerResultKeeps ==
    ASSUME TypeOK, NEW h \in Hosts, NEW j \in jobs[h], NEW up \in BOOLEAN,
           handle_worker_host_check(h, j, up)
    PROVE  Keeps
<1> DEFINE d == "fresh" \in j.check_options /\ Fresh(h)
<1>1. PICK r : r = [active |-> TRUE, early_timeout |-> FALSE, exited_ok |-> TRUE,
                    return_code |-> IF up THEN 0 ELSE 2]
  OBVIOUS
<1>2. PICK c : c = FlagsCleared(h, j)
  OBVIOUS
<1>3. /\ handle_async_host_check_result(h, r, -j.age, c, d)
      /\ jobs' = [jobs EXCEPT ![h] = @ \ {j}]
      /\ UNCHANGED <<executeChecks, closed, works, dropped, disturbed>>
  BY <1>1, <1>2 DEF handle_worker_host_check
<1>4. r \in Result
  BY <1>1 DEF Result, HostStateValues
<1>5. sched[h] \in Schedule /\ j \in Job
  BY DEF TypeOK
<1>6. c \in Schedule
  BY <1>2, <1>5 DEF FlagsCleared, Schedule
<1>7. -j.age \in Int
  BY <1>5 DEF Job
<1>8. d \in BOOLEAN
  OBVIOUS
<1> HIDE DEF d
<1>9. /\ host' \in [Hosts -> HostState] /\ sched' \in [Hosts -> Schedule]
      /\ RoutesRechecked /\ dropped' = dropped => RoutesRechecked'
  BY <1>3, <1>4, <1>6, <1>7, <1>8, ResultKeeps
<1>10. TypeOK'
  BY <1>3, <1>9 DEF TypeOK
<1>11. QED
  BY <1>3, <1>9, <1>10 DEF Keeps

LEMMA PassiveKeeps ==
    ASSUME TypeOK, NEW h \in Hosts, NEW st \in HostStateValues, process_passive_host_check(h, st)
    PROVE  Keeps
<1>1. PICK r : r = [active |-> FALSE, early_timeout |-> FALSE, exited_ok |-> TRUE, return_code |-> st]
  OBVIOUS
<1>2. /\ handle_async_host_check_result(h, r, 0, sched[h], FALSE) /\ disturbed' = disturbed + 1
      /\ UNCHANGED <<jobs, executeChecks, closed, works, dropped>>
  BY <1>1 DEF process_passive_host_check, Disturbance
<1>3. r \in Result /\ sched[h] \in Schedule
  BY <1>1 DEF Result, TypeOK
<1>4. /\ host' \in [Hosts -> HostState] /\ sched' \in [Hosts -> Schedule]
      /\ RoutesRechecked /\ dropped' = dropped => RoutesRechecked'
  <2>1. PICK start, c, d : start = 0 /\ c = sched[h] /\ d = FALSE
    OBVIOUS
  <2>2. start \in Int /\ c \in Schedule
    BY <1>3, <2>1
  <2>b. d \in BOOLEAN
    BY <2>1
  <2>3. handle_async_host_check_result(h, r, start, c, d)
    BY <1>2, <2>1
  <2>4. QED
    BY <1>3, <2>2, <2>b, <2>3, ResultKeeps
<1>5. TypeOK'
  BY <1>2, <1>4 DEF TypeOK
<1>6. QED
  BY <1>2, <1>4, <1>5 DEF Keeps

(* Orphaned and stale hosts get another event.                              *)
LEMMA HandlersKeep ==
    ASSUME TypeOK, check_for_orphaned_hosts \/ check_host_result_freshness
    PROVE  Keeps
<1>1. \A k \in Hosts : sched[k] \in Schedule
  BY DEF TypeOK
<1>2. UNCHANGED <<host, jobs, executeChecks, closed, works, dropped, disturbed>>
  BY DEF check_for_orphaned_hosts, check_host_result_freshness
<1>3. DOMAIN sched' = Hosts /\ sched' = [k \in Hosts |-> sched'[k]]
  BY DEF check_for_orphaned_hosts, check_host_result_freshness
<1>4. ASSUME NEW k \in Hosts
      PROVE  sched'[k] \in Schedule /\ (Busy(sched[k]) => Busy(sched'[k]))
  <2>1. PICK a, b : /\ a = [sched[k] EXCEPT !.is_executing = FALSE]
                    /\ b = [sched[k] EXCEPT !.is_being_freshened = TRUE]
    OBVIOUS
  <2>2. a \in Schedule /\ b \in Schedule
    BY <1>1, <2>1 DEF Schedule
  <2>3. \/ sched'[k] = sched[k]
        \/ sched'[k] = schedule_next_host_check(a, 0, {})
        \/ sched'[k] = schedule_next_host_check(b, 0, {"force", "fresh"})
    BY <2>1 DEF check_for_orphaned_hosts, check_host_result_freshness
  <2>4. QED
    BY <1>1, <2>2, <2>3, ScheduleNextType DEF Busy
<1>5. TypeOK'
  BY <1>2, <1>3, <1>4 DEF TypeOK
<1>6. RoutesRechecked => RoutesRechecked'
  BY <1>2, <1>4, StatesKept
<1>7. QED
  BY <1>5, <1>6 DEF Keeps

LEMMA CommandKeeps ==
    ASSUME TypeOK, NEW h \in Hosts, Command(h)
    PROVE  Keeps
<1>0. host \in [Hosts -> HostState] /\ sched \in [Hosts -> Schedule] /\ sched[h] \in Schedule
  BY DEF TypeOK
<1>1. ASSUME NEW n \in Schedule, sched' = [sched EXCEPT ![h] = n], Busy(sched[h]) => Busy(n),
             UNCHANGED <<host, jobs, executeChecks, closed, works, dropped>>, disturbed' \in Nat
      PROVE  Keeps
  <2>1. TypeOK'
    BY <1>0, <1>1, OneHostChanges DEF TypeOK
  <2>2. RoutesRechecked => RoutesRechecked'
    BY <1>0, <1>1, OneScheduleKept
  <2>3. QED
    BY <2>1, <2>2 DEF Keeps
<1>2. ASSUME NEW d \in Delays \cup {0}, NEW options, schedule_host_check(h, d, options)
      PROVE  Keeps
  <2>1. PICK n : n = schedule_next_host_check(sched[h], d, options)
    OBVIOUS
  <2>2. d \in Int
    BY <1>2, HostChecksAssumption
  <2>3. n \in Schedule /\ Busy(n)
    BY <1>0, <2>1, <2>2, ScheduleNextType DEF Busy
  <2>4. /\ sched' = [sched EXCEPT ![h] = n] /\ disturbed' \in Nat
        /\ UNCHANGED <<host, jobs, executeChecks, closed, works, dropped>>
    BY <1>2, <2>1 DEF schedule_host_check, Disturbance, TypeOK
  <2>5. QED
    BY <1>1, <2>3, <2>4
<1>3. CASE disable_host_checks(h)
  <2>1. PICK n : n = [sched[h] EXCEPT !.checks_enabled = FALSE]
    OBVIOUS
  <2>2. n \in Schedule /\ (Busy(sched[h]) => Busy(n))
    BY <1>0, <2>1 DEF Schedule, Busy
  <2>3. /\ sched' = [sched EXCEPT ![h] = n] /\ disturbed' \in Nat
        /\ UNCHANGED <<host, jobs, executeChecks, closed, works, dropped>>
    BY <1>3, <2>1 DEF disable_host_checks, Disturbance, TypeOK
  <2>4. QED
    BY <1>1, <2>2, <2>3
<1>4. CASE enable_host_checks(h)
  <2>1. PICK c : c = [sched[h] EXCEPT !.checks_enabled = TRUE]
    OBVIOUS
  <2>2. c \in Schedule
    BY <1>0, <2>1 DEF Schedule
  <2>3. PICK n : n = schedule_next_host_check(c, check_window(h), {})
    OBVIOUS
  <2>4. check_window(h) \in Int
    BY HostChecksAssumption DEF check_window
  <2>5. n \in Schedule /\ Busy(n)
    BY <2>2, <2>3, <2>4, ScheduleNextType DEF Busy
  <2>6. /\ sched' = [sched EXCEPT ![h] = n] /\ disturbed' \in Nat
        /\ UNCHANGED <<host, jobs, executeChecks, closed, works, dropped>>
    BY <1>4, <2>1, <2>3 DEF enable_host_checks, TypeOK
  <2>7. QED
    BY <1>1, <2>5, <2>6
<1>5. QED
  BY <1>2, <1>3, <1>4, PassiveKeeps DEF Command

LEMMA EnvironmentKeeps ==
    ASSUME TypeOK,
           \/ \E h \in Hosts : NetworkChanges(h) \/ \E j \in jobs[h] : LoseResult(h, j)
           \/ \E d \in Delays : PeriodCloses(d)
           \/ stop_executing_host_checks \/ start_executing_host_checks
    PROVE  Keeps
<1>1. host' = host /\ sched' = sched /\ dropped' = dropped
  BY DEF NetworkChanges, LoseResult, PeriodCloses, stop_executing_host_checks, start_executing_host_checks
<1>a. disturbed' \in Nat
  BY DEF NetworkChanges, LoseResult, PeriodCloses, stop_executing_host_checks,
         start_executing_host_checks, Disturbance, TypeOK
<1>b. works' \subseteq Hosts
  BY DEF NetworkChanges, LoseResult, PeriodCloses, stop_executing_host_checks,
         start_executing_host_checks, TypeOK
<1>2. executeChecks' \in BOOLEAN
  BY DEF NetworkChanges, LoseResult, PeriodCloses, stop_executing_host_checks,
         start_executing_host_checks, Disturbance, TypeOK
<1>3. closed' \in Nat
  BY HostChecksAssumption
  DEF NetworkChanges, LoseResult, PeriodCloses, stop_executing_host_checks,
      start_executing_host_checks, TypeOK
<1>4. jobs' \in [Hosts -> SUBSET Job]
  BY DEF NetworkChanges, LoseResult, PeriodCloses, stop_executing_host_checks,
         start_executing_host_checks, TypeOK
<1>5. TypeOK'
  BY <1>1, <1>a, <1>b, <1>2, <1>3, <1>4 DEF TypeOK
<1>6. RoutesRechecked => RoutesRechecked'
  BY <1>1, StatesKept
<1>7. QED
  BY <1>5, <1>6 DEF Keeps

LEMMA TickKeeps ==
    ASSUME TypeOK, Tick
    PROVE  Keeps
<1>1. UNCHANGED <<host, executeChecks, works, dropped, disturbed>>
  BY DEF Tick
<1>2. /\ OldestNextCheck \in Int /\ \A k \in Hosts : OldestLastCheck(k) \in Int
      /\ \A t, oldest \in Int : Earlier(t, oldest) \in Int
  BY HostChecksAssumption DEF OldestNextCheck, OldestLastCheck, Earlier
<1>3. ASSUME NEW k \in Hosts
      PROVE  sched'[k] \in Schedule /\ (Busy(sched[k]) => Busy(sched'[k]))
  <2>1. sched[k] \in Schedule
    BY DEF TypeOK
  <2>2. PICK a, b : a = Earlier(sched[k].next_check, OldestNextCheck)
                    /\ b = Earlier(sched[k].last_check, OldestLastCheck(k))
    OBVIOUS
  <2>3. a \in Int /\ b \in Int
    BY <1>2, <2>1, <2>2 DEF Schedule
  <2>4. sched'[k] = [sched[k] EXCEPT !.next_check = a, !.last_check = b]
    BY <2>2 DEF Tick
  <2>5. QED
    BY <2>1, <2>3, <2>4 DEF Schedule, Busy
<1>4. sched' \in [Hosts -> Schedule]
  BY <1>3 DEF Tick
<1>5. jobs' \in [Hosts -> SUBSET Job]
  <2>1. \A k \in Hosts : \A j \in jobs[k] : [j EXCEPT !.age = @ + 1] \in Job
    BY DEF TypeOK, Job
  <2>2. QED
    BY <2>1 DEF Tick
<1>6. closed' \in Nat
  <2>1. closed \in Nat /\ closed' = IF closed > 0 THEN closed - 1 ELSE 0
    BY DEF Tick, TypeOK
  <2>2. QED
    BY <2>1
<1>7. TypeOK'
  BY <1>1, <1>4, <1>5, <1>6 DEF TypeOK
<1>8. RoutesRechecked => RoutesRechecked'
  BY <1>1, <1>3, StatesKept
<1>9. QED
  BY <1>7, <1>8 DEF Keeps

LEMMA InitInv ==
    Init => TypeOK /\ RoutesRechecked
<1> SUFFICES ASSUME Init PROVE TypeOK /\ RoutesRechecked
  OBVIOUS
<1>1. host \in [Hosts -> HostState]
  BY HostChecksAssumption DEF Init, HostState, HostStateValues, STATE_UP
<1>2. PICK delay : /\ \A h \in Hosts : delay[h] \in 0..CheckInterval[h]
                   /\ sched = [h \in Hosts |->
                        [event |-> TRUE, next_check |-> delay[h],
                         check_options |-> {}, is_executing |-> FALSE,
                         is_being_freshened |-> FALSE, checks_enabled |-> TRUE,
                         has_been_checked |-> FALSE, last_check |-> 0]]
  BY DEF Init
<1>3. \A h \in Hosts : delay[h] \in Int
  BY <1>2, HostChecksAssumption
<1>4. sched \in [Hosts -> Schedule]
  BY <1>2, <1>3 DEF Schedule
<1>5. \A h \in Hosts : sched[h].event
  BY <1>2
<1>6. TypeOK
  BY <1>1, <1>4 DEF Init, TypeOK
<1>7. QED
  BY <1>5, <1>6 DEF RoutesRechecked

LEMMA NextKeeps ==
    ASSUME TypeOK, [Next]_vars
    PROVE  Keeps
<1>1. CASE UNCHANGED vars
  <2>1. UNCHANGED <<host, sched, jobs, executeChecks, closed, works, dropped, disturbed>>
    BY <1>1 DEF vars
  <2>2. TypeOK'
    BY <2>1 DEF TypeOK
  <2>3. RoutesRechecked => RoutesRechecked'
    BY <2>1, StatesKept
  <2>4. QED
    BY <2>2, <2>3 DEF Keeps
<1>2. ASSUME NEW h \in Hosts,
             \/ handle_host_check_event(h) \/ ResultArrives(h) \/ Command(h)
      PROVE  Keeps
  BY <1>2, EventKeeps, WorkerResultKeeps, CommandKeeps DEF ResultArrives
<1>3. QED
  BY <1>1, <1>2, HandlersKeep, EnvironmentKeeps, TickKeeps DEF Next

-----------------------------------------------------------------------------
(* The states, schedules and jobs of hosts stay well-formed under results,  *)
(* events, commands and changes of the network.                             *)
THEOREM TypeCorrect ==
    Spec => []TypeOK
<1>1. TypeOK /\ [Next]_vars => TypeOK'
  BY NextKeeps DEF Keeps
<1>2. QED
  BY <1>1, InitInv, PTL DEF Spec

(* In any network of parents and children, process_host_check_result has    *)
(* every host checked whose distinction of DOWN and UNREACHABLE the new     *)
(* state puts in doubt, and no handler of check events, results, orphans or *)
(* commands loses that check, except where run_async_host_check is given    *)
(* up for want of a worker or of execute_host_checks.  An option that makes *)
(* skipped checks overwrite the state of a host has nobody told of it, and  *)
(* must be off.                                                             *)
THEOREM RoutesAreRechecked ==
    SkippedKeepsStates => (Spec => []RoutesRechecked)
<1> SUFFICES ASSUME SkippedKeepsStates PROVE Spec => []RoutesRechecked
  OBVIOUS
<1>1. TypeOK /\ RoutesRechecked /\ [Next]_vars => (TypeOK /\ RoutesRechecked)'
  BY NextKeeps DEF Keeps
<1>2. QED
  BY <1>1, InitInv, PTL DEF Spec
=============================================================================
