# A TLA+ verification project for naemon-core

Naemon runs checks of hosts and services, turns their results into states, and tells
contacts and event handlers about changes of those states. The daemon (the *master*) is
**one thread** around one loop: it polls its sockets, handles what came in, and runs the
timed event that is due. Checks run in separate *worker* processes that the master talks
to over sockets. There are no locks and no data races in the master; what is hard is
the **order** in which events, results, commands and the deaths of workers meet state that was
written some handlers earlier, and results that come late, twice or never.

Source paths below are relative to the repository (`src/naemon/...` is the daemon).

## 1. Inventory

| Component | State it keeps | Operations | Interacts with | What makes it correct |
|---|---|---|---|---|
| timed event queue, `events.c` | binary heap of events, each with its own index; array size | schedule, destroy, execute, poll step | everything that schedules; I/O broker | no event lost or run twice, earliest first, cancelled ones never run |
| worker pool, `workers.c` | lists of workers, job tables, round-robin index | run job, register, result, end of file, respawn, reassign | checks, handlers (callbacks); query handler (registration) | each job ends once, with its own result; no dead worker is given jobs for ever |
| service checks, `checks_service.c` | state, type, attempt, next check, executing/freshening flags, count of running checks | check event, result, orphan and freshness events | event queue, worker pool, commands, notifications, event handlers, hosts | state machine consistent, recoveries told, checks recur, limit on parallel checks |
| host checks, `checks_host.c` | as services, and reachability | as services, propagation to parents and children | as services | as services; UNREACHABLE exactly when all parents are down |
| external commands, `commands.c` | registry of commands with typed arguments | some 160 commands on objects | all | commands keep the invariants of what they change |
| scheduled downtime, `downtime.c` | list of downtimes, depth counters of objects, pending flexible counters | schedule, start, stop, unschedule, expire, flexible start, restart | event queue, checks (flexible start), notifications, comments, retention | depth = number of downtimes in effect; each start has its end |
| notifications, `notifications.c` | numbers and times of notifications, flags of what contacts know | viability tests, escalation, sending | checks, downtime, flapping, time periods | nobody is told of a recovery from an unknown problem; renotification interval kept |
| flapping, `flapping.c` | ring of last states, percentage, is_flapping | update on results, enable/disable | checks, notifications, comments | hysteresis; start and stop alternate |
| comments, `comments.c` | list and hash by id, next id | add, delete, expire | acknowledgements, downtime, flapping, retention | ids unique; owned comments go with their owner |
| check results, `checks.c` | files in the spool directory | read, process, delete | checks | a file is processed at most once and not left |
| worker process, `src/worker/worker.c`, `lib/worker.c`, `lib/runcmd.c` | children, their output, timeouts | start, read output, reap, kill | worker pool | each job is answered once |
| I/O broker, buffers, `lib/iobroker.c`, `lib/bufferqueue.c`, `lib/nsock.c` | table of descriptors, buffered bytes | register, poll, read, write | all sockets | no handler called after it was unregistered; messages framed |
| query handler and nerd, `query-handler.c`, `nerd.c` | handlers, subscriptions | query, subscribe, broadcast | I/O broker, worker pool | a subscription that ends during a broadcast is not used |
| main loop and restart, `naemon.c`, `utils.c` | signal flags | start, restart, shut down | all | order of teardown |
| retention, `sretention.c`, `xrddefault.c` | file of state, copies of objects as configured | save, read | checks, downtime, comments | what commands changed is kept unless the configuration changed |
| object templates, `xodtemplate.c` | definitions, resolved marks | read, resolve, clean | object configuration | each directive has the value that inheritance gives it |
| object configuration, `xodtemplate.c`, `objects_*.c` | groups, copies of services, escalations and dependencies | expand, duplicate, inherit, register | everything, at start | the objects are those that the lists of names mean; loops are refused |
| main configuration file, time periods, macros, status output, broker modules, logging, small libraries | | | | sequential; see `PROJECT.json` for what is left out and why |

Behaviours that are hard to test, with the properties that catch them going wrong, are the
`hazards` of `PROJECT.json`, each at its line.

## 2. Modules

| Module | What it is |
|---|---|
| `TimedEvents` | abstract queue: a set of pending events with times; the earliest due one is run |
| `EventQueue` | the heap of `events.c` and the poll step, shown to implement `TimedEvents` |
| `WorkerPool` | the master's side of `workers.c`, with workers as processes that answer, repeat and die |
| `WorkerProcess` | the other side, `src/worker/worker.c`: children, output, reaping, timeouts |
| `ServiceStates`, `HostStates` | what a result makes of the state of a service or a host, as operators on records |
| `ServiceChecks` | `checks_service.c`, and the commands of `commands.c` that change the check state of services |
| `HostChecks` | `checks_host.c` with the network it looks at, propagation to parents and children, and the commands |
| `Downtime` | `downtime.c`, the commands that schedule and delete downtimes, and how `xrddefault.c` saves and reads them |
| `Comments`, `Notifications`, `Flapping` | `comments.c`, `notifications.c`, `flapping.c`, as operators on the object and its comments |
| `Alerts` | composes the three above with `ServiceStates` and `HostStates`, commands and restarts |
| `Retention` | attributes changed at run time, their copies and the retention file |
| `Commands` | the registered commands and their parsing, on top of `Retention` |
| `Directives` | how every directive of the fourteen kinds of objects is taken in and inherited |
| `Templates` | reading definitions and resolving their templates |
| `ObjectLists` | lists of names with exclusions and wildcards, and the groups made of them |
| `ObjectConfig` | groups, duplication, inheritance and registration of objects |
| `EventQueueProofs`, `WorkerPoolProofs`, `WorkerProcessProofs`, `ServiceChecksProofs`, `HostChecksProofs`, `DowntimeProofs`, `AlertsProofs`, `RetentionProofs` | theorems and their proofs |
| `MC*` | small instances for TLC |

Definitions have the names of the functions they translate, so that `map` in
`PROJECT.json` can be followed by name. A definition whose comment begins with *Mutant*
is a plausible bug that a property must catch; no specification uses it.

### EventQueue

`queue`, `count` and `size` are the fields of `struct timed_event_queue`, and the `pos` of each
event is state of its own, since the code trusts it when an event is cancelled. The
methods `evheap_set_size`, `evheap_cond_swap`, `evheap_bubble_up`, `evheap_bubble_down`,
`evheap_remove` and `evheap_add` are operators on a heap. Their loops are recursive functions
from each state a loop can be in (`Cells`) to the one in which it ends from there. A poll is two steps, reading the
head and acting on it, and between the two input handlers may schedule and destroy events,
as `iobroker_poll` calls them. Their effect on the poll is the code's: with input, no timed
event is run. Handlers of events may do the same. `clear_event_queue` runs
every event with the aborted type. `SizeFits` is also about a read that the order of `evheap_remove` makes delicate: the
array is shrunk before the slot of the removed last event is compared with its parent. The refinement maps the entries of the heap to the set of
pending events.

### WorkerPool

`wps`, `idx` (lists of workers), `wp_list`, `jobs`, `job_index` are the fields of the
code's structures. End of file is three kinds of steps: `WorkerGone` (unregistering,
`remove_worker`, respawning), one `ReassignJob` per job, and `wproc_destroy`; no other master
step comes between them, since they are one handler (`dying` guards them), while
workers run beside it. A worker that is dead and whose end of file has not been read is
`broken`: it is still in its lists and is given jobs. Results name only ids, so that a
result of one job could meet the table entry of another. `init_workers` is the initial state, with
its number of workers computed by `get_desired_workers`.

### WorkerProcess

`job` holds the `child_process` of each job, `ptab` the table of jobs by process id, `reapable`
the signal handler's counter, and `pc` whether the loop polls or reaps. Polling (`gather_output`,
`kill_job`, `PollEnds`) and reaping (`ReapChild`, `ReapNone`) are steps between which children write,
fork, hang and end, and the signal handler runs: its increment of `reapable` is lost if it comes
during the decrement or the reset, which nothing protects. Process ids are given out again
once no process and no process group has them, to children and to processes of others.
The end of a pipe comes after the end of the child and of the grandchildren that hold it.
`exit_worker` is the end of the worker by the master's end of file.

What is abstracted: the length of a job (its kill event may come at any time), what a command line
means (`runcmd.c`), and resource usage. `OwnReuse` says whether a child may get the id of
one whose job is still listed; the code mistakes the two (finding), and the run has it off.

### ServiceChecks

`svc` holds what results change, `sched` the next check and the flags of the one under way,
`jobs` the checks that are in workers, `running` is `currently_running_service_checks`, and
`calls` what the last result asked other components to do (`handle_service_event`,
`service_notification`, flexible downtimes). One action is one handler, with all it calls:
a check event up to its early returns (limit, execution switched off, cached, disabled,
outside the check period, skipped for dependencies or parents, refused by a module or by
the workers), a result up to the rescheduling at its end, the orphan and freshness events over all
services, and the commands. Times are relative to the present and `Tick` shifts them, so
that time has no bound and liveness can be checked; times further back than anything the
code compares with are merged.

What is abstracted: latency is 0 (the loop keeps up with the clock, so `Tick` waits for due events);
workers enforce `check_timeout`, so that no check is older than it;
the host is a flag that changes at any time; time periods, dependencies and broker
modules are nondeterministic choices; passive results are accepted and are of the present;
intervals are constants of each service; the two options for skipped checks (dependency,
parent) are one constant; retained scheduling at a restart is not modelled; texts,
statistics, stalking, obsession, performance data and logging are left out.

### HostChecks

`host` has the fields results change (`HostStates`), `sched` the next check and the flags of the one
under way, `jobs` the checks that run, and `works` which hosts of the network work. A check answers
what the network was when it started. A result is one action with everything it does: the discarding of
late freshness checks, the state machine, reachability, the checks of parents, children and
dependents that it schedules, and the rescheduling. `dropped` are hosts whose check event was
spent in vain because no worker took the check or because host checks were switched off: the code does
not repeat those (finding), and the properties except them. As in `ServiceChecks`, times are relative and `Tick` shifts them.

What is abstracted: broker modules, statistics, stalking, obsession, logging; intervals are
constants; one `disturbed` counter bounds commands, losses, passive results and closed periods.
The run has freshness checks for the router.

### Downtime

`dts` is `dt_hashtable`, `list` is `scheduled_downtime_list` as the pairs of ids of
which the first comes before the second, `events` what the queue holds for downtimes, and `depth` the `scheduled_downtime_depth` of each host or
service. `told` records whether the last downtime notification of an object that passes the
viability tests was a start. An event knows its downtime by id, and a downtime its events by pointer: an
event that has been run is freed, so that a pointer to it must be gone, while an
event whose downtime is gone finds nothing. Events are run
earliest first, in any order among equals, which is what `TimedEvents` promises.

A downtime can trigger others, and the code goes from one to what it triggers by recursive
calls; `Cascade` is the set that they reach. The loop over what a
starting downtime triggers *toggles* each: one in effect would be stopped, freed, and read
again by the loop. `freedRead` records this and ends the behaviour, since nothing can be said of what follows.
`Restart` saves the list, clears the queue and reads the file: downtimes are
added in the order of the file, the depth is counted, `register_downtime` schedules
events anew, and the list is sorted with an order among equals that `qsort` does not fix.

Two constants name assumptions under which the code works. `Prompt`: events that are due are run before the next
result is read. The loop does not guarantee it, since a poll that had
input runs no event (`DowntimeDoubleStart.cfg`). `SortedTriggers`: each trigger comes
before what it triggers in the list, as for the downtimes that the propagating command
makes. The source says that it does not care for the other case; there a
restart leaves the triggered downtime out and counts its depth (finding). It also leaves the comment of
such a downtime, which `CommentsOwned` excepts.

What is abstracted: hosts and services are one set of objects; the commands for groups and children
are several steps; objects stay in the configuration;
`next_downtime_id` is retained (the default); a crash, in which the
retention file is older than the state, is not modelled. A triggered downtime that is added while its trigger is in effect,
or whose trigger expires unused, is in the model as in the code: it is started and stopped at the end of its trigger, or
stays until the expiry of some other downtime or a restart.

### Comments, Notifications, Flapping, Alerts

One host or one service and everything that decides what its contacts hear of it. `obj` has the fields
of the object, `comments` the table and its counter, `env` the answers that the filters
get from elsewhere (time periods, those of escalations among them, dependencies, parents, contacts), `expire` the pending expiry events of
acknowledgements, `sent` what the last step sent and to whom, `told` who was last told of the
problem, and `told_under` the escalations that were in their periods then. A result is one action from the change of state to the last notification, in the order of the code,
since flap detection sends notifications of its own in the middle. The result of a service
also records the state of its host and may send its notification again (`ServiceResultOfHost`), as the code does. `Restart` keeps what the
retention file does, both retention options being on (the default), and forgets the rest.

The percentage of flapping is computed in integers, with the weights of `flapping_pct` and its
first comparison of the oldest entry with itself; the history is shorter. Broker modules may
cancel a notification or the one for a contact. What is left out: the commands of contacts, macros, logging.
A `scene` fixes which commands are given and which answers vary, so that each combination that
belongs together is explored fully.

### Retention, Commands

`val` are the values in use of the attributes that are looked at, `conf` the configured ones, `modified` the bits of
`modified_attributes`, `stash` the copies that `pre_modify_*_attribute` takes, `file` the retention file
and `saved` what held when it was written. Saving may fail and leaves the old file;
the program may crash, and start with another configuration and other time periods.
What is read depends on the two retention options of each object (`Unretained`, `Statusless`; `ReadsSettings`:
`xrddefault.c` looks at the lines with flags and settings only if both are on), on the modified bits that are read (`ReadModified`)
and on the six masks (`Mask`), of which each is written with its own and, except for contacts, read with that of the hosts.
`Commands` parses a line against the typed arguments of the command it names (also in the
key=value form), shows it to a module that may block it, and applies it to an object, the members of a
group, a host and its services, or a tree of hosts. `Registered` is the table of those
commands that change attributes; commands of other modules (comments, downtimes) are there as lines to parse.

### Directives, Templates

`Directives` is the table: for each directive of each kind its way of being taken in
(`add_object_property`) and of being inherited (the `resolve` functions). `Templates` reads
definitions in the order of the file, resolves them in the order of the list in memory, recursively and in place,
and removes additive marks. One directive is followed at a time: the directives of a
definition do not touch each other. `ValuesAsDeclared` compares with a definition by
well-founded recursion over the graph of uses, for graphs without cycles. It takes
`undone` options (the word n means *not given*) and the `+` of service parents as the code
has them (findings).

### ObjectLists, ObjectConfig

An item of a list is rejected or not and is a name, all, or a regular expression that stands for the names it
matches. Each phase of `xodtemplate_read_config_data` is one action on the lists in memory: the
three kinds of groups, the copies of services, the index of services, escalations and dependencies, the
inheritance of contacts and intervals, and the registration. An error in any ends in `failed`.
The reference definitions of the properties are declarative: least fixed points over
included groups, sets of assigned hosts, products of masters and dependents.

## 3. Runs

| Run | Question | Bounds | Why they are enough |
|---|---|---|---|
| `event_queue` | Does the heap, cancelled and extended while a poll is under way, stay ordered, within its array and an implementation of `TimedEvents`? | six events, seven times, all distinct | six nodes is the least for which a removal has to bubble up as well as down; sizes 1, 2, 4 and 8 occur |
| `worker_pool` | Is each job held once, given its own result, and ended, while workers die, repeat answers and lists run full? | three connections, three jobs, one plugin, one job per worker | refusal, reassignment to a dead worker, a second death during recovery and dropping all occur |
| `worker_process` | Is each job reported once and completely, is nothing else killed, and does each job end? | two jobs, three process ids that others use too, one unit of output | a child's id goes to another process while its job is still listed; a lost signal of one child beside the end of another |
| `service_states` | Is the soft/hard machine consistent under results, commands and host changes? | one service, all kinds of results, `max_attempts` 2 to 4 changed at run time | services do not interact here; attempts beyond 4 repeat |
| `service_schedule` | Does a service always have another check event? | one service, two overlapping checks, one lost result, intervals 2 and 1, timeout 2, slack 2 | each time constant is distinguished from the next; a second loss repeats the first, since the orphan check restores the state before it |
| `service_parallel` | Does `max_concurrent_checks` hold for checks that are not forced? | two services, one slot, two overlapping checks each, one lost result, a dependency | one slot and two claimants is the least case; forced checks may exceed it by design |
| `host_checks` | Is what a change of a route makes doubtful checked again, and do states settle as the network is? | a router checked at intervals, a host behind it that depends on it and is checked on demand only, one disturbance beside the changes of the network | a parent and a child are the least for propagation both ways; a host without interval lives on propagation alone |
| `downtime` | Do depths, pointers, comments and notifications agree with the downtimes in effect, and do these end, across triggers, cancellations, expiry and restarts? | three downtimes from three requests (fixed; flexible in its window; flexible and longer than its window) on two objects, times 10 to 14 | overlaps on one object, chains and pairs of triggers, a trigger that expires before what it triggers, a refused id and a restart during each phase all occur; the last stop falls on 14 |
| `alerts` | Do recoveries go to those who were told, and do acknowledgements and flapping comments last as long as what they are about? | a host or a service, a contact and one escalated to from the second notification, history of 3 states, two counted notifications, two comments, twelve scenes of commands and of what else varies | the escalation begins and is left, by its numbers and by its period; percentages cross both thresholds; a persistent and another comment coexist |
| `commands` | Do accepted commands mean what was written, and does a restart keep what they changed and only that? | two hosts, a service each, one contact, groups of them, scenes of one or two attributes, every registered command on them, odd lines of up to four fields | a copy taken for one attribute must hold the other; groups and the tree reach objects without retention of either kind; a masked attribute |
| `templates` | Has each directive the inherited value of a declarative definition? | three definitions in nine shapes of use, every way of taking in and inheriting of every kind | chain, triangle, repeated, missing, circular, duplicate and unnamed templates, in both orders of the list |
| `object_config` | Are groups, services, escalations and dependencies the ones the lists of names mean? | eight families of two hosts, up to three groups of a kind, two services | exclusion, wildcard, inclusion of three levels and loops of one to three groups, overlap of direct and group assignment |

Each property of a passing run has a mutant in `PROJECT.json`: a mutated definition of the model under
which TLC finds the property violated. Type invariants (`TypeOK`) are in the modules; those of
`EventQueue`, `WorkerPool`, `WorkerProcess`, `ServiceChecks`, `HostChecks`, `Downtime` and `Alerts` are theorems, that of `Retention` is part of the invariant of its theorems.

**Counterexamples to run by hand.** These configurations state what a comment, a test or a text of the
repository says, and TLC finds it violated; each belongs to a finding.

| Configuration | Module | Property | What it shows |
|---|---|---|---|
| `EventQueueTies.cfg` | `MCEventQueue` | `HeapHoldsPending` | with equal times, removing the last node leaves it in the heap in place of a pending event |
| `WorkerPoolPlugins.cfg` | `MCWorkerPool` | `ListsLive` | a worker registered for two plugins stays in one list after its end |
| `ServiceSlots.cfg` | `MCServiceChecks` | `SlotsAccounted` | a lost result beside a forced check leaks a slot |
| `ServiceMaxAttempts.cfg` | `MCServiceChecks` | `RecoveryNotified` | raising `max_attempts` from 1 swallows a recovery |
| `DowntimeDoubleStart.cfg` | `MCDowntime` | `DepthMatches` | two results before the start event count a flexible downtime twice |
| `DowntimeTriggered.cfg` | `MCDowntime` | `FlexLasts` | a flexible downtime that a fixed one triggers ends at once |
| `AlertsRecovery.cfg` | `MCAlerts` | `EveryRecoveryToTheTold` | of two recoveries of one result the second goes by a count that the first has raised |
| `RetentionFaults.cfg` | `MCCommands` | `EverythingKept` | obsession, the retry interval of hosts, whatever was changed of an object without status retention, and service attributes that are masked for hosts are not kept (`MCFaultyScenes`, one for each) |
| `HostFreshness.cfg` | `MCHostChecks` | `DiscardedChangesNothing` | a discarded freshness check changes the state of a host |

Four more follow from changing a line of a configuration: `OwnReuse = TRUE` in
`WorkerProcess.cfg` violates `NoStrayKill`, `INVARIANT GrandchildrenEnd` there is violated, `PROPERTY
RecoveryWhateverThePeriods` in `AlertsRecovery.cfg` is violated (an escalation period ends between problem and recovery), and `Families <-
MCSwappedFamilies` in `ObjectConfig.cfg` violates `DependenciesAsMeant`.

**Symmetry.** Only the events of `EventQueue` are a symmetry set: no definition tells them
apart, and its properties are safety properties. `worker_pool` has none, since it checks liveness; its constraint
`InOrder` fixes the order in which the interchangeable connections register.

**Fairness.** `WorkerPool`: the loop reads every readable socket and the handler of an end
of file runs to its end (weak fairness of the master's steps), and a worker that lives
answers each job, since it kills those that time out; nothing is assumed of registration, spawning
or callers. `WorkerProcess`: the loop goes on (weak fairness of polling and reaping), the kill
event of a job is run sooner or later although a poll that had input runs none (strong fairness), and
the kernel ends what was sent SIGKILL; nothing is assumed of children. This is what
justifies the assumption of `WorkerPool` on workers (`JobsEnd`). `ServiceChecks` and `HostChecks`: due events are run and results read (the loop), the orphan
and freshness handlers are events that schedule themselves again, and time passes. Nothing is
assumed of commands, of the host of a service or of the network. The orphan check can be switched off in the configuration;
`EventsRecur` and `StatesSettle` are about the default, on. `Downtime`, `Alerts`: due events are run and time passes; nothing is assumed of commands,
results or restarts.

**Deadlock.** It is checked everywhere except where the system may stop: `worker_pool` (all jobs settled and all
connections used), `worker_process` (the worker has ended), `alerts` and `commands` (bounds on
comments and notifications, a configuration with which the program does not start).

## 4. Theorems

Proved with TLAPS for every value of the constants that satisfies the modules' assumptions. A
condition of a theorem that is not an assumption of its module is a premise of its statement, and stands for a
case in which the code does something else: a finding, or an option that is off by default.

| Module | Theorem | Property | Premise |
|---|---|---|---|
| `EventQueueProofs` | `TypeCorrect` | `TypeOK` | distinct times |
| | `HeapStaysSound` | `HeapSound` | distinct times |
| | `SizeIsKept` | `SizeFits` | distinct times |
| | `QueueImplementsTimedEvents` | `RefinesTimedEvents` | distinct times |
| `WorkerPoolProofs` | `TypeCorrect` | `TypeOK` | |
| | `ResultsBelongToTheirJobs` | `ResultsBelong` | |
| | `CapacityIsKept` | `WithinCapacity` | |
| | `JobsAreAccountedFor` | `JobsAccounted` | `AtMostOnePlugin` |
| | `OnlyLiveWorkersAreListed` | `ListsLive` | `AtMostOnePlugin` |
| `WorkerProcessProofs` | `TypeCorrect` | `TypeOK` | |
| | `OneReportPerJob` | `ReportsRight` | `OwnReuse = FALSE` |
| | `OnlyOwnChildrenAreKilled` | `NoStrayKill` | `OwnReuse = FALSE` |
| `ServiceChecksProofs` | `ServiceTypeCorrect` | `TypeOK` | |
| | `ParallelChecksAreLimited` | `ParallelLimit` | |
| | `HardProblemsStayHard` | `HardStaysHard` | |
| | `StatesAreConsistent`, `HandlersAreTold` | `StateConsistent`, `HandlerTold` | skipped checks keep states |
| | `RecoveriesAreNotified` | `RecoveryNotified` | and `max_attempts` is not one while commands change it |
| `HostChecksProofs` | `TypeCorrect` | `TypeOK` | |
| | `RoutesAreRechecked` | `RoutesRechecked` | skipped checks keep states |
| `DowntimeProofs` | `TypeCorrect` | `TypeOK` | `Prompt` |
| | `PointersAreLive`, `NothingFreedIsRead` | `PointersLive`, `NoFreedRead` | `Prompt` |
| | `DepthsMatch`, `ContactsAreInformed` | `DepthMatches`, `ContactsInformed` | `Prompt`, `SortedTriggers` |
| | `CommentsGoWithDowntimes` | `CommentsOwned` | |
| `AlertsProofs` | `TypeCorrect` | `TypeOK` | |
| | `AcknowledgementsEnd` | `AcksEndWithProblems` | |
| | `FlappingCommentsAreOwned` | `FlapCommentsOwned` | |
| | `RecoveriesFollowProblems` | `RecoveryFollowsProblem` | no global notification handler |
| | `RecoveriesGoToTheTold` | `RecoveryToTheTold` | `Alike` |
| `RetentionProofs` | `CopiesAreConfigured` | `StashIsConfigured` | |
| | `RetainedValuesComeBack` | `RetentionWins` | `MasksAgree`: what is masked for hosts is masked for services, of objects and of the program |

**`EventQueueProofs`.** The invariant, `QueueInv`, says that the array is a heap of the pending events with `pos`
in agreement (`SoundHeap`), that `size` is a power of two that fits, and that the poll holds the head
as long as no input handler has run. Each loop is shown to end and to keep what it must by looking at the
least state in which it would not (`LoopExists`, `LoopEnds`), which needs no induction. A bubble moves one hole in the order:
`OrderedAbove` says that only one node may be too early for its place, `OrderedBelow` that only
one may be too late. `evheap_remove` needs the second of them for two nodes: the last event, put in the middle, may also
belong further up, and then the loop downwards stops at once. For the removed last event both loops must do
nothing (`BubbleNothing`), which is where distinct times are needed: with equal ones
the slot beyond the heap is swapped back in (finding, `EventQueueTies.cfg`). That its
slot is still in the array (`SlotAllocated`) holds because sizes are powers of two: halving an array of three slots to one would lose
the second. The refinement is one lemma per action (`StepRefines`): the start
and the idle end of a poll are stuttering, the run of an event is `Run` of the earliest one by `HeadPending`.

**`WorkerPoolProofs`.** The inductive invariant is `TypeOK` with four parts: ids in tables and messages are below
`job_index` and no two entries of a worker share one (`IdsInv`); the loop's variables agree with
the status of workers (`LoopInv`); only connected workers are in lists and a worker that is
being taken down is in none (`ListInv`); each job has one holder while it has not been answered
(`HeldInv`). Without `IdsInv` a repeated answer could meet a new job; without `ListInv` a job
could be reassigned to the worker that is about to be freed. `CapacityIsKept` has an
invariant of its own (`RoomInv`): a worker is given a job only if it has room, also by `ReassignJob`.
`OnlyLiveWorkersAreListed` adds that `workers_online` counts the listed ones
(`OnlineInv`). `AtMostOnePlugin` is needed because of the finding of `WorkerPoolPlugins.cfg`.

**`WorkerProcessProofs`.** `JobInv`: a listed job is the one that `ptab` has under its process id, it has been
reported exactly if its state is ESTALE, one that is gone was reported once, and a report of an exit has all the output. `ProcInv`:
the child of a job that was not reported is still there, and has ended and been read to its end if its pipe is closed;
a child belongs to the listed job with its id, and one that runs to a job that was not reported. `ProcInv`
fails if a child can get the id of one whose job is still listed, hence the premise (finding). It is claimed only until the
worker ends, which kills everything it has listed.

**`ServiceChecksProofs`.** Every step changes the state of a service in
one of a few ways (`StateChanges`): a result was applied, a skipped check overwrote it, or a
command changed a part that the properties do not look at (`OtherChange`). Each property is shown for each way. That
skipped checks keep states is the default of the option; with it the state machine is bypassed. For
`RecoveriesAreNotified` the second premise is the finding of `ServiceMaxAttempts.cfg`, and its
invariant, `NotifiedInv`, says that a service whose contacts were notified is in a state from which the
recovery counts as a hard one. These theorems also cover volatile services, which no run has.
`ParallelChecksAreLimited` is about a counter that lost results make wrong. It rests on `CountInv`: `running` is at
least the number of checks in workers plus that of the services that are executing without
one. A check that runs could be taken for an orphan and off the count, so the invariant
also bounds how far back `next_check` of a service can be by the age of its check, which the timeout of
the workers bounds in turn.

**`HostChecksProofs`.** `RoutesRechecked` is inductive with the type invariant, for any graph of parents. A result
leaves its own host in agreement with its parents (`DeterminedType`), since a host is not its own parent; a child that
no longer agrees is one that `Propagated` has checked, in both directions of the change, or was in disagreement before and is
still being checked. Every other handler is shown to leave a host that is being checked or scheduled so
(`StatesKept`). The premise is needed because `Skipped` overwrites a state without any propagation.

**`DowntimeProofs`.** `Inv` has, beside types and the order of ids: what is in effect has no trigger or one in effect
(`TriggerInv`); a start event is the only one of its downtime, which nothing triggers and which is not in effect, a
stop event is of one in effect (`EventInv`); pointers are to events of the right kind, and `stop_event` is the expiry
until the downtime is in effect (`PointerInv`); the list is in the order of `downtime_compar` (`OrderInv`); and depths
and notices match (`DepthInv`, if triggers are sorted first). `TriggerInv` is the key: with it nothing that is
reached from a downtime that is not in effect is in effect (`UnstartedCascade`), so that a start toggles nothing
that runs, a stop frees nothing that a nested start has reached, and a restart leaves out nothing in effect. `Cascade` is a least fixed point, and the proofs use
only that it is closed and least (`CascadeFacts`, `CascadeLeast`). All ways of deleting downtimes go through one lemma
(`RemovesKeeps`). `Prompt` is needed for `EventInv`: a second result before the start event is run schedules a
second start (`DowntimeDoubleStart.cfg`). `CommentsGoWithDowntimes` needs none of this.

**`AlertsProofs`.** The parts of the invariant: only an acknowledged object has comments of
acknowledgements that are not persistent, and it has a problem (`AckOK`); the id of the flapping comment and the ids in the
table are below the counter, so that no later comment gets an id that is remembered (`FlapOK`); an object without a problem has
nothing in `notified_on` (`Silent`); and if there is something in `notified_on`, somebody was told. A result is
shown to keep them in the order of the code, with a lemma for each function of `Notifications`, `Comments` and `Flapping` on what it
changes; in the middle of a result only weaker forms hold (`Good`, without `Silent`). A global notification handler
sets `notified_on` without a contact being told, hence the premise.

`RecoveriesGoToTheTold` rests on one more invariant, `Heard`: while there is something in `notified_on`, everybody
who would be sent the recovery under the present count of notifications and the escalations that were in their periods
when the problem was last told (`told_under`) was told of it (`Known`). The property is about recoveries under the same
escalations: the code looks at the period of the present (finding).
In the middle of a step this is `Informed`: the notices the step sends so far count as told, all of them name the
present state, and the first recovery among them went to those told before the step. A notification moves from one such
world to the next because the contacts of a problem's n-th notification are picked under the count n, those of its
recovery under that count less one (`CandidatesAre`). What is not a notification leaves the count alone or clears
`notified_on` with it (`Alone`); retention saves both (`Retained`). `Alike` has three parts, each needed. A global handler
sets `notified_on` as above. An escalation for some states only is followed for the problem and not for the
recovery (`EscalationsAlike`; without `escalation_options` an escalation is for all states,
`xodtemplate.c:5965`, `6436`). And if alice and bob are notified together and bob hears of CRITICAL but not of
WARNING, then after CRITICAL and WARNING the recovery goes to both, though only alice was told last
(`ContactsAlike`).

**`RetentionProofs`.** The invariant is `TypeOK`, `StashIsConfigured` and `FileInv`, which says what
lines the file has of the state at the last save: of a flag with a copy there is one exactly if it was not as configured. The theorems are about `Retention`'s own specification, whose
changes include what any command handler does; `Commands`, which parses the lines, declares
recursive operators. `RetainedValuesComeBack` has the premise because the code reads the masks of
hosts in place of those of services (finding); of an object without status retention it says, as of one
without nonstatus retention, that its flags are as configured (finding).

**Only model-checked**: liveness (`JobsFinish`, `JobsEnd`, `EventsRecur`, `StatesSettle`, `DowntimesEnd`,
`AcksExpire`), which is beyond the prover; and `Commands`, `Templates` and
`ObjectConfig`, which are built on recursive operators and need induction over their data.

## 5. Findings

`findings` in `PROJECT.json` lists 36 disagreements between comments, tests, texts or documentation and
the code that were met while modelling. Those with a counterexample name its configuration; the
others were read off the code. Where the code disagrees with the
intent the model follows the code, and the property excepts the case by name: `dropped` hosts
in `RoutesRechecked`; the second recovery of one result and escalation periods that begin or end in between in
`RecoveryToTheTold`; obsession, the retry interval of hosts and objects without status retention in `RetentionWins`
(attributes of services that only hosts mask are excepted by `MasksAgree`, a premise of its theorem); the end of
the worker in `NoStrayKill`; and the two
families of dependencies that `MCObjectConfig` leaves out and names.

## 6. Not modelled

- **Main configuration file**: variables are read into globals, one line at a time, with no state but error flags.
- **I/O broker, buffer queues, sockets; query handler; nerd**: tables of descriptors and buffers. The handlers they
  call are actions of the modules; that input keeps timed events from being run is in `EventQueue`.
- **Check results and spool directory**: files are read and handed to the handlers that are modelled as passive results.
- **Time periods and macros**: pure computations on the calendar and on text; the modules
  take the answers of time periods from the environment.
- **Main loop, signals and restart**: the poll step is in `EventQueue`, and `Downtime`, `Alerts` and `Commands`
  have restarts as whole steps; the order of teardown inside one is left out.
- **Status output, broker modules, logging, small libraries, vendored code**: no state of the core.
- **Retention options in `Alerts` and `Downtime`**: restarts there are of objects with both options on, the default;
  `Retention` has the others.
- Of modelled components: commands for groups in modules other than `Commands` are several steps;
  custom variables; regular expressions; the precached object file; the merging of extended information; check
  results and times in the retention file; the command file worker.

## 7. Plan

The model has what the plan of the first version listed, except the I/O broker with query handler and
nerd, and the calendar. What is left is to prove, of `ObjectConfig` and `Templates`, what does not rest
on recursion.
