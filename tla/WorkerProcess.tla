--------------------------- MODULE WorkerProcess ---------------------------
(* A worker (worker.c): it starts a child process for each job the master   *)
(* sends, gathers its output, reaps it, reports to the master, and kills    *)
(* what lasts too long.  The loop polls for input and events, then reaps;   *)
(* the signal handler interrupts it anywhere.  Children write, fork, hang   *)
(* and exit as they like; a process id is given out again once no process   *)
(* and no process group has it.  A kill event may come at any time: how     *)
(* long a job may last is left open.                                        *)
EXTENDS Integers, Sequences

CONSTANTS Jobs,
          Pids,          \* the process ids, none of them 0
          OwnReuse,      \* may a child get the id of one whose job is still listed?
          StartsFail,    \* may a command fail to start?
          MaxOutput      \* bound on what a child writes

None == "none"

ASSUME WorkerProcessAssumption ==
    /\ None \notin Jobs
    /\ 0 \notin Pids
    /\ {OwnReuse, StartsFail} \subseteq BOOLEAN
    /\ MaxOutput \in Nat

VARIABLES job,        \* the child_process of each job
          ptab,       \* the table of jobs by process id
          proc,       \* the processes: children of this worker, and others
          family,     \* the process groups in which grandchildren are left
          reapable,   \* how many children the signal handler has counted
          pc,         \* "poll", "reap" in the loop; "dead" when the worker has ended
          reports,    \* what the master was sent about each job
          stray       \* was a process killed that is not the child of the job?

vars == <<job, ptab, proc, family, reapable, pc, reports, stray>>

(* A job is sent once; it is listed from its start to destroy_job.  state   *)
(* is ESTALE once it has been reported.                                     *)
JobRecord ==
    [phase : {"unsent", "listed", "gone"}, state : {"0", "ESTALE"}, pid : Pids \cup {0},
     timed_event : BOOLEAN, open : BOOLEAN, wrote : 0..MaxOutput, gathered : 0..MaxOutput]

(* What has a process id: a child of the worker, which may not die at once  *)
(* when it is sent SIGKILL, a foreign process, or none.                     *)
ChildStates == {"running", "dying", "zombie"}
Process == [job : Jobs \cup {None}, state : ChildStates \cup {"foreign", "none"}]
NoProcess == [job |-> None, state |-> "none"]
ForeignProcess == [job |-> None, state |-> "foreign"]

Report == [kind : {"exited", "ETIME", "error"}, output : 0..MaxOutput]

TypeOK ==
    /\ job \in [Jobs -> JobRecord]
    /\ ptab \in [Pids -> Jobs \cup {None}]
    /\ proc \in [Pids -> Process]
    /\ family \subseteq Pids
    /\ reapable \in Int
    /\ pc \in {"poll", "reap", "dead"}
    /\ reports \in [Jobs -> Seq(Report)]
    /\ stray \in BOOLEAN

IsChild(p) == proc[p].state \in ChildStates
Zombies == {p \in Pids : proc[p].state = "zombie"}
Unused(p) == proc[p] = NoProcess /\ p \notin family

-----------------------------------------------------------------------------
(* Mutant: what is in the pipe when the child ends is not read.             *)
finish_jobUnread(r) == [r EXCEPT !.state = "ESTALE", !.open = FALSE]

(* finish_job, of the record r of a job: the rest of the output is read ... *)
finish_job(r) ==
    [r EXCEPT !.state = "ESTALE", !.open = FALSE,
              !.gathered = IF r.open THEN r.wrote ELSE @]

(* ... and the result is sent.                                              *)
Send(j, kind, output) ==
    reports' = [reports EXCEPT ![j] = Append(@, [kind |-> kind, output |-> output])]

(* destroy_job, without the entry of ptab.                                  *)
destroy_job(r) == [r EXCEPT !.phase = "gone", !.timed_event = FALSE]

(* receive_command and spawn_job: a command without a command line is       *)
(* answered with an error and forgotten.                                    *)
spawn_job(j, p) ==
    /\ pc = "poll" /\ job[j].phase = "unsent"
    /\ Unused(p)
    /\ OwnReuse \/ \A k \in Jobs : job[k].phase = "listed" => job[k].pid # p
    /\ job' = [job EXCEPT ![j] = [@ EXCEPT !.phase = "listed", !.pid = p,
                                           !.timed_event = TRUE, !.open = TRUE]]
    /\ ptab' = [ptab EXCEPT ![p] = j]
    /\ proc' = [proc EXCEPT ![p] = [job |-> j, state |-> "running"]]
    /\ pc' = "reap"
    /\ UNCHANGED <<family, reapable, reports, stray>>

NoCommand(j) ==
    /\ pc = "poll" /\ job[j].phase = "unsent"
    /\ Send(j, "error", 0)
    /\ job' = [job EXCEPT ![j] = destroy_job(@)]
    /\ pc' = "reap"
    /\ UNCHANGED <<ptab, proc, family, reapable, stray>>

(* start_cmd fails: after the error was sent the event of the job is        *)
(* destroyed, and its handler kills process group -pid.  pid is still 0, so *)
(* that is the group of the worker.                                         *)
SpawnFails(j) ==
    /\ StartsFail
    /\ pc = "poll" /\ job[j].phase = "unsent"
    /\ Send(j, "error", 0)
    /\ job' = [job EXCEPT ![j] = destroy_job(@)]
    /\ pc' = "dead"
    /\ UNCHANGED <<ptab, proc, family, reapable, stray>>

(* The end of file comes when no process has the pipe open any more.        *)
PipeClosed(j) ==
    LET p == job[j].pid
    IN  /\ p \notin family
        /\ proc[p].job = j => proc[p].state = "zombie"

Input(j) ==
    job[j].phase = "listed" /\ job[j].open /\ (job[j].wrote > job[j].gathered \/ PipeClosed(j))

(* stdout_handler and stderr_handler: gather_output reads what there is.    *)
gather_output(j) ==
    /\ pc = "poll" /\ Input(j)
    /\ job' = [job EXCEPT ![j].gathered = job[j].wrote, ![j].open = ~PipeClosed(j)]
    /\ pc' = "reap"
    /\ UNCHANGED <<ptab, proc, family, reapable, reports, stray>>

(* Mutant: whoever has the process id is killed.                            *)
KillsAnyone(p) == proc[p] # NoProcess

(* get_process_parent_id: is the process a child of this worker?            *)
KillsChild(p) == IsChild(p)

(* kill_job of an id that no child has: the job is destroyed.               *)
KillFindsNone(j) ==
    /\ ~KillsChild(job[j].pid)
    /\ job' = [job EXCEPT ![j] = destroy_job(@)]
    /\ ptab' = [ptab EXCEPT ![job[j].pid] = None]
    /\ UNCHANGED <<proc, family, reapable, reports, stray>>

(* The process group is killed, and a job that was not reported yet is: r   *)
(* is its record then.                                                      *)
Killed(j, r) ==
    LET p == job[j].pid
    IN  /\ KillsChild(p)
        /\ family' = family \ {p}
        /\ stray' = (stray \/ proc[p].job # j)
        /\ IF job[j].state # "ESTALE" THEN Send(j, "ETIME", r.gathered) ELSE UNCHANGED reports

TimedOut(j) == IF job[j].state # "ESTALE" THEN finish_job(job[j]) ELSE job[j]

(* The child ends at once, or had ended, and is reaped here ...             *)
KillEnds(j) ==
    LET p == job[j].pid
    IN  /\ Killed(j, TimedOut(j))
        /\ proc' = [proc EXCEPT ![p] = NoProcess]
        /\ reapable' = IF p \in Zombies THEN reapable ELSE reapable + 1
        /\ ptab' = [ptab EXCEPT ![p] = None]
        /\ job' = [job EXCEPT ![j] = destroy_job(TimedOut(j))]

(* Mutant: a child that does not die is not tried again.                    *)
KillHangsOnce(j) ==
    LET p == job[j].pid
    IN  /\ Killed(j, TimedOut(j)) /\ p \notin Zombies
        /\ proc' = [proc EXCEPT ![p].state = "dying"]
        /\ job' = [job EXCEPT ![j] = [TimedOut(j) EXCEPT !.timed_event = FALSE]]
        /\ UNCHANGED <<ptab, reapable>>

(* ... or the event is scheduled again.                                     *)
KillHangs(j) ==
    LET p == job[j].pid
    IN  /\ Killed(j, TimedOut(j)) /\ p \notin Zombies
        /\ proc' = [proc EXCEPT ![p].state = "dying"]
        /\ job' = [job EXCEPT ![j] = TimedOut(j)]
        /\ UNCHANGED <<ptab, reapable>>

(* The event is run by a poll that saw no input.                            *)
kill_job(j) ==
    /\ pc = "poll" /\ \A k \in Jobs : ~Input(k)
    /\ job[j].timed_event
    /\ KillFindsNone(j) \/ KillEnds(j) \/ KillHangs(j)
    /\ pc' = "reap"

(* The poll times out or a signal ends it.                                  *)
PollEnds ==
    /\ pc = "poll" /\ \A k \in Jobs : ~Input(k)
    /\ pc' = "reap"
    /\ UNCHANGED <<job, ptab, proc, family, reapable, reports, stray>>

-----------------------------------------------------------------------------
Unreported(j) == job[j].state # "ESTALE"

(* reap_jobs: one turn of its loop.  reapable is unsigned, so that it is    *)
(* not zero after it was decremented below zero.                            *)
Looped(count) == pc' = IF count # 0 THEN "reap" ELSE "poll"

ReapChild(p) ==
    /\ pc = "reap" /\ p \in Zombies
    /\ proc' = [proc EXCEPT ![p] = NoProcess]
    /\ LET j == ptab[p]
       IN  /\ reapable' = IF j = None THEN reapable ELSE reapable - 1
           /\ IF j # None /\ Unreported(j)
              THEN /\ job' = [job EXCEPT ![j] = finish_job(@)]
                   /\ Send(j, "exited", job'[j].gathered)
              ELSE UNCHANGED <<job, reports>>
    /\ Looped(reapable')
    /\ UNCHANGED <<ptab, family, stray>>

ReapNone ==
    /\ pc = "reap" /\ Zombies = {}
    /\ reapable' = 0
    /\ Looped(0)
    /\ UNCHANGED <<job, ptab, proc, family, reports, stray>>

(* receive_command at the end of file: exit_worker ends every job, whose    *)
(* handler kills its process group without looking at the parent.           *)
exit_worker ==
    LET killed == {job[j].pid : j \in {k \in Jobs : job[k].timed_event}}
    IN  /\ pc = "poll"
        /\ stray' = (stray \/ \E p \in killed : proc[p] = ForeignProcess)
        /\ proc' = [p \in Pids |-> IF p \in killed THEN NoProcess ELSE proc[p]]
        /\ family' = family \ killed
        /\ pc' = "dead"
        /\ UNCHANGED <<job, ptab, reapable, reports>>

-----------------------------------------------------------------------------
(* Processes.                                                               *)
ChildWrites(p) ==
    /\ proc[p].state = "running"
    /\ job[proc[p].job].wrote < MaxOutput
    /\ job' = [job EXCEPT ![proc[p].job].wrote = @ + 1]
    /\ UNCHANGED <<ptab, proc, family, reapable, pc, reports, stray>>

ChildForks(p) ==
    /\ proc[p].state = "running"
    /\ family' = family \cup {p}
    /\ UNCHANGED <<job, ptab, proc, reapable, pc, reports, stray>>

(* A child ends, and sigchld_handler is run.  Its increment is lost if it   *)
(* interrupts the decrement or the reset in reap_jobs.                      *)
ChildEnds(p) ==
    /\ IsChild(p) /\ p \notin Zombies
    /\ proc' = [proc EXCEPT ![p].state = "zombie"]
    /\ \/ reapable' = reapable + 1
       \/ pc = "reap" /\ UNCHANGED reapable
    /\ UNCHANGED <<job, ptab, family, pc, reports, stray>>

FamilyEnds(p) ==
    /\ p \in family
    /\ family' = family \ {p}
    /\ UNCHANGED <<job, ptab, proc, reapable, pc, reports, stray>>

ForeignStarts(p) ==
    /\ Unused(p)
    /\ proc' = [proc EXCEPT ![p] = ForeignProcess]
    /\ UNCHANGED <<job, ptab, family, reapable, pc, reports, stray>>

ForeignEnds(p) ==
    /\ proc[p] = ForeignProcess
    /\ proc' = [proc EXCEPT ![p] = NoProcess]
    /\ UNCHANGED <<job, ptab, family, reapable, pc, reports, stray>>

(* enter_worker                                                             *)
Init ==
    /\ job = [j \in Jobs |-> [phase |-> "unsent", state |-> "0", pid |-> 0,
                              timed_event |-> FALSE, open |-> FALSE, wrote |-> 0, gathered |-> 0]]
    /\ ptab = [p \in Pids |-> None]
    /\ proc = [p \in Pids |-> NoProcess]
    /\ family = {}
    /\ reapable = 0
    /\ pc = "poll"
    /\ reports = [j \in Jobs |-> << >>]
    /\ stray = FALSE

Poll == PollEnds \/ \E j \in Jobs : gather_output(j) \/ kill_job(j)

Reap == ReapNone \/ \E p \in Pids : ReapChild(p)

Next ==
    \/ pc # "dead" /\ \E j \in Jobs : (\E p \in Pids : spawn_job(j, p)) \/ NoCommand(j) \/ SpawnFails(j)
    \/ Poll
    \/ Reap
    \/ exit_worker
    \/ pc # "dead" /\ \E p \in Pids :
         ChildWrites(p) \/ ChildForks(p) \/ ChildEnds(p) \/ FamilyEnds(p)
    \/ pc # "dead" /\ \E p \in Pids : ForeignStarts(p) \/ ForeignEnds(p)

Spec == Init /\ [][Next]_vars

(* The loop goes on, a poll that sees no input runs the events that are     *)
(* due, and the kernel ends what was killed.                                *)
Fairness ==
    /\ WF_vars(Poll) /\ WF_vars(Reap)
    /\ \A j \in Jobs : SF_vars(kill_job(j))
    /\ \A p \in Pids : WF_vars(proc[p].state = "dying" /\ ChildEnds(p))

FairSpec == Spec /\ Fairness

-----------------------------------------------------------------------------
(* The master is sent one report of each job, before the worker forgets it  *)
(* and never again, and the report of a child that ended by itself has all  *)
(* that it wrote, whatever the order of its output, its end, the signal and *)
(* the kill event.                                                          *)
ReportsRight ==
    \A j \in Jobs :
        /\ Len(reports[j]) <= 1
        /\ job[j].phase = "gone" => Len(reports[j]) = 1
        /\ \A i \in DOMAIN reports[j] :
             reports[j][i].kind = "exited" => reports[j][i].output = job[j].wrote

(* A job lasts in the worker after its child has ended, until its time is   *)
(* over; another process may have the id of the child by then, and it is    *)
(* not killed in its place.  (The end of the worker has no such test.)      *)
NoStrayKill == pc # "dead" => ~stray

(* Every job is reported and leaves the worker, unless the worker ends:     *)
(* children that hang, signals that are lost and pipes that grandchildren   *)
(* hold do not keep it.                                                     *)
JobsEnd == \A j \in Jobs : job[j].phase = "listed" ~> (job[j].phase = "gone" \/ pc = "dead")

(* "We leave any grandchild processes alive, until the timeout for this job *)
(* has expired (at which point they will be reaped by the scheduled         *)
(* kill_job() event)": none is left when the job is.                        *)
GrandchildrenEnd ==
    \A j \in Jobs : job[j].phase = "gone" /\ job[j].pid # 0 => job[j].pid \notin family
=============================================================================
