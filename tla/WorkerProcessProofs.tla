------------------------- MODULE WorkerProcessProofs -------------------------
(* Proofs about WorkerProcess for any number of jobs and process ids.       *)
EXTENDS WorkerProcess, TLAPS

(* A child is the child of a job.                                           *)
ChildrenHaveJobs == \A p \in Pids : IsChild(p) => proc[p].job \in Jobs

(* What a job has been through, and what was sent about it.                 *)
JobOK(j) ==
    /\ job[j].phase = "unsent" => job[j].state = "0" /\ Len(reports[j]) = 0
    /\ job[j].phase = "listed" =>
         /\ job[j].pid \in Pids
         /\ ptab[job[j].pid] = j
         /\ Len(reports[j]) = IF job[j].state = "ESTALE" THEN 1 ELSE 0
    /\ job[j].phase = "gone" => Len(reports[j]) = 1
    /\ job[j].timed_event => job[j].phase = "listed"
    /\ \A i \in DOMAIN reports[j] :
         reports[j][i].kind = "exited" => reports[j][i].output = job[j].wrote

JobInv == \A j \in Jobs : JobOK(j)

(* The child of a job that was not reported is still there; if its pipe was *)
(* closed it has ended and all its output was read.                         *)
UnreportedOK(j) ==
    job[j].phase = "listed" /\ job[j].state # "ESTALE" =>
        /\ IsChild(job[j].pid) /\ proc[job[j].pid].job = j
        /\ ~job[j].open => /\ job[j].gathered = job[j].wrote
                           /\ proc[job[j].pid].state # "running"

(* A child is that of the listed job with its process id; one that was not  *)
(* sent SIGKILL and has not ended is that of a job that was not reported.   *)
ChildOK(p) ==
    IsChild(p) =>
        /\ proc[p].job \in Jobs
        /\ job[proc[p].job].phase = "listed"
        /\ job[proc[p].job].pid = p
        /\ proc[p].state = "running" => job[proc[p].job].state # "ESTALE"

ProcInv == (\A j \in Jobs : UnreportedOK(j)) /\ (\A p \in Pids : ChildOK(p))

IndInv == TypeOK /\ JobInv /\ (pc # "dead" => ProcInv /\ ~stray)

-----------------------------------------------------------------------------
(* Type correctness.                                                        *)

LEMMA FinishedRecord ==
    ASSUME NEW r \in JobRecord
    PROVE  /\ finish_job(r) \in JobRecord
           /\ finish_job(r).phase = r.phase /\ finish_job(r).state = "ESTALE"
           /\ finish_job(r).pid = r.pid /\ finish_job(r).timed_event = r.timed_event
           /\ finish_job(r).wrote = r.wrote
           /\ finish_job(r).gathered = IF r.open THEN r.wrote ELSE r.gathered
  BY DEF finish_job, JobRecord

LEMMA DestroyedRecord ==
    ASSUME NEW r \in JobRecord
    PROVE  /\ destroy_job(r) \in JobRecord
           /\ destroy_job(r).phase = "gone" /\ destroy_job(r).timed_event = FALSE
           /\ destroy_job(r).wrote = r.wrote
  BY DEF destroy_job, JobRecord

LEMMA SendType ==
    ASSUME reports \in [Jobs -> Seq(Report)], NEW j \in Jobs,
           NEW kind \in {"exited", "ETIME", "error"}, NEW output \in 0..MaxOutput,
           Send(j, kind, output)
    PROVE  /\ reports' \in [Jobs -> Seq(Report)]
           /\ Len(reports'[j]) = Len(reports[j]) + 1
           /\ Len(reports[j]) = 0 =>
                /\ DOMAIN reports'[j] = {1}
                /\ reports'[j][1].kind = kind /\ reports'[j][1].output = output
           /\ \A k \in Jobs \ {j} : reports'[k] = reports[k]
<1> DEFINE e == [kind |-> kind, output |-> output]
<1>1. e \in Report /\ e.kind = kind /\ e.output = output
  BY DEF Report
<1>2. reports' = [reports EXCEPT ![j] = Append(reports[j], e)]
  BY DEF Send
<1> HIDE DEF e
<1>3. reports[j] \in Seq(Report)
  OBVIOUS
<1>4. /\ Append(reports[j], e) \in Seq(Report)
      /\ Len(Append(reports[j], e)) = Len(reports[j]) + 1
      /\ Append(reports[j], e)[Len(reports[j]) + 1] = e
      /\ DOMAIN Append(reports[j], e) = 1..Len(reports[j]) + 1
  BY <1>1, <1>3
<1>5. reports'[j] = Append(reports[j], e)
  BY <1>2
<1>6. reports' \in [Jobs -> Seq(Report)] /\ \A k \in Jobs \ {j} : reports'[k] = reports[k]
  BY <1>2, <1>4
<1>7. Len(reports[j]) = 0 => DOMAIN reports'[j] = {1} /\ reports'[j][1] = e
  BY <1>4, <1>5
<1> QED
  BY <1>1, <1>4, <1>5, <1>6, <1>7

(* The record of a job after the reports of a timeout.                      *)
LEMMA TimedOutRecord ==
    ASSUME TypeOK, NEW j \in Jobs
    PROVE  /\ TimedOut(j) \in JobRecord
           /\ TimedOut(j).phase = job[j].phase /\ TimedOut(j).state = "ESTALE"
           /\ TimedOut(j).pid = job[j].pid /\ TimedOut(j).timed_event = job[j].timed_event
           /\ TimedOut(j).wrote = job[j].wrote
           /\ TimedOut(j).gathered \in 0..MaxOutput
<1>1. job[j] \in JobRecord
  BY DEF TypeOK
<1>2. CASE job[j].state # "ESTALE"
  <2>1. TimedOut(j) = finish_job(job[j])
    BY <1>2 DEF TimedOut
  <2>2. finish_job(job[j]).gathered \in 0..MaxOutput
    BY <1>1, FinishedRecord DEF JobRecord
  <2> QED
    BY <1>1, <2>1, <2>2, FinishedRecord
<1>3. CASE job[j].state = "ESTALE"
  <2>1. TimedOut(j) = job[j]
    BY <1>3 DEF TimedOut
  <2> QED
    BY <1>1, <1>3, <2>1 DEF JobRecord
<1> QED
  BY <1>2, <1>3

(* What kill_job does in all its cases: a job that was not reported is.     *)
KillReports(j) ==
    /\ reports' \in [Jobs -> Seq(Report)]
    /\ \A k \in Jobs \ {j} : reports'[k] = reports[k]
    /\ job[j].state = "ESTALE" => reports'[j] = reports[j]
    /\ job[j].state # "ESTALE" /\ Len(reports[j]) = 0 =>
         /\ Len(reports'[j]) = 1 /\ DOMAIN reports'[j] = {1}
         /\ reports'[j][1].kind = "ETIME"

LEMMA KilledReports ==
    ASSUME TypeOK, NEW j \in Jobs, Killed(j, TimedOut(j))
    PROVE  KillReports(j)
<1>1. reports \in [Jobs -> Seq(Report)] /\ TimedOut(j).gathered \in 0..MaxOutput
  BY TimedOutRecord DEF TypeOK
<1>2. CASE job[j].state = "ESTALE"
  BY <1>1, <1>2 DEF Killed, KillReports
<1>3. CASE job[j].state # "ESTALE"
  <2>1. Send(j, "ETIME", TimedOut(j).gathered)
    BY <1>3 DEF Killed
  <2>2. /\ reports' \in [Jobs -> Seq(Report)]
        /\ Len(reports'[j]) = Len(reports[j]) + 1
        /\ Len(reports[j]) = 0 => /\ DOMAIN reports'[j] = {1}
                                  /\ reports'[j][1].kind = "ETIME"
        /\ \A k \in Jobs \ {j} : reports'[k] = reports[k]
    BY <1>1, <2>1, SendType
  <2> QED
    BY <1>3, <2>2 DEF KillReports
<1> QED
  BY <1>2, <1>3

LEMMA TypeStep ==
    ASSUME TypeOK, ChildrenHaveJobs, [Next]_vars
    PROVE  TypeOK' /\ ChildrenHaveJobs'
<1> USE WorkerProcessAssumption DEF TypeOK
<1>0. /\ NoProcess \in Process /\ ForeignProcess \in Process
      /\ NoProcess.state = "none" /\ ForeignProcess.state = "foreign"
  BY DEF NoProcess, ForeignProcess, Process
<1>a. ASSUME proc' = proc PROVE ChildrenHaveJobs'
  BY <1>a DEF ChildrenHaveJobs, IsChild
<1>b. ASSUME NEW q, proc' = [proc EXCEPT ![q] = NoProcess]
      PROVE  ChildrenHaveJobs' /\ proc' \in [Pids -> Process]
  BY <1>0, <1>b DEF ChildrenHaveJobs, IsChild, ChildStates
<1>c. ASSUME NEW q, NEW s \in ChildStates, IsChild(q), proc' = [proc EXCEPT ![q].state = s]
      PROVE  ChildrenHaveJobs' /\ proc' \in [Pids -> Process]
  BY <1>c DEF ChildrenHaveJobs, IsChild, ChildStates, Process
<1>1. ASSUME NEW j \in Jobs, NEW p \in Pids, spawn_job(j, p) PROVE TypeOK' /\ ChildrenHaveJobs'
  <2> DEFINE r == [job[j] EXCEPT !.phase = "listed", !.pid = p, !.timed_event = TRUE, !.open = TRUE]
  <2>a. r \in JobRecord
    <3>1. job[j] \in JobRecord
      OBVIOUS
    <3> QED
      BY <3>1 DEF JobRecord
  <2>b. job' = [job EXCEPT ![j] = r]
    BY <1>1 DEF spawn_job
  <2> HIDE DEF r
  <2>1. job' \in [Jobs -> JobRecord]
    BY <2>a, <2>b
  <2>2. proc' \in [Pids -> Process] /\ ChildrenHaveJobs'
    BY <1>1 DEF spawn_job, Process, ChildStates, ChildrenHaveJobs, IsChild
  <2> QED
    BY <1>1, <2>1, <2>2 DEF spawn_job
<1>2. ASSUME NEW j \in Jobs, NoCommand(j) \/ SpawnFails(j) PROVE TypeOK' /\ ChildrenHaveJobs'
  <2>1. job' \in [Jobs -> JobRecord]
    BY <1>2, DestroyedRecord, ZenonT(30) DEF NoCommand, SpawnFails
  <2>2. reports' \in [Jobs -> Seq(Report)]
    BY <1>2, SendType DEF NoCommand, SpawnFails
  <2> QED
    BY <1>2, <1>a, <2>1, <2>2 DEF NoCommand, SpawnFails
<1>3. ASSUME NEW j \in Jobs, gather_output(j) PROVE TypeOK' /\ ChildrenHaveJobs'
  <2>1. PICK b \in BOOLEAN :
          job' = [job EXCEPT ![j] = [job[j] EXCEPT !.gathered = job[j].wrote, !.open = b]]
    BY <1>3 DEF gather_output, PipeClosed
  <2>2. [job[j] EXCEPT !.gathered = job[j].wrote, !.open = b] \in JobRecord
    <3>1. job[j] \in JobRecord
      OBVIOUS
    <3> QED
      BY <3>1 DEF JobRecord
  <2>3. job' \in [Jobs -> JobRecord]
    BY <2>1, <2>2
  <2> QED
    BY <1>3, <1>a, <2>3 DEF gather_output
<1>4. ASSUME NEW j \in Jobs, kill_job(j) PROVE TypeOK' /\ ChildrenHaveJobs'
  <2>1. pc' = "reap"
    BY <1>4 DEF kill_job
  <2>2. CASE KillFindsNone(j)
    <3>1. job' \in [Jobs -> JobRecord] /\ ptab' \in [Pids -> Jobs \cup {None}]
      BY <2>2, DestroyedRecord DEF KillFindsNone
    <3> QED
      BY <1>a, <2>1, <2>2, <3>1 DEF KillFindsNone
  <2>3. ASSUME Killed(j, TimedOut(j))
        PROVE  /\ reports' \in [Jobs -> Seq(Report)]
               /\ family' \subseteq Pids /\ stray' \in BOOLEAN
    <3>1. reports' \in [Jobs -> Seq(Report)]
      BY <2>3, KilledReports DEF KillReports
    <3> QED
      BY <2>3, <3>1 DEF Killed
  <2>4. CASE KillEnds(j)
    <3>1. job' \in [Jobs -> JobRecord]
      BY <2>4, TimedOutRecord, DestroyedRecord DEF KillEnds
    <3>2. /\ ptab' = [ptab EXCEPT ![job[j].pid] = None]
          /\ reapable' = reapable \/ reapable' = reapable + 1
          /\ proc' = [proc EXCEPT ![job[j].pid] = NoProcess]
      BY <2>4 DEF KillEnds
    <3>a. ptab' \in [Pids -> Jobs \cup {None}]
      BY <3>2
    <3>b. reapable \in Int
      OBVIOUS
    <3> HIDE DEF TypeOK
    <3>c. reapable' \in Int
      BY <3>2, <3>b
    <3> USE DEF TypeOK
    <3>3. ptab' \in [Pids -> Jobs \cup {None}] /\ reapable' \in Int
      BY <3>a, <3>c
    <3> QED
      BY <1>b, <2>1, <2>3, <2>4, <3>1, <3>2, <3>3 DEF KillEnds
  <2>5. CASE KillHangs(j)
    <3>1. job' \in [Jobs -> JobRecord]
      BY <2>5, TimedOutRecord DEF KillHangs
    <3>2. IsChild(job[j].pid) /\ proc' = [proc EXCEPT ![job[j].pid].state = "dying"]
      BY <2>5 DEF KillHangs, Killed, KillsChild
    <3>3. ChildrenHaveJobs' /\ proc' \in [Pids -> Process]
      BY <1>c, <3>2 DEF ChildStates
    <3> QED
      BY <2>1, <2>3, <2>5, <3>1, <3>3 DEF KillHangs
  <2> QED
    BY <1>4, <2>2, <2>4, <2>5 DEF kill_job
<1>5. ASSUME PollEnds PROVE TypeOK' /\ ChildrenHaveJobs'
  BY <1>5, <1>a DEF PollEnds
<1>6. ASSUME ReapNone PROVE TypeOK' /\ ChildrenHaveJobs'
  BY <1>6, <1>a DEF ReapNone, Looped
<1>7. ASSUME NEW p \in Pids, ReapChild(p) PROVE TypeOK' /\ ChildrenHaveJobs'
  <2>1. proc' = [proc EXCEPT ![p] = NoProcess] /\ reapable' \in Int /\ pc' \in {"reap", "poll"}
    BY <1>7 DEF ReapChild, Looped
  <2>2. job' \in [Jobs -> JobRecord] /\ reports' \in [Jobs -> Seq(Report)]
    <3>1. CASE UNCHANGED <<job, reports>>
      BY <3>1
    <3>2. CASE ptab[p] \in Jobs /\ job' = [job EXCEPT ![ptab[p]] = finish_job(@)]
               /\ Send(ptab[p], "exited", job'[ptab[p]].gathered)
      <4>1. job' \in [Jobs -> JobRecord] /\ job'[ptab[p]].gathered \in 0..MaxOutput
        BY <3>2, FinishedRecord DEF JobRecord
      <4> QED
        BY <3>2, <4>1, SendType
    <3> QED
      BY <1>7, <3>1, <3>2 DEF ReapChild
  <2> QED
    BY <1>7, <1>b, <2>1, <2>2 DEF ReapChild
<1>8. ASSUME exit_worker PROVE TypeOK' /\ ChildrenHaveJobs'
  <2> DEFINE killed == {job[j].pid : j \in {k \in Jobs : job[k].timed_event}}
  <2>1. proc' = [p \in Pids |-> IF p \in killed THEN NoProcess ELSE proc[p]]
    BY <1>8 DEF exit_worker
  <2>2. family' \subseteq Pids /\ stray' \in BOOLEAN
    BY <1>8 DEF exit_worker
  <2> HIDE DEF killed
  <2>3. proc' \in [Pids -> Process] /\ ChildrenHaveJobs'
    BY <1>0, <2>1 DEF ChildrenHaveJobs, IsChild, ChildStates
  <2> QED
    BY <1>8, <2>2, <2>3 DEF exit_worker
<1>9. ASSUME NEW p \in Pids, ChildWrites(p) PROVE TypeOK' /\ ChildrenHaveJobs'
  <2>1. proc[p].job \in Jobs
    BY <1>9 DEF ChildWrites, ChildrenHaveJobs, IsChild, ChildStates
  <2> DEFINE k == proc[p].job
  <2>a. [job[k] EXCEPT !.wrote = job[k].wrote + 1] \in JobRecord
    <3>1. job[k] \in JobRecord /\ job[k].wrote < MaxOutput
      BY <1>9, <2>1 DEF ChildWrites
    <3>2. job[k].wrote \in 0..MaxOutput
      BY <3>1 DEF JobRecord
    <3>3. job[k].wrote + 1 \in 0..MaxOutput
      BY <3>1, <3>2
    <3> HIDE DEF TypeOK
    <3> QED
      BY <3>1, <3>3 DEF JobRecord
  <2>b. job' = [job EXCEPT ![k] = [job[k] EXCEPT !.wrote = job[k].wrote + 1]]
    BY <1>9 DEF ChildWrites
  <2>2. job' \in [Jobs -> JobRecord]
    BY <2>1, <2>a, <2>b
  <2> QED
    BY <1>9, <1>a, <2>2 DEF ChildWrites
<1>10. ASSUME NEW p \in Pids, ChildForks(p) \/ FamilyEnds(p) PROVE TypeOK' /\ ChildrenHaveJobs'
  BY <1>10, <1>a DEF ChildForks, FamilyEnds
<1>11. ASSUME NEW p \in Pids, ChildEnds(p) PROVE TypeOK' /\ ChildrenHaveJobs'
  <2>1. ChildrenHaveJobs' /\ proc' \in [Pids -> Process]
    BY <1>11, <1>c DEF ChildEnds, ChildStates
  <2> QED
    BY <1>11, <2>1 DEF ChildEnds
<1>12. ASSUME NEW p \in Pids, ForeignStarts(p) \/ ForeignEnds(p) PROVE TypeOK' /\ ChildrenHaveJobs'
  <2>1. ChildrenHaveJobs' /\ proc' \in [Pids -> Process]
    BY <1>0, <1>12 DEF ForeignStarts, ForeignEnds, ChildrenHaveJobs, IsChild, ChildStates
  <2> QED
    BY <1>12, <2>1 DEF ForeignStarts, ForeignEnds
<1>13. ASSUME UNCHANGED vars PROVE TypeOK' /\ ChildrenHaveJobs'
  BY <1>13, <1>a DEF vars
<1> QED
  BY <1>1, <1>2, <1>3, <1>4, <1>5, <1>6, <1>7, <1>8, <1>9, <1>10, <1>11, <1>12, <1>13
     DEF Next, Poll, Reap

-----------------------------------------------------------------------------
(* A step that leaves a job, its reports and its entry alone.               *)
LEMMA JobSame ==
    ASSUME NEW j \in Jobs, JobOK(j), job'[j] = job[j], reports'[j] = reports[j],
           job[j].phase = "listed" => ptab'[job[j].pid] = ptab[job[j].pid]
    PROVE  JobOK(j)'
  BY DEF JobOK

LEMMA UnreportedSame ==
    ASSUME NEW j \in Jobs, UnreportedOK(j), job'[j] = job[j],
           job[j].phase = "listed" => proc'[job[j].pid] = proc[job[j].pid]
    PROVE  UnreportedOK(j)'
  BY DEF UnreportedOK, IsChild

LEMMA ChildSame ==
    ASSUME NEW p \in Pids, ChildOK(p), proc'[p] = proc[p],
           IsChild(p) => job'[proc[p].job] = job[proc[p].job]
    PROVE  ChildOK(p)'
  BY DEF ChildOK, IsChild

(* Jobs that are listed have different process ids, and the child with the  *)
(* id of a listed job is the child of that job.                             *)
LEMMA OneJobPerId ==
    ASSUME JobInv, NEW j \in Jobs, job[j].phase = "listed"
    PROVE  /\ \A k \in Jobs \ {j} : job[k].phase = "listed" => job[k].pid # job[j].pid
           /\ ProcInv /\ IsChild(job[j].pid) => proc[job[j].pid].job = j
           /\ ProcInv => \A p \in Pids \ {job[j].pid} : IsChild(p) => proc[p].job # j
  BY DEF JobInv, JobOK, ProcInv, ChildOK

(* A job starts, on a process id that no listed job has.                    *)
LEMMA SpawnStep ==
    ASSUME OwnReuse = FALSE, TypeOK, JobInv, ProcInv, NEW j \in Jobs, NEW p \in Pids,
           spawn_job(j, p)
    PROVE  JobInv' /\ ProcInv'
<1> DEFINE r == [job[j] EXCEPT !.phase = "listed", !.pid = p, !.timed_event = TRUE, !.open = TRUE]
<1>1. job[j] \in JobRecord
  BY DEF TypeOK
<1>2. r.phase = "listed" /\ r.pid = p /\ r.open = TRUE /\ r.state = job[j].state /\ r.wrote = job[j].wrote
  BY <1>1 DEF JobRecord
<1>3. /\ job' = [job EXCEPT ![j] = r] /\ ptab' = [ptab EXCEPT ![p] = j]
      /\ proc' = [proc EXCEPT ![p] = [job |-> j, state |-> "running"]]
      /\ reports' = reports
      /\ job[j].phase = "unsent" /\ proc[p] = NoProcess
      /\ \A k \in Jobs : job[k].phase = "listed" => job[k].pid # p
  BY DEF spawn_job, Unused
<1> HIDE DEF r
<1>4. job'[j] = r /\ ptab'[p] = j /\ proc'[p].job = j /\ proc'[p].state = "running"
  BY <1>3 DEF TypeOK
<1>5. /\ \A k \in Jobs \ {j} : job'[k] = job[k]
      /\ \A q \in Pids \ {p} : ptab'[q] = ptab[q] /\ proc'[q] = proc[q]
  BY <1>3 DEF TypeOK
<1>6. job[j].state = "0" /\ Len(reports[j]) = 0
  BY <1>3 DEF JobInv, JobOK
<1>7. JobOK(j)'
  <2>1. reports'[j] \in Seq(Report) /\ Len(reports'[j]) = 0
    BY <1>3, <1>6 DEF TypeOK
  <2>2. DOMAIN reports'[j] = {}
    BY <2>1
  <2> QED
    BY <1>2, <1>4, <1>6, <2>1, <2>2 DEF JobOK
<1>8. UnreportedOK(j)'
  BY <1>2, <1>4 DEF UnreportedOK, IsChild, ChildStates
<1>9. ChildOK(p)'
  BY <1>2, <1>4, <1>6 DEF ChildOK
<1>10. ASSUME NEW k \in Jobs \ {j} PROVE JobOK(k)' /\ UnreportedOK(k)'
  <2>1. job[k].phase = "listed" => job[k].pid \in Pids \ {p}
    BY <1>3 DEF JobInv, JobOK
  <2>2. JobOK(k)'
    BY <1>3, <1>5, <2>1, JobSame DEF JobInv
  <2>3. UnreportedOK(k)'
    BY <1>5, <2>1, UnreportedSame DEF ProcInv
  <2> QED
    BY <2>2, <2>3
<1>11. ASSUME NEW q \in Pids \ {p} PROVE ChildOK(q)'
  <2>1. IsChild(q) => proc[q].job # j /\ proc[q].job \in Jobs
    BY <1>3 DEF ProcInv, ChildOK
  <2> QED
    BY <1>5, <2>1, ChildSame DEF ProcInv
<1> QED
  BY <1>7, <1>8, <1>9, <1>10, <1>11 DEF JobInv, ProcInv

(* A command that is not started is reported and forgotten.                 *)
LEMMA NotStartedStep ==
    ASSUME TypeOK, JobInv, ProcInv, NEW j \in Jobs, NoCommand(j) \/ SpawnFails(j)
    PROVE  JobInv' /\ ProcInv'
<1>1. /\ job' = [job EXCEPT ![j] = destroy_job(job[j])] /\ Send(j, "error", 0)
      /\ job[j].phase = "unsent" /\ UNCHANGED <<ptab, proc>>
  BY DEF NoCommand, SpawnFails
<1>2. job[j] \in JobRecord /\ reports \in [Jobs -> Seq(Report)] /\ 0 \in 0..MaxOutput
  BY WorkerProcessAssumption DEF TypeOK
<1>3. job'[j] = destroy_job(job[j]) /\ \A k \in Jobs \ {j} : job'[k] = job[k]
  BY <1>1 DEF TypeOK
<1>4. job'[j].phase = "gone" /\ job'[j].timed_event = FALSE
  BY <1>2, <1>3, DestroyedRecord
<1>5. Len(reports[j]) = 0
  BY <1>1 DEF JobInv, JobOK
<1>6. /\ Len(reports'[j]) = 1 /\ DOMAIN reports'[j] = {1} /\ reports'[j][1].kind = "error"
      /\ \A k \in Jobs \ {j} : reports'[k] = reports[k]
  <2>1. /\ Len(reports'[j]) = Len(reports[j]) + 1
        /\ Len(reports[j]) = 0 => DOMAIN reports'[j] = {1} /\ reports'[j][1].kind = "error"
        /\ \A k \in Jobs \ {j} : reports'[k] = reports[k]
    BY <1>1, <1>2, SendType
  <2> QED
    BY <1>5, <2>1
<1>7. JobOK(j)' /\ UnreportedOK(j)'
  BY <1>4, <1>6 DEF JobOK, UnreportedOK
<1>8. \A k \in Jobs \ {j} : JobOK(k)' /\ UnreportedOK(k)'
  BY <1>1, <1>3, <1>6, JobSame, UnreportedSame DEF JobInv, ProcInv
<1>9. ASSUME NEW p \in Pids PROVE ChildOK(p)'
  <2>1. IsChild(p) => proc[p].job # j /\ proc[p].job \in Jobs
    BY <1>1 DEF ProcInv, ChildOK
  <2> QED
    BY <1>1, <1>3, <2>1, ChildSame DEF ProcInv
<1> QED
  BY <1>7, <1>8, <1>9 DEF JobInv, ProcInv

(* Output is read; at the end of file the child has ended.                  *)
LEMMA GatherStep ==
    ASSUME TypeOK, JobInv, ProcInv, NEW j \in Jobs, gather_output(j)
    PROVE  JobInv' /\ ProcInv'
<1>1. job[j] \in JobRecord
  BY DEF TypeOK
<1> DEFINE r == [job[j] EXCEPT !.gathered = job[j].wrote, !.open = ~PipeClosed(j)]
<1>2. /\ r.phase = job[j].phase /\ r.pid = job[j].pid /\ r.state = job[j].state
      /\ r.timed_event = job[j].timed_event /\ r.wrote = job[j].wrote
      /\ r.gathered = job[j].wrote
  BY <1>1 DEF JobRecord
<1>a. r.open <=> ~PipeClosed(j)
  <2>1. r.open = ~PipeClosed(j)
    BY <1>1 DEF JobRecord
  <2> QED
    BY <2>1, Zenon
<1>3. job' = [job EXCEPT ![j] = r] /\ UNCHANGED <<ptab, proc, family, reports>>
  BY DEF gather_output
<1> HIDE DEF r
<1>4. job'[j] = r /\ \A k \in Jobs \ {j} : job'[k] = job[k]
  BY <1>3 DEF TypeOK
<1>5. JobOK(j)'
  BY <1>2, <1>3, <1>4 DEF JobInv, JobOK
<1>6. UnreportedOK(j)'
  <2>1. ~job'[j].open => PipeClosed(j)
    BY <1>4, <1>a
  <2>2. PipeClosed(j) /\ proc[job[j].pid].job = j => proc[job[j].pid].state = "zombie"
    BY DEF PipeClosed
  <2>3. /\ job'[j].phase = job[j].phase /\ job'[j].pid = job[j].pid
        /\ job'[j].state = job[j].state /\ job'[j].gathered = job'[j].wrote
    BY <1>2, <1>4
  <2> QED
    BY <1>3, <2>1, <2>2, <2>3 DEF ProcInv, UnreportedOK, IsChild
<1>7. \A k \in Jobs \ {j} : JobOK(k)' /\ UnreportedOK(k)'
  BY <1>3, <1>4, JobSame, UnreportedSame DEF JobInv, ProcInv
<1>8. ASSUME NEW p \in Pids PROVE ChildOK(p)'
  BY <1>2, <1>3, <1>4 DEF ProcInv, ChildOK, IsChild
<1> QED
  BY <1>5, <1>6, <1>7, <1>8 DEF JobInv, ProcInv

(* The kill event.  What it kills is the child of its job, and a job whose  *)
(* child is not there any more has been reported.                           *)
LEMMA KillStep ==
    ASSUME TypeOK, JobInv, ProcInv, ~stray, NEW j \in Jobs, kill_job(j)
    PROVE  JobInv' /\ ProcInv' /\ ~stray'
<1>1. PICK p \in Pids : p = job[j].pid /\ job[j].phase = "listed"
  BY DEF kill_job, JobInv, JobOK
<1>2. /\ \A k \in Jobs \ {j} : job[k].phase = "listed" => job[k].pid \in Pids \ {p}
      /\ IsChild(p) => proc[p].job = j
      /\ \A q \in Pids \ {p} : IsChild(q) => proc[q].job \in Jobs \ {j}
  BY <1>1, OneJobPerId DEF JobInv, JobOK, ProcInv, ChildOK
<1>3. /\ job[j].state = "ESTALE" => Len(reports[j]) = 1
      /\ job[j].state # "ESTALE" => Len(reports[j]) = 0 /\ IsChild(p)
  BY <1>1 DEF JobInv, JobOK, ProcInv, UnreportedOK
<1>4. ASSUME \A k \in Jobs \ {j} : job'[k] = job[k] /\ reports'[k] = reports[k],
             \A q \in Pids \ {p} : ptab'[q] = ptab[q] /\ proc'[q] = proc[q]
      PROVE  /\ \A k \in Jobs \ {j} : JobOK(k)' /\ UnreportedOK(k)'
             /\ \A q \in Pids \ {p} : ChildOK(q)'
  <2>1. \A k \in Jobs \ {j} : JobOK(k)' /\ UnreportedOK(k)'
    BY <1>2, <1>4, JobSame, UnreportedSame DEF JobInv, ProcInv
  <2>2. \A q \in Pids \ {p} : ChildOK(q)'
    BY <1>2, <1>4, ChildSame DEF ProcInv
  <2> QED
    BY <2>1, <2>2
<1>5. CASE KillFindsNone(j)
  <2>1. /\ job' = [job EXCEPT ![j] = destroy_job(job[j])] /\ ptab' = [ptab EXCEPT ![p] = None]
        /\ UNCHANGED <<proc, reports, stray>> /\ ~IsChild(p)
    BY <1>1, <1>5 DEF KillFindsNone, KillsChild
  <2>2. job'[j] = destroy_job(job[j]) /\ job[j] \in JobRecord
    BY <2>1 DEF TypeOK
  <2>3. /\ job'[j].phase = "gone" /\ job'[j].timed_event = FALSE /\ job'[j].wrote = job[j].wrote
    BY <2>2, DestroyedRecord
  <2>4. JobOK(j)' /\ UnreportedOK(j)'
    BY <1>3, <2>1, <2>3 DEF JobInv, JobOK, UnreportedOK
  <2>5. ChildOK(p)'
    BY <2>1 DEF ChildOK, IsChild
  <2>6. /\ \A k \in Jobs \ {j} : JobOK(k)' /\ UnreportedOK(k)'
        /\ \A q \in Pids \ {p} : ChildOK(q)'
    BY <1>4, <2>1 DEF TypeOK
  <2> QED
    BY <2>1, <2>4, <2>5, <2>6 DEF JobInv, ProcInv
<1>6. ASSUME Killed(j, TimedOut(j))
      PROVE  /\ ~stray' /\ proc[p].job = j
             /\ \A k \in Jobs \ {j} : reports'[k] = reports[k]
             /\ Len(reports'[j]) = 1
             /\ \A i \in DOMAIN reports'[j] :
                  reports'[j][i].kind = "exited" => reports'[j][i].output = job[j].wrote
  <2>1. proc[p].job = j
    BY <1>1, <1>2, <1>6 DEF Killed, KillsChild
  <2>2. ~stray'
    BY <1>1, <1>6, <2>1 DEF Killed
  <2>3. KillReports(j)
    BY <1>6, KilledReports
  <2>4. CASE job[j].state = "ESTALE"
    BY <1>3, <2>1, <2>2, <2>3, <2>4 DEF KillReports, JobInv, JobOK
  <2>5. CASE job[j].state # "ESTALE"
    BY <1>3, <2>1, <2>2, <2>3, <2>5 DEF KillReports
  <2> QED
    BY <2>4, <2>5
<1>7. /\ TimedOut(j) \in JobRecord
      /\ TimedOut(j).phase = "listed" /\ TimedOut(j).state = "ESTALE"
      /\ TimedOut(j).pid = p
      /\ TimedOut(j).wrote = job[j].wrote
  BY <1>1, TimedOutRecord
<1>8. CASE KillEnds(j)
  <2>1. /\ job' = [job EXCEPT ![j] = destroy_job(TimedOut(j))]
        /\ ptab' = [ptab EXCEPT ![p] = None]
        /\ proc' = [proc EXCEPT ![p] = NoProcess]
        /\ Killed(j, TimedOut(j))
    BY <1>1, <1>8 DEF KillEnds
  <2>2. job'[j] = destroy_job(TimedOut(j)) /\ proc'[p] = NoProcess
    BY <1>1, <2>1 DEF TypeOK
  <2>3. job'[j].phase = "gone" /\ job'[j].timed_event = FALSE /\ job'[j].wrote = job[j].wrote
    BY <1>7, <2>2, DestroyedRecord
  <2>4. JobOK(j)' /\ UnreportedOK(j)'
    BY <1>6, <2>1, <2>3 DEF JobOK, UnreportedOK
  <2>5. ChildOK(p)'
    BY <2>2 DEF ChildOK, IsChild, NoProcess, ChildStates
  <2>6. /\ \A k \in Jobs \ {j} : JobOK(k)' /\ UnreportedOK(k)'
        /\ \A q \in Pids \ {p} : ChildOK(q)'
    BY <1>4, <1>6, <2>1 DEF TypeOK
  <2> QED
    BY <1>6, <2>1, <2>4, <2>5, <2>6 DEF JobInv, ProcInv
<1>9. CASE KillHangs(j)
  <2>1. /\ job' = [job EXCEPT ![j] = TimedOut(j)]
        /\ ptab' = ptab
        /\ proc' = [proc EXCEPT ![p].state = "dying"]
        /\ Killed(j, TimedOut(j))
    BY <1>1, <1>9 DEF KillHangs
  <2>2. job'[j] = TimedOut(j) /\ proc'[p].job = proc[p].job /\ proc'[p].state = "dying"
    BY <1>1, <2>1 DEF TypeOK, Process
  <2>3. ptab[p] = j
    BY <1>1 DEF JobInv, JobOK
  <2>4. JobOK(j)' /\ UnreportedOK(j)'
    BY <1>1, <1>6, <1>7, <2>1, <2>2, <2>3 DEF JobOK, UnreportedOK
  <2>5. ChildOK(p)'
    BY <1>6, <1>7, <2>1, <2>2 DEF ChildOK
  <2>6. /\ \A k \in Jobs \ {j} : JobOK(k)' /\ UnreportedOK(k)'
        /\ \A q \in Pids \ {p} : ChildOK(q)'
    BY <1>4, <1>6, <2>1 DEF TypeOK
  <2> QED
    BY <1>6, <2>1, <2>4, <2>5, <2>6 DEF JobInv, ProcInv
<1> QED
  BY <1>5, <1>8, <1>9 DEF kill_job

(* A child that has ended is reaped, and its job reported with all that it  *)
(* wrote unless its time was over before.                                   *)
LEMMA ReapStep ==
    ASSUME TypeOK, JobInv, ProcInv, NEW p \in Pids, ReapChild(p)
    PROVE  JobInv' /\ ProcInv'
<1>1. p \in Zombies /\ IsChild(p)
  BY DEF ReapChild, Zombies, IsChild, ChildStates
<1>2. PICK j \in Jobs :
        j = ptab[p] /\ proc[p].job = j /\ job[j].phase = "listed" /\ job[j].pid = p /\ j # None
  BY <1>1, WorkerProcessAssumption DEF ProcInv, ChildOK, JobInv, JobOK
<1>3. /\ \A k \in Jobs \ {j} : job[k].phase = "listed" => job[k].pid \in Pids \ {p}
      /\ \A q \in Pids \ {p} : IsChild(q) => proc[q].job \in Jobs \ {j}
  BY <1>2, OneJobPerId DEF JobInv, JobOK, ProcInv, ChildOK
<1>4. proc' = [proc EXCEPT ![p] = NoProcess] /\ ptab' = ptab
  BY DEF ReapChild
<1>5. proc'[p] = NoProcess /\ \A q \in Pids \ {p} : proc'[q] = proc[q]
  BY <1>4 DEF TypeOK
<1>6. ChildOK(p)'
  BY <1>5 DEF ChildOK, IsChild, NoProcess, ChildStates
<1>7. ASSUME \A k \in Jobs \ {j} : job'[k] = job[k] /\ reports'[k] = reports[k]
      PROVE  /\ \A k \in Jobs \ {j} : JobOK(k)' /\ UnreportedOK(k)'
             /\ \A q \in Pids \ {p} : ChildOK(q)'
  <2>1. \A k \in Jobs \ {j} : JobOK(k)' /\ UnreportedOK(k)'
    BY <1>3, <1>4, <1>5, <1>7, JobSame, UnreportedSame DEF JobInv, ProcInv
  <2>2. \A q \in Pids \ {p} : ChildOK(q)'
    BY <1>3, <1>5, <1>7, ChildSame DEF ProcInv
  <2> QED
    BY <2>1, <2>2
<1>8. CASE job[j].state = "ESTALE"
  <2>1. UNCHANGED <<job, reports>>
    BY <1>2, <1>8 DEF ReapChild, Unreported
  <2>2. JobOK(j)' /\ UnreportedOK(j)'
    BY <1>2, <1>4, <1>8, <2>1, JobSame DEF JobInv, UnreportedOK
  <2> QED
    BY <1>6, <1>7, <2>1, <2>2 DEF JobInv, ProcInv
<1>9. CASE job[j].state # "ESTALE"
  <2>1. job' = [job EXCEPT ![j] = finish_job(job[j])] /\ Send(j, "exited", job'[j].gathered)
    BY <1>2, <1>9 DEF ReapChild, Unreported
  <2>2. job[j] \in JobRecord /\ job'[j] = finish_job(job[j])
    BY <1>2, <2>1 DEF TypeOK
  <2>3. /\ job'[j] \in JobRecord
        /\ job'[j].phase = "listed" /\ job'[j].state = "ESTALE" /\ job'[j].pid = p
        /\ job'[j].wrote = job[j].wrote
        /\ job'[j].gathered = IF job[j].open THEN job[j].wrote ELSE job[j].gathered
    BY <1>2, <2>2, FinishedRecord
  <2>4. job'[j].gathered = job'[j].wrote
    BY <1>2, <1>9, <2>3 DEF ProcInv, UnreportedOK
  <2>5. job'[j].gathered \in 0..MaxOutput /\ reports \in [Jobs -> Seq(Report)]
    BY <2>3 DEF JobRecord, TypeOK
  <2>6. Len(reports[j]) = 0
    BY <1>2, <1>9 DEF JobInv, JobOK
  <2>7. /\ Len(reports'[j]) = Len(reports[j]) + 1
        /\ Len(reports[j]) = 0 =>
             /\ DOMAIN reports'[j] = {1}
             /\ reports'[j][1].kind = "exited" /\ reports'[j][1].output = job'[j].gathered
        /\ \A k \in Jobs \ {j} : reports'[k] = reports[k]
    BY <1>2, <2>1, <2>5, SendType
  <2>8. JobOK(j)' /\ UnreportedOK(j)'
    BY <1>2, <1>4, <2>3, <2>4, <2>6, <2>7 DEF JobOK, UnreportedOK
  <2>9. \A k \in Jobs \ {j} : job'[k] = job[k] /\ reports'[k] = reports[k]
    BY <2>1, <2>7 DEF TypeOK
  <2> QED
    BY <1>6, <1>7, <2>8, <2>9 DEF JobInv, ProcInv
<1> QED
  BY <1>8, <1>9

(* A child writes: its job has not been reported.                           *)
LEMMA WriteStep ==
    ASSUME TypeOK, JobInv, ProcInv, NEW p \in Pids, ChildWrites(p)
    PROVE  JobInv' /\ ProcInv'
<1>1. IsChild(p) /\ proc[p].state = "running"
  BY DEF ChildWrites, IsChild, ChildStates
<1>2. PICK j \in Jobs :
        j = proc[p].job /\ job[j].phase = "listed" /\ job[j].pid = p /\ job[j].state # "ESTALE"
  BY <1>1 DEF ProcInv, ChildOK
<1> DEFINE r == [job[j] EXCEPT !.wrote = job[j].wrote + 1]
<1>3. job[j].open /\ Len(reports[j]) = 0 /\ job[j] \in JobRecord
  BY <1>1, <1>2 DEF ProcInv, UnreportedOK, JobInv, JobOK, TypeOK
<1>4. job' = [job EXCEPT ![j] = r] /\ UNCHANGED <<ptab, proc, reports>>
  BY <1>2 DEF ChildWrites
<1>5. /\ r.phase = job[j].phase /\ r.pid = job[j].pid /\ r.state = job[j].state
      /\ r.timed_event = job[j].timed_event /\ r.open = job[j].open
  BY <1>3 DEF JobRecord
<1> HIDE DEF r
<1>6. job'[j] = r /\ \A k \in Jobs \ {j} : job'[k] = job[k]
  BY <1>2, <1>4 DEF TypeOK
<1>7. JobOK(j)' /\ UnreportedOK(j)'
  <2>1. reports[j] \in Seq(Report)
    BY <1>2 DEF TypeOK
  <2>2. DOMAIN reports[j] = {}
    BY <1>3, <2>1
  <2>3. JobOK(j) /\ UnreportedOK(j)
    BY <1>2 DEF JobInv, ProcInv
  <2>4. JobOK(j)'
    BY <1>4, <1>5, <1>6, <2>2, <2>3 DEF JobOK
  <2>5. UnreportedOK(j)'
    BY <1>3, <1>4, <1>5, <1>6, <2>3 DEF UnreportedOK, IsChild
  <2> QED
    BY <2>4, <2>5
<1>8. \A k \in Jobs \ {j} : JobOK(k)' /\ UnreportedOK(k)'
  BY <1>4, <1>6, JobSame, UnreportedSame DEF JobInv, ProcInv
<1>9. ASSUME NEW q \in Pids PROVE ChildOK(q)'
  BY <1>4, <1>5, <1>6 DEF ProcInv, ChildOK, IsChild
<1> QED
  BY <1>7, <1>8, <1>9 DEF JobInv, ProcInv

(* A process with id p changes that leaves a child a child, or is none.     *)
LEMMA ProcessStep ==
    ASSUME TypeOK, JobInv, ProcInv, UNCHANGED <<job, ptab, reports>>, NEW p \in Pids,
           \A q \in Pids \ {p} : proc'[q] = proc[q],
           \/ IsChild(p) /\ proc'[p].job = proc[p].job /\ proc'[p].state = "zombie"
           \/ ~IsChild(p) /\ proc'[p].state \notin ChildStates
    PROVE  JobInv' /\ ProcInv'
<1>1. \A j \in Jobs : JobOK(j)'
  BY JobSame DEF JobInv
<1>2. \A j \in Jobs : UnreportedOK(j)'
  <2> SUFFICES ASSUME NEW j \in Jobs PROVE UnreportedOK(j)'
    OBVIOUS
  <2>1. job[j].phase = "listed" => job[j].pid \in Pids
    BY DEF JobInv, JobOK
  <2>2. CASE job[j].pid # p
    BY <2>1, <2>2, UnreportedSame DEF ProcInv
  <2>3. CASE job[j].pid = p
    BY <2>3 DEF ProcInv, UnreportedOK, IsChild, ChildStates
  <2> QED
    BY <2>2, <2>3
<1>3. \A q \in Pids \ {p} : ChildOK(q)'
  BY ChildSame DEF ProcInv
<1>4. ChildOK(p)'
  BY DEF ProcInv, ChildOK, IsChild, ChildStates
<1> QED
  BY <1>1, <1>2, <1>3, <1>4 DEF JobInv, ProcInv

-----------------------------------------------------------------------------
LEMMA InitInv == ASSUME Init PROVE IndInv /\ ChildrenHaveJobs
<1> DEFINE r == [phase |-> "unsent", state |-> "0", pid |-> 0, timed_event |-> FALSE,
                 open |-> FALSE, wrote |-> 0, gathered |-> 0]
<1>1. r \in JobRecord /\ NoProcess \in Process /\ NoProcess.state = "none"
  BY WorkerProcessAssumption DEF JobRecord, Process, NoProcess
<1>2. r.phase = "unsent" /\ r.state = "0" /\ r.timed_event = FALSE
  OBVIOUS
<1>3. /\ job = [j \in Jobs |-> r] /\ ptab = [p \in Pids |-> None]
      /\ proc = [p \in Pids |-> NoProcess] /\ reports = [j \in Jobs |-> << >>]
      /\ family = {} /\ reapable = 0 /\ pc = "poll" /\ stray = FALSE
  BY DEF Init
<1> HIDE DEF r
<1>4. << >> \in Seq(Report) /\ Len(<< >>) = 0 /\ DOMAIN << >> = {}
  OBVIOUS
<1>5. TypeOK
  <2>1. job \in [Jobs -> JobRecord] /\ proc \in [Pids -> Process]
    BY <1>1, <1>3
  <2>2. ptab \in [Pids -> Jobs \cup {None}]
    BY <1>3
  <2>3. reports \in [Jobs -> Seq(Report)]
    BY <1>3, <1>4
  <2>4. family \subseteq Pids /\ reapable \in Int /\ pc \in {"poll", "reap", "dead"}
    BY <1>3
  <2>5. stray \in BOOLEAN
    BY <1>3
  <2> QED
    BY <2>1, <2>2, <2>3, <2>4, <2>5 DEF TypeOK
<1>6. JobInv
  BY <1>2, <1>3, <1>4 DEF JobInv, JobOK
<1>7. \A p \in Pids : ~IsChild(p)
  BY <1>1, <1>3 DEF IsChild, ChildStates
<1>8. ProcInv
  BY <1>2, <1>3, <1>7 DEF ProcInv, UnreportedOK, ChildOK
<1> QED
  BY <1>3, <1>5, <1>6, <1>7, <1>8 DEF IndInv, ChildrenHaveJobs

(* A step in which no job, report or process changes.                       *)
LEMMA NothingChanges ==
    ASSUME JobInv, ProcInv, UNCHANGED <<job, ptab, proc, reports>>
    PROVE  JobInv' /\ ProcInv'
  BY JobSame, UnreportedSame, ChildSame DEF JobInv, ProcInv

LEMMA NextInv ==
    ASSUME OwnReuse = FALSE, IndInv, ChildrenHaveJobs, [Next]_vars
    PROVE  IndInv' /\ ChildrenHaveJobs'
<1>1. TypeOK' /\ ChildrenHaveJobs'
  BY TypeStep DEF IndInv
<1>2. TypeOK /\ JobInv
  BY DEF IndInv
<1>3. CASE UNCHANGED vars
  <2>1. JobInv'
    BY <1>2, <1>3, JobSame DEF JobInv, vars
  <2>2. pc' # "dead" => ProcInv' /\ ~stray'
    BY <1>2, <1>3, NothingChanges DEF IndInv, vars
  <2> QED
    BY <1>1, <2>1, <2>2 DEF IndInv
<1>4. CASE Next
  <2>0. pc # "dead"
    BY <1>4 DEF Next, Poll, PollEnds, gather_output, kill_job, Reap, ReapNone, ReapChild, exit_worker
  <2>1. ProcInv /\ ~stray
    BY <2>0 DEF IndInv
  <2>2. ASSUME NEW j \in Jobs, NEW p \in Pids, spawn_job(j, p) PROVE JobInv' /\ ProcInv' /\ ~stray'
    BY <1>2, <2>1, <2>2, SpawnStep DEF spawn_job
  <2>3. ASSUME NEW j \in Jobs, NoCommand(j) \/ SpawnFails(j) PROVE JobInv' /\ ProcInv' /\ ~stray'
    BY <1>2, <2>1, <2>3, NotStartedStep DEF NoCommand, SpawnFails
  <2>4. ASSUME NEW j \in Jobs, gather_output(j) PROVE JobInv' /\ ProcInv' /\ ~stray'
    BY <1>2, <2>1, <2>4, GatherStep DEF gather_output
  <2>5. ASSUME NEW j \in Jobs, kill_job(j) PROVE JobInv' /\ ProcInv' /\ ~stray'
    BY <1>2, <2>1, <2>5, KillStep
  <2>6. ASSUME PollEnds \/ ReapNone PROVE JobInv' /\ ProcInv' /\ ~stray'
    BY <1>2, <2>1, <2>6, NothingChanges DEF PollEnds, ReapNone
  <2>7. ASSUME NEW p \in Pids, ReapChild(p) PROVE JobInv' /\ ProcInv' /\ ~stray'
    BY <1>2, <2>1, <2>7, ReapStep DEF ReapChild
  <2>8. ASSUME exit_worker PROVE JobInv' /\ pc' = "dead"
    <3>1. UNCHANGED <<job, ptab, reports>> /\ pc' = "dead"
      BY <2>8 DEF exit_worker
    <3> QED
      BY <1>2, <3>1, JobSame DEF JobInv
  <2>9. ASSUME NEW p \in Pids, ChildWrites(p) PROVE JobInv' /\ ProcInv' /\ ~stray'
    BY <1>2, <2>1, <2>9, WriteStep DEF ChildWrites
  <2>10. ASSUME NEW p \in Pids, ChildForks(p) \/ FamilyEnds(p) PROVE JobInv' /\ ProcInv' /\ ~stray'
    BY <1>2, <2>1, <2>10, NothingChanges DEF ChildForks, FamilyEnds
  <2>11. ASSUME NEW p \in Pids, ChildEnds(p) PROVE JobInv' /\ ProcInv' /\ ~stray'
    <3>1. /\ IsChild(p) /\ UNCHANGED <<job, ptab, reports, stray>>
          /\ proc' = [proc EXCEPT ![p].state = "zombie"]
      BY <2>11 DEF ChildEnds
    <3>2. /\ proc'[p].job = proc[p].job /\ proc'[p].state = "zombie"
          /\ \A q \in Pids \ {p} : proc'[q] = proc[q]
      BY <1>2, <3>1 DEF TypeOK, Process
    <3> QED
      BY <1>2, <2>1, <3>1, <3>2, ProcessStep
  <2>12. ASSUME NEW p \in Pids, ForeignStarts(p) \/ ForeignEnds(p) PROVE JobInv' /\ ProcInv' /\ ~stray'
    <3>1. /\ UNCHANGED <<job, ptab, reports, stray>>
          /\ proc[p] = NoProcess \/ proc[p] = ForeignProcess
          /\ \/ proc' = [proc EXCEPT ![p] = NoProcess]
             \/ proc' = [proc EXCEPT ![p] = ForeignProcess]
      BY <2>12 DEF ForeignStarts, ForeignEnds, Unused
    <3>2. NoProcess.state \notin ChildStates /\ ForeignProcess.state \notin ChildStates
      BY DEF NoProcess, ForeignProcess, ChildStates
    <3>3. /\ ~IsChild(p) /\ proc'[p].state \notin ChildStates
          /\ \A q \in Pids \ {p} : proc'[q] = proc[q]
      BY <1>2, <3>1, <3>2 DEF IsChild, TypeOK
    <3> QED
      BY <1>2, <2>1, <3>1, <3>3, ProcessStep
  <2>13. JobInv' /\ (pc' # "dead" => ProcInv' /\ ~stray')
    BY <1>4, <2>2, <2>3, <2>4, <2>5, <2>6, <2>7, <2>8, <2>9, <2>10, <2>11, <2>12
       DEF Next, Poll, Reap
  <2> QED
    BY <1>1, <2>13 DEF IndInv
<1> QED
  BY <1>3, <1>4

(* The variables keep their types, even if a process id is given out again  *)
(* while its first job is still listed.                                     *)
THEOREM TypeCorrect == Spec => []TypeOK
<1>1. Init => TypeOK /\ ChildrenHaveJobs
  BY InitInv DEF IndInv
<1>2. TypeOK /\ ChildrenHaveJobs /\ [Next]_vars => (TypeOK /\ ChildrenHaveJobs)'
  BY TypeStep
<1> QED
  BY <1>1, <1>2, PTL DEF Spec

(* The invariant holds as long as the kernel gives no child the id of one   *)
(* whose job is still listed.                                               *)
LEMMA InvariantHolds == OwnReuse = FALSE => (Spec => []IndInv)
<1> SUFFICES ASSUME OwnReuse = FALSE PROVE Spec => []IndInv
  OBVIOUS
<1>1. Init => IndInv /\ ChildrenHaveJobs
  BY InitInv
<1>2. IndInv /\ ChildrenHaveJobs /\ [Next]_vars => (IndInv /\ ChildrenHaveJobs)'
  BY NextInv
<1> QED
  BY <1>1, <1>2, PTL DEF Spec

(* As long as the kernel gives no child the id of one whose job is still    *)
(* listed, finish_job sends the master one report of each job, before it is *)
(* forgotten, and with all that a child that ended by itself wrote.         *)
THEOREM OneReportPerJob == OwnReuse = FALSE => (Spec => []ReportsRight)
<1> SUFFICES ASSUME OwnReuse = FALSE PROVE Spec => []ReportsRight
  OBVIOUS
<1>1. ASSUME IndInv PROVE ReportsRight
  <2> SUFFICES ASSUME NEW j \in Jobs
               PROVE  /\ Len(reports[j]) <= 1
                      /\ job[j].phase = "gone" => Len(reports[j]) = 1
                      /\ \A i \in DOMAIN reports[j] :
                           reports[j][i].kind = "exited" => reports[j][i].output = job[j].wrote
    BY DEF ReportsRight
  <2>1. JobOK(j) /\ job[j].phase \in {"unsent", "listed", "gone"}
    BY <1>1 DEF IndInv, JobInv, TypeOK, JobRecord
  <2>2. Len(reports[j]) = 0 \/ Len(reports[j]) = 1
    BY <2>1 DEF JobOK
  <2>3. Len(reports[j]) <= 1
    <3>1. \A n \in Nat : n = 0 \/ n = 1 => n <= 1
      OBVIOUS
    <3>2. reports[j] \in Seq(Report)
      BY <1>1 DEF IndInv, TypeOK
    <3>3. Len(reports[j]) \in Nat
      BY <3>2
    <3> QED
      BY <2>2, <3>1, <3>3
  <2> QED
    BY <2>1, <2>3 DEF JobOK
<1>2. Spec => []IndInv
  BY InvariantHolds
<1> QED
  BY <1>1, <1>2, PTL

(* Under the same condition, kill_job of a running worker kills nothing but *)
(* the child of the job whose time is over.                                 *)
THEOREM OnlyOwnChildrenAreKilled == OwnReuse = FALSE => (Spec => []NoStrayKill)
<1> SUFFICES ASSUME OwnReuse = FALSE PROVE Spec => []NoStrayKill
  OBVIOUS
<1>1. IndInv => NoStrayKill
  BY DEF IndInv, NoStrayKill
<1>2. Spec => []IndInv
  BY InvariantHolds
<1> QED
  BY <1>1, <1>2, PTL
=============================================================================
