----------------------------- MODULE WorkerPool -----------------------------
(* The master's side of the worker processes (workers.c): the lists of      *)
(* workers that jobs are assigned from, the table of outstanding jobs each  *)
(* worker has, and what happens when the socket to a worker breaks.  The    *)
(* master is one thread; the workers run beside it and may die at any time, *)
(* which the master learns only when it reads end of file, so that jobs are *)
(* still handed to a worker that is already dead.                           *)
EXTENDS Integers, Sequences, FiniteSets, Functions

CONSTANTS Workers,      \* worker connections, each used once
          Plugins,      \* the commands specialized workers register for
          Core,         \* the list of the workers that take any command
          Jobs,         \* calls of wproc_run_callback
          Command,      \* the command of each: in Plugins, or Core for another
          PluginArgs,   \* the sequences of plugin= arguments of a registration
          MaxJobs,      \* wp->max_jobs
          NumCheckWorkers, Cpus,  \* num_check_workers and online_cpus()
          MaxSpawned,   \* bound on the core workers ever spawned
          NoWorker

Lists == Plugins \cup {Core}

ASSUME WorkerPoolAssumption ==
    /\ IsFiniteSet(Workers)
    /\ Core \notin Plugins
    /\ Command \in [Jobs -> Lists]
    /\ PluginArgs \subseteq Seq(Plugins)
    /\ MaxJobs \in Nat \ {0}
    /\ NumCheckWorkers \in Int
    /\ Cpus \in Nat
    /\ MaxSpawned \in Nat
    /\ NoWorker \notin Workers

(* A number of workers that is configured, or a negative one in addition to *)
(* the processors, or else one and a half per processor, from 4 to 48.      *)
get_desired_workers(n, cpus) ==
    LET auto == (3 * cpus) \div 2
        asked == IF n < 0 THEN cpus - n ELSE n
    IN  IF asked > 0 THEN asked
        ELSE IF auto < 4 THEN 4 ELSE IF auto > 48 THEN 48 ELSE auto

Desired == get_desired_workers(NumCheckWorkers, Cpus)

(* No registration names one plugin twice.                                  *)
ASSUME ArgsInjective == \A args \in PluginArgs : IsInjective(args)

(* A job as the master's table and the messages know it: the id the worker  *)
(* was given for it, and the call it belongs to.                            *)
Entries == [id : Nat, job : Jobs]

VARIABLES status,     \* "new", "up", "broken" (end of file not yet read), "freed"
          wps,        \* the workers of each list, in order of registration
          idx,        \* where the round robin of a list is
          wp_list,    \* wp->wp_list, the list remove_worker takes it from
          jobs,       \* wp->jobs, the outstanding jobs of a worker
          job_index,  \* wp->job_index
          sent,       \* requests a worker has been sent and not answered
          results,    \* results a worker has written and the master not read
          fate,       \* "new", "accepted", "refused" or "dropped"
          calls,      \* how often the callback of a job was called
          dying,      \* the worker whose jobs are being reassigned
          todo,       \* its jobs not yet visited by that loop
          spawned,    \* wproc_num_workers_spawned
          starting,   \* spawned workers that have not registered yet
          online      \* wproc_num_workers_online

listVars == <<wps, idx, wp_list>>
jobVars == <<jobs, job_index, sent, results>>
loopVars == <<dying, todo>>
countVars == <<spawned, starting, online>>
vars == <<status, listVars, jobVars, fate, calls, loopVars, countVars>>

TypeOK ==
    /\ status \in [Workers -> {"new", "up", "broken", "freed"}]
    /\ wps \in [Lists -> Seq(Workers)]
    /\ idx \in [Lists -> Nat]
    /\ wp_list \in [Workers -> Lists]
    /\ jobs \in [Workers -> SUBSET Entries]
    /\ job_index \in [Workers -> Nat]
    /\ sent \in [Workers -> SUBSET Entries]
    /\ results \in [Workers -> SUBSET Entries]
    /\ fate \in [Jobs -> {"new", "accepted", "refused", "dropped"}]
    /\ calls \in [Jobs -> Nat]
    /\ dying \in Workers \cup {NoWorker}
    /\ todo \subseteq Entries
    /\ spawned \in Nat
    /\ starting \in Nat
    /\ online \in Int

-----------------------------------------------------------------------------
(* get_wproc_list: a specialized list that has workers, else the core list. *)
get_wproc_list(cmd) == IF wps[cmd] # << >> THEN cmd ELSE Core

(* The worker the round robin of list l reaches after d steps.  The array   *)
(* of the code starts at 0.                                                 *)
Slot(l, d) == ((idx[l] % Len(wps[l])) + d) % Len(wps[l])
Candidate(l, d) == wps[l][Slot(l, d) + 1]

(* Mutant: one job too many.                                                *)
HasRoomOffByOne(w) == Cardinality(jobs[w]) <= MaxJobs

HasRoom(w) == Cardinality(jobs[w]) < MaxJobs

(* get_worker gives up after one lap.                                       *)
NoneHasRoom(l) == \A d \in 1..Len(wps[l]) : ~HasRoom(Candidate(l, d))

(* Mutant: the id is the number of outstanding jobs, not a running index.   *)
CreateJobReusedId(j) ==
    LET l == get_wproc_list(Command[j]) IN
    \E d \in 1..Len(wps[l]) :
        LET w == Candidate(l, d)
            r == [id |-> Cardinality(jobs[w]), job |-> j]
        IN  /\ HasRoom(w)
            /\ \A e \in 1..d - 1 : ~HasRoom(Candidate(l, e))
            /\ idx' = [idx EXCEPT ![l] = Slot(l, d)]
            /\ jobs' = [jobs EXCEPT ![w] = @ \cup {r}]
            /\ job_index' = [job_index EXCEPT ![w] = @ + 1]
            /\ sent' = [sent EXCEPT ![w] = IF status[w] = "up" THEN @ \cup {r} ELSE @]

(* create_job and wproc_run_job of job j: the first worker after idx that   *)
(* has room gets it under its next job id, and is sent the request.  The    *)
(* write goes to an unbounded buffer queue, so it does not fail.            *)
create_job(j) ==
    LET l == get_wproc_list(Command[j]) IN
    \E d \in 1..Len(wps[l]) :
        LET w == Candidate(l, d)
            r == [id |-> job_index[w], job |-> j]
        IN  /\ HasRoom(w)
            /\ \A e \in 1..d - 1 : ~HasRoom(Candidate(l, e))
            /\ idx' = [idx EXCEPT ![l] = Slot(l, d)]
            /\ jobs' = [jobs EXCEPT ![w] = @ \cup {r}]
            /\ job_index' = [job_index EXCEPT ![w] = @ + 1]
            /\ sent' = [sent EXCEPT ![w] = IF status[w] = "up" THEN @ \cup {r} ELSE @]

(* wproc_run_callback: the caller is told whether the job was accepted.     *)
wproc_run_callback(j) ==
    /\ dying = NoWorker
    /\ fate[j] = "new"
    /\ \/ /\ create_job(j)
          /\ fate' = [fate EXCEPT ![j] = "accepted"]
       \/ /\ NoneHasRoom(get_wproc_list(Command[j]))
          /\ fate' = [fate EXCEPT ![j] = "refused"]
          /\ UNCHANGED <<idx, jobs, job_index, sent>>
    /\ UNCHANGED <<status, wps, wp_list, results, calls, loopVars, countVars>>

(* register_worker: a worker with plugin arguments joins the list of each,  *)
(* and wp_list is the last of them; one without joins the core list.        *)
register_worker(w, args) ==
    /\ dying = NoWorker
    /\ status[w] = "new"
    /\ args = << >> => starting > 0
    /\ status' = [status EXCEPT ![w] = "up"]
    /\ LET joined == IF args = << >> THEN {Core} ELSE Range(args)
       IN  wps' = [l \in Lists |-> IF l \in joined THEN Append(wps[l], w) ELSE wps[l]]
    /\ wp_list' = [wp_list EXCEPT ![w] = IF args = << >> THEN Core ELSE args[Len(args)]]
    /\ online' = online + 1
    /\ starting' = IF args = << >> THEN starting - 1 ELSE starting
    /\ UNCHANGED <<idx, jobVars, fate, calls, loopVars, spawned>>

-----------------------------------------------------------------------------
(* Mutant: the job stays in the table after its callback was called.        *)
ResultKeepsJob(w, r) ==
    /\ dying = NoWorker
    /\ status[w] \in {"up", "broken"}
    /\ r \in results[w]
    /\ results' = [results EXCEPT ![w] = @ \ {r}]
    /\ \E q \in jobs[w] : q.id = r.id /\ calls' = [calls EXCEPT ![q.job] = @ + 1]
    /\ UNCHANGED <<status, listVars, jobs, job_index, sent, fate, loopVars, countVars>>

(* handle_worker_result.  A result names a job id of the worker that sent   *)
(* it: its callback is called once and the job leaves the table.  A result  *)
(* for an id that is not in the table is dropped with a warning.            *)
handle_worker_result(w, r) ==
    /\ dying = NoWorker
    /\ status[w] \in {"up", "broken"}
    /\ r \in results[w]
    /\ results' = [results EXCEPT ![w] = @ \ {r}]
    /\ \/ \E q \in jobs[w] :
            /\ q.id = r.id
            /\ calls' = [calls EXCEPT ![q.job] = @ + 1]
            /\ jobs' = [jobs EXCEPT ![w] = @ \ {q}]
       \/ /\ \A q \in jobs[w] : q.id # r.id
          /\ UNCHANGED <<calls, jobs>>
    /\ UNCHANGED <<status, listVars, job_index, sent, fate, loopVars, countVars>>

(* remove_worker closes the gap in the list of the worker.                  *)
Without(s, w) ==
    LET k == CHOOSE k \in 1..Len(s) : s[k] = w
    IN  IF w \in Range(s) THEN [i \in 1..Len(s) - 1 |-> IF i < k THEN s[i] ELSE s[i + 1]]
        ELSE s

(* Mutant: the worker stays in its list.                                    *)
RemoveNothing(w) == UNCHANGED <<wps, idx>>

(* It goes through worker->wp_list only.  A specialized list left without   *)
(* workers is taken out of the table: the next one starts with idx 0.       *)
remove_worker(w) ==
    LET l == wp_list[w]
        rest == Without(wps[l], w)
    IN  /\ wps' = [wps EXCEPT ![l] = rest]
        /\ idx' = [idx EXCEPT ![l] = IF rest = << >> /\ l # Core THEN 0 ELSE @]

(* Mutant: the jobs of the dead worker are forgotten.                       *)
WorkerGoneNoReassign(w) ==
    /\ dying = NoWorker
    /\ status[w] = "broken"
    /\ results[w] = {}
    /\ online' = online - 1
    /\ remove_worker(w)
    /\ dying' = w
    /\ todo' = {}
    /\ UNCHANGED <<status, wp_list, jobVars, fate, calls, spawned, starting>>

(* End of file, once everything the worker had written is read: it is taken *)
(* out of its list, so that its jobs are not given back to it, and if there *)
(* are fewer core workers than desired one is spawned, unless that fails.   *)
WorkerGone(w) ==
    /\ dying = NoWorker
    /\ status[w] = "broken"
    /\ results[w] = {}
    /\ online' = online - 1
    /\ remove_worker(w)
    /\ dying' = w
    /\ todo' = jobs[w]
    /\ \/ /\ Len(wps'[Core]) < Desired
          /\ spawned < MaxSpawned
          /\ spawned' = spawned + 1
          /\ starting' = starting + 1
       \/ UNCHANGED <<spawned, starting>>
    /\ UNCHANGED <<status, wp_list, jobVars, fate, calls>>

(* One turn of the loop that reassigns the jobs of the dead worker.  A job  *)
(* no other worker has room for is dropped: its callback is not called.     *)
ReassignJob(r) ==
    /\ dying # NoWorker
    /\ r \in todo
    /\ todo' = todo \ {r}
    /\ \/ create_job(r.job) /\ UNCHANGED fate
       \/ /\ NoneHasRoom(get_wproc_list(Command[r.job]))
          /\ fate' = [fate EXCEPT ![r.job] = "dropped"]
          /\ UNCHANGED <<idx, jobs, job_index, sent>>
    /\ UNCHANGED <<status, wps, wp_list, results, calls, dying, countVars>>

(* wproc_destroy(wp, WPROC_FORCE), after the loop.                          *)
wproc_destroy ==
    /\ dying # NoWorker
    /\ todo = {}
    /\ status' = [status EXCEPT ![dying] = "freed"]
    /\ jobs' = [jobs EXCEPT ![dying] = {}]
    /\ dying' = NoWorker
    /\ UNCHANGED <<listVars, job_index, sent, results, fate, calls, todo, countVars>>

-----------------------------------------------------------------------------
(* The workers.  One answers a request, may (as the master must expect of a *)
(* worker it did not write) answer it again, and may die: what it was       *)
(* working on is lost, what it has written can still be read.               *)
Answer(w, r) ==
    /\ r \in sent[w]
    /\ sent' = [sent EXCEPT ![w] = @ \ {r}]
    /\ results' = [results EXCEPT ![w] = @ \cup {r}]
    /\ UNCHANGED <<status, listVars, jobs, job_index, fate, calls, loopVars, countVars>>

AnswerAndKeep(w, r) ==
    /\ r \in sent[w]
    /\ r \notin results[w]
    /\ results' = [results EXCEPT ![w] = @ \cup {r}]
    /\ UNCHANGED <<status, listVars, jobs, job_index, sent, fate, calls, loopVars, countVars>>

Die(w) ==
    /\ status[w] = "up"
    /\ status' = [status EXCEPT ![w] = "broken"]
    /\ sent' = [sent EXCEPT ![w] = {}]
    /\ UNCHANGED <<listVars, jobs, job_index, results, fate, calls, loopVars, countVars>>

(* A core worker that dies before it registers: the master has no handler   *)
(* for its socket.                                                          *)
DieBeforeRegistering ==
    /\ starting > 0
    /\ starting' = starting - 1
    /\ UNCHANGED <<status, listVars, jobVars, fate, calls, loopVars, spawned, online>>

(* init_workers has spawned the desired number of core workers.             *)
Init ==
    /\ status = [w \in Workers |-> "new"]
    /\ wps = [l \in Lists |-> << >>]
    /\ idx = [l \in Lists |-> 0]
    /\ wp_list = [w \in Workers |-> Core]
    /\ jobs = [w \in Workers |-> {}]
    /\ job_index = [w \in Workers |-> 0]
    /\ sent = [w \in Workers |-> {}]
    /\ results = [w \in Workers |-> {}]
    /\ fate = [j \in Jobs |-> "new"]
    /\ calls = [j \in Jobs |-> 0]
    /\ dying = NoWorker
    /\ todo = {}
    /\ spawned = Desired
    /\ starting = Desired
    /\ online = 0

MasterStep ==
    \/ \E w \in Workers : \E r \in results[w] : handle_worker_result(w, r)
    \/ \E w \in Workers : WorkerGone(w)
    \/ \E r \in todo : ReassignJob(r)
    \/ wproc_destroy

Next ==
    \/ MasterStep
    \/ \E j \in Jobs : wproc_run_callback(j)
    \/ \E w \in Workers, args \in PluginArgs : register_worker(w, args)
    \/ \E w \in Workers : \E r \in sent[w] : Answer(w, r) \/ AnswerAndKeep(w, r)
    \/ \E w \in Workers : Die(w)
    \/ DieBeforeRegistering

(* The main loop reads every socket that is readable, and a worker that     *)
(* lives finishes or times out every job it was sent.                       *)
Fairness ==
    /\ WF_vars(MasterStep)
    /\ \A w \in Workers : \A j \in Jobs :
         WF_vars(\E r \in sent[w] : r.job = j /\ Answer(w, r))

Spec == Init /\ [][Next]_vars
FairSpec == Spec /\ Fairness

-----------------------------------------------------------------------------
(* The jobs a worker holds: of the one that is being taken down, those its  *)
(* reassignment has not visited.                                            *)
Held(w) == IF w = dying THEN todo ELSE jobs[w]
Holders(j) == {h \in UNION {{w} \X Held(w) : w \in Workers} : h[2].job = j}

(* Every job that was accepted is in the table of exactly one worker until  *)
(* its callback is called, once: neither a lost worker, nor reassignment,   *)
(* nor an answer that comes twice calls it again or forgets it.             *)
JobsAccounted ==
    \A j \in Jobs :
        /\ fate[j] = "accepted" => IF calls[j] = 0 THEN Cardinality(Holders(j)) = 1
                                   ELSE calls[j] = 1 /\ Holders(j) = {}
        /\ fate[j] # "accepted" => calls[j] = 0 /\ Holders(j) = {}

(* A result is for the call its job id stands for in the table of the       *)
(* worker that sent it: no callback is given the result of another job.     *)
ResultsBelong ==
    \A w \in Workers : \A q \in jobs[w] : \A r \in sent[w] \cup results[w] :
        r.id = q.id => r.job = q.job

(* Only workers that are connected are in the lists jobs are assigned from, *)
(* so that a job is never given back to the worker whose jobs are being     *)
(* reassigned, nor is freed memory read; and the number of workers online   *)
(* is the number of them.                                                   *)
ListsLive ==
    /\ \A l \in Lists : \A w \in Range(wps[l]) :
         status[w] \in {"up", "broken"} /\ w # dying
    /\ online = Cardinality(UNION {Range(wps[l]) : l \in Lists})

(* get_worker gives no worker more than max_jobs jobs, not even while those *)
(* of a dead one are moved.                                                 *)
WithinCapacity == \A w \in Workers : Cardinality(jobs[w]) <= MaxJobs

(* Every accepted job has its callback called or is dropped because no      *)
(* worker can take it, however many of its workers die.                     *)
JobsFinish ==
    \A j \in Jobs : fate[j] = "accepted" ~> (calls[j] = 1 \/ fate[j] = "dropped")
=============================================================================
