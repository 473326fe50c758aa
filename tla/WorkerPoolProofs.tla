-------------------------- MODULE WorkerPoolProofs --------------------------
(* Proofs about WorkerPool for any number of workers, plugins and jobs.     *)
EXTENDS WorkerPool, FiniteSetTheorems, TLAPS

(* What is known of a worker under an id: the job in the master's table,    *)
(* the request on its way and the result on its way.                        *)
Known(w) == jobs[w] \cup sent[w] \cup results[w]

(* Ids are given out in increasing order, and each stands for one job.      *)
IdsInv ==
    \A w \in Workers : \A r \in Known(w) :
        /\ r.id < job_index[w]
        /\ \A s \in Known(w) : s.id = r.id => s = r

(* The loop of handle_worker_result visits jobs of a worker whose socket is *)
(* broken.                                                                  *)
LoopInv ==
    /\ dying = NoWorker => todo = {}
    /\ dying # NoWorker => todo \subseteq jobs[dying] /\ status[dying] = "broken"

(* A worker is in the list wp_list names, at one place, and in no other.    *)
ListInv ==
    \A l \in Lists : \A i \in 1..Len(wps[l]) :
        /\ wps[l][i] # dying
        /\ status[wps[l][i]] \in {"up", "broken"}
        /\ wp_list[wps[l][i]] = l
        /\ \A k \in 1..Len(wps[l]) : wps[l][k] = wps[l][i] => k = i

(* A job some worker holds is accepted and not yet called back, and there   *)
(* is one entry for it; one that is accepted and not called back is held.   *)
HeldInv ==
    /\ \A w \in Workers : \A r \in Held(w) :
         /\ fate[r.job] = "accepted"
         /\ calls[r.job] = 0
         /\ \A v \in Workers : \A s \in Held(v) : s.job = r.job => v = w /\ s = r
    /\ \A j \in Jobs :
         /\ calls[j] \in {0, 1}
         /\ fate[j] # "accepted" => calls[j] = 0
         /\ fate[j] = "accepted" /\ calls[j] = 0 =>
              \E w \in Workers : \E r \in Held(w) : r.job = j

IndInv == TypeOK /\ IdsInv /\ LoopInv /\ ListInv /\ HeldInv

(* Each registration names at most one plugin.                              *)
AtMostOnePlugin == \A args \in PluginArgs : Len(args) <= 1

-----------------------------------------------------------------------------
(* The operators.                                                           *)

(* The round robin of get_worker stays within the list.                     *)
LEMMA CandidateInList ==
    ASSUME TypeOK, NEW l \in Lists, NEW d \in 1..Len(wps[l])
    PROVE  /\ Slot(l, d) \in 0..Len(wps[l]) - 1
           /\ Candidate(l, d) = wps[l][Slot(l, d) + 1]
           /\ Candidate(l, d) \in Workers
<1> DEFINE n == Len(wps[l])
<1>1. wps[l] \in Seq(Workers) /\ idx[l] \in Nat
  BY DEF TypeOK
<1>2. n \in Nat /\ n > 0 /\ d \in Nat
  BY <1>1
<1>3. idx[l] % n \in 0..n - 1
  BY <1>1, <1>2
<1>4. ((idx[l] % n) + d) % n \in 0..n - 1
  BY <1>2, <1>3
<1>5. Slot(l, d) \in 0..n - 1
  BY <1>4 DEF Slot
<1>6. wps[l][Slot(l, d) + 1] \in Workers
  BY <1>1, <1>2, <1>5
<1> QED
  BY <1>5, <1>6 DEF Candidate

(* A command has a list.                                                    *)
LEMMA ListOfCommand ==
    ASSUME NEW j \in Jobs PROVE get_wproc_list(Command[j]) \in Lists
  BY WorkerPoolAssumption DEF get_wproc_list, Lists

(* remove_worker leaves a list of workers.                                  *)
LEMMA WithoutType ==
    ASSUME NEW s \in Seq(Workers), NEW w \in Workers
    PROVE  Without(s, w) \in Seq(Workers)
<1> DEFINE k == CHOOSE k \in 1..Len(s) : s[k] = w
           t == [i \in 1..Len(s) - 1 |-> IF i < k THEN s[i] ELSE s[i + 1]]
<1>1. CASE w \notin Range(s)
  BY <1>1 DEF Without
<1>2. CASE w \in Range(s)
  <2>1. Len(s) \in Nat /\ Len(s) > 0 /\ k \in 1..Len(s)
    BY <1>2 DEF Range
  <2>2. t \in Seq(Workers)
    BY <2>1
  <2> QED
    BY <1>2, <2>2 DEF Without
<1> QED
  BY <1>1, <1>2

(* remove_worker leaves a list of the other workers, each at one place.     *)
LEMMA WithoutProperties ==
    ASSUME NEW s \in Seq(Workers), NEW w \in Workers,
           \A a, b \in 1..Len(s) : s[a] = s[b] => a = b
    PROVE  /\ Without(s, w) \in Seq(Workers)
           /\ \A i \in 1..Len(Without(s, w)) :
                /\ \E m \in 1..Len(s) : Without(s, w)[i] = s[m]
                /\ Without(s, w)[i] # w
           /\ \A a, b \in 1..Len(Without(s, w)) :
                Without(s, w)[a] = Without(s, w)[b] => a = b
<1> DEFINE k == CHOOSE k \in 1..Len(s) : s[k] = w
           t == [i \in 1..Len(s) - 1 |-> IF i < k THEN s[i] ELSE s[i + 1]]
<1>1. CASE w \notin Range(s)
  BY <1>1 DEF Without, Range
<1>2. CASE w \in Range(s)
  <2>1. Len(s) \in Nat /\ Len(s) > 0 /\ k \in 1..Len(s) /\ s[k] = w
    BY <1>2 DEF Range
  <2>2. \A i \in 1..Len(s) - 1 : t[i] = s[IF i < k THEN i ELSE i + 1]
    BY <2>1
  <2>3. \A i \in 1..Len(s) - 1 : (IF i < k THEN i ELSE i + 1) \in (1..Len(s)) \ {k}
    BY <2>1
  <2>4. \A i \in 1..Len(s) - 1 : t[i] \in Workers /\ t[i] # w
    BY <2>1, <2>2, <2>3
  <2>5. t \in Seq(Workers) /\ Len(t) = Len(s) - 1
    BY <2>1, <2>4
  <2>6. \A a, b \in 1..Len(s) - 1 : t[a] = t[b] => a = b
    BY <2>1, <2>2, <2>3
  <2>7. \A i \in 1..Len(t) : \E m \in 1..Len(s) : t[i] = s[m]
    BY <2>2, <2>3, <2>5
  <2>8. Without(s, w) = t
    BY <1>2 DEF Without
  <2> HIDE DEF t
  <2> QED
    BY <2>4, <2>5, <2>6, <2>7, <2>8
<1> QED
  BY <1>1, <1>2

(* What the invariants need to know of create_job: some worker of a list    *)
(* that has room gets the job under its next id.                            *)
JobGoesTo(j, w) ==
    LET r == [id |-> job_index[w], job |-> j]
    IN  /\ HasRoom(w)
        /\ jobs' = [jobs EXCEPT ![w] = @ \cup {r}]
        /\ job_index' = [job_index EXCEPT ![w] = @ + 1]
        /\ sent' = [sent EXCEPT ![w] = IF status[w] = "up" THEN @ \cup {r} ELSE @]

LEMMA CreateJobEffect ==
    ASSUME TypeOK, NEW j \in Jobs, create_job(j)
    PROVE  /\ idx' \in [Lists -> Nat]
           /\ \E l \in Lists : \E i \in 1..Len(wps[l]) :
                wps[l][i] \in Workers /\ JobGoesTo(j, wps[l][i])
<1> DEFINE l == get_wproc_list(Command[j])
<1>1. l \in Lists
  BY ListOfCommand
<1>2. PICK d \in 1..Len(wps[l]) :
        /\ JobGoesTo(j, Candidate(l, d))
        /\ idx' = [idx EXCEPT ![l] = Slot(l, d)]
  BY DEF create_job, JobGoesTo
<1>3. /\ Slot(l, d) \in 0..Len(wps[l]) - 1
      /\ Candidate(l, d) = wps[l][Slot(l, d) + 1]
      /\ Candidate(l, d) \in Workers
  BY <1>1, CandidateInList
<1>4. wps[l] \in Seq(Workers) /\ Len(wps[l]) \in Nat
  BY <1>1 DEF TypeOK
<1>5. Slot(l, d) \in Nat /\ Slot(l, d) + 1 \in 1..Len(wps[l])
  BY <1>3, <1>4
<1> HIDE DEF l
<1> QED
  BY <1>1, <1>2, <1>3, <1>5 DEF TypeOK

-----------------------------------------------------------------------------
(* Type correctness.                                                        *)

LEMMA CreateJobType ==
    ASSUME TypeOK, NEW j \in Jobs, create_job(j)
    PROVE  /\ idx' \in [Lists -> Nat]
           /\ jobs' \in [Workers -> SUBSET Entries]
           /\ job_index' \in [Workers -> Nat]
           /\ sent' \in [Workers -> SUBSET Entries]
<1>1. PICK w \in Workers : JobGoesTo(j, w)
  BY CreateJobEffect
<1>2. [id |-> job_index[w], job |-> j] \in Entries
  BY DEF TypeOK, Entries
<1> DEFINE r == [id |-> job_index[w], job |-> j]
<1>3. jobs[w] \cup {r} \in SUBSET Entries /\ sent[w] \cup {r} \in SUBSET Entries
  BY <1>2 DEF TypeOK
<1>4. /\ jobs' = [jobs EXCEPT ![w] = jobs[w] \cup {r}]
      /\ job_index' = [job_index EXCEPT ![w] = job_index[w] + 1]
      /\ sent' = [sent EXCEPT ![w] = IF status[w] = "up" THEN sent[w] \cup {r} ELSE sent[w]]
  BY <1>1 DEF JobGoesTo
<1> HIDE DEF r
<1>5. jobs' \in [Workers -> SUBSET Entries]
  BY <1>3, <1>4 DEF TypeOK
<1>6. job_index' \in [Workers -> Nat]
  BY <1>4 DEF TypeOK
<1>7. sent' \in [Workers -> SUBSET Entries]
  BY <1>3, <1>4 DEF TypeOK
<1> QED
  BY <1>5, <1>6, <1>7, CreateJobEffect

LEMMA TypeStep == ASSUME TypeOK, [Next]_vars PROVE TypeOK'
<1> USE DEF TypeOK
<1>1. ASSUME NEW w \in Workers, NEW r \in results[w], handle_worker_result(w, r)
      PROVE  TypeOK'
  <2>1. \A q \in jobs[w] : q.job \in Jobs /\ jobs[w] \ {q} \in SUBSET Entries
    BY DEF Entries
  <2>2. CASE calls' = calls /\ jobs' = jobs
    BY <1>1, <2>2 DEF handle_worker_result, listVars, loopVars, countVars
  <2>3. ASSUME NEW q \in jobs[w],
               calls' = [calls EXCEPT ![q.job] = @ + 1],
               jobs' = [jobs EXCEPT ![w] = @ \ {q}]
        PROVE  calls' \in [Jobs -> Nat] /\ jobs' \in [Workers -> SUBSET Entries]
    BY <2>1, <2>3
  <2>4. results' \in [Workers -> SUBSET Entries]
    BY <1>1 DEF handle_worker_result
  <2> QED
    BY <1>1, <2>2, <2>3, <2>4 DEF handle_worker_result, listVars, loopVars, countVars
<1>2. ASSUME NEW w \in Workers, WorkerGone(w) PROVE TypeOK'
  <2>1. wp_list[w] \in Lists /\ wps[wp_list[w]] \in Seq(Workers)
    OBVIOUS
  <2>2. Without(wps[wp_list[w]], w) \in Seq(Workers)
    BY <2>1, WithoutType
  <2>3. wps' \in [Lists -> Seq(Workers)] /\ idx' \in [Lists -> Nat]
    BY <1>2, <2>1, <2>2 DEF WorkerGone, remove_worker
  <2>4. spawned' \in Nat /\ starting' \in Nat /\ online' \in Int
    BY <1>2 DEF WorkerGone
  <2> QED
    BY <1>2, <2>3, <2>4 DEF WorkerGone, jobVars
<1>3. ASSUME NEW r \in todo, ReassignJob(r) PROVE TypeOK'
  <2>1. r.job \in Jobs
    BY DEF Entries
  <2>2. /\ idx' \in [Lists -> Nat]
        /\ jobs' \in [Workers -> SUBSET Entries]
        /\ job_index' \in [Workers -> Nat]
        /\ sent' \in [Workers -> SUBSET Entries]
    BY <1>3, <2>1, CreateJobType DEF ReassignJob
  <2> QED
    BY <1>3, <2>1, <2>2 DEF ReassignJob, countVars
<1>4. ASSUME wproc_destroy PROVE TypeOK'
  BY <1>4 DEF wproc_destroy, listVars, countVars
<1>5. ASSUME NEW j \in Jobs, wproc_run_callback(j) PROVE TypeOK'
  <2>1. /\ idx' \in [Lists -> Nat]
        /\ jobs' \in [Workers -> SUBSET Entries]
        /\ job_index' \in [Workers -> Nat]
        /\ sent' \in [Workers -> SUBSET Entries]
    BY <1>5, CreateJobType DEF wproc_run_callback
  <2> QED
    BY <1>5, <2>1 DEF wproc_run_callback, loopVars, countVars
<1>6. ASSUME NEW w \in Workers, NEW args \in PluginArgs, register_worker(w, args)
      PROVE  TypeOK'
  <2>1. args \in Seq(Plugins) /\ Core \in Lists /\ Plugins \subseteq Lists
    BY WorkerPoolAssumption DEF Lists
  <2>2. args # << >> => args[Len(args)] \in Lists
    BY <2>1
  <2>3. wps' \in [Lists -> Seq(Workers)]
    BY <1>6 DEF register_worker
  <2>4. wp_list' \in [Workers -> Lists] /\ starting' \in Nat
    BY <1>6, <2>1, <2>2 DEF register_worker
  <2> QED
    BY <1>6, <2>3, <2>4 DEF register_worker, jobVars, loopVars
<1>7. ASSUME NEW w \in Workers, NEW r \in sent[w], Answer(w, r) \/ AnswerAndKeep(w, r)
      PROVE  TypeOK'
  <2>1. r \in Entries /\ results[w] \cup {r} \in SUBSET Entries
    OBVIOUS
  <2>2. /\ sent' \in [Workers -> SUBSET Entries]
        /\ results' \in [Workers -> SUBSET Entries]
    BY <1>7, <2>1, ZenonT(30) DEF Answer, AnswerAndKeep
  <2> QED
    BY <1>7, <2>2 DEF Answer, AnswerAndKeep, listVars, loopVars, countVars
<1>8. ASSUME NEW w \in Workers, Die(w) PROVE TypeOK'
  BY <1>8 DEF Die, listVars, loopVars, countVars
<1>9. ASSUME DieBeforeRegistering PROVE TypeOK'
  BY <1>9 DEF DieBeforeRegistering, listVars, jobVars, loopVars
<1>10. ASSUME UNCHANGED vars PROVE TypeOK'
  BY <1>10 DEF vars, listVars, jobVars, loopVars, countVars
<1> QED
  BY <1>1, <1>2, <1>3, <1>4, <1>5, <1>6, <1>7, <1>8, <1>9, <1>10 DEF Next, MasterStep

-----------------------------------------------------------------------------
(* Ids.  A step that only takes things away keeps IdsInv, and so does one   *)
(* that uses the next id.                                                   *)

LEMMA IdsShrink ==
    ASSUME IdsInv, job_index' = job_index,
           \A w \in Workers : Known(w)' \subseteq Known(w)
    PROVE  IdsInv'
  BY DEF IdsInv

LEMMA IdsCreate ==
    ASSUME TypeOK, IdsInv, NEW j \in Jobs, create_job(j), results' = results
    PROVE  IdsInv'
<1>1. PICK w \in Workers : JobGoesTo(j, w)
  BY CreateJobEffect
<1> DEFINE r == [id |-> job_index[w], job |-> j]
<1>2. \A v \in Workers : \A x \in Known(v) : x.id \in Nat /\ job_index[v] \in Nat
  BY DEF TypeOK, Known, Entries
<1>3. /\ jobs' = [jobs EXCEPT ![w] = jobs[w] \cup {r}]
      /\ job_index' = [job_index EXCEPT ![w] = job_index[w] + 1]
      /\ sent' = [sent EXCEPT ![w] = IF status[w] = "up" THEN sent[w] \cup {r} ELSE sent[w]]
  BY <1>1 DEF JobGoesTo
<1>4. Known(w)' \subseteq Known(w) \cup {r} /\ job_index'[w] = job_index[w] + 1
  BY <1>3 DEF Known, TypeOK
<1>5. \A v \in Workers \ {w} : Known(v)' = Known(v) /\ job_index'[v] = job_index[v]
  BY <1>3 DEF Known, TypeOK
<1>6. r.id = job_index[w] /\ job_index[w] \in Nat
  BY DEF TypeOK
<1> HIDE DEF r
<1>7. ASSUME NEW x \in Known(w)' PROVE x.id < job_index'[w]
  BY <1>2, <1>4, <1>6 DEF IdsInv
<1>8. ASSUME NEW x \in Known(w)', NEW y \in Known(w)', y.id = x.id PROVE y = x
  BY <1>2, <1>4, <1>6, <1>8 DEF IdsInv
<1> QED
  BY <1>5, <1>7, <1>8 DEF IdsInv

LEMMA IdsStep == ASSUME TypeOK, IdsInv, [Next]_vars PROVE IdsInv'
<1>1. ASSUME NEW w \in Workers, NEW r \in results[w], handle_worker_result(w, r)
      PROVE  IdsInv'
  <2>1. \A v \in Workers : jobs'[v] \subseteq jobs[v] /\ results'[v] \subseteq results[v]
    BY <1>1 DEF handle_worker_result, TypeOK
  <2> QED
    BY <1>1, <2>1, IdsShrink DEF handle_worker_result, Known
<1>2. ASSUME NEW w \in Workers, WorkerGone(w) PROVE IdsInv'
  BY <1>2, IdsShrink DEF WorkerGone, jobVars, Known
<1>3. ASSUME NEW r \in todo, ReassignJob(r) PROVE IdsInv'
  <2>1. r.job \in Jobs
    BY DEF TypeOK, Entries
  <2>2. CASE create_job(r.job)
    BY <1>3, <2>1, <2>2, IdsCreate DEF ReassignJob
  <2>3. CASE UNCHANGED <<jobs, job_index, sent>>
    BY <1>3, <2>3, IdsShrink DEF ReassignJob, Known
  <2> QED
    BY <1>3, <2>2, <2>3 DEF ReassignJob
<1>4. ASSUME wproc_destroy PROVE IdsInv'
  <2>1. \A v \in Workers : jobs'[v] \subseteq jobs[v]
    BY <1>4 DEF wproc_destroy, TypeOK
  <2> QED
    BY <1>4, <2>1, IdsShrink DEF wproc_destroy, Known
<1>5. ASSUME NEW j \in Jobs, wproc_run_callback(j) PROVE IdsInv'
  <2>2. CASE create_job(j)
    BY <1>5, <2>2, IdsCreate DEF wproc_run_callback
  <2>3. CASE UNCHANGED <<jobs, job_index, sent>>
    BY <1>5, <2>3, IdsShrink DEF wproc_run_callback, Known
  <2> QED
    BY <1>5, <2>2, <2>3 DEF wproc_run_callback
<1>6. ASSUME NEW w \in Workers, NEW args \in PluginArgs, register_worker(w, args)
      PROVE  IdsInv'
  BY <1>6, IdsShrink DEF register_worker, jobVars, Known
<1>7. ASSUME NEW w \in Workers, NEW r \in sent[w], Answer(w, r) \/ AnswerAndKeep(w, r)
      PROVE  IdsInv'
  <2>1. \A v \in Workers : sent'[v] \subseteq sent[v]
    BY <1>7, ZenonT(30) DEF Answer, AnswerAndKeep, TypeOK
  <2>2. results' = [results EXCEPT ![w] = results[w] \cup {r}]
    BY <1>7 DEF Answer, AnswerAndKeep
  <2>3. \A v \in Workers : results'[v] \subseteq results[v] \cup sent[v]
    BY <2>2 DEF TypeOK
  <2> QED
    BY <1>7, <2>1, <2>3, IdsShrink DEF Answer, AnswerAndKeep, Known
<1>8. ASSUME NEW w \in Workers, Die(w) PROVE IdsInv'
  <2>1. \A v \in Workers : sent'[v] \subseteq sent[v]
    BY <1>8 DEF Die, TypeOK
  <2> QED
    BY <1>8, <2>1, IdsShrink DEF Die, Known
<1>9. ASSUME DieBeforeRegistering PROVE IdsInv'
  BY <1>9, IdsShrink DEF DieBeforeRegistering, jobVars, Known
<1>10. ASSUME UNCHANGED vars PROVE IdsInv'
  BY <1>10, IdsShrink DEF vars, jobVars, Known
<1> QED
  BY <1>1, <1>2, <1>3, <1>4, <1>5, <1>6, <1>7, <1>8, <1>9, <1>10 DEF Next, MasterStep

-----------------------------------------------------------------------------
(* The reassignment loop and the lists.                                     *)

LEMMA LoopStep == ASSUME TypeOK, LoopInv, [Next]_vars PROVE LoopInv'
<1> USE WorkerPoolAssumption DEF LoopInv
<1>1. ASSUME NEW w \in Workers, NEW r \in results[w], handle_worker_result(w, r)
      PROVE  LoopInv'
  BY <1>1 DEF handle_worker_result, loopVars
<1>2. ASSUME NEW w \in Workers, WorkerGone(w) PROVE LoopInv'
  BY <1>2 DEF WorkerGone, jobVars
<1>3. ASSUME NEW r \in todo, ReassignJob(r) PROVE LoopInv'
  <2>1. r.job \in Jobs /\ dying \in Workers
    BY <1>3 DEF TypeOK, Entries, ReassignJob
  <2>2. jobs[dying] \subseteq jobs'[dying]
    <3>1. CASE create_job(r.job)
      <4>1. PICK w \in Workers : JobGoesTo(r.job, w)
        BY <2>1, <3>1, CreateJobEffect
      <4> QED
        BY <2>1, <4>1 DEF JobGoesTo, TypeOK
    <3>2. CASE jobs' = jobs
      BY <3>2
    <3> QED
      BY <1>3, <3>1, <3>2 DEF ReassignJob
  <2> QED
    BY <1>3, <2>2 DEF ReassignJob
<1>4. ASSUME wproc_destroy PROVE LoopInv'
  BY <1>4 DEF wproc_destroy
<1>5. ASSUME NEW j \in Jobs, wproc_run_callback(j) PROVE LoopInv'
  BY <1>5 DEF wproc_run_callback, loopVars
<1>6. ASSUME NEW w \in Workers, NEW args \in PluginArgs, register_worker(w, args)
      PROVE  LoopInv'
  BY <1>6 DEF register_worker, loopVars
<1>7. ASSUME NEW w \in Workers, NEW r \in sent[w], Answer(w, r) \/ AnswerAndKeep(w, r)
      PROVE  LoopInv'
  BY <1>7 DEF Answer, AnswerAndKeep, loopVars
<1>8. ASSUME NEW w \in Workers, Die(w) PROVE LoopInv'
  BY <1>8 DEF Die, loopVars, TypeOK
<1>9. ASSUME DieBeforeRegistering PROVE LoopInv'
  BY <1>9 DEF DieBeforeRegistering, jobVars, loopVars
<1>10. ASSUME UNCHANGED vars PROVE LoopInv'
  BY <1>10 DEF vars, jobVars, loopVars
<1> QED
  BY <1>1, <1>2, <1>3, <1>4, <1>5, <1>6, <1>7, <1>8, <1>9, <1>10 DEF Next, MasterStep

LEMMA ListStep ==
    ASSUME AtMostOnePlugin, TypeOK, LoopInv, ListInv, [Next]_vars
    PROVE  ListInv'
<1> USE DEF ListInv
<1>1. ASSUME NEW w \in Workers, NEW r \in results[w], handle_worker_result(w, r)
      PROVE  ListInv'
  BY <1>1 DEF handle_worker_result, listVars, loopVars
<1>2. ASSUME NEW w \in Workers, WorkerGone(w) PROVE ListInv'
  <2> DEFINE l == wp_list[w]
             rest == Without(wps[l], w)
  <2>1. l \in Lists /\ wps[l] \in Seq(Workers)
    BY DEF TypeOK
  <2>2. \A a, b \in 1..Len(wps[l]) : wps[l][a] = wps[l][b] => a = b
    BY <2>1
  <2>3. /\ \A i \in 1..Len(rest) :
             /\ \E m \in 1..Len(wps[l]) : rest[i] = wps[l][m]
             /\ rest[i] # w
        /\ \A a, b \in 1..Len(rest) : rest[a] = rest[b] => a = b
    BY <2>1, <2>2, WithoutProperties
  <2>4. /\ wps' = [wps EXCEPT ![l] = rest]
        /\ dying' = w /\ status' = status /\ wp_list' = wp_list
    BY <1>2 DEF WorkerGone, remove_worker
  <2> HIDE DEF l, rest
  <2>5. wps'[l] = rest /\ \A k \in Lists \ {l} : wps'[k] = wps[k]
    BY <2>1, <2>4 DEF TypeOK
  <2>6. \A k \in Lists \ {l} : \A i \in 1..Len(wps[k]) : wps[k][i] # w
    BY DEF l
  <2>7. ASSUME NEW i \in 1..Len(rest)
        PROVE  /\ status[rest[i]] \in {"up", "broken"}
               /\ wp_list[rest[i]] = l
    BY <2>1, <2>3
  <2> QED
    BY <2>3, <2>4, <2>5, <2>6, <2>7
<1>3. ASSUME NEW r \in todo, ReassignJob(r) PROVE ListInv'
  BY <1>3 DEF ReassignJob
<1>4. ASSUME wproc_destroy PROVE ListInv'
  <2>1. \A l \in Lists : \A i \in 1..Len(wps[l]) : wps[l][i] \in Workers
    BY DEF TypeOK
  <2> QED
    BY <1>4, <2>1, WorkerPoolAssumption DEF wproc_destroy, listVars, TypeOK
<1>5. ASSUME NEW j \in Jobs, wproc_run_callback(j) PROVE ListInv'
  BY <1>5 DEF wproc_run_callback, loopVars
<1>6. ASSUME NEW w \in Workers, NEW args \in PluginArgs, register_worker(w, args)
      PROVE  ListInv'
  <2> DEFINE m == IF args = << >> THEN Core ELSE args[Len(args)]
  <2>0. args \in Seq(Plugins) /\ Len(args) <= 1
    BY WorkerPoolAssumption DEF AtMostOnePlugin
  <2>1. args \in Seq(Plugins) /\ (Len(args) = 0 \/ Len(args) = 1)
    <3>1. Len(args) \in Nat
      BY <2>0
    <3>2. \A n \in Nat : n <= 1 => n = 0 \/ n = 1
      OBVIOUS
    <3> QED
      BY <2>0, <3>1, <3>2
  <2>2. m \in Lists /\ (IF args = << >> THEN {Core} ELSE Range(args)) = {m}
    BY <2>1 DEF Lists, Range
  <2>3. /\ wps' = [l \in Lists |-> IF l = m THEN Append(wps[l], w) ELSE wps[l]]
        /\ wp_list' = [wp_list EXCEPT ![w] = m]
        /\ status' = [status EXCEPT ![w] = "up"]
        /\ dying = NoWorker /\ dying' = NoWorker
    BY <1>6, <2>2 DEF register_worker, loopVars
  <2>4. \A l \in Lists : /\ wps[l] \in Seq(Workers)
                        /\ \A i \in 1..Len(wps[l]) : wps[l][i] \in Workers \ {w}
    <3>1. \A l \in Lists : wps[l] \in Seq(Workers)
      BY DEF TypeOK
    <3>2. \A l \in Lists : \A i \in 1..Len(wps[l]) : wps[l][i] \in Workers
      BY <3>1
    <3>3. status[w] = "new"
      BY <1>6 DEF register_worker
    <3> QED
      BY <3>1, <3>2, <3>3
  <2> HIDE DEF m
  <2>5. /\ Len(wps'[m]) = Len(wps[m]) + 1
        /\ wps'[m][Len(wps[m]) + 1] = w
        /\ \A i \in 1..Len(wps[m]) : wps'[m][i] = wps[m][i]
    BY <2>2, <2>3, <2>4
  <2>6. status'[w] = "up" /\ wp_list'[w] = m /\ w # NoWorker
    BY <2>3, WorkerPoolAssumption DEF TypeOK
  <2>7. \A v \in Workers \ {w} : status'[v] = status[v] /\ wp_list'[v] = wp_list[v]
    BY <2>3 DEF TypeOK
  <2>8. ASSUME NEW l \in Lists \ {m} PROVE wps'[l] = wps[l]
    BY <2>3
  <2>9. ASSUME NEW l \in Lists, NEW i \in 1..Len(wps'[l])
        PROVE  /\ wps'[l][i] # dying'
               /\ status'[wps'[l][i]] \in {"up", "broken"}
               /\ wp_list'[wps'[l][i]] = l
               /\ \A k \in 1..Len(wps'[l]) : wps'[l][k] = wps'[l][i] => k = i
    <3>1. CASE l # m
      BY <2>3, <2>4, <2>7, <2>8, <3>1
    <3>2. CASE l = m
      <4>1. Len(wps[m]) \in Nat
        BY <2>2, <2>4
      <4>2. CASE i = Len(wps[m]) + 1
        BY <2>2, <2>3, <2>4, <2>5, <2>6, <3>2, <4>1, <4>2
      <4>3. CASE i \in 1..Len(wps[m])
        BY <2>2, <2>3, <2>4, <2>5, <2>7, <3>2, <4>1, <4>3
      <4> QED
        BY <2>5, <3>2, <4>1, <4>2, <4>3
    <3> QED
      BY <3>1, <3>2
  <2> QED
    BY <2>9
<1>7. ASSUME NEW w \in Workers, NEW r \in sent[w], Answer(w, r) \/ AnswerAndKeep(w, r)
      PROVE  ListInv'
  BY <1>7 DEF Answer, AnswerAndKeep, listVars, loopVars
<1>8. ASSUME NEW w \in Workers, Die(w) PROVE ListInv'
  <2>1. \A l \in Lists : \A i \in 1..Len(wps[l]) : wps[l][i] \in Workers
    BY DEF TypeOK
  <2>2. \A v \in Workers : status[v] \in {"up", "broken"} => status'[v] \in {"up", "broken"}
    BY <1>8 DEF Die, TypeOK
  <2> QED
    BY <1>8, <2>1, <2>2 DEF Die, listVars, loopVars
<1>9. ASSUME DieBeforeRegistering PROVE ListInv'
  BY <1>9 DEF DieBeforeRegistering, listVars, loopVars
<1>10. ASSUME UNCHANGED vars PROVE ListInv'
  BY <1>10 DEF vars, listVars, loopVars
<1> QED
  BY <1>1, <1>2, <1>3, <1>4, <1>5, <1>6, <1>7, <1>8, <1>9, <1>10 DEF Next, MasterStep

-----------------------------------------------------------------------------
(* Who holds a job.                                                         *)

LEMMA HeldSame ==
    ASSUME HeldInv, fate' = fate, calls' = calls,
           \A w \in Workers : Held(w)' = Held(w)
    PROVE  HeldInv'
  BY DEF HeldInv

(* A worker that a job is given to is not the one that is taken down.       *)
LEMMA JobGoesToListed ==
    ASSUME TypeOK, ListInv, NEW j \in Jobs, create_job(j)
    PROVE  \E w \in Workers : w # dying /\ JobGoesTo(j, w)
  BY CreateJobEffect DEF ListInv

LEMMA HeldStep ==
    ASSUME TypeOK, LoopInv, ListInv, HeldInv, [Next]_vars
    PROVE  HeldInv'
<1> USE WorkerPoolAssumption
<1>0. \A w \in Workers : \A r \in Held(w) : r.job \in Jobs
  BY DEF Held, TypeOK, Entries
<1>1. ASSUME NEW w \in Workers, NEW r \in results[w], handle_worker_result(w, r)
      PROVE  HeldInv'
  <2>1. CASE calls' = calls /\ jobs' = jobs
    BY <1>1, <2>1, HeldSame DEF handle_worker_result, loopVars, Held
  <2>2. ASSUME NEW q \in jobs[w],
               calls' = [calls EXCEPT ![q.job] = @ + 1],
               jobs' = [jobs EXCEPT ![w] = @ \ {q}]
        PROVE  HeldInv'
    <3>1. dying = NoWorker /\ dying' = NoWorker /\ fate' = fate
      BY <1>1 DEF handle_worker_result, loopVars
    <3>2. /\ \A v \in Workers : Held(v) = jobs[v] /\ Held(v)' = jobs'[v]
          /\ jobs'[w] = jobs[w] \ {q}
          /\ \A v \in Workers \ {w} : jobs'[v] = jobs[v]
      BY <2>2, <3>1 DEF Held, TypeOK
    <3>3. q.job \in Jobs /\ fate[q.job] = "accepted" /\ calls[q.job] = 0
      BY <1>0, <3>2 DEF HeldInv
    <3>4. calls'[q.job] = 1 /\ \A j \in Jobs \ {q.job} : calls'[j] = calls[j]
      BY <2>2, <3>3 DEF TypeOK
    <3>5. \A v \in Workers : Held(v)' \subseteq Held(v)
      BY <3>2
    <3>6. \A v \in Workers : \A s \in Held(v)' : s.job # q.job
      BY <3>2 DEF HeldInv
    <3>7. \A v \in Workers : \A s \in Held(v) : s.job # q.job => s \in Held(v)'
      BY <3>2
    <3>8. ASSUME NEW v \in Workers, NEW s \in Held(v)'
          PROVE  /\ fate'[s.job] = "accepted"
                 /\ calls'[s.job] = 0
                 /\ \A x \in Workers : \A y \in Held(x)' : y.job = s.job => x = v /\ y = s
      BY <1>0, <3>1, <3>4, <3>5, <3>6 DEF HeldInv
    <3>9. ASSUME NEW j \in Jobs
          PROVE  /\ calls'[j] \in {0, 1}
                 /\ fate'[j] # "accepted" => calls'[j] = 0
                 /\ fate'[j] = "accepted" /\ calls'[j] = 0 =>
                      \E v \in Workers : \E s \in Held(v)' : s.job = j
      BY <3>1, <3>3, <3>4, <3>7 DEF HeldInv
    <3> QED
      BY <3>8, <3>9 DEF HeldInv
  <2> QED
    BY <1>1, <2>1, <2>2 DEF handle_worker_result
<1>2. ASSUME NEW w \in Workers, WorkerGone(w) PROVE HeldInv'
  <2>1. \A v \in Workers : Held(v)' = Held(v)
    BY <1>2 DEF WorkerGone, jobVars, Held
  <2> QED
    BY <1>2, <2>1, HeldSame DEF WorkerGone
<1>3. ASSUME NEW r \in todo, ReassignJob(r) PROVE HeldInv'
  <2>1. dying \in Workers /\ dying' = dying /\ todo' = todo \ {r} /\ calls' = calls
    BY <1>3 DEF ReassignJob, TypeOK
  <2>2. r \in Held(dying) /\ r.job \in Jobs
    BY <1>0, <2>1 DEF Held
  <2>3. /\ fate[r.job] = "accepted" /\ calls[r.job] = 0
        /\ \A v \in Workers : \A s \in Held(v) : s.job = r.job => v = dying /\ s = r
    BY <2>1, <2>2 DEF HeldInv
  <2>4. CASE create_job(r.job) /\ fate' = fate
    <3>1. PICK w \in Workers : w # dying /\ JobGoesTo(r.job, w)
      BY <2>2, <2>4, JobGoesToListed
    <3> DEFINE n == [id |-> job_index[w], job |-> r.job]
    <3>2. jobs' = [jobs EXCEPT ![w] = jobs[w] \cup {n}] /\ n.job = r.job
      BY <3>1 DEF JobGoesTo
    <3> HIDE DEF n
    <3>3. /\ Held(w)' = Held(w) \cup {n}
          /\ Held(dying)' = Held(dying) \ {r}
          /\ \A v \in Workers \ {w, dying} : Held(v)' = Held(v)
      BY <2>1, <3>1, <3>2 DEF Held, TypeOK
    <3>4. \A v \in Workers : \A s \in Held(v)' :
            \/ v = w /\ s = n
            \/ s \in Held(v) /\ s.job # r.job
      BY <2>1, <2>3, <3>1, <3>3
    <3>5. \A v \in Workers : \A s \in Held(v) : s.job # r.job => s \in Held(v)'
      BY <2>1, <3>1, <3>3
    <3>6. ASSUME NEW v \in Workers, NEW s \in Held(v)'
          PROVE  /\ fate'[s.job] = "accepted"
                 /\ calls'[s.job] = 0
                 /\ \A x \in Workers : \A y \in Held(x)' : y.job = s.job => x = v /\ y = s
      BY <2>1, <2>3, <2>4, <3>2, <3>4 DEF HeldInv
    <3>7. ASSUME NEW j \in Jobs, fate'[j] = "accepted", calls'[j] = 0
          PROVE  \E v \in Workers : \E s \in Held(v)' : s.job = j
      <4>1. CASE j = r.job
        BY <3>2, <3>3, <4>1
      <4>2. CASE j # r.job
        BY <2>1, <2>4, <3>5, <3>7, <4>2 DEF HeldInv
      <4> QED
        BY <4>1, <4>2
    <3> QED
      BY <2>1, <2>4, <3>6, <3>7 DEF HeldInv
  <2>5. CASE jobs' = jobs /\ fate' = [fate EXCEPT ![r.job] = "dropped"]
    <3>1. /\ Held(dying)' = Held(dying) \ {r}
          /\ \A v \in Workers \ {dying} : Held(v)' = Held(v)
      BY <2>1, <2>5 DEF Held
    <3>2. fate'[r.job] = "dropped" /\ \A j \in Jobs \ {r.job} : fate'[j] = fate[j]
      BY <2>2, <2>5 DEF TypeOK
    <3>3. \A v \in Workers : \A s \in Held(v)' : s \in Held(v) /\ s.job # r.job
      BY <2>1, <2>3, <3>1
    <3>4. \A v \in Workers : \A s \in Held(v) : s.job # r.job => s \in Held(v)'
      BY <2>1, <3>1
    <3>5. ASSUME NEW v \in Workers, NEW s \in Held(v)'
          PROVE  /\ fate'[s.job] = "accepted"
                 /\ calls'[s.job] = 0
                 /\ \A x \in Workers : \A y \in Held(x)' : y.job = s.job => x = v /\ y = s
      BY <1>0, <2>1, <3>2, <3>3 DEF HeldInv
    <3>6. ASSUME NEW j \in Jobs
          PROVE  /\ calls'[j] \in {0, 1}
                 /\ fate'[j] # "accepted" => calls'[j] = 0
                 /\ fate'[j] = "accepted" /\ calls'[j] = 0 =>
                      \E v \in Workers : \E s \in Held(v)' : s.job = j
      BY <2>1, <2>3, <3>2, <3>4 DEF HeldInv
    <3> QED
      BY <3>5, <3>6 DEF HeldInv
  <2> QED
    BY <1>3, <2>4, <2>5 DEF ReassignJob
<1>4. ASSUME wproc_destroy PROVE HeldInv'
  <2>1. \A v \in Workers : Held(v)' = Held(v)
    BY <1>4 DEF wproc_destroy, Held, TypeOK
  <2> QED
    BY <1>4, <2>1, HeldSame DEF wproc_destroy
<1>5. ASSUME NEW j \in Jobs, wproc_run_callback(j) PROVE HeldInv'
  <2>1. dying = NoWorker /\ dying' = NoWorker /\ calls' = calls /\ fate[j] = "new"
    BY <1>5 DEF wproc_run_callback, loopVars
  <2>2. /\ \A v \in Workers : Held(v) = jobs[v] /\ Held(v)' = jobs'[v]
        /\ \A v \in Workers : \A s \in Held(v) : s.job # j
        /\ calls[j] = 0
    BY <2>1 DEF Held, HeldInv
  <2>3. CASE create_job(j) /\ fate' = [fate EXCEPT ![j] = "accepted"]
    <3>1. PICK w \in Workers : JobGoesTo(j, w)
      BY <2>3, JobGoesToListed
    <3> DEFINE n == [id |-> job_index[w], job |-> j]
    <3>2. jobs' = [jobs EXCEPT ![w] = jobs[w] \cup {n}] /\ n.job = j
      BY <3>1 DEF JobGoesTo
    <3> HIDE DEF n
    <3>3. Held(w)' = Held(w) \cup {n} /\ \A v \in Workers \ {w} : Held(v)' = Held(v)
      BY <2>2, <3>2 DEF TypeOK
    <3>4. fate'[j] = "accepted" /\ \A i \in Jobs \ {j} : fate'[i] = fate[i]
      BY <2>3 DEF TypeOK
    <3>5. ASSUME NEW v \in Workers, NEW s \in Held(v)'
          PROVE  /\ fate'[s.job] = "accepted"
                 /\ calls'[s.job] = 0
                 /\ \A x \in Workers : \A y \in Held(x)' : y.job = s.job => x = v /\ y = s
      BY <1>0, <2>1, <2>2, <3>2, <3>3, <3>4 DEF HeldInv
    <3>6. ASSUME NEW i \in Jobs
          PROVE  /\ calls'[i] \in {0, 1}
                 /\ fate'[i] # "accepted" => calls'[i] = 0
                 /\ fate'[i] = "accepted" /\ calls'[i] = 0 =>
                      \E v \in Workers : \E s \in Held(v)' : s.job = i
      BY <2>1, <2>2, <3>2, <3>3, <3>4 DEF HeldInv
    <3> QED
      BY <3>5, <3>6 DEF HeldInv
  <2>4. CASE jobs' = jobs /\ fate' = [fate EXCEPT ![j] = "refused"]
    <3>1. fate'[j] = "refused" /\ \A i \in Jobs \ {j} : fate'[i] = fate[i]
      BY <2>4 DEF TypeOK
    <3> QED
      BY <1>0, <2>1, <2>2, <2>4, <3>1 DEF HeldInv
  <2> QED
    BY <1>5, <2>3, <2>4 DEF wproc_run_callback
<1>6. ASSUME NEW w \in Workers, NEW args \in PluginArgs, register_worker(w, args)
      PROVE  HeldInv'
  BY <1>6, HeldSame DEF register_worker, jobVars, loopVars, Held
<1>7. ASSUME NEW w \in Workers, NEW r \in sent[w], Answer(w, r) \/ AnswerAndKeep(w, r)
      PROVE  HeldInv'
  BY <1>7, HeldSame DEF Answer, AnswerAndKeep, loopVars, Held
<1>8. ASSUME NEW w \in Workers, Die(w) PROVE HeldInv'
  BY <1>8, HeldSame DEF Die, loopVars, Held
<1>9. ASSUME DieBeforeRegistering PROVE HeldInv'
  BY <1>9, HeldSame DEF DieBeforeRegistering, jobVars, loopVars, Held
<1>10. ASSUME UNCHANGED vars PROVE HeldInv'
  BY <1>10, HeldSame DEF vars, jobVars, loopVars, Held
<1> QED
  BY <1>1, <1>2, <1>3, <1>4, <1>5, <1>6, <1>7, <1>8, <1>9, <1>10 DEF Next, MasterStep

-----------------------------------------------------------------------------
(* Capacity.  A worker's table is finite and within its limit.              *)
RoomInv == \A w \in Workers : IsFiniteSet(jobs[w]) /\ Cardinality(jobs[w]) <= MaxJobs

(* A step that adds no job to any table keeps the limit.                    *)
LEMMA RoomShrink ==
    ASSUME RoomInv, \A w \in Workers : jobs'[w] \subseteq jobs[w]
    PROVE  RoomInv'
<1> SUFFICES ASSUME NEW w \in Workers
             PROVE  IsFiniteSet(jobs'[w]) /\ Cardinality(jobs'[w]) <= MaxJobs
  BY DEF RoomInv
<1>1. /\ IsFiniteSet(jobs[w]) /\ Cardinality(jobs[w]) <= MaxJobs
      /\ jobs'[w] \in SUBSET jobs[w]
  BY DEF RoomInv
<1>2. IsFiniteSet(jobs'[w]) /\ Cardinality(jobs'[w]) <= Cardinality(jobs[w])
  BY <1>1, FS_Subset
<1>3. Cardinality(jobs'[w]) \in Nat /\ Cardinality(jobs[w]) \in Nat
  BY <1>1, <1>2, FS_CardinalityType
<1> QED
  BY <1>1, <1>2, <1>3, WorkerPoolAssumption

(* get_worker gives a job only to a worker that has room for it.            *)
LEMMA RoomCreate ==
    ASSUME TypeOK, RoomInv, NEW j \in Jobs, create_job(j)
    PROVE  RoomInv'
<1>1. PICK w \in Workers : JobGoesTo(j, w)
  BY CreateJobEffect
<1> DEFINE r == [id |-> job_index[w], job |-> j]
<1>2. jobs' = [jobs EXCEPT ![w] = jobs[w] \cup {r}] /\ Cardinality(jobs[w]) < MaxJobs
  BY <1>1 DEF JobGoesTo, HasRoom
<1> HIDE DEF r
<1>3. IsFiniteSet(jobs[w])
  BY DEF RoomInv
<1>4. /\ IsFiniteSet(jobs[w] \cup {r})
      /\ Cardinality(jobs[w] \cup {r}) =
           IF r \in jobs[w] THEN Cardinality(jobs[w]) ELSE Cardinality(jobs[w]) + 1
  BY <1>3, FS_AddElement
<1>5. Cardinality(jobs[w]) \in Nat
  BY <1>3, FS_CardinalityType
<1>6. Cardinality(jobs[w] \cup {r}) <= MaxJobs
  BY <1>2, <1>4, <1>5, WorkerPoolAssumption
<1>7. jobs'[w] = jobs[w] \cup {r} /\ \A v \in Workers \ {w} : jobs'[v] = jobs[v]
  BY <1>2 DEF TypeOK
<1> QED
  BY <1>4, <1>6, <1>7 DEF RoomInv

LEMMA RoomStep == ASSUME TypeOK, RoomInv, [Next]_vars PROVE RoomInv'
<1>1. ASSUME NEW w \in Workers, NEW r \in results[w], handle_worker_result(w, r)
      PROVE  RoomInv'
  <2>1. \A v \in Workers : jobs'[v] \subseteq jobs[v]
    BY <1>1 DEF handle_worker_result, TypeOK
  <2> QED
    BY <2>1, RoomShrink
<1>2. ASSUME NEW r \in todo, ReassignJob(r) PROVE RoomInv'
  <2>1. r.job \in Jobs
    BY DEF TypeOK, Entries
  <2>2. CASE create_job(r.job)
    BY <2>1, <2>2, RoomCreate
  <2>3. CASE jobs' = jobs
    BY <2>3, RoomShrink
  <2> QED
    BY <1>2, <2>2, <2>3 DEF ReassignJob
<1>3. ASSUME wproc_destroy PROVE RoomInv'
  <2>1. \A v \in Workers : jobs'[v] \subseteq jobs[v]
    BY <1>3 DEF wproc_destroy, TypeOK
  <2> QED
    BY <2>1, RoomShrink
<1>4. ASSUME NEW j \in Jobs, wproc_run_callback(j) PROVE RoomInv'
  <2>1. CASE create_job(j)
    BY <2>1, RoomCreate
  <2>2. CASE jobs' = jobs
    BY <2>2, RoomShrink
  <2> QED
    BY <1>4, <2>1, <2>2 DEF wproc_run_callback
<1>5. CASE jobs' = jobs
  BY <1>5, RoomShrink
<1> QED
  BY <1>1, <1>2, <1>3, <1>4, <1>5
     DEF Next, MasterStep, WorkerGone, register_worker, Answer, AnswerAndKeep, Die,
         DieBeforeRegistering, jobVars, vars

-----------------------------------------------------------------------------
(* The workers the master has a live connection to, and the count of them.  *)
Connected == {w \in Workers : status[w] \in {"up", "broken"} /\ w # dying}

(* Each of them is in the list its wp_list names, and they are counted.     *)
OnlineInv ==
    /\ \A w \in Connected : \E i \in 1..Len(wps[wp_list[w]]) : wps[wp_list[w]][i] = w
    /\ online = Cardinality(Connected)

(* A worker that another leaves the list of stays in it.                    *)
LEMMA WithoutKeeps ==
    ASSUME NEW s \in Seq(Workers), NEW w \in Workers,
           NEW m \in 1..Len(s), s[m] # w
    PROVE  \E i \in 1..Len(Without(s, w)) : Without(s, w)[i] = s[m]
<1> DEFINE k == CHOOSE k \in 1..Len(s) : s[k] = w
           t == [i \in 1..Len(s) - 1 |-> IF i < k THEN s[i] ELSE s[i + 1]]
<1>1. CASE w \notin Range(s)
  BY <1>1 DEF Without
<1>2. CASE w \in Range(s)
  <2>1. Len(s) \in Nat /\ k \in 1..Len(s) /\ s[k] = w
    BY <1>2 DEF Range
  <2>2. m # k
    BY <2>1
  <2>3. Without(s, w) = t
    BY <1>2 DEF Without
  <2>4. t \in Seq(Workers) /\ Len(t) = Len(s) - 1
    BY <2>1
  <2> HIDE DEF k
  <2>5. CASE m < k
    <3>1. m \in 1..Len(s) - 1 /\ t[m] = s[m]
      BY <2>1, <2>5
    <3> QED
      BY <2>3, <2>4, <3>1
  <2>6. CASE m > k
    <3>1. m - 1 \in 1..Len(s) - 1 /\ t[m - 1] = s[m]
      BY <2>1, <2>6
    <3> QED
      BY <2>3, <2>4, <3>1
  <2> QED
    BY <2>1, <2>2, <2>5, <2>6
<1> QED
  BY <1>1, <1>2

(* A step that changes neither the connected workers nor their lists.       *)
LEMMA OnlineSame ==
    ASSUME OnlineInv, Connected' = Connected, UNCHANGED <<wps, wp_list, online>>
    PROVE  OnlineInv'
  BY DEF OnlineInv

LEMMA OnlineStep ==
    ASSUME TypeOK, LoopInv, OnlineInv, [Next]_vars
    PROVE  OnlineInv'
<1> USE WorkerPoolAssumption
<1>0. IsFiniteSet(Connected)
  BY FS_Subset DEF Connected
<1>1. ASSUME NEW w \in Workers, WorkerGone(w) PROVE OnlineInv'
  <2> DEFINE l == wp_list[w]
             rest == Without(wps[l], w)
  <2>1. l \in Lists /\ wps[l] \in Seq(Workers)
    BY DEF TypeOK
  <2>2. /\ wps' = [wps EXCEPT ![l] = rest]
        /\ dying = NoWorker /\ dying' = w /\ status[w] = "broken"
        /\ status' = status /\ wp_list' = wp_list /\ online' = online - 1
    BY <1>1 DEF WorkerGone, remove_worker
  <2>3. w \in Connected /\ Connected' = Connected \ {w}
    BY <2>2 DEF Connected
  <2>4. online' = Cardinality(Connected')
    BY <1>0, <2>2, <2>3, FS_RemoveElement DEF OnlineInv
  <2>5. \A m \in 1..Len(wps[l]) :
          wps[l][m] # w => \E i \in 1..Len(rest) : rest[i] = wps[l][m]
    BY <2>1, WithoutKeeps
  <2> HIDE DEF l, rest
  <2>6. wps'[l] = rest /\ \A k \in Lists \ {l} : wps'[k] = wps[k]
    BY <2>1, <2>2 DEF TypeOK
  <2>7. ASSUME NEW v \in Connected'
        PROVE  \E i \in 1..Len(wps'[wp_list'[v]]) : wps'[wp_list'[v]][i] = v
    <3>1. v \in Connected /\ v # w /\ wp_list[v] \in Lists
      BY <2>3 DEF Connected, TypeOK
    <3>2. PICK m \in 1..Len(wps[wp_list[v]]) : wps[wp_list[v]][m] = v
      BY <3>1 DEF OnlineInv
    <3>3. CASE wp_list[v] = l
      BY <2>2, <2>5, <2>6, <3>1, <3>2, <3>3
    <3>4. CASE wp_list[v] # l
      BY <2>2, <2>6, <3>1, <3>2, <3>4
    <3> QED
      BY <3>3, <3>4
  <2> QED
    BY <2>4, <2>7 DEF OnlineInv
<1>2. ASSUME wproc_destroy PROVE OnlineInv'
  <2>1. dying \in Workers /\ status' = [status EXCEPT ![dying] = "freed"] /\ dying' = NoWorker
    BY <1>2 DEF wproc_destroy, TypeOK
  <2>2. Connected' = Connected
    BY <2>1 DEF Connected, TypeOK
  <2> QED
    BY <1>2, <2>2, OnlineSame DEF wproc_destroy, listVars, countVars
<1>3. ASSUME NEW w \in Workers, NEW args \in PluginArgs, register_worker(w, args)
      PROVE  OnlineInv'
  <2> DEFINE m == IF args = << >> THEN Core ELSE args[Len(args)]
             joined == IF args = << >> THEN {Core} ELSE Range(args)
  <2>1. args \in Seq(Plugins)
    OBVIOUS
  <2>2. m \in Lists /\ m \in joined
    <3>1. CASE args = << >>
      BY <3>1 DEF Lists
    <3>2. CASE args # << >>
      <4>1. Len(args) \in 1..Len(args) /\ args[Len(args)] \in Plugins
        BY <2>1, <3>2
      <4> QED
        BY <2>1, <3>2, <4>1 DEF Lists, Range
    <3> QED
      BY <3>1, <3>2
  <2>3. /\ wps' = [l \in Lists |-> IF l \in joined THEN Append(wps[l], w) ELSE wps[l]]
        /\ wp_list' = [wp_list EXCEPT ![w] = m]
        /\ status[w] = "new" /\ status' = [status EXCEPT ![w] = "up"]
        /\ dying = NoWorker /\ dying' = NoWorker /\ online' = online + 1
    BY <1>3 DEF register_worker, loopVars
  <2> HIDE DEF m, joined
  <2>4. w \notin Connected /\ Connected' = Connected \cup {w}
    BY <2>3 DEF Connected, TypeOK
  <2>5. online' = Cardinality(Connected')
    BY <1>0, <2>3, <2>4, FS_AddElement DEF OnlineInv
  <2>6. \A l \in Lists : /\ wps[l] \in Seq(Workers)
                        /\ Len(wps[l]) \in Nat
                        /\ Len(wps'[l]) \in {Len(wps[l]), Len(wps[l]) + 1}
                        /\ \A i \in 1..Len(wps[l]) : wps'[l][i] = wps[l][i]
    BY <2>3 DEF TypeOK
  <2>7. Len(wps'[m]) = Len(wps[m]) + 1 /\ wps'[m][Len(wps[m]) + 1] = w
    BY <2>2, <2>3, <2>6
  <2>8. ASSUME NEW v \in Connected'
        PROVE  \E i \in 1..Len(wps'[wp_list'[v]]) : wps'[wp_list'[v]][i] = v
    <3>1. CASE v = w
      <4>1. wp_list'[v] = m /\ Len(wps[m]) + 1 \in 1..Len(wps'[m])
        BY <2>2, <2>3, <2>6, <2>7, <3>1 DEF TypeOK
      <4> QED
        BY <2>7, <3>1, <4>1
    <3>2. CASE v # w
      <4>1. v \in Connected /\ wp_list'[v] = wp_list[v] /\ wp_list[v] \in Lists
        BY <2>3, <2>4, <3>2 DEF Connected, TypeOK
      <4>2. PICK i \in 1..Len(wps[wp_list[v]]) : wps[wp_list[v]][i] = v
        BY <4>1 DEF OnlineInv
      <4>3. i \in 1..Len(wps'[wp_list[v]])
        BY <2>6, <4>1
      <4> QED
        BY <2>6, <4>1, <4>2, <4>3
    <3> QED
      BY <3>1, <3>2
  <2> QED
    BY <2>5, <2>8 DEF OnlineInv
<1>4. ASSUME NEW w \in Workers, Die(w) PROVE OnlineInv'
  <2>1. Connected' = Connected
    BY <1>4 DEF Die, loopVars, Connected, TypeOK
  <2> QED
    BY <1>4, <2>1, OnlineSame DEF Die, listVars, countVars
<1>5. CASE UNCHANGED <<status, dying, wps, wp_list, online>>
  BY <1>5, OnlineSame DEF Connected
<1> QED
  BY <1>1, <1>2, <1>3, <1>4, <1>5
     DEF Next, MasterStep, handle_worker_result, ReassignJob, wproc_run_callback, Answer,
         AnswerAndKeep, DieBeforeRegistering, listVars, loopVars, countVars, vars
-----------------------------------------------------------------------------
LEMMA InitInv == ASSUME Init PROVE IndInv
<1>1. TypeOK
  <2>1. Desired \in Nat
    BY WorkerPoolAssumption DEF Desired, get_desired_workers
  <2> QED
    BY <2>1, WorkerPoolAssumption DEF Init, TypeOK, Lists
<1>2. IdsInv
  BY DEF Init, IdsInv, Known
<1>3. LoopInv
  BY DEF Init, LoopInv
<1>4. ListInv
  BY DEF Init, ListInv
<1>5. HeldInv
  BY DEF Init, HeldInv, Held
<1> QED
  BY <1>1, <1>2, <1>3, <1>4, <1>5 DEF IndInv

LEMMA NextInv ==
    ASSUME AtMostOnePlugin, IndInv, [Next]_vars PROVE IndInv'
  BY TypeStep, IdsStep, LoopStep, ListStep, HeldStep DEF IndInv

(* The variables keep their types, whatever plugins workers register for.   *)
THEOREM TypeCorrect == Spec => []TypeOK
<1>1. Init => TypeOK
  BY InitInv DEF IndInv
<1>2. TypeOK /\ [Next]_vars => TypeOK'
  BY TypeStep
<1> QED
  BY <1>1, <1>2, PTL DEF Spec

(* No callback is given the result of another job, whatever plugins workers *)
(* register for.                                                            *)
THEOREM ResultsBelongToTheirJobs == Spec => []ResultsBelong
<1>1. Init => TypeOK /\ IdsInv
  BY InitInv DEF IndInv
<1>2. TypeOK /\ IdsInv /\ [Next]_vars => (TypeOK /\ IdsInv)'
  BY TypeStep, IdsStep
<1>3. IdsInv => ResultsBelong
  BY DEF IdsInv, ResultsBelong, Known
<1> QED
  BY <1>1, <1>2, <1>3, PTL DEF Spec

(* A set with exactly one element has cardinality 1.                        *)
LEMMA OneHolder ==
    ASSUME NEW j \in Jobs, NEW w \in Workers, NEW r \in Held(w), r.job = j,
           \A v \in Workers : \A s \in Held(v) : s.job = j => v = w /\ s = r
    PROVE  Cardinality(Holders(j)) = 1
<1>1. Holders(j) = {<<w, r>>}
  BY DEF Holders
<1> QED
  BY <1>1, FS_Singleton

LEMMA HeldAccounted == ASSUME IndInv PROVE JobsAccounted
<1> SUFFICES ASSUME NEW j \in Jobs
             PROVE  /\ fate[j] = "accepted" => IF calls[j] = 0 THEN Cardinality(Holders(j)) = 1
                                                ELSE calls[j] = 1 /\ Holders(j) = {}
                    /\ fate[j] # "accepted" => calls[j] = 0 /\ Holders(j) = {}
  BY DEF JobsAccounted
<1>1. fate[j] # "accepted" \/ calls[j] # 0 => Holders(j) = {}
  BY DEF IndInv, HeldInv, Holders
<1>2. fate[j] = "accepted" /\ calls[j] = 0 => Cardinality(Holders(j)) = 1
  <2> SUFFICES ASSUME fate[j] = "accepted" /\ calls[j] = 0
               PROVE  Cardinality(Holders(j)) = 1
    OBVIOUS
  <2>1. PICK w \in Workers : \E r \in Held(w) : r.job = j
    BY DEF IndInv, HeldInv
  <2>2. PICK r \in Held(w) : r.job = j
    BY <2>1
  <2>3. \A v \in Workers : \A s \in Held(v) : s.job = j => v = w /\ s = r
    BY <2>2 DEF IndInv, HeldInv
  <2> QED
    BY <2>2, <2>3, OneHolder
<1>3. calls[j] \in {0, 1} /\ (fate[j] # "accepted" => calls[j] = 0)
  BY DEF IndInv, HeldInv
<1> QED
  BY <1>1, <1>2, <1>3

(* If no worker registers for more than one plugin, no accepted job is      *)
(* forgotten and no callback is called twice, for any number of workers     *)
(* that die at any time.                                                    *)
THEOREM JobsAreAccountedFor == AtMostOnePlugin => (Spec => []JobsAccounted)
<1>1. Init => IndInv
  BY InitInv
<1>2. AtMostOnePlugin /\ IndInv /\ [Next]_vars => IndInv'
  BY NextInv
<1>3. IndInv => JobsAccounted
  BY HeldAccounted
<1> SUFFICES ASSUME AtMostOnePlugin PROVE Spec => []JobsAccounted
  OBVIOUS
<1>4. IndInv /\ [Next]_vars => IndInv'
  BY <1>2
<1> QED
  BY <1>1, <1>3, <1>4, PTL DEF Spec
(* No worker is given more than max_jobs jobs, not even while the jobs of a *)
(* dead one are moved to it, whatever plugins workers register for.         *)
THEOREM CapacityIsKept == Spec => []WithinCapacity
<1>1. Init => TypeOK /\ RoomInv
  <2>1. Init => RoomInv
    BY FS_EmptySet, WorkerPoolAssumption DEF Init, RoomInv
  <2> QED
    BY <2>1, InitInv DEF IndInv
<1>2. TypeOK /\ RoomInv /\ [Next]_vars => (TypeOK /\ RoomInv)'
  BY TypeStep, RoomStep
<1>3. RoomInv => WithinCapacity
  BY DEF RoomInv, WithinCapacity
<1> QED
  BY <1>1, <1>2, <1>3, PTL DEF Spec

(* The workers in the lists are the connected ones.                         *)
LEMMA ListedAreConnected ==
    ASSUME TypeOK, ListInv, OnlineInv
    PROVE  ListsLive
<1>1. \A l \in Lists : wps[l] \in Seq(Workers)
  BY DEF TypeOK
<1>2. \A l \in Lists : \A w \in Range(wps[l]) : w \in Connected
  <2> SUFFICES ASSUME NEW l \in Lists, NEW w \in Range(wps[l]) PROVE w \in Connected
    OBVIOUS
  <2>1. PICK i \in 1..Len(wps[l]) : wps[l][i] = w
    BY <1>1 DEF Range
  <2>2. w \in Workers
    BY <1>1, <2>1
  <2> QED
    BY <2>1, <2>2 DEF ListInv, Connected
<1>3. \A w \in Connected : wp_list[w] \in Lists /\ w \in Range(wps[wp_list[w]])
  <2> SUFFICES ASSUME NEW w \in Connected
               PROVE  wp_list[w] \in Lists /\ w \in Range(wps[wp_list[w]])
    OBVIOUS
  <2>1. wp_list[w] \in Lists /\ DOMAIN wps[wp_list[w]] = 1..Len(wps[wp_list[w]])
    BY <1>1 DEF Connected, TypeOK
  <2> QED
    BY <2>1 DEF OnlineInv, Range
<1>4. UNION {Range(wps[l]) : l \in Lists} = Connected
  BY <1>2, <1>3
<1> QED
  BY <1>2, <1>4 DEF ListsLive, OnlineInv, Connected

(* If no worker registers for more than one plugin, jobs are assigned only  *)
(* to workers that are connected and not being taken down, and the count of *)
(* workers online is exact.                                                 *)
THEOREM OnlyLiveWorkersAreListed == AtMostOnePlugin => (Spec => []ListsLive)
<1> DEFINE Inv == IndInv /\ OnlineInv
<1> SUFFICES ASSUME AtMostOnePlugin PROVE Spec => []ListsLive
  OBVIOUS
<1>1. Init => Inv
  <2>1. ASSUME Init PROVE OnlineInv
    <3>1. Connected = {}
      BY <2>1 DEF Init, Connected
    <3> QED
      BY <2>1, <3>1, FS_EmptySet DEF Init, OnlineInv
  <2> QED
    BY <2>1, InitInv
<1>2. Inv /\ [Next]_vars => Inv'
  BY NextInv, OnlineStep DEF IndInv
<1>3. Inv => ListsLive
  BY ListedAreConnected DEF IndInv
<1> HIDE DEF Inv
<1> QED
  BY <1>1, <1>2, <1>3, PTL DEF Spec
=============================================================================
