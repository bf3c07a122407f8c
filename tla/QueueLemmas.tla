---------------------------- MODULE QueueLemmas ----------------------------
(***************************************************************************)
(* What the functions of ActionQueue do to a well formed queue: the facts  *)
(* about jobs that the proofs of both runtimes rest on.                    *)
(***************************************************************************)
EXTENDS ActionQueue, FiniteSetTheorems, TLAPS

IsQueue(jobs) == IsTable(jobs, Targets, Job)

----------------------------------------------------------------------------
\* Sets and numbers.

\* There are finitely many targets.
LEMMA TargetsFinite == IsFiniteSet(Targets) /\ IsFiniteSet(Writes)
  BY QueueAssumption, FS_Union DEF Targets

\* A part of a finite set is finite and has no more elements.
LEMMA SmallerSet ==
  ASSUME NEW S, IsFiniteSet(S), NEW T, T \subseteq S
  PROVE  IsFiniteSet(T) /\ Cardinality(T) \in Nat /\ Cardinality(T) <= Cardinality(S)
         /\ Cardinality(S) \in Nat
  BY FS_Subset, FS_CardinalityType

LEMMA QueueLimits ==
  /\ MaxAttempts \in Nat /\ MaxAttempts > 0 /\ Lease \in Nat /\ Lease > 0
  /\ MaxJobs \in Nat /\ MaxJobs > 0 /\ Cooldown \in Nat /\ Overdue \in Nat
  /\ StartDelays \subseteq Int
  BY QueueAssumption

LEMMA KindType == \A t \in Targets : Kind(t) \in Kinds
  BY DEF Kind, Kinds

\* The jobs of a queue can be counted.
LEMMA QueueFinite ==
  ASSUME NEW jobs, IsQueue(jobs)
  PROVE  IsFiniteSet(DOMAIN jobs) /\ Cardinality(DOMAIN jobs) \in Nat
  BY TargetsFinite, SmallerSet DEF IsQueue, IsTable

----------------------------------------------------------------------------
\* Jobs.

\* Setting fields of a job to values of their types.
LEMMA JobFields ==
  ASSUME NEW j \in Job, NEW st \in JobStatus, NEW w \in Int, NEW a \in 0..Lease,
         NEW n \in 0..MaxAttempts
  PROVE  /\ [j EXCEPT !.status = st, !.age = a] \in Job
         /\ [j EXCEPT !.status = st, !.wait = w, !.age = a] \in Job
         /\ [j EXCEPT !.status = st, !.age = a, !.wait = w] \in Job
         /\ [j EXCEPT !.status = st, !.age = a, !.attempts = n] \in Job
         /\ [j EXCEPT !.wait = w, !.age = a] \in Job
<1>1. [j EXCEPT !.status = st, !.age = a] \in Job
  BY Zenon DEF Job
<1>2. [j EXCEPT !.status = st, !.wait = w, !.age = a] \in Job
  BY Zenon DEF Job
<1>3. [j EXCEPT !.status = st, !.age = a, !.wait = w] \in Job
  BY Zenon DEF Job
<1>4. [j EXCEPT !.status = st, !.age = a, !.attempts = n] \in Job
  BY Zenon DEF Job
<1>5. [j EXCEPT !.wait = w, !.age = a] \in Job
  BY Zenon DEF Job
<1> QED BY <1>1, <1>2, <1>3, <1>4, <1>5

\* The values that the helpers set.
LEMMA FieldValues ==
  /\ {"queued", "running", "failed"} = JobStatus /\ 0 \in Int /\ 0 \in 0..Lease
  /\ \A j \in Job : /\ Smaller(j.attempts + 1, MaxAttempts) \in 0..MaxAttempts
                     /\ Larger(j.wait - 1, -Overdue) \in Int
                     /\ Smaller(j.age + 1, Lease) \in 0..Lease
                     /\ Smaller(j.age + 1, Lease) <= j.age + 1 /\ 0 <= j.age + 1
                     /\ j.status \in JobStatus
  BY QueueLimits DEF Job, JobStatus, Smaller, Larger

\* A failed attempt leaves a job that waits or has failed for good.
LEMMA RequeuedOK ==
  ASSUME NEW j \in Job, NEW b \in BOOLEAN, NEW k \in Requeued(j, b)
  PROVE  k \in Job /\ k.status \in {"queued", "failed"}
<1>1. CASE ~b \/ j.attempts >= MaxAttempts
  <2>1. k = [j EXCEPT !.status = "failed", !.age = 0]
    BY <1>1 DEF Requeued
  <2>2. k \in Job
    BY <2>1, JobFields, FieldValues
  <2>3. k.status = "failed"
    BY <2>1 DEF Job
  <2> QED BY <2>2, <2>3
<1>2. CASE ~ (~b \/ j.attempts >= MaxAttempts)
  <2>1. PICK w \in RetryDelay(j.attempts) .. 2 * RetryDelay(j.attempts) :
          k = [j EXCEPT !.status = "queued", !.age = 0, !.wait = w]
    BY <1>2 DEF Requeued
  <2>2. w \in Int
    BY <2>1
  <2>3. k \in Job
    BY <2>1, <2>2, JobFields, FieldValues
  <2>4. k.status = "queued"
    BY <2>1 DEF Job
  <2> QED BY <2>3, <2>4
<1> QED BY <1>1, <1>2

----------------------------------------------------------------------------
\* Queues: what each function keeps of them.

\* A part of the queue is a queue.
LEMMA FewerJobsOK ==
  ASSUME NEW jobs, IsQueue(jobs), NEW D, D \subseteq DOMAIN jobs
  PROVE  IsQueue(Restrict(jobs, D)) /\ DOMAIN Restrict(jobs, D) = D
         /\ \A t \in D : Restrict(jobs, D)[t] = jobs[t]
<1>1. DOMAIN Restrict(jobs, D) = D /\ \A t \in D : Restrict(jobs, D)[t] = jobs[t]
  BY DEF Restrict
<1> QED BY <1>1 DEF IsTable, Restrict, IsQueue

LEMMA RecoverStaleQueue ==
  ASSUME NEW jobs, IsQueue(jobs)
  PROVE  /\ IsQueue(RecoverStale(jobs)) /\ DOMAIN RecoverStale(jobs) = DOMAIN jobs
         /\ \A t \in DOMAIN jobs :
              RecoverStale(jobs)[t] = IF IsStale(jobs[t])
                THEN [jobs[t] EXCEPT !.status = "queued", !.wait = 0, !.age = 0]
                ELSE jobs[t]
<1>1. DOMAIN RecoverStale(jobs) = DOMAIN jobs
  BY DEF RecoverStale
<1>2. \A t \in DOMAIN jobs : jobs[t] \in Job
  BY DEF IsQueue, IsTable
<1>3. \A j \in Job : [j EXCEPT !.status = "queued", !.wait = 0, !.age = 0] \in Job
  BY JobFields, FieldValues
<1>4. RecoverStale(jobs) \in [DOMAIN jobs -> Job]
  BY <1>2, <1>3 DEF RecoverStale
<1> QED BY <1>1, <1>4 DEF RecoverStale, IsQueue, IsTable

LEMMA PostponeQueue ==
  ASSUME NEW jobs, IsQueue(jobs), NEW S, NEW rest \in [Kinds -> Int]
  PROVE  /\ IsQueue(Postpone(jobs, S, rest))
         /\ DOMAIN Postpone(jobs, S, rest) = DOMAIN jobs
         /\ \A t \in DOMAIN jobs :
              /\ Postpone(jobs, S, rest)[t].status = jobs[t].status
              /\ Postpone(jobs, S, rest)[t].age = jobs[t].age
<1>1. DOMAIN Postpone(jobs, S, rest) = DOMAIN jobs
  BY DEF Postpone
<1>2. \A t \in DOMAIN jobs : jobs[t] \in Job /\ rest[Kind(t)] \in Int
  BY KindType DEF IsQueue, IsTable
<1>3. \A j \in Job, r \in Int :
        LET k == [j EXCEPT !.wait = Larger(@, r)]
        IN k \in Job /\ k.status = j.status /\ k.age = j.age
  BY DEF Job, Larger
<1>4. \A t \in DOMAIN jobs :
        /\ Postpone(jobs, S, rest)[t] \in Job
        /\ Postpone(jobs, S, rest)[t].status = jobs[t].status
        /\ Postpone(jobs, S, rest)[t].age = jobs[t].age
  BY <1>2, <1>3 DEF Postpone
<1>5. Postpone(jobs, S, rest) \in [DOMAIN jobs -> Job]
  BY <1>1, <1>4 DEF Postpone
<1> QED BY <1>1, <1>4, <1>5 DEF IsQueue, IsTable

LEMMA SelectQueue ==
  ASSUME NEW jobs, IsQueue(jobs), NEW t \in DOMAIN jobs
  PROVE  /\ IsQueue(Select(jobs, t)) /\ DOMAIN Select(jobs, t) = DOMAIN jobs
         /\ \A u \in DOMAIN jobs : u # t => Select(jobs, t)[u] = jobs[u]
         /\ Select(jobs, t)[t].status = "running" /\ Select(jobs, t)[t].age = 0
<1> DEFINE j == jobs[t]
           picked == [j EXCEPT !.status = "running", !.age = 0,
                            !.attempts = Smaller(@ + 1, MaxAttempts)]
<1>1. jobs \in [DOMAIN jobs -> Job] /\ j \in Job /\ DOMAIN jobs \subseteq Targets
  BY DEF IsQueue, IsTable
<1>2. picked \in Job
  BY <1>1, JobFields, FieldValues
<1>3. picked.status = "running" /\ picked.age = 0
  BY <1>1 DEF Job
<1>4. Select(jobs, t) = [jobs EXCEPT ![t] = picked]
  BY <1>1 DEF Select
<1> HIDE DEF picked
<1>5. Select(jobs, t) \in [DOMAIN jobs -> Job] /\ DOMAIN Select(jobs, t) = DOMAIN jobs
  BY <1>1, <1>2, <1>4
<1> QED BY <1>1, <1>3, <1>4, <1>5 DEF IsQueue, IsTable

\* One job is replaced.
LEMMA ReplaceQueue ==
  ASSUME NEW jobs, IsQueue(jobs), NEW t, NEW j \in Job
  PROVE  /\ IsQueue([jobs EXCEPT ![t] = j]) /\ DOMAIN [jobs EXCEPT ![t] = j] = DOMAIN jobs
         /\ \A u \in DOMAIN jobs : [jobs EXCEPT ![t] = j][u] = IF u = t THEN j ELSE jobs[u]
<1>1. jobs \in [DOMAIN jobs -> Job] /\ DOMAIN jobs \subseteq Targets
  BY DEF IsQueue, IsTable
<1>2. [jobs EXCEPT ![t] = j] \in [DOMAIN jobs -> Job]
  BY <1>1
<1> QED BY <1>1, <1>2 DEF IsQueue, IsTable

\* New jobs wait.
LEMMA NewJobOK ==
  ASSUME NEW delay \in StartDelays, NEW rest \in Int
  PROVE  NewJob(delay, rest) \in Job /\ NewJob(delay, rest).status = "queued"
<1>1. delay \in Int
  BY QueueLimits
<1>2. Larger(delay, rest) \in Int
  BY <1>1 DEF Larger
<1> QED BY <1>2, QueueLimits DEF NewJob, Job, JobStatus

\* Merging keeps old jobs or puts new ones in their place.
LEMMA MergeQueue ==
  ASSUME NEW old, IsQueue(old), NEW S, S \subseteq Targets, NEW new \in [S -> Job]
  PROVE  /\ IsQueue(Merge(old, new)) /\ DOMAIN Merge(old, new) = DOMAIN old \cup S
         /\ \A t \in DOMAIN Merge(old, new) :
              \/ t \in DOMAIN old /\ Merge(old, new)[t] = old[t]
              \/ t \in S /\ Merge(old, new)[t] = new[t]
<1> DEFINE all == Merge(old, new)
<1>1. old \in [DOMAIN old -> Job] /\ DOMAIN old \subseteq Targets
  BY DEF IsQueue, IsTable
<1>2. /\ DOMAIN all = DOMAIN old \cup S /\ all = [t \in DOMAIN all |-> all[t]]
      /\ \A t \in DOMAIN all : \/ t \in DOMAIN old /\ all[t] = old[t]
                               \/ t \in S /\ all[t] = new[t]
  BY <1>1 DEF Merge
<1>3. \A t \in DOMAIN all : all[t] \in Job
  BY <1>1, <1>2
<1> HIDE DEF all
<1>4. all \in [DOMAIN all -> Job]
  BY <1>2, <1>3
<1> QED BY <1>1, <1>2, <1>4 DEF IsQueue, IsTable, all

\* What is cut is a part of the queue, and not more than its limit.
LEMMA CutQueue ==
  ASSUME NEW all, IsQueue(all), NEW jobs \in Cuts(all)
  PROVE  /\ IsQueue(jobs) /\ DOMAIN jobs \subseteq DOMAIN all
         /\ \A t \in DOMAIN jobs : jobs[t] = all[t]
         /\ Cardinality(DOMAIN jobs) = Smaller(MaxJobs, Cardinality(DOMAIN all))
         /\ Cardinality(DOMAIN jobs) <= MaxJobs
<1>1. PICK K \in SUBSET DOMAIN all :
        /\ jobs = Restrict(all, K)
        /\ Cardinality(K) = Smaller(MaxJobs, Cardinality(DOMAIN all))
  BY DEF Cuts
<1>2. IsQueue(jobs) /\ DOMAIN jobs = K /\ \A t \in K : jobs[t] = all[t]
  BY <1>1, FewerJobsOK
<1>3. Cardinality(DOMAIN jobs) <= MaxJobs
  BY <1>1, <1>2, QueueFinite, QueueLimits DEF Smaller
<1> QED BY <1>1, <1>2, <1>3

LEMMA AgedQueue ==
  ASSUME NEW jobs, IsQueue(jobs)
  PROVE  /\ IsQueue(Aged(jobs)) /\ DOMAIN Aged(jobs) = DOMAIN jobs
         /\ \A t \in DOMAIN jobs :
              /\ Aged(jobs)[t].status = jobs[t].status
              /\ Aged(jobs)[t].age <= jobs[t].age + 1
<1> DEFINE age(j) == IF j.status = "running" THEN Smaller(j.age + 1, Lease) ELSE 0
           older(j) == [j EXCEPT !.wait = Larger(@ - 1, -Overdue), !.age = age(j)]
<1>1. \A j \in Job : age(j) \in 0..Lease /\ age(j) <= j.age + 1
  BY FieldValues
<1>2. (\A t \in DOMAIN jobs : jobs[t] \in Job) /\ DOMAIN jobs \subseteq Targets
  BY DEF IsQueue, IsTable
<1>3. Aged(jobs) = [t \in DOMAIN jobs |-> older(jobs[t])]
  BY Zenon DEF Aged
<1> HIDE DEF age
<1>4. \A j \in Job : older(j) \in Job
  BY <1>1, JobFields, FieldValues
<1>5. \A j \in Job : older(j).status = j.status /\ older(j).age = age(j)
  BY DEF Job
<1> HIDE DEF older
<1>6. Aged(jobs) \in [DOMAIN jobs -> Job]
  BY <1>2, <1>3, <1>4
<1> QED BY <1>1, <1>2, <1>3, <1>5, <1>6 DEF IsQueue, IsTable
=============================================================================
