---------------------------- MODULE ActionQueue ----------------------------
(***************************************************************************)
(* The queue of action jobs that the outreach agent persists, and the pure *)
(* functions of action-execution.ts, job-queue.ts and policy.ts on it.     *)
(*                                                                         *)
(* Compaction leaves one job for each dedupe key, so the queue is a        *)
(* function from targets (what is answered, upvoted or followed) to jobs.  *)
(* Times are relative: wait is the time until notBefore, age the time      *)
(* since runningAt, and the passage of time changes both.                  *)
(***************************************************************************)
EXTENDS Integers, FiniteSets, Functions

CONSTANTS
  Writes,      \* targets of authored writes: comments and replies
  Votes,       \* targets of upvotes and follows
  MaxAttempts, \* maxAttempts
  Lease,       \* runningLeaseTimeoutMs
  RetryBase,   \* retryBaseDelayMs
  RetryMax,    \* retryMaxDelayMs
  StartDelays, \* delays of a new job
  Cooldown,    \* minimum time between two actions of one kind
  MaxJobs,     \* MAX_QUEUED_ACTION_JOBS
  Overdue      \* bound of the model: how long a due job is seen to wait

Targets == Writes \cup Votes
Kinds == {"write", "vote"}
Kind(t) == IF t \in Writes THEN "write" ELSE "vote"

Larger(a, b) == IF a >= b THEN a ELSE b
Smaller(a, b) == IF a <= b THEN a ELSE b

ASSUME QueueAssumption ==
  /\ Writes \cap Votes = {}
  /\ IsFiniteSet(Writes) /\ IsFiniteSet(Votes)
  /\ {MaxAttempts, Lease, RetryBase, RetryMax, MaxJobs} \subseteq Nat \ {0}
  /\ StartDelays \subseteq Nat \ {0}
  /\ {Cooldown, Overdue} \subseteq Nat

JobStatus == {"queued", "running", "failed"}
Job == [status : JobStatus, wait : Int, attempts : 0..MaxAttempts, age : 0..Lease]

\* A table with an entry in T for some of the keys in S.
IsTable(f, S, T) == DOMAIN f \subseteq S /\ f \in [DOMAIN f -> T]

NoJobs == [t \in {} |-> {}]
InStatus(jobs, S) == {t \in DOMAIN jobs : jobs[t].status \in S}
Active(jobs) == InStatus(jobs, {"queued", "running"})

NewJob(delay, rest) ==
  [status |-> "queued", wait |-> Larger(delay, rest), attempts |-> 0, age |-> 0]

----------------------------------------------------------------------------
\* Compaction: of two jobs with one key the later one stays, and of all jobs
\* the MaxJobs latest ones.

Merge(jobs, new) ==
  [t \in DOMAIN jobs \cup DOMAIN new |->
     IF t \in DOMAIN new /\ (t \in DOMAIN jobs => new[t].wait >= jobs[t].wait)
     THEN new[t] ELSE jobs[t]]

Cuts_Unbounded(jobs) == {jobs}

\* The outcomes of the cut; jobs due at the same time may be cut in any order.
Cuts(jobs) ==
  {Restrict(jobs, K) : K \in
    {K \in SUBSET DOMAIN jobs :
       /\ Cardinality(K) = Smaller(MaxJobs, Cardinality(DOMAIN jobs))
       /\ \A k \in K, d \in DOMAIN jobs \ K : jobs[d].wait <= jobs[k].wait}}

RemoveJob(jobs, t) == Restrict(jobs, DOMAIN jobs \ {t})

----------------------------------------------------------------------------
\* Choosing the next job.

IsStale_Never(job) == FALSE

IsStale(job) == job.status = "running" /\ job.age >= Lease

RecoverStale(jobs) ==
  [t \in DOMAIN jobs |->
     IF IsStale(jobs[t])
     THEN [jobs[t] EXCEPT !.status = "queued", !.wait = 0, !.age = 0]
     ELSE jobs[t]]

Due(jobs) == {t \in InStatus(jobs, {"queued"}) : jobs[t].wait <= 0}

\* rest[k] is what is left of the cooldown of kind k.
Blocked(jobs, rest) == {t \in Due(jobs) : rest[Kind(t)] > 0}

Postpone(jobs, S, rest) ==
  [t \in DOMAIN jobs |->
     IF t \in S THEN [jobs[t] EXCEPT !.wait = Larger(@, rest[Kind(t)])] ELSE jobs[t]]

Select(jobs, t) ==
  [jobs EXCEPT ![t].status = "running", ![t].age = 0,
               ![t].attempts = Smaller(@ + 1, MaxAttempts)]

\* What pickNextExecutableJob can return: the jobs, and the selected one if
\* some due job is not in cooldown.  Only blocked jobs that come before the
\* selected one are postponed.
NothingToRun(jobs, rest) == Due(jobs) = Blocked(jobs, rest)

Picks(jobs, rest) ==
  {p \in (Due(jobs) \ Blocked(jobs, rest)) \X SUBSET Blocked(jobs, rest) :
     /\ \A u \in Due(jobs) \ Blocked(jobs, rest) : jobs[p[1]].wait <= jobs[u].wait
     /\ \A u \in Blocked(jobs, rest) :
          /\ jobs[u].wait < jobs[p[1]].wait => u \in p[2]
          /\ u \in p[2] => jobs[u].wait <= jobs[p[1]].wait}

----------------------------------------------------------------------------
\* A failed attempt: give up, or wait for one to two times the delay.

RetryDelay(attempts) == Smaller(RetryMax, RetryBase * 2^(attempts - 1))

Requeued(job, retryable) ==
  IF ~retryable \/ job.attempts >= MaxAttempts
  THEN {[job EXCEPT !.status = "failed", !.age = 0]}
  ELSE {[job EXCEPT !.status = "queued", !.age = 0, !.wait = w] :
          w \in RetryDelay(job.attempts) .. 2 * RetryDelay(job.attempts)}

----------------------------------------------------------------------------
\* Time passes: every wait gets shorter and every lease older.

Aged(jobs) ==
  [t \in DOMAIN jobs |->
     [jobs[t] EXCEPT !.wait = Larger(@ - 1, -Overdue),
                     !.age = IF jobs[t].status = "running" THEN Smaller(@ + 1, Lease) ELSE 0]]
============================================================================
