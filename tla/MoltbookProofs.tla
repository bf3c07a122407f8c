--------------------------- MODULE MoltbookProofs ---------------------------
(***************************************************************************)
(* Theorems about the Moltbook runtime, for all sets of targets and all    *)
(* limits.  With every fault: the type invariant, the pending record that  *)
(* precedes a request, and that records are true.  Without faults: that a  *)
(* write is published at most once and never forgotten, however often runs *)
(* are killed.  The lemmas at the start say what the helpers and the       *)
(* actions do to well formed states.  At the end the runtime together with *)
(* the budgets and the verification, as MCVenue puts them beside each      *)
(* other.                                                                  *)
(***************************************************************************)
EXTENDS MCVenue, BudgetProofs, QueueLemmas, NaturalsInduction

----------------------------------------------------------------------------
\* Sets and numbers.

\* A set of numbers up to c that is not empty has a largest element.
LEMMA Largest ==
  ASSUME NEW c \in Nat, NEW S, S \subseteq 0..c, S # {}
  PROVE  Max(S) \in S
<1> DEFINE D == {n \in Nat : c - n \in S}
<1>1. PICK s \in S : TRUE
  OBVIOUS
<1>2. c - s \in D
  BY <1>1
<1>3. PICK n \in D : \A m \in D : ~ (<<m, n>> \in OpToRel(<, Nat))
  <2>1. D \subseteq Nat /\ D # {}
    BY <1>2
  <2> HIDE DEF D
  <2> QED BY <2>1, WFMin, NatLessThanWellFounded
<1>4. \A m \in D : n <= m
  <2> SUFFICES ASSUME NEW m \in D, m < n PROVE FALSE
    BY DEF D
  <2>1. <<m, n>> \in OpToRel(<, Nat)
    BY Zenon DEF OpToRel, D
  <2> QED BY <2>1, <1>3
<1>5. \A x \in S : c - n >= x
  <2> SUFFICES ASSUME NEW x \in S PROVE c - n >= x
    OBVIOUS
  <2>1. x \in 0..c /\ c - x \in Nat /\ c - (c - x) = x
    OBVIOUS
  <2>2. c - x \in D
    BY <2>1
  <2>3. n <= c - x /\ n \in Nat
    BY <2>2, <1>4
  <2> QED BY <2>1, <2>3
<1>6. c - n \in S
  OBVIOUS
<1> QED BY <1>5, <1>6 DEF Max

----------------------------------------------------------------------------
\* Jobs: what each helper keeps of the type of a queue that has been cut.

LEMMA Limits ==
  /\ MaxAttempts \in Nat /\ MaxAttempts > 0 /\ Lease \in Nat /\ Lease > 0
  /\ MaxJobs \in Nat /\ MaxJobs > 0 /\ Cooldown \in Nat /\ Overdue \in Nat
  /\ MaxPending \in Nat /\ MaxPending > 0 /\ MaxMisses \in Nat /\ MaxMisses > 0
  /\ Slots \in Nat /\ MaxBoard \in Nat /\ MaxBoard > 0 /\ MaxCrashes \in Nat
  /\ Slots > 0 /\ StartDelays \subseteq Int
  BY QueueAssumption, RuntimeAssumption

\* A part of the queue is a queue.
LEMMA FewerJobs ==
  ASSUME NEW jobs, JobsOK(jobs), NEW D, D \subseteq DOMAIN jobs
  PROVE  JobsOK(Restrict(jobs, D)) /\ DOMAIN Restrict(jobs, D) = D
         /\ \A t \in D : Restrict(jobs, D)[t] = jobs[t]
<1>1. IsQueue(jobs) /\ Cardinality(DOMAIN jobs) <= MaxJobs
  BY DEF JobsOK, IsQueue
<1>2. IsQueue(Restrict(jobs, D)) /\ DOMAIN Restrict(jobs, D) = D
      /\ \A t \in D : Restrict(jobs, D)[t] = jobs[t]
  BY <1>1, FewerJobsOK
<1>3. Cardinality(D) <= Cardinality(DOMAIN jobs) /\ Cardinality(D) \in Nat
      /\ Cardinality(DOMAIN jobs) \in Nat
  BY <1>1, QueueFinite, SmallerSet
<1> QED BY <1>1, <1>2, <1>3, Limits DEF JobsOK, IsQueue

LEMMA RecoverStaleOK ==
  ASSUME NEW jobs, JobsOK(jobs)
  PROVE  /\ JobsOK(RecoverStale(jobs)) /\ DOMAIN RecoverStale(jobs) = DOMAIN jobs
         /\ \A t \in DOMAIN jobs :
              RecoverStale(jobs)[t] = IF IsStale(jobs[t])
                THEN [jobs[t] EXCEPT !.status = "queued", !.wait = 0, !.age = 0]
                ELSE jobs[t]
<1>1. IsQueue(jobs)
  BY DEF JobsOK, IsQueue
<1> QED BY <1>1, RecoverStaleQueue DEF JobsOK, IsQueue

LEMMA PostponeOK ==
  ASSUME NEW jobs, JobsOK(jobs), NEW S, NEW rest, rest \in [Kinds -> 0..Cooldown]
  PROVE  /\ JobsOK(Postpone(jobs, S, rest)) /\ DOMAIN Postpone(jobs, S, rest) = DOMAIN jobs
         /\ \A t \in DOMAIN jobs :
              /\ Postpone(jobs, S, rest)[t].status = jobs[t].status
              /\ Postpone(jobs, S, rest)[t].age = jobs[t].age
<1>1. IsQueue(jobs) /\ rest \in [Kinds -> Int]
  BY Limits DEF JobsOK, IsQueue
<1> QED BY <1>1, PostponeQueue DEF JobsOK, IsQueue

LEMMA SelectOK ==
  ASSUME NEW jobs, JobsOK(jobs), NEW t \in DOMAIN jobs
  PROVE  /\ JobsOK(Select(jobs, t)) /\ DOMAIN Select(jobs, t) = DOMAIN jobs
         /\ \A u \in DOMAIN jobs : u # t => Select(jobs, t)[u] = jobs[u]
         /\ Select(jobs, t)[t].status = "running" /\ Select(jobs, t)[t].age = 0
<1>1. IsQueue(jobs)
  BY DEF JobsOK, IsQueue
<1> QED BY <1>1, SelectQueue DEF JobsOK, IsQueue

\* One job is replaced.
LEMMA ReplacedJob ==
  ASSUME NEW jobs, JobsOK(jobs), NEW t, NEW j \in Job
  PROVE  /\ JobsOK([jobs EXCEPT ![t] = j]) /\ DOMAIN [jobs EXCEPT ![t] = j] = DOMAIN jobs
         /\ \A u \in DOMAIN jobs : [jobs EXCEPT ![t] = j][u] = IF u = t THEN j ELSE jobs[u]
<1>1. IsQueue(jobs)
  BY DEF JobsOK, IsQueue
<1> QED BY <1>1, ReplaceQueue DEF JobsOK, IsQueue

\* Merging and cutting keep old jobs or put new ones in their place.
LEMMA EnqueuedOK ==
  ASSUME NEW old, JobsOK(old), NEW S, S \subseteq Targets,
         NEW delay \in [S -> StartDelays],
         NEW rest, rest \in [Kinds -> 0..Cooldown],
         NEW jobs \in Cuts(Merge(old, [t \in S |-> NewJob(delay[t], rest[Kind(t)])]))
  PROVE  /\ JobsOK(jobs) /\ DOMAIN jobs \subseteq DOMAIN old \cup S
         /\ \A t \in DOMAIN jobs :
              \/ t \in DOMAIN old /\ jobs[t] = old[t]
              \/ t \in S /\ jobs[t].status = "queued"
<1> DEFINE new == [t \in S |-> NewJob(delay[t], rest[Kind(t)])]
           all == Merge(old, new)
<1>1. ASSUME NEW t \in S PROVE new[t] \in Job /\ new[t].status = "queued"
  <2>1. delay[t] \in StartDelays /\ rest[Kind(t)] \in Int
    BY KindType, Limits
  <2> QED BY <2>1, NewJobOK
<1>2. new \in [S -> Job]
  BY <1>1
<1>3. IsQueue(old)
  BY DEF JobsOK, IsQueue
<1> HIDE DEF new
<1>4. /\ IsQueue(all) /\ DOMAIN all = DOMAIN old \cup S
      /\ \A t \in DOMAIN all : \/ t \in DOMAIN old /\ all[t] = old[t]
                               \/ t \in S /\ all[t] = new[t]
  BY <1>2, <1>3, MergeQueue
<1>5. jobs \in Cuts(all)
  BY DEF new
<1> HIDE DEF all
<1>6. /\ IsQueue(jobs) /\ DOMAIN jobs \subseteq DOMAIN all
      /\ \A t \in DOMAIN jobs : jobs[t] = all[t]
      /\ Cardinality(DOMAIN jobs) <= MaxJobs
  BY <1>4, <1>5, CutQueue
<1> QED BY <1>1, <1>4, <1>6 DEF JobsOK, IsQueue

LEMMA AgedOK ==
  ASSUME NEW jobs, JobsOK(jobs)
  PROVE  /\ JobsOK(Aged(jobs)) /\ DOMAIN Aged(jobs) = DOMAIN jobs
         /\ \A t \in DOMAIN jobs :
              /\ Aged(jobs)[t].status = jobs[t].status
              /\ Aged(jobs)[t].age <= jobs[t].age + 1
<1>1. IsQueue(jobs)
  BY DEF JobsOK, IsQueue
<1> QED BY <1>1, AgedQueue DEF JobsOK, IsQueue

----------------------------------------------------------------------------
\* States: what each helper keeps of the type of a state.

\* The parts of a state.
LEMMA StateParts ==
  ASSUME NEW s, StateOK(s)
  PROVE  /\ s \in [jobs : {s.jobs}, pending : {s.pending}, done : SUBSET Targets,
                   rest : [Kinds -> 0..Cooldown]]
         /\ s.done \subseteq Targets /\ s.rest \in [Kinds -> 0..Cooldown]
         /\ JobsOK(s.jobs) /\ PendingOK(s.pending)
  BY DEF StateOK

\* A state with some of its fields replaced.
LEMMA WithJobs ==
  ASSUME NEW s, StateOK(s), NEW jobs, JobsOK(jobs), NEW r, r = [s EXCEPT !.jobs = jobs]
  PROVE  /\ StateOK(r) /\ r.jobs = jobs
         /\ r.pending = s.pending /\ r.done = s.done /\ r.rest = s.rest
  BY StateParts DEF StateOK

LEMMA WithPendings ==
  ASSUME NEW s, StateOK(s), NEW pending, PendingOK(pending),
         NEW r, r = [s EXCEPT !.pending = pending]
  PROVE  /\ StateOK(r) /\ r.pending = pending
         /\ r.jobs = s.jobs /\ r.done = s.done /\ r.rest = s.rest
  BY StateParts DEF StateOK

LEMMA WithDone ==
  ASSUME NEW s, StateOK(s), NEW done \in SUBSET Targets, NEW r, r = [s EXCEPT !.done = done]
  PROVE  /\ StateOK(r) /\ r.done = done
         /\ r.jobs = s.jobs /\ r.pending = s.pending /\ r.rest = s.rest
  BY StateParts DEF StateOK

LEMMA WithRest ==
  ASSUME NEW s, StateOK(s), NEW rest \in [Kinds -> 0..Cooldown],
         NEW r, r = [s EXCEPT !.rest = rest]
  PROVE  /\ StateOK(r) /\ r.rest = rest
         /\ r.jobs = s.jobs /\ r.pending = s.pending /\ r.done = s.done
  BY StateParts DEF StateOK

\* A part of the pending writes is a table of pending writes.
LEMMA FewerPending ==
  ASSUME NEW pending, PendingOK(pending), NEW D, D \subseteq DOMAIN pending,
         NEW new \in [D -> PendingWrite]
  PROVE  PendingOK(new) /\ DOMAIN new = D
<1>1. IsFiniteSet(DOMAIN pending)
  BY TargetsFinite, SmallerSet DEF PendingOK, IsTable
<1>2. Cardinality(D) <= Cardinality(DOMAIN pending) /\ Cardinality(D) \in Nat
      /\ Cardinality(DOMAIN pending) \in Nat
  BY <1>1, SmallerSet
<1> QED BY <1>2, Limits DEF PendingOK, IsTable

LEMMA RestrictPending ==
  ASSUME NEW pending, PendingOK(pending), NEW D, D \subseteq DOMAIN pending
  PROVE  PendingOK(Restrict(pending, D)) /\ DOMAIN Restrict(pending, D) = D
         /\ \A t \in D : Restrict(pending, D)[t] = pending[t]
<1>1. pending \in [DOMAIN pending -> PendingWrite]
  BY DEF PendingOK, IsTable
<1>2. Restrict(pending, D) \in [D -> PendingWrite]
  BY <1>1 DEF Restrict
<1> QED BY <1>2, FewerPending DEF Restrict

\* A write becomes pending; another one is evicted only when there is no room.
LEMMA AddPendingOK ==
  ASSUME NEW s, StateOK(s), NEW t \in Writes, NEW r \in AddPending(s, t)
  PROVE  /\ StateOK(r) /\ r.jobs = s.jobs /\ r.done = s.done /\ r.rest = s.rest
         /\ t \in DOMAIN r.pending /\ DOMAIN r.pending \subseteq DOMAIN s.pending \cup {t}
         /\ Cardinality(DOMAIN s.pending \ {t}) < MaxPending =>
              DOMAIN r.pending = DOMAIN s.pending \cup {t}
<1> DEFINE D == DOMAIN s.pending \ {t}
           others == Restrict(s.pending, D)
<1>1. PendingOK(s.pending)
  BY StateParts
<1>2. PendingOK(others) /\ DOMAIN others = D
  BY <1>1, RestrictPending
<1>3. IsFiniteSet(D) /\ Cardinality(D) \in Nat /\ Cardinality(D) <= MaxPending
  <2>1. IsFiniteSet(DOMAIN s.pending)
    BY <1>1, TargetsFinite, SmallerSet DEF PendingOK, IsTable
  <2>2. Cardinality(DOMAIN s.pending) <= MaxPending
    BY <1>1 DEF PendingOK
  <2> QED BY <2>1, <2>2, SmallerSet, Limits
<1> HIDE DEF others, D
<1>4. PICK E \in Evictions(others) :
        r = [s EXCEPT !.pending = [u \in (DOMAIN others \ E) \cup {t} |->
                                     IF u = t THEN NewPending ELSE others[u]]]
  BY DEF AddPending, D, others
<1> DEFINE new == [u \in (D \ E) \cup {t} |-> IF u = t THEN NewPending ELSE others[u]]
<1>5. IsFiniteSet(D \ E) /\ Cardinality(D \ E) \in Nat /\ Cardinality(D \ E) + 1 <= MaxPending
      /\ (Cardinality(D) < MaxPending => E = {})
  <2>1. CASE Cardinality(D) < MaxPending
    <3>1. E = {}
      BY <1>2, <1>4, <2>1 DEF Evictions
    <3>2. D \ E = D
      BY <3>1
    <3> QED BY <1>3, <2>1, <3>1, <3>2, Limits
  <2>2. CASE ~ (Cardinality(D) < MaxPending)
    <3>1. PICK o \in D : E = {o}
      BY <1>2, <1>4, <2>2 DEF Evictions
    <3>2. IsFiniteSet(D \ {o}) /\ Cardinality(D \ {o}) = Cardinality(D) - 1
      BY <1>3, <3>1, FS_RemoveElement
    <3>3. Cardinality(D \ {o}) \in Nat
      BY <3>2, FS_CardinalityType
    <3> QED BY <1>3, <2>2, <3>1, <3>2, <3>3, Limits
  <2> QED BY <2>1, <2>2
<1>6. Cardinality((D \ E) \cup {t}) <= MaxPending
  <2>1. Cardinality((D \ E) \cup {t}) \in {Cardinality(D \ E), Cardinality(D \ E) + 1}
    BY <1>5, FS_AddElement
  <2> QED BY <1>5, <2>1, Limits
<1>7. NewPending \in PendingWrite
  BY Limits DEF NewPending, PendingWrite
<1>8. new \in [DOMAIN new -> PendingWrite] /\ DOMAIN new = (D \ E) \cup {t}
  BY <1>2, <1>7 DEF PendingOK, IsTable
<1>9. D \subseteq Writes
  BY <1>2 DEF PendingOK, IsTable
<1>10. PendingOK(new)
  BY <1>6, <1>8, <1>9 DEF PendingOK, IsTable
<1>11. r = [s EXCEPT !.pending = new]
  BY <1>2, <1>4
<1> HIDE DEF new
<1> QED BY <1>5, <1>8, <1>10, <1>11, WithPendings DEF D

LEMMA RemovePendingOK ==
  ASSUME NEW s, StateOK(s), NEW t
  PROVE  LET r == RemovePending(s, t)
         IN /\ StateOK(r) /\ r.jobs = s.jobs /\ r.done = s.done /\ r.rest = s.rest
            /\ DOMAIN r.pending = DOMAIN s.pending \ {t}
  BY StateParts, WithPendings, RestrictPending DEF RemovePending

LEMMA RecordOK ==
  ASSUME NEW s, StateOK(s), NEW t \in Targets, NEW rest \in 0..Cooldown
  PROVE  LET r == Record(s, t, rest)
         IN /\ StateOK(r) /\ r.done = s.done \cup {t}
            /\ r.jobs = s.jobs /\ r.pending = s.pending
<1> DEFINE later == IF t \in s.done THEN s.rest[Kind(t)] ELSE Larger(s.rest[Kind(t)], rest)
           new == [s.rest EXCEPT ![Kind(t)] = later]
<1>1. s.rest \in [Kinds -> 0..Cooldown] /\ s.done \cup {t} \in SUBSET Targets
  BY StateParts
<1>2. Kind(t) \in Kinds
  BY KindType
<1>3. later \in 0..Cooldown
  BY <1>1, <1>2, Limits DEF Larger
<1>4. new \in [Kinds -> 0..Cooldown]
  BY <1>1, <1>3
<1>5. s \in [jobs : {s.jobs}, pending : {s.pending}, done : SUBSET Targets,
             rest : [Kinds -> 0..Cooldown]]
  BY DEF StateOK
<1>6. Record(s, t, rest) = [s EXCEPT !.done = s.done \cup {t}, !.rest = new]
  BY <1>5 DEF Record
<1> DEFINE r == Record(s, t, rest)
<1>7. r = [s EXCEPT !.done = s.done \cup {t}, !.rest = new]
  BY <1>6
<1> DEFINE q == [s EXCEPT !.done = s.done \cup {t}]
<1>8. r = [q EXCEPT !.rest = new]
  BY <1>7
<1> HIDE DEF new, r
<1>9. /\ StateOK(q) /\ q.done = s.done \cup {t}
      /\ q.jobs = s.jobs /\ q.pending = s.pending
  BY <1>1, WithDone
<1> HIDE DEF q
<1> QED BY <1>4, <1>8, <1>9, WithRest DEF r

LEMMA ReconciledOK ==
  ASSUME NEW s, StateOK(s), NEW found, found \subseteq PendingIds(s)
  PROVE  LET r == Reconciled(s, found)
         IN /\ StateOK(r) /\ r.jobs = s.jobs /\ r.done = s.done \cup found
            /\ DOMAIN r.pending \subseteq DOMAIN s.pending \ found
<1> DEFINE new == found \ s.done
           rests == {s.rest["write"]} \cup {s.pending[t].rest : t \in new}
           rest == [s.rest EXCEPT !["write"] = Max(rests)]
           missed == [t \in DOMAIN s.pending \ found |-> Missed(s.pending[t])]
           D == {t \in DOMAIN missed : missed[t].misses < MaxMisses}
           left == Restrict(missed, D)
<1>1. /\ s.rest \in [Kinds -> 0..Cooldown] /\ PendingOK(s.pending)
      /\ s \in [jobs : {s.jobs}, pending : {s.pending}, done : SUBSET Targets,
                rest : [Kinds -> 0..Cooldown]]
  BY StateParts DEF StateOK
<1>2. /\ s.pending \in [DOMAIN s.pending -> PendingWrite]
      /\ DOMAIN s.pending \subseteq Writes
  BY <1>1 DEF PendingOK, IsTable
<1>3. Max(rests) \in 0..Cooldown
  <2>1. s.rest["write"] \in 0..Cooldown
    BY <1>1 DEF Kinds
  <2>2. \A t \in new : s.pending[t].rest \in 0..Cooldown
    BY <1>2 DEF PendingIds, PendingWrite
  <2>3. rests \subseteq 0..Cooldown /\ rests # {}
    BY <2>1, <2>2
  <2> HIDE DEF rests
  <2> QED BY <2>3, Largest, Limits
<1>4. rest \in [Kinds -> 0..Cooldown]
  BY <1>1, <1>3
<1>5. s.done \cup new = s.done \cup found /\ s.done \cup found \in SUBSET Targets
  BY <1>1, <1>2 DEF PendingIds, Targets
<1>6. RecordAll(s, found) = [s EXCEPT !.done = s.done \cup found, !.rest = rest]
  <2>1. RecordAll(s, found) = [s EXCEPT !.done = s.done \cup new, !.rest = rest]
    BY <1>1 DEF RecordAll
  <2> QED BY <1>5, <2>1
<1>7. D \subseteq DOMAIN s.pending \ found /\ left \in [D -> PendingWrite]
  <2>1. \A p \in PendingWrite : Missed(p).misses < MaxMisses => Missed(p) \in PendingWrite
    BY Limits DEF Missed, PendingWrite
  <2>2. \A t \in D : missed[t] \in PendingWrite
    BY <1>2, <2>1
  <2> QED BY <2>2 DEF Restrict
<1>8. Reconciled(s, found) = [RecordAll(s, found) EXCEPT !.pending = left]
  BY DEF Reconciled
<1> HIDE DEF left, D, rest
<1>9. PendingOK(left) /\ DOMAIN left = D
  BY <1>1, <1>7, FewerPending
<1> DEFINE q == RecordAll(s, found)
<1>10. StateOK(q) /\ q.done = s.done \cup found /\ q.jobs = s.jobs
  <2>1. q = [s EXCEPT !.done = s.done \cup found, !.rest = rest]
    BY <1>6
  <2> DEFINE o == [s EXCEPT !.done = s.done \cup found]
  <2>2. q = [o EXCEPT !.rest = rest]
    BY <2>1
  <2> HIDE DEF q
  <2>3. StateOK(o) /\ o.done = s.done \cup found /\ o.jobs = s.jobs
    BY <1>5, WithDone
  <2> HIDE DEF o
  <2> QED BY <1>4, <2>2, <2>3, WithRest
<1> QED BY <1>7, <1>8, <1>9, <1>10, WithPendings

\* Time passes for a state.
LEMMA AgedStateOK ==
  ASSUME NEW s, StateOK(s)
  PROVE  LET r == AgedState(s)
         IN /\ StateOK(r) /\ r.jobs = Aged(s.jobs) /\ r.done = s.done
            /\ DOMAIN r.pending = DOMAIN s.pending
<1> DEFINE rest == [k \in Kinds |-> Larger(s.rest[k] - 1, 0)]
           pending == [t \in DOMAIN s.pending |->
                         [s.pending[t] EXCEPT !.rest = Larger(@ - 1, 0)]]
           o == [s EXCEPT !.jobs = Aged(s.jobs)]
           q == [o EXCEPT !.rest = rest]
           r == [q EXCEPT !.pending = pending]
<1>1. /\ s.rest \in [Kinds -> 0..Cooldown] /\ PendingOK(s.pending) /\ JobsOK(s.jobs)
      /\ s \in [jobs : {s.jobs}, pending : {s.pending}, done : SUBSET Targets,
                rest : [Kinds -> 0..Cooldown]]
  BY StateParts
<1>2. AgedState(s) = r
  BY <1>1 DEF AgedState
<1>3. \A c \in 0..Cooldown : Larger(c - 1, 0) \in 0..Cooldown
  BY Limits DEF Larger
<1>4. rest \in [Kinds -> 0..Cooldown]
  BY <1>1, <1>3
<1>5. pending \in [DOMAIN s.pending -> PendingWrite]
  <2>1. \A p \in PendingWrite : [p EXCEPT !.rest = Larger(@ - 1, 0)] \in PendingWrite
    BY <1>3 DEF PendingWrite
  <2>2. \A t \in DOMAIN s.pending : s.pending[t] \in PendingWrite
    BY <1>1 DEF PendingOK, IsTable
  <2> QED BY <2>1, <2>2
<1> HIDE DEF rest, pending
<1>6. PendingOK(pending) /\ DOMAIN pending = DOMAIN s.pending
  BY <1>1, <1>5, FewerPending
<1>7. StateOK(o) /\ o.jobs = Aged(s.jobs) /\ o.done = s.done
  BY <1>1, AgedOK, WithJobs
<1> HIDE DEF o
<1>8. StateOK(q) /\ q.jobs = o.jobs /\ q.done = o.done
  BY <1>4, <1>7, WithRest
<1> HIDE DEF q
<1>9. StateOK(r) /\ r.pending = pending /\ r.jobs = q.jobs /\ r.done = q.done
  BY <1>6, <1>8, WithPendings
<1> HIDE DEF r
<1> QED BY <1>2, <1>6, <1>7, <1>8, <1>9

\* The empty state.
LEMMA EmptyOK ==
  /\ StateOK(Empty) /\ JobsOK(NoJobs) /\ Empty.jobs = NoJobs /\ DOMAIN NoJobs = {}
  /\ Empty.done = {} /\ DOMAIN Empty.pending = {}
<1>1. JobsOK(NoJobs) /\ DOMAIN NoJobs = {}
  BY FS_EmptySet, Limits DEF NoJobs, JobsOK, IsTable
<1>2. PendingOK(NoPending) /\ DOMAIN NoPending = {}
  BY FS_EmptySet, Limits DEF NoPending, PendingOK, IsTable
<1>3. [k \in Kinds |-> 0] \in [Kinds -> 0..Cooldown]
  BY Limits
<1> QED BY <1>1, <1>2, <1>3 DEF Empty, StateOK

\* What a run loads: the durable state, perhaps with the jobs of the file.
LEMMA LoadOK ==
  ASSUME StateOK(db), JobsOK(file)
  PROVE  /\ StateOK(Load) /\ Load.pending = db.pending /\ Load.done = db.done
         /\ Load.jobs = IF DOMAIN db.jobs = {} THEN file ELSE db.jobs
<1> DEFINE jobs == IF DOMAIN db.jobs = {} THEN file ELSE db.jobs
<1>1. JobsOK(jobs)
  BY StateParts
<1>2. Load = [db EXCEPT !.jobs = jobs]
  BY StateParts DEF Load
<1> HIDE DEF jobs
<1>3. /\ StateOK(Load) /\ Load.jobs = jobs
      /\ Load.pending = db.pending /\ Load.done = db.done
  BY <1>1, <1>2, WithJobs
<1> QED BY <1>3 DEF jobs

\* What the executor has picked: due jobs are queued, stale ones included.
LEMMA PickedOK ==
  ASSUME NEW s, StateOK(s), NEW p \in Picks(RecoverStale(s.jobs), s.rest)
  PROVE  LET r == Picked(s, p)
         IN /\ StateOK(r) /\ r.pending = s.pending /\ r.done = s.done /\ r.rest = s.rest
            /\ DOMAIN r.jobs = DOMAIN s.jobs /\ p[1] \in DOMAIN s.jobs
            /\ RecoverStale(s.jobs)[p[1]].status = "queued"
            /\ r.jobs[p[1]].status = "running" /\ r.jobs[p[1]].age = 0
            /\ \A t \in DOMAIN s.jobs : t # p[1] =>
                 /\ r.jobs[t].status = RecoverStale(s.jobs)[t].status
                 /\ r.jobs[t].age = RecoverStale(s.jobs)[t].age
<1> DEFINE jobs == RecoverStale(s.jobs)
           later == Postpone(jobs, p[2], s.rest)
           selected == Select(later, p[1])
<1>1. JobsOK(s.jobs) /\ s.rest \in [Kinds -> 0..Cooldown]
  BY StateParts
<1>2. JobsOK(jobs) /\ DOMAIN jobs = DOMAIN s.jobs
  BY <1>1, RecoverStaleOK
<1>3. p[1] \in DOMAIN jobs /\ jobs[p[1]].status = "queued"
  BY DEF Picks, Due, InStatus
<1>4. JobsOK(later) /\ DOMAIN later = DOMAIN jobs
      /\ \A t \in DOMAIN jobs : later[t].status = jobs[t].status /\ later[t].age = jobs[t].age
  BY <1>1, <1>2, PostponeOK
<1>5. Picked(s, p) = [s EXCEPT !.jobs = selected]
  BY StateParts DEF Picked
<1> HIDE DEF jobs, later
<1>6. /\ JobsOK(selected) /\ DOMAIN selected = DOMAIN later
      /\ \A t \in DOMAIN later : t # p[1] => selected[t] = later[t]
      /\ selected[p[1]].status = "running" /\ selected[p[1]].age = 0
  BY <1>3, <1>4, SelectOK
<1> HIDE DEF selected
<1> DEFINE r == Picked(s, p)
<1>7. r = [s EXCEPT !.jobs = selected]
  BY <1>5
<1> HIDE DEF r
<1>8. /\ StateOK(r) /\ r.jobs = selected
      /\ r.pending = s.pending /\ r.done = s.done /\ r.rest = s.rest
  BY <1>6, <1>7, WithJobs
<1> QED BY <1>2, <1>3, <1>4, <1>6, <1>8 DEF r, jobs

\* The state that is saved before a request.
LEMMA WithPendingOK ==
  ASSUME NEW s, StateOK(s), NEW t \in Targets, NEW r \in WithPending(s, t)
  PROVE  /\ StateOK(r) /\ r.jobs = s.jobs /\ r.done = s.done
         /\ t \in Writes => t \in DOMAIN r.pending
         /\ DOMAIN r.pending \subseteq DOMAIN s.pending \cup ({t} \cap Writes)
         /\ t \notin Writes \/ Cardinality(DOMAIN s.pending \ {t}) < MaxPending =>
              DOMAIN r.pending = DOMAIN s.pending \cup ({t} \cap Writes)
<1>1. CASE t \in Writes
  <2>1. r \in AddPending(s, t)
    BY <1>1 DEF WithPending
  <2>2. {t} \cap Writes = {t}
    BY <1>1
  <2>3. /\ StateOK(r) /\ r.jobs = s.jobs /\ r.done = s.done
        /\ t \in DOMAIN r.pending /\ DOMAIN r.pending \subseteq DOMAIN s.pending \cup {t}
        /\ Cardinality(DOMAIN s.pending \ {t}) < MaxPending =>
             DOMAIN r.pending = DOMAIN s.pending \cup {t}
    BY <1>1, <2>1, AddPendingOK
  <2> QED BY <2>2, <2>3
<1>2. CASE t \notin Writes
  BY <1>2 DEF WithPending
<1> QED BY <1>1, <1>2

\* What is queued is new or was queued before.
LEMMA EnqueueOK ==
  ASSUME StateOK(mem), NEW S, S \subseteq Targets, NEW next, Enqueue(S, next)
  PROVE  /\ StateOK(mem') /\ pc' = "save" /\ then' = next
         /\ mem'.pending = mem.pending /\ mem'.done = mem.done
         /\ DOMAIN mem'.jobs \subseteq DOMAIN mem.jobs \cup S
         /\ \A t \in DOMAIN mem'.jobs :
              \/ t \in DOMAIN mem.jobs /\ mem'.jobs[t] = mem.jobs[t]
              \/ t \in S /\ mem'.jobs[t].status = "queued"
<1>1. PICK new \in [S -> StartDelays] :
        \E jobs \in Cuts(Merge(mem.jobs, [t \in S |-> NewJob(new[t], mem.rest[Kind(t)])])) :
          Save([mem EXCEPT !.jobs = jobs], next)
  BY DEF Enqueue
<1>2. PICK jobs \in Cuts(Merge(mem.jobs, [t \in S |-> NewJob(new[t], mem.rest[Kind(t)])])) :
        Save([mem EXCEPT !.jobs = jobs], next)
  BY <1>1
<1>3. /\ JobsOK(jobs) /\ DOMAIN jobs \subseteq DOMAIN mem.jobs \cup S
      /\ \A t \in DOMAIN jobs :
           \/ t \in DOMAIN mem.jobs /\ jobs[t] = mem.jobs[t]
           \/ t \in S /\ jobs[t].status = "queued"
  <2> DEFINE old == mem.jobs
             rest == mem.rest
  <2>1. JobsOK(old) /\ rest \in [Kinds -> 0..Cooldown]
    BY StateParts
  <2>2. jobs \in Cuts(Merge(old, [t \in S |-> NewJob(new[t], rest[Kind(t)])]))
    OBVIOUS
  <2> HIDE DEF old, rest
  <2>3. /\ JobsOK(jobs) /\ DOMAIN jobs \subseteq DOMAIN old \cup S
        /\ \A t \in DOMAIN jobs : \/ t \in DOMAIN old /\ jobs[t] = old[t]
                                  \/ t \in S /\ jobs[t].status = "queued"
    BY <2>1, <2>2, EnqueuedOK
  <2> QED BY <2>3 DEF old
<1>4. mem' = [mem EXCEPT !.jobs = jobs] /\ pc' = "save" /\ then' = next
  BY <1>2 DEF Save
<1>5. /\ StateOK(mem') /\ mem'.jobs = jobs
      /\ mem'.pending = mem.pending /\ mem'.done = mem.done
  BY <1>3, <1>4, WithJobs
<1> QED BY <1>3, <1>4, <1>5

\* A failed attempt leaves a job that waits or has failed, and no pending write.
LEMMA FailedOK ==
  ASSUME StateOK(mem), cur \subseteq DOMAIN mem.jobs, Failed
  PROVE  /\ StateOK(mem') /\ pc' = "save" /\ then' = "idle"
         /\ UNCHANGED <<db, file, cur, board, slots, beat, crashes>>
         /\ mem'.done = mem.done /\ DOMAIN mem'.jobs = DOMAIN mem.jobs
         /\ \E t \in cur :
              /\ DOMAIN mem'.pending = DOMAIN mem.pending \ {t}
              /\ mem'.jobs[t].status \in {"queued", "failed"}
              /\ \A u \in DOMAIN mem.jobs : u # t => mem'.jobs[u] = mem.jobs[u]
<1>1. PICK t \in cur, retryable \in BOOLEAN :
        \E job \in Requeued(mem.jobs[t], retryable) :
          Save(RemovePending([mem EXCEPT !.jobs[t] = job], t), "idle")
  BY DEF Failed
<1>2. PICK job \in Requeued(mem.jobs[t], retryable) :
        Save(RemovePending([mem EXCEPT !.jobs[t] = job], t), "idle")
  BY <1>1
<1>3. JobsOK(mem.jobs)
  BY StateParts
<1>4. mem.jobs[t] \in Job
  BY <1>3 DEF JobsOK, IsTable
<1>5. job \in Job /\ job.status \in {"queued", "failed"}
  BY <1>4, RequeuedOK
<1> DEFINE jobs == [mem.jobs EXCEPT ![t] = job]
           q == [mem EXCEPT !.jobs = jobs]
<1>6. /\ JobsOK(jobs) /\ DOMAIN jobs = DOMAIN mem.jobs
      /\ \A u \in DOMAIN mem.jobs : jobs[u] = IF u = t THEN job ELSE mem.jobs[u]
  BY <1>3, <1>5, ReplacedJob
<1>7. mem' = RemovePending(q, t) /\ pc' = "save" /\ then' = "idle"
  BY <1>2 DEF Save
<1> HIDE DEF jobs
<1>8. /\ StateOK(q) /\ q.jobs = jobs /\ q.pending = mem.pending /\ q.done = mem.done
  BY <1>6, WithJobs
<1> HIDE DEF q
<1>9. /\ StateOK(mem') /\ mem'.jobs = jobs /\ mem'.done = mem.done
      /\ DOMAIN mem'.pending = DOMAIN mem.pending \ {t}
  BY <1>7, <1>8, RemovePendingOK
<1>10. UNCHANGED <<db, file, cur, board, slots, beat, crashes>>
  BY DEF Failed
<1> QED BY <1>5, <1>6, <1>7, <1>9, <1>10

\* A publication that is answered is recorded, and its job removed.
LEMMA PublishedOK ==
  ASSUME StateOK(mem), cur \subseteq Targets, Published
  PROVE  /\ StateOK(mem') /\ pc' = "save" /\ then' = "idle"
         /\ UNCHANGED <<db, file, cur, board, slots, beat, crashes>>
         /\ \E t \in cur :
              /\ mem'.done = mem.done \cup {t}
              /\ DOMAIN mem'.pending = DOMAIN mem.pending \ {t}
              /\ DOMAIN mem'.jobs = DOMAIN mem.jobs \ {t}
              /\ \A u \in DOMAIN mem'.jobs : mem'.jobs[u] = mem.jobs[u]
<1>1. PICK t \in cur :
        Save([Record(RemovePending(mem, t), t, Cooldown) EXCEPT !.jobs = RemoveJob(@, t)],
             "idle")
  BY DEF Published
<1> DEFINE o == RemovePending(mem, t)
           q == Record(o, t, Cooldown)
           jobs == RemoveJob(mem.jobs, t)
<1>2. /\ StateOK(o) /\ o.jobs = mem.jobs /\ o.done = mem.done
      /\ DOMAIN o.pending = DOMAIN mem.pending \ {t}
  BY RemovePendingOK
<1> HIDE DEF o
<1>3. t \in Targets /\ Cooldown \in 0..Cooldown
  BY Limits
<1>4. /\ StateOK(q) /\ q.done = o.done \cup {t}
      /\ q.jobs = o.jobs /\ q.pending = o.pending
  BY <1>2, <1>3, RecordOK
<1>5. mem' = [q EXCEPT !.jobs = RemoveJob(q.jobs, t)] /\ pc' = "save" /\ then' = "idle"
  BY <1>1 DEF Save, o
<1>6. JobsOK(mem.jobs)
  BY StateParts
<1>7. /\ JobsOK(jobs) /\ DOMAIN jobs = DOMAIN mem.jobs \ {t}
      /\ \A u \in DOMAIN jobs : jobs[u] = mem.jobs[u]
  BY <1>6, FewerJobs DEF RemoveJob
<1>8. mem' = [q EXCEPT !.jobs = jobs]
  BY <1>2, <1>4, <1>5
<1> HIDE DEF q, jobs
<1>9. StateOK(mem') /\ mem'.jobs = jobs /\ mem'.pending = q.pending /\ mem'.done = q.done
  BY <1>4, <1>7, <1>8, WithJobs
<1>10. UNCHANGED <<db, file, cur, board, slots, beat, crashes>>
  BY DEF Published
<1> QED BY <1>2, <1>4, <1>5, <1>7, <1>9, <1>10

\* Stale recovery makes a job wait, or leaves it alone.
LEMMA Recovered ==
  ASSUME NEW jobs, JobsOK(jobs), NEW t \in DOMAIN jobs
  PROVE  LET j == RecoverStale(jobs)[t]
         IN \/ IsStale(jobs[t]) /\ j.status = "queued"
            \/ ~IsStale(jobs[t]) /\ j = jobs[t]
<1>1. jobs[t] \in Job
  BY DEF JobsOK, IsTable
<1>2. RecoverStale(jobs)[t] = IF IsStale(jobs[t])
        THEN [jobs[t] EXCEPT !.status = "queued", !.wait = 0, !.age = 0] ELSE jobs[t]
  BY DEF RecoverStale
<1>3. [jobs[t] EXCEPT !.status = "queued", !.wait = 0, !.age = 0].status = "queued"
  BY <1>1 DEF Job
<1> QED BY <1>2, <1>3

----------------------------------------------------------------------------
\* Actions: what each one does to the copy it works on.

\* A sweep drops one orphan.
LEMMA SweepOK ==
  ASSUME StateOK(mem), Sweep
  PROVE  /\ StateOK(mem') /\ pc' = "save" /\ then' = "sweep"
         /\ mem'.pending = mem.pending /\ mem'.done = mem.done
         /\ DOMAIN mem'.jobs \subseteq DOMAIN mem.jobs
         /\ \A u \in DOMAIN mem'.jobs : mem'.jobs[u] = mem.jobs[u]
<1>1. PICK t \in Orphans(mem) : Save([mem EXCEPT !.jobs = RemoveJob(@, t)], "sweep")
  BY DEF Sweep
<1> DEFINE jobs == RemoveJob(mem.jobs, t)
<1>2. mem' = [mem EXCEPT !.jobs = jobs] /\ pc' = "save" /\ then' = "sweep"
  BY <1>1 DEF Save
<1>3. JobsOK(mem.jobs)
  BY StateParts
<1>4. /\ JobsOK(jobs) /\ DOMAIN jobs = DOMAIN mem.jobs \ {t}
      /\ \A u \in DOMAIN jobs : jobs[u] = mem.jobs[u]
  BY <1>3, FewerJobs DEF RemoveJob
<1> HIDE DEF jobs
<1>5. /\ StateOK(mem') /\ mem'.jobs = jobs
      /\ mem'.pending = mem.pending /\ mem'.done = mem.done
  BY <1>2, <1>4, WithJobs
<1> QED BY <1>2, <1>4, <1>5

\* A run that finds nothing to do recovers stale jobs and postpones others.
LEMMA PickNoneOK ==
  ASSUME StateOK(mem), PickNone
  PROVE  /\ StateOK(mem') /\ pc' = "save" /\ then' = "idle"
         /\ mem'.pending = mem.pending /\ mem'.done = mem.done
         /\ DOMAIN mem'.jobs = DOMAIN mem.jobs
         /\ \A u \in DOMAIN mem.jobs :
              /\ mem'.jobs[u].status = RecoverStale(mem.jobs)[u].status
              /\ mem'.jobs[u].age = RecoverStale(mem.jobs)[u].age
<1> DEFINE old == RecoverStale(mem.jobs)
           S == Due(old)
           jobs == Postpone(old, S, mem.rest)
<1>1. JobsOK(mem.jobs) /\ mem.rest \in [Kinds -> 0..Cooldown]
  BY StateParts
<1>2. JobsOK(old) /\ DOMAIN old = DOMAIN mem.jobs
  BY <1>1, RecoverStaleOK
<1>3. mem' = [mem EXCEPT !.jobs = jobs] /\ pc' = "save" /\ then' = "idle"
  BY DEF PickNone, Save
<1> HIDE DEF old, S
<1>4. /\ JobsOK(jobs) /\ DOMAIN jobs = DOMAIN old
      /\ \A t \in DOMAIN old : jobs[t].status = old[t].status /\ jobs[t].age = old[t].age
  BY <1>1, <1>2, PostponeOK
<1> HIDE DEF jobs
<1>5. /\ StateOK(mem') /\ mem'.jobs = jobs
      /\ mem'.pending = mem.pending /\ mem'.done = mem.done
  BY <1>3, <1>4, WithJobs
<1> QED BY <1>2, <1>3, <1>4, <1>5 DEF old

\* A pick makes one queued job run, and pending if it is a write.
LEMMA PickOK ==
  ASSUME StateOK(mem), Pick
  PROVE  /\ StateOK(mem') /\ pc' = "save" /\ then' = "publish"
         /\ mem'.done = mem.done /\ DOMAIN mem'.jobs = DOMAIN mem.jobs
         /\ \E t \in DOMAIN mem.jobs :
              /\ cur' = {t} /\ t \in Targets
              /\ RecoverStale(mem.jobs)[t].status = "queued"
              /\ mem'.jobs[t].status = "running" /\ mem'.jobs[t].age = 0
              /\ \A u \in DOMAIN mem.jobs : u # t =>
                   /\ mem'.jobs[u].status = RecoverStale(mem.jobs)[u].status
                   /\ mem'.jobs[u].age = RecoverStale(mem.jobs)[u].age
              /\ t \in Writes => t \in DOMAIN mem'.pending
              /\ DOMAIN mem'.pending \subseteq DOMAIN mem.pending \cup ({t} \cap Writes)
              /\ t \notin Writes \/ Cardinality(DOMAIN mem.pending \ {t}) < MaxPending =>
                   DOMAIN mem'.pending = DOMAIN mem.pending \cup ({t} \cap Writes)
<1>1. PICK p \in Picks(RecoverStale(mem.jobs), mem.rest) :
        \E s \in WithPending(Picked(mem, p), p[1]) : cur' = {p[1]} /\ Save(s, "publish")
  BY DEF Pick
<1> DEFINE q == Picked(mem, p)
           t == p[1]
<1>2. PICK s \in WithPending(q, t) : cur' = {t} /\ Save(s, "publish")
  BY <1>1
<1>3. /\ StateOK(q) /\ q.pending = mem.pending /\ q.done = mem.done
      /\ DOMAIN q.jobs = DOMAIN mem.jobs /\ t \in DOMAIN mem.jobs
      /\ RecoverStale(mem.jobs)[t].status = "queued"
      /\ q.jobs[t].status = "running" /\ q.jobs[t].age = 0
      /\ \A u \in DOMAIN mem.jobs : u # t =>
           /\ q.jobs[u].status = RecoverStale(mem.jobs)[u].status
           /\ q.jobs[u].age = RecoverStale(mem.jobs)[u].age
  BY PickedOK
<1>4. t \in Targets
  BY <1>3, StateParts DEF JobsOK, IsTable
<1> HIDE DEF q, t
<1>5. /\ StateOK(s) /\ s.jobs = q.jobs /\ s.done = q.done
      /\ t \in Writes => t \in DOMAIN s.pending
      /\ DOMAIN s.pending \subseteq DOMAIN q.pending \cup ({t} \cap Writes)
      /\ t \notin Writes \/ Cardinality(DOMAIN q.pending \ {t}) < MaxPending =>
           DOMAIN s.pending = DOMAIN q.pending \cup ({t} \cap Writes)
  BY <1>2, <1>3, <1>4, WithPendingOK
<1>6. mem' = s /\ pc' = "save" /\ then' = "publish" /\ cur' = {t}
  BY <1>2 DEF Save
<1> QED BY <1>3, <1>4, <1>5, <1>6

\* A reconciliation with something to do records what it finds.
LEMMA ReconcileOK ==
  ASSUME StateOK(mem), Reconcile, PendingIds(mem) # {}
  PROVE  /\ StateOK(mem') /\ pc' = "save" /\ then' = "votes"
         /\ mem'.jobs = mem.jobs
         /\ \E found \in SUBSET Findable :
              /\ "unseen" \in Faults \/ found = Findable
              /\ mem'.done = mem.done \cup found
              /\ DOMAIN mem'.pending \subseteq DOMAIN mem.pending \ found
<1>1. PICK found \in SUBSET Findable :
        /\ "unseen" \in Faults \/ found = Findable
        /\ Save(Reconciled(mem, found), "votes")
  BY DEF Reconcile
<1>2. found \subseteq PendingIds(mem)
  BY DEF Findable
<1>3. mem' = Reconciled(mem, found) /\ pc' = "save" /\ then' = "votes"
  BY <1>1 DEF Save
<1>4. /\ StateOK(mem') /\ mem'.jobs = mem.jobs /\ mem'.done = mem.done \cup found
      /\ DOMAIN mem'.pending \subseteq DOMAIN mem.pending \ found
  BY <1>2, <1>3, ReconciledOK
<1> QED BY <1>1, <1>3, <1>4

----------------------------------------------------------------------------
\* The type invariant.

Executing == pc \in {"publish", "answer"} \/ Saving({"publish"})

\* The job in execution is in the queue.
CurrentJob == Executing => cur \subseteq DOMAIN mem.jobs

TypeInv == TypeOK /\ CurrentJob

LEMMA TypeInit == Init => TypeInv
<1> SUFFICES ASSUME Init PROVE TypeInv
  OBVIOUS
<1>1. StateOK(db) /\ StateOK(mem) /\ JobsOK(file)
  BY EmptyOK DEF Init
<1>2. cur \subseteq Targets /\ Cardinality(cur) <= 1
  BY FS_EmptySet DEF Init
<1>3. board \in [Targets -> 0..MaxBoard] /\ slots \in 0..Slots /\ crashes \in 0..MaxCrashes
  BY Limits DEF Init
<1>4. CurrentJob
  BY DEF Init, CurrentJob, Executing, Saving
<1> QED BY <1>1, <1>2, <1>3, <1>4 DEF Init, TypeOK, TypeInv

\* What a step that only works on the copy has to show.
LEMMA TypeSave ==
  ASSUME TypeInv, StateOK(mem'), pc' = "save",
         then' \in {"idle", "sweep", "votes", "draft", "report"},
         UNCHANGED <<db, file, cur, board, slots, crashes>>, beat' \in BOOLEAN
  PROVE  TypeInv'
  BY DEF TypeInv, TypeOK, CurrentJob, Executing, Saving

LEMMA TypeNext == TypeInv /\ [Next]_vars => TypeInv'
<1> SUFFICES ASSUME TypeInv, [Next]_vars PROVE TypeInv'
  OBVIOUS
<1>1. /\ StateOK(db) /\ StateOK(mem) /\ JobsOK(file) /\ StateOK(Empty)
      /\ cur \subseteq Targets /\ Cardinality(cur) <= 1
      /\ board \in [Targets -> 0..MaxBoard] /\ slots \in 0..Slots
      /\ beat \in BOOLEAN /\ crashes \in 0..MaxCrashes
  BY EmptyOK DEF TypeInv, TypeOK
<1>2. Cardinality({}) <= 1 /\ \A t : Cardinality({t}) <= 1
  <2>1. \A n : n = 0 \/ n = 1 => n <= 1
    OBVIOUS
  <2> QED BY <2>1, Zenon, FS_EmptySet, FS_Singleton
<1>3. CASE UNCHANGED vars
  BY <1>3 DEF TypeInv, TypeOK, CurrentJob, Executing, Saving, vars
<1>4. CASE StartExecutor
  <2>1. StateOK(mem') /\ pc' = "sweep" /\ slots' \in 0..Slots
    BY <1>1, <1>4, LoadOK, Limits DEF StartExecutor
  <2> QED BY <1>1, <1>4, <2>1
       DEF StartExecutor, TypeInv, TypeOK, CurrentJob, Executing, Saving
<1>5. CASE Sweep
  BY <1>1, <1>5, SweepOK, TypeSave DEF Sweep
<1>6. CASE PickNone
  BY <1>1, <1>6, PickNoneOK, TypeSave DEF PickNone
<1>7. CASE Pick
  <2>1. /\ StateOK(mem') /\ pc' = "save" /\ then' = "publish"
        /\ DOMAIN mem'.jobs = DOMAIN mem.jobs
        /\ \E t \in DOMAIN mem.jobs : cur' = {t} /\ t \in Targets
    BY <1>1, <1>7, PickOK
  <2>2. cur' \subseteq DOMAIN mem'.jobs /\ cur' \subseteq Targets /\ Cardinality(cur') <= 1
    BY <1>2, <2>1
  <2>3. UNCHANGED <<db, file, board, slots, beat, crashes>>
    BY <1>7 DEF Pick
  <2> QED BY <1>1, <2>1, <2>2, <2>3
       DEF TypeInv, TypeOK, CurrentJob, Executing, Saving
<1>8. CASE Publish
  <2>1. board' \in [Targets -> 0..MaxBoard]
    BY <1>1, <1>8, Limits DEF Publish, Smaller
  <2>2. pc' = "answer" /\ UNCHANGED <<db, file, mem, then, cur, slots, beat, crashes>>
    BY <1>8 DEF Publish
  <2>3. CurrentJob'
    BY <1>8, <2>2 DEF Publish, TypeInv, CurrentJob, Executing
  <2> QED BY <2>1, <2>2, <2>3 DEF TypeInv, TypeOK
<1>9. CASE Published
  BY <1>1, <1>9, PublishedOK, TypeSave
<1>10. CASE Refused \/ AnswerLost
  <2>1. cur \subseteq DOMAIN mem.jobs /\ Failed
    BY <1>10 DEF TypeInv, CurrentJob, Executing, Refused, AnswerLost
  <2> QED BY <1>1, <2>1, FailedOK, TypeSave
<1>11. CASE StartHeartbeat
  <2>1. StateOK(mem') /\ pc' = "reconcile"
    BY <1>1, <1>11, LoadOK DEF StartHeartbeat
  <2> QED BY <1>1, <1>11, <2>1
       DEF StartHeartbeat, TypeInv, TypeOK, CurrentJob, Executing, Saving
<1>12. CASE HeartbeatDown
  BY <1>1, <1>12, TypeSave DEF HeartbeatDown, Save
<1>13. CASE Reconcile
  <2>1. CASE PendingIds(mem) = {}
    BY <1>1, <1>13, <2>1 DEF Reconcile, TypeInv, TypeOK, CurrentJob, Executing, Saving
  <2>2. CASE PendingIds(mem) # {}
    <3>1. StateOK(mem') /\ pc' = "save" /\ then' = "votes"
      BY <1>1, <1>13, <2>2, ReconcileOK
    <3> QED BY <1>1, <1>13, <3>1, TypeSave DEF Reconcile
  <2> QED BY <2>1, <2>2
<1>14. CASE ReconcileFails
  BY <1>14 DEF ReconcileFails, TypeInv, TypeOK, CurrentJob, Executing, Saving
<1>15. CASE QueueVotes
  <2>1. PICK S \in SUBSET Plannable(Votes) :
          IF S = {} THEN pc' = "draft" /\ UNCHANGED <<mem, then>> ELSE Enqueue(S, "draft")
    BY <1>15 DEF QueueVotes
  <2>2. S \subseteq Targets
    BY DEF Plannable, Targets
  <2>3. beat' = TRUE /\ UNCHANGED <<db, file, cur, board, slots, crashes>>
    BY <1>15 DEF QueueVotes
  <2>4. CASE S = {}
    BY <2>1, <2>3, <2>4 DEF TypeInv, TypeOK, CurrentJob, Executing, Saving
  <2>5. CASE S # {}
    <3>1. StateOK(mem') /\ pc' = "save" /\ then' = "draft"
      BY <1>1, <2>1, <2>2, <2>5, EnqueueOK
    <3> QED BY <2>3, <3>1, TypeSave
  <2> QED BY <2>4, <2>5
<1>16. CASE QueueWrite
  <2>1. PICK w \in Plannable(Writes) : Enqueue({w}, "report")
    BY <1>16 DEF QueueWrite
  <2>2. {w} \subseteq Targets
    BY DEF Plannable, Targets
  <2>3. StateOK(mem') /\ pc' = "save" /\ then' = "report"
    BY <1>1, <2>1, <2>2, EnqueueOK
  <2> QED BY <1>1, <1>16, <2>3, TypeSave DEF QueueWrite
<1>17. CASE Report
  BY <1>1, <1>17, TypeSave DEF Report, Save
<1>18. CASE SaveDatabase
  BY <1>1, <1>18 DEF SaveDatabase, TypeInv, TypeOK, CurrentJob, Executing, Saving
<1>19. CASE SaveFile
  <2>1. JobsOK(mem.jobs)
    BY <1>1, StateParts
  <2>2. pc' = then /\ file' = mem.jobs /\ UNCHANGED <<db, then, board, slots, beat, crashes>>
    BY <1>19 DEF SaveFile
  <2>3. CASE then = "idle"
    <3>1. mem' = Empty /\ cur' = {}
      BY <1>19, <2>3 DEF SaveFile
    <3> QED BY <1>1, <1>2, <2>1, <2>2, <2>3, <3>1
         DEF TypeInv, TypeOK, CurrentJob, Executing, Saving
  <2>4. CASE then # "idle"
    <3>1. mem' = mem /\ cur' = cur
      BY <1>19, <2>4 DEF SaveFile
    <3> QED BY <1>1, <1>19, <2>1, <2>2, <2>4, <3>1
         DEF TypeInv, TypeOK, CurrentJob, Executing, Saving, SaveFile
  <2> QED BY <2>3, <2>4
<1>20. CASE Tick
  <2>1. StateOK(db')
    BY <1>1, <1>20, AgedStateOK DEF Tick
  <2>2. JobsOK(file')
    BY <1>1, <1>20, AgedOK DEF Tick
  <2>3. slots' \in 0..Slots
    BY <1>20, Limits DEF Tick
  <2> QED BY <1>1, <1>20, <2>1, <2>2, <2>3
       DEF Tick, TypeInv, TypeOK, CurrentJob, Executing, Saving
<1>21. CASE Crash
  <2>1. crashes' \in 0..MaxCrashes
    BY <1>1, <1>21, Limits DEF Crash
  <2> QED BY <1>1, <1>2, <1>21, <2>1
       DEF Crash, TypeInv, TypeOK, CurrentJob, Executing, Saving
<1> QED BY <1>3, <1>4, <1>5, <1>6, <1>7, <1>8, <1>9, <1>10, <1>11, <1>12, <1>13, <1>14,
           <1>15, <1>16, <1>17, <1>18, <1>19, <1>20, <1>21
        DEF Next, Run, Executor, Heartbeat

\* Every reachable state is well formed: no queue, pending table or counter
\* leaves its limits (job-queue.ts, policy.ts), whatever fails.
THEOREM TypeCorrect == Spec => []TypeOK
<1>1. TypeInv => TypeOK
  BY DEF TypeInv
<1> QED BY TypeInit, TypeNext, <1>1, PTL DEF Spec

\* TypeInv is an invariant; the later proofs use it.
LEMMA TypeInvariant == Spec => []TypeInv
  BY TypeInit, TypeNext, PTL DEF Spec

----------------------------------------------------------------------------
\* The record that precedes a request.

\* From the moment a pick is made until its outcome is known, the copy has the
\* write pending and its job running; after both saves this is durable.
Ahead ==
  /\ pc \in {"saveFile", "publish", "answer"} => mem = db
  /\ Executing => cur \cap Writes \subseteq PendingIds(mem) \cap InStatus(mem.jobs, {"running"})

LEMMA AheadInit == Init => Ahead
  BY DEF Init, Ahead, Executing, Saving

LEMMA AheadNext == TypeInv /\ Ahead /\ [Next]_vars => Ahead'
<1> SUFFICES ASSUME TypeInv, Ahead, [Next]_vars PROVE Ahead'
  OBVIOUS
<1> USE DEF Executing, Saving
<1>1. StateOK(mem) /\ cur \subseteq Targets
  BY DEF TypeInv, TypeOK
<1>2. CASE UNCHANGED vars
  BY <1>2 DEF Ahead, vars, PendingIds, InStatus
<1>3. CASE pc' = "save" /\ then' # "publish"
  BY <1>3 DEF Ahead
<1>4. CASE pc' \in {"idle", "sweep", "reconcile", "votes", "draft"}
  BY <1>4 DEF Ahead
<1>5. CASE Pick
  <2>1. PICK t \in DOMAIN mem.jobs :
          /\ cur' = {t} /\ mem'.jobs[t].status = "running"
          /\ DOMAIN mem'.jobs = DOMAIN mem.jobs
          /\ t \in Writes => t \in DOMAIN mem'.pending
    BY <1>1, <1>5, PickOK
  <2>2. pc' = "save"
    BY <1>5 DEF Pick, Save
  <2>3. cur' \cap Writes \subseteq PendingIds(mem)' \cap InStatus(mem.jobs, {"running"})'
    BY <2>1 DEF PendingIds, InStatus
  <2> QED BY <2>2, <2>3 DEF Ahead
<1>6. CASE Publish
  BY <1>6 DEF Publish, Ahead, PendingIds, InStatus
<1>7. CASE SaveDatabase
  BY <1>7 DEF SaveDatabase, Ahead, PendingIds, InStatus
<1>8. CASE SaveFile
  <2>1. CASE then = "idle"
    BY <1>8, <2>1 DEF SaveFile, Ahead
  <2>2. CASE then # "idle"
    <3>1. then \in {"sweep", "publish", "votes", "draft", "report"}
      BY <2>2 DEF TypeInv, TypeOK
    <3> QED BY <1>8, <2>2, <3>1 DEF SaveFile, Ahead, PendingIds, InStatus
  <2> QED BY <2>1, <2>2
<1>9. CASE Published
  BY <1>1, <1>3, <1>9, PublishedOK
<1>10. CASE Refused \/ AnswerLost
  <2>1. cur \subseteq DOMAIN mem.jobs /\ Failed
    BY <1>10 DEF TypeInv, CurrentJob, Refused, AnswerLost
  <2> QED BY <1>1, <1>3, <2>1, FailedOK
<1>11. CASE Sweep \/ PickNone \/ HeartbeatDown \/ Report \/ QueueWrite
  <2>1. pc' = "save" /\ then' \in {"sweep", "idle", "report"}
    BY <1>11 DEF Sweep, PickNone, HeartbeatDown, Report, QueueWrite, Enqueue, Save
  <2> QED BY <1>3, <2>1
<1>12. CASE StartExecutor \/ StartHeartbeat \/ ReconcileFails \/ Tick \/ Crash
  BY <1>4, <1>12 DEF StartExecutor, StartHeartbeat, ReconcileFails, Tick, Crash
<1>13. CASE Reconcile
  BY <1>3, <1>4, <1>13 DEF Reconcile, Save
<1>14. CASE QueueVotes
  BY <1>3, <1>4, <1>14 DEF QueueVotes, Enqueue, Save
<1> QED BY <1>2, <1>5, <1>6, <1>7, <1>8, <1>9, <1>10, <1>11, <1>12, <1>13, <1>14
        DEF Next, Run, Executor, Heartbeat

\* With every fault: while an authored write is requested, its pending write
\* and its running job are durable (moltbook-executor.ts saves them first).
THEOREM WriteAheadAlways == Spec => []WriteAhead
<1>1. Ahead => WriteAhead
  BY DEF Ahead, WriteAhead, Executing, PendingIds, InStatus
<1> QED BY AheadInit, AheadNext, TypeInvariant, <1>1, PTL DEF Spec

----------------------------------------------------------------------------
\* Records are true.

AnsweredIsDone == pc = "answer" => \A t \in cur : board[t] > 0

LEMMA RecordsInit == Init => RecordsAreTrue /\ AnsweredIsDone
  BY EmptyOK DEF Init, RecordsAreTrue, AnsweredIsDone

\* Nothing that was done is undone.
LEMMA BoardGrows ==
  ASSUME TypeInv, [Next]_vars
  PROVE  \A t \in Targets : board[t] > 0 => board'[t] > 0
<1>1. board \in [Targets -> 0..MaxBoard]
  BY DEF TypeInv, TypeOK
<1>2. CASE Publish
  BY <1>1, <1>2, Limits DEF Publish, Smaller
<1>3. CASE board' = board
  BY <1>3
<1> QED BY <1>2, <1>3
        DEF Next, Run, Executor, Heartbeat, vars, StartExecutor, Sweep, PickNone, Pick,
            Published, Refused, AnswerLost, Failed, StartHeartbeat, HeartbeatDown, Reconcile,
            ReconcileFails, QueueVotes, QueueWrite, Report, SaveDatabase, SaveFile, Tick, Crash

LEMMA RecordsNext ==
  TypeInv /\ RecordsAreTrue /\ AnsweredIsDone /\ [Next]_vars
    => (RecordsAreTrue /\ AnsweredIsDone)'
<1> SUFFICES ASSUME TypeInv, RecordsAreTrue, AnsweredIsDone, [Next]_vars
             PROVE  (RecordsAreTrue /\ AnsweredIsDone)'
  OBVIOUS
<1>1. /\ StateOK(mem) /\ StateOK(db) /\ JobsOK(file) /\ cur \subseteq Targets
      /\ db.done \subseteq Targets /\ mem.done \subseteq Targets
      /\ board \in [Targets -> 0..MaxBoard]
  BY StateParts DEF TypeInv, TypeOK
<1>2. \A t \in Targets : board[t] > 0 => board'[t] > 0
  BY BoardGrows
<1>3. AnsweredIsDone'
  <2>1. CASE Publish
    <3>1. \A t \in cur : board'[t] > 0
      BY <1>1, <2>1, Limits DEF Publish, Smaller
    <3> QED BY <2>1, <3>1 DEF Publish, AnsweredIsDone
  <2>2. CASE UNCHANGED vars
    BY <2>2 DEF vars, AnsweredIsDone
  <2>3. CASE pc' # "answer"
    BY <2>3 DEF AnsweredIsDone
  <2>4. SaveFile => pc' # "answer"
    BY DEF SaveFile, TypeInv, TypeOK
  <2> QED BY <2>1, <2>2, <2>3, <2>4
          DEF Next, Run, Executor, Heartbeat, StartExecutor, Sweep, PickNone, Pick,
              Published, Refused, AnswerLost, Failed, StartHeartbeat, HeartbeatDown, Reconcile,
              ReconcileFails, QueueVotes, QueueWrite, Report, SaveDatabase, Tick, Crash,
              Enqueue, Save
\* So it suffices that what a step records was done.
<1> DEFINE Old == db.done \cup mem.done \cup {t \in Targets : board[t] > 0}
<1>4. db'.done \cup mem'.done \subseteq Old => (RecordsAreTrue /\ AnsweredIsDone)'
  BY <1>1, <1>2, <1>3 DEF RecordsAreTrue
<1>5. CASE UNCHANGED vars
  BY <1>4, <1>5 DEF vars
<1>6. CASE StartExecutor \/ StartHeartbeat
  <2>1. mem' = Load /\ Load.done = db.done /\ db' = db
    BY <1>1, <1>6, LoadOK DEF StartExecutor, StartHeartbeat
  <2> QED BY <1>4, <2>1
<1>7. CASE Sweep
  BY <1>1, <1>4, <1>7, SweepOK DEF Sweep
<1>8. CASE PickNone
  BY <1>1, <1>4, <1>8, PickNoneOK DEF PickNone
<1>9. CASE Pick
  BY <1>1, <1>4, <1>9, PickOK DEF Pick
<1>10. CASE Published
  <2>1. PICK t \in cur : mem'.done = mem.done \cup {t} /\ db' = db
    BY <1>1, <1>10, PublishedOK
  <2>2. board[t] > 0
    BY <1>10 DEF Published, AnsweredIsDone
  <2> QED BY <1>1, <1>4, <2>1, <2>2
<1>11. CASE Refused \/ AnswerLost
  <2>1. cur \subseteq DOMAIN mem.jobs /\ Failed
    BY <1>11 DEF TypeInv, CurrentJob, Executing, Saving, Refused, AnswerLost
  <2> QED BY <1>1, <1>4, <2>1, FailedOK
<1>12. CASE HeartbeatDown
  BY <1>4, <1>12, EmptyOK DEF HeartbeatDown, Save
<1>13. CASE Reconcile
  <2>1. CASE PendingIds(mem) = {}
    BY <1>4, <1>13, <2>1 DEF Reconcile
  <2>2. CASE PendingIds(mem) # {}
    <3>1. PICK found \in SUBSET Findable : mem'.done = mem.done \cup found
      BY <1>1, <1>13, <2>2, ReconcileOK
    <3>2. PendingIds(mem) \subseteq Targets
      BY <1>1, StateParts DEF PendingOK, IsTable, PendingIds, Targets
    <3>3. found \subseteq {t \in Targets : board[t] > 0}
      BY <3>2 DEF Findable
    <3> QED BY <1>4, <1>13, <3>1, <3>3 DEF Reconcile
  <2> QED BY <2>1, <2>2
<1>14. CASE QueueVotes
  <2>1. PICK S \in SUBSET Plannable(Votes) :
          IF S = {} THEN pc' = "draft" /\ UNCHANGED <<mem, then>> ELSE Enqueue(S, "draft")
    BY <1>14 DEF QueueVotes
  <2>2. S \subseteq Targets
    BY DEF Plannable, Targets
  <2>3. mem'.done = mem.done
    BY <1>1, <2>1, <2>2, EnqueueOK
  <2> QED BY <1>4, <1>14, <2>3 DEF QueueVotes
<1>15. CASE QueueWrite
  <2>1. PICK w \in Plannable(Writes) : Enqueue({w}, "report")
    BY <1>15 DEF QueueWrite
  <2>2. {w} \subseteq Targets
    BY DEF Plannable, Targets
  <2>3. mem'.done = mem.done
    BY <1>1, <2>1, <2>2, EnqueueOK
  <2> QED BY <1>4, <1>15, <2>3 DEF QueueWrite
<1>16. CASE Report
  BY <1>4, <1>16 DEF Report, Save
<1>17. CASE Publish \/ ReconcileFails \/ SaveDatabase
  BY <1>4, <1>17 DEF Publish, ReconcileFails, SaveDatabase
<1>18. CASE SaveFile \/ Crash
  <2>1. db' = db /\ (mem' = mem \/ mem' = Empty)
    BY <1>18 DEF SaveFile, Crash
  <2> QED BY <1>4, <2>1, EmptyOK
<1>19. CASE Tick
  <2>1. db'.done = db.done /\ mem' = mem
    BY <1>1, <1>19, AgedStateOK DEF Tick
  <2> QED BY <1>4, <2>1
<1> QED BY <1>5, <1>6, <1>7, <1>8, <1>9, <1>10, <1>11, <1>12, <1>13, <1>14, <1>15,
           <1>16, <1>17, <1>18, <1>19
        DEF Next, Run, Executor, Heartbeat

\* With every fault: what is recorded as answered, upvoted or followed was done,
\* whether the executor or a reconciliation recorded it.
THEOREM RecordsTrue == Spec => []RecordsAreTrue
  BY RecordsInit, RecordsNext, TypeInvariant, PTL DEF Spec

----------------------------------------------------------------------------
\* Without faults: published once, never forgotten.

\* Runs may be killed and requests refused, but nothing in Faults happens; a
\* lease outlives a heartbeat period and every write has room to be pending.
Quiet == Faults = {} /\ Lease > 1 /\ Cardinality(Writes) <= MaxPending

Inv == TypeInv /\ RuntimeInv

LEMMA Types ==
  ASSUME Inv
  PROVE  /\ StateOK(db) /\ StateOK(mem) /\ JobsOK(file) /\ cur \subseteq Targets
         /\ board \in [Targets -> 0..MaxBoard] /\ beat \in BOOLEAN
         /\ \A w \in Writes : w \in Targets /\ board[w] \in Nat
         /\ PendingIds(mem) \subseteq Writes /\ PendingIds(db) \subseteq Writes
<1>1. /\ StateOK(db) /\ StateOK(mem) /\ JobsOK(file) /\ cur \subseteq Targets
      /\ board \in [Targets -> 0..MaxBoard] /\ beat \in BOOLEAN
  BY DEF Inv, TypeInv, TypeOK
<1>2. PendingOK(mem.pending) /\ PendingOK(db.pending)
  BY <1>1, StateParts
<1>3. PendingIds(mem) \subseteq Writes /\ PendingIds(db) \subseteq Writes
  BY <1>2 DEF PendingOK, IsTable, PendingIds
<1>4. \A w \in Writes : w \in Targets /\ board[w] \in Nat
  BY <1>1, Limits DEF Targets
<1> QED BY <1>1, <1>3, <1>4

\* While a run works, its copy is what is saved.
LEMMA Working ==
  ASSUME Inv, pc \notin {"idle", "save", "saveFile"}
  PROVE  mem = db /\ file = db.jobs /\ Settled(mem)
  BY DEF Inv, RuntimeInv, InStep, Settled

LEMMA QuietInit == Init => Inv
<1> SUFFICES ASSUME Init PROVE Inv
  OBVIOUS
<1>1. TypeInv
  BY TypeInit
<1>2. board = [t \in Targets |-> 0] /\ db = Empty /\ file = NoJobs /\ pc = "idle"
  BY DEF Init
<1>3. \A w \in Writes : board[w] = 0
  BY <1>2 DEF Targets
<1>4. Settled(db)
  BY <1>2, <1>3, EmptyOK DEF Settled, InStatus, Active, PendingIds
<1>5. InStep /\ InExecution /\ Reconciliation /\ WritesOnce
  BY <1>2, <1>3, EmptyOK DEF InStep, InExecution, Reconciliation, WritesOnce, Saving
<1> QED BY <1>1, <1>4, <1>5 DEF Inv, RuntimeInv

\* What a step shows that has changed the copy and saves it next.
LEMMA QuietSave ==
  ASSUME Inv, pc \notin {"save", "saveFile"},
         pc' = "save", then' # "publish", Settled(db)', Settled(mem)',
         UNCHANGED <<db, file, board>>,
         then' \in {"votes", "draft", "report"} =>
           \A w \in PendingIds(mem)' : board[w] = 0
  PROVE  RuntimeInv'
  BY DEF Inv, RuntimeInv, InStep, InExecution, Reconciliation, WritesOnce, Saving

\* A settled state stays settled when nothing that matters to it changes.
LEMMA SameSettled ==
  ASSUME UNCHANGED <<board, beat>>
  PROVE  /\ Settled(db) /\ UNCHANGED db => Settled(db)'
         /\ Settled(mem) /\ UNCHANGED mem => Settled(mem)'
         /\ Settled(mem) /\ db' = mem => Settled(db)'
  BY DEF Settled, PendingIds, Active, InStatus

\* A running write that was published is pending, and its lease has not expired:
\* stale recovery only makes writes wait that are new.
LEMMA RecoveredIsNew ==
  ASSUME Quiet, Inv, pc = "sweep", Orphans(mem) = {},
         NEW w \in Writes, w \in DOMAIN mem.jobs,
         RecoverStale(mem.jobs)[w].status \in {"queued", "failed"}
  PROVE  board[w] = 0
<1>1. Settled(mem) /\ StateOK(mem) /\ board[w] \in Nat /\ JobsOK(mem.jobs)
  BY Working, Types, StateParts
<1>2. CASE ~IsStale(mem.jobs[w])
  <2>1. mem.jobs[w].status \in {"queued", "failed"}
    BY <1>1, <1>2, Recovered
  <2> QED BY <1>1, <2>1 DEF Settled, InStatus
<1>3. CASE IsStale(mem.jobs[w])
  <2>1. mem.jobs[w].status = "running" /\ mem.jobs[w].age >= Lease
    BY <1>3 DEF IsStale
  <2>2. w \in PendingIds(mem)
    BY <2>1 DEF Orphans, InStatus
  <2>3. mem.jobs[w].age \in Int
    BY <1>1 DEF JobsOK, IsTable, Job
  <2>4. board[w] > 0 => mem.jobs[w].age <= IF beat THEN 0 ELSE 1
    BY <1>1, <2>1, <2>2 DEF Settled, InStatus
  <2> QED BY <1>1, <2>1, <2>3, <2>4, Limits DEF Quiet
<1> QED BY <1>2, <1>3

LEMMA QuietSweep == ASSUME Inv, Sweep PROVE RuntimeInv'
<1>1. /\ mem'.pending = mem.pending /\ mem'.done = mem.done
      /\ DOMAIN mem'.jobs \subseteq DOMAIN mem.jobs
      /\ \A u \in DOMAIN mem'.jobs : mem'.jobs[u] = mem.jobs[u]
      /\ pc' = "save" /\ then' = "sweep"
  BY Types, SweepOK
<1>2. pc = "sweep" /\ UNCHANGED <<db, file, cur, board, beat>>
  BY DEF Sweep
<1>3. Settled(mem) /\ Settled(db)
  BY <1>2, Working DEF Inv, RuntimeInv
<1>4. Settled(db)'
  BY <1>2, <1>3, SameSettled
<1>5. Settled(mem)'
  BY <1>1, <1>2, <1>3 DEF Settled, PendingIds, Active, InStatus
<1> QED BY <1>1, <1>2, <1>4, <1>5, QuietSave

LEMMA QuietPickNone == ASSUME Quiet, Inv, PickNone PROVE RuntimeInv'
<1>1. /\ mem'.pending = mem.pending /\ mem'.done = mem.done
      /\ DOMAIN mem'.jobs = DOMAIN mem.jobs
      /\ \A u \in DOMAIN mem.jobs :
           /\ mem'.jobs[u].status = RecoverStale(mem.jobs)[u].status
           /\ mem'.jobs[u].age = RecoverStale(mem.jobs)[u].age
      /\ pc' = "save" /\ then' = "idle"
  BY Types, PickNoneOK
<1>2. pc = "sweep" /\ Orphans(mem) = {} /\ UNCHANGED <<db, file, cur, board, beat>>
  BY DEF PickNone
<1>3. Settled(mem) /\ Settled(db) /\ JobsOK(mem.jobs)
  BY <1>2, Working, Types, StateParts DEF Inv, RuntimeInv
<1>4. Settled(db)'
  BY <1>2, <1>3, SameSettled
<1>5. \A u \in DOMAIN mem.jobs :
        /\ mem'.jobs[u].status \in {"queued", "running"} =>
             mem.jobs[u].status \in {"queued", "running"}
        /\ mem'.jobs[u].status = "running" => mem'.jobs[u].age = mem.jobs[u].age
                                              /\ mem.jobs[u].status = "running"
  BY <1>1, <1>3, Recovered DEF IsStale
<1>6. \A w \in Writes : w \in DOMAIN mem.jobs /\ mem'.jobs[w].status \in {"queued", "failed"}
                          => board[w] = 0
  BY <1>1, <1>2, RecoveredIsNew
<1>7. Settled(mem)'
  BY <1>1, <1>2, <1>3, <1>5, <1>6 DEF Settled, PendingIds, Active, InStatus
<1> QED BY <1>1, <1>2, <1>4, <1>7, QuietSave

LEMMA QuietPick == ASSUME Quiet, Inv, Pick PROVE RuntimeInv'
<1>1. /\ mem'.done = mem.done /\ DOMAIN mem'.jobs = DOMAIN mem.jobs
      /\ pc' = "save" /\ then' = "publish"
  BY Types, PickOK
<1>2. PICK t \in DOMAIN mem.jobs :
        /\ cur' = {t} /\ t \in Targets
        /\ RecoverStale(mem.jobs)[t].status = "queued"
        /\ mem'.jobs[t].status = "running" /\ mem'.jobs[t].age = 0
        /\ \A u \in DOMAIN mem.jobs : u # t =>
             /\ mem'.jobs[u].status = RecoverStale(mem.jobs)[u].status
             /\ mem'.jobs[u].age = RecoverStale(mem.jobs)[u].age
        /\ t \in Writes => t \in DOMAIN mem'.pending
        /\ DOMAIN mem'.pending \subseteq DOMAIN mem.pending \cup ({t} \cap Writes)
        /\ t \notin Writes \/ Cardinality(DOMAIN mem.pending \ {t}) < MaxPending =>
             DOMAIN mem'.pending = DOMAIN mem.pending \cup ({t} \cap Writes)
  BY Types, PickOK
<1>3. pc = "sweep" /\ Orphans(mem) = {} /\ UNCHANGED <<db, file, board, beat>>
  BY DEF Pick
<1>4. Settled(mem) /\ Settled(db) /\ JobsOK(mem.jobs)
  BY <1>3, Working, Types, StateParts DEF Inv, RuntimeInv
<1>5. Settled(db)'
  BY <1>3, <1>4, SameSettled
<1>6. t \in Writes => board[t] = 0
  BY <1>2, <1>3, RecoveredIsNew
\* There is room for one more pending write.
<1>7. t \in Writes => Cardinality(DOMAIN mem.pending \ {t}) < MaxPending
  <2> SUFFICES ASSUME t \in Writes PROVE Cardinality(DOMAIN mem.pending \ {t}) < MaxPending
    OBVIOUS
  <2>1. DOMAIN mem.pending \ {t} \subseteq Writes \ {t}
    BY Types DEF PendingIds
  <2>2. IsFiniteSet(Writes \ {t}) /\ Cardinality(Writes \ {t}) = Cardinality(Writes) - 1
    BY TargetsFinite, FS_RemoveElement
  <2>3. Cardinality(Writes) \in Nat
    BY TargetsFinite, FS_CardinalityType
  <2>4. /\ Cardinality(DOMAIN mem.pending \ {t}) \in Nat
        /\ Cardinality(DOMAIN mem.pending \ {t}) <= Cardinality(Writes \ {t})
    BY <2>1, <2>2, SmallerSet
  <2> QED BY <2>2, <2>3, <2>4, Limits DEF Quiet
<1>8. \A w \in Writes : w \in DOMAIN mem'.pending <=> w \in DOMAIN mem.pending \/ w = t
  <2>1. DOMAIN mem'.pending = DOMAIN mem.pending \cup ({t} \cap Writes)
    BY <1>2, <1>7
  <2> QED BY <2>1
<1>9. \A u \in DOMAIN mem.jobs :
        /\ mem'.jobs[u].status \in {"queued", "running"} =>
             mem.jobs[u].status \in {"queued", "running"}
        /\ u # t /\ mem'.jobs[u].status = "running" =>
             mem'.jobs[u].age = mem.jobs[u].age /\ mem.jobs[u].status = "running"
  BY <1>2, <1>4, Recovered DEF IsStale
<1>10. \A w \in Writes : w \in DOMAIN mem.jobs /\ mem'.jobs[w].status \in {"queued", "failed"}
                           => board[w] = 0
  BY <1>2, <1>3, RecoveredIsNew
<1>11. Settled(mem)'
  BY <1>1, <1>2, <1>3, <1>4, <1>6, <1>8, <1>9, <1>10 DEF Settled, PendingIds, Active, InStatus
<1>12. InExecution'
  BY <1>1, <1>2, <1>3, <1>6 DEF InExecution, Saving, InStatus, PendingIds
<1> QED BY <1>1, <1>3, <1>5, <1>11, <1>12
        DEF Inv, RuntimeInv, InStep, Reconciliation, WritesOnce, Saving

\* A write is requested only while nothing was published: it is new.
LEMMA QuietPublish == ASSUME Inv, Publish PROVE RuntimeInv'
<1>1. /\ pc = "publish" /\ pc' = "answer"
      /\ UNCHANGED <<db, file, mem, then, cur, beat>>
      /\ board' = [t \in Targets |-> IF t \in cur THEN Smaller(board[t] + 1, MaxBoard)
                                     ELSE board[t]]
  BY DEF Publish
<1>2. /\ mem = db /\ Settled(db) /\ file = db.jobs
      /\ db.done \subseteq Targets
  BY <1>1, Working, Types, StateParts
<1>3. /\ cur \subseteq InStatus(mem.jobs, {"running"})
      /\ \A w \in cur \cap Writes : w \in PendingIds(mem) /\ mem.jobs[w].age = 0 /\ board[w] = 0
  BY <1>1 DEF Inv, RuntimeInv, InExecution
<1>4. \A t \in Targets : /\ t \in cur => board'[t] > 0
                         /\ t \notin cur => board'[t] = board[t]
                         /\ board[t] > 0 => board'[t] > 0
  BY <1>1, Types, Limits DEF Smaller
<1>5. \A w \in cur \cap Writes : board'[w] <= 1
  BY <1>1, <1>3, Types, Limits DEF Smaller
<1>6. Settled(db)'
  <2>1. \A t \in db.done : board'[t] > 0
    BY <1>2, <1>4 DEF Settled
  <2>2. \A w \in Writes :
          /\ board'[w] > 0 => w \in db.done \cup PendingIds(db)
          /\ w \in InStatus(db.jobs, {"queued", "failed"}) => board'[w] = 0
          /\ board'[w] > 0 /\ w \in PendingIds(db) /\ w \in InStatus(db.jobs, {"running"})
               => db.jobs[w].age <= IF beat THEN 0 ELSE 1
    <3> SUFFICES ASSUME NEW w \in Writes
                 PROVE  /\ board'[w] > 0 => w \in db.done \cup PendingIds(db)
                        /\ w \in InStatus(db.jobs, {"queued", "failed"}) => board'[w] = 0
                        /\ board'[w] > 0 /\ w \in PendingIds(db)
                             /\ w \in InStatus(db.jobs, {"running"})
                             => db.jobs[w].age <= IF beat THEN 0 ELSE 1
      OBVIOUS
    <3>1. CASE w \in cur
      BY <1>2, <1>3, <3>1 DEF InStatus
    <3>2. CASE w \notin cur
      BY <1>2, <1>4, <3>2, Types DEF Settled
    <3> QED BY <3>1, <3>2
  <2> QED BY <1>1, <1>2, <2>1, <2>2 DEF Settled, PendingIds, Active, InStatus
<1>7. WritesOnce'
  BY <1>4, <1>5, Types DEF Inv, RuntimeInv, WritesOnce
<1>8. InExecution'
  BY <1>1, <1>3, <1>4, Types DEF InExecution, Saving, InStatus, PendingIds
<1> QED BY <1>1, <1>2, <1>6, <1>7, <1>8 DEF RuntimeInv, InStep, Reconciliation, Saving

LEMMA QuietPublished == ASSUME Inv, Published PROVE RuntimeInv'
<1>1. PICK t \in cur :
        /\ mem'.done = mem.done \cup {t}
        /\ DOMAIN mem'.pending = DOMAIN mem.pending \ {t}
        /\ DOMAIN mem'.jobs = DOMAIN mem.jobs \ {t}
        /\ \A u \in DOMAIN mem'.jobs : mem'.jobs[u] = mem.jobs[u]
  BY Types, PublishedOK
<1>2. /\ pc = "answer" /\ pc' = "save" /\ then' = "idle"
      /\ UNCHANGED <<db, file, cur, board, beat>>
  BY Types, PublishedOK DEF Published
<1>3. Settled(mem) /\ Settled(db) /\ board[t] > 0
  BY <1>2, Working DEF Inv, RuntimeInv, InExecution
<1>4. Settled(db)'
  BY <1>2, <1>3, SameSettled
<1>5. Settled(mem)'
  BY <1>1, <1>2, <1>3 DEF Settled, PendingIds, Active, InStatus
<1> QED BY <1>2, <1>4, <1>5, QuietSave

\* A refused write was not published, so nothing is lost with its pending write.
LEMMA QuietRefused == ASSUME Inv, Refused PROVE RuntimeInv'
<1>1. pc = "publish" /\ Failed /\ cur \subseteq DOMAIN mem.jobs
  BY DEF Refused, Inv, TypeInv, CurrentJob, Executing
<1>2. /\ pc' = "save" /\ then' = "idle"
      /\ UNCHANGED <<db, file, cur, board, beat>>
      /\ mem'.done = mem.done /\ DOMAIN mem'.jobs = DOMAIN mem.jobs
  BY <1>1, Types, FailedOK
<1>3. PICK t \in cur :
        /\ DOMAIN mem'.pending = DOMAIN mem.pending \ {t}
        /\ mem'.jobs[t].status \in {"queued", "failed"}
        /\ \A u \in DOMAIN mem.jobs : u # t => mem'.jobs[u] = mem.jobs[u]
  BY <1>1, Types, FailedOK
<1>4. /\ Settled(mem) /\ Settled(db) /\ t \in InStatus(mem.jobs, {"running"})
      /\ t \in Writes => board[t] = 0
  BY <1>1, Working DEF Inv, RuntimeInv, InExecution
<1>5. Settled(db)'
  BY <1>2, <1>4, SameSettled
<1>6. Settled(mem)'
  BY <1>2, <1>3, <1>4 DEF Settled, PendingIds, Active, InStatus
<1> QED BY <1>1, <1>2, <1>5, <1>6, QuietSave

\* A reconciliation records every pending write that was published.
LEMMA QuietReconcile == ASSUME Quiet, Inv, Reconcile PROVE RuntimeInv'
<1>1. pc = "reconcile" /\ UNCHANGED <<db, file, cur, board, beat>>
  BY DEF Reconcile
<1>2. /\ Settled(mem) /\ Settled(db) /\ mem = db /\ file = db.jobs /\ WritesOnce
  BY <1>1, Working DEF Inv, RuntimeInv
<1>3. Settled(db)'
  BY <1>1, <1>2, SameSettled
<1>4. CASE PendingIds(mem) = {}
  <2>1. pc' = "votes" /\ UNCHANGED <<mem, then>>
    BY <1>4 DEF Reconcile
  <2>2. PendingIds(mem)' = {}
    BY <1>4, <2>1 DEF PendingIds
  <2> QED BY <1>1, <1>2, <1>3, <2>1, <2>2
          DEF RuntimeInv, InStep, InExecution, Reconciliation, WritesOnce, Saving
<1>5. CASE PendingIds(mem) # {}
  <2>1. /\ mem'.jobs = mem.jobs /\ pc' = "save" /\ then' = "votes"
        /\ mem'.done = mem.done \cup Findable
        /\ DOMAIN mem'.pending \subseteq DOMAIN mem.pending \ Findable
    BY <1>5, Types, ReconcileOK DEF Quiet
  <2>2. \A w \in DOMAIN mem'.pending : w \in Writes /\ board[w] = 0
    BY <2>1, Types DEF Findable, PendingIds
  <2>3. \A w \in Findable : w \in Writes /\ w \in Targets /\ board[w] > 0
    BY Types DEF Findable
  <2>4. \A w \in Writes : board[w] > 0 => w \in mem.done \/ w \in Findable
    BY <1>2 DEF Settled, Findable
  <2>5. Settled(mem)'
    <3>1. (\A t \in mem.done : board[t] > 0)'
      BY <1>1, <1>2, <2>1, <2>3 DEF Settled
    <3>2. mem'.done \cap DOMAIN mem'.pending = {}
      BY <1>2, <2>1 DEF Settled, PendingIds
    <3>3. mem'.done \cap Votes \cap Active(mem'.jobs) = {}
      BY <1>2, <2>1, <2>3, QueueAssumption DEF Settled
    <3>4. \A w \in Writes :
            /\ board[w] > 0 => w \in mem'.done
            /\ w \in InStatus(mem'.jobs, {"queued", "failed"}) => board[w] = 0
            /\ ~ (board[w] > 0 /\ w \in DOMAIN mem'.pending)
      BY <1>2, <2>1, <2>2, <2>4 DEF Settled
    <3> QED BY <1>1, <3>1, <3>2, <3>3, <3>4 DEF Settled, PendingIds, Active, InStatus
  <2>6. \A w \in PendingIds(mem)' : board[w] = 0
    BY <2>2 DEF PendingIds
  <2> QED BY <1>1, <1>3, <2>1, <2>5, <2>6, QuietSave
<1> QED BY <1>4, <1>5

\* After reconciliation no pending write was published, so that the rest of the
\* heartbeat may count as the second one of a lease.
LEMMA AfterReconciliation ==
  ASSUME Inv, pc \in {"votes", "draft", "report"}, UNCHANGED <<db, board>>, beat' \in BOOLEAN
  PROVE  /\ \A w \in PendingIds(mem) : board[w] = 0
         /\ Settled(db)' /\ (UNCHANGED mem => Settled(mem)')
<1>1. /\ mem = db /\ Settled(db) /\ \A w \in PendingIds(mem) : board[w] = 0
  BY Working DEF Inv, RuntimeInv, Reconciliation
<1> QED BY <1>1 DEF Settled, PendingIds, Active, InStatus

\* Only what is neither done, pending nor waiting is queued.
LEMMA QuietEnqueue ==
  ASSUME Inv, pc \in {"votes", "draft"}, NEW S, S \subseteq Plannable(Targets),
         NEW next \in {"draft", "report"}, Enqueue(S, next),
         UNCHANGED <<db, file, cur, board>>, beat' \in BOOLEAN
  PROVE  RuntimeInv'
<1>1. S \subseteq Targets
  BY DEF Plannable
<1>2. /\ pc' = "save" /\ then' = next
      /\ mem'.pending = mem.pending /\ mem'.done = mem.done
      /\ \A t \in DOMAIN mem'.jobs :
           \/ t \in DOMAIN mem.jobs /\ mem'.jobs[t] = mem.jobs[t]
           \/ t \in S /\ mem'.jobs[t].status = "queued"
  BY <1>1, Types, EnqueueOK
<1>3. /\ Settled(mem) /\ Settled(db)' /\ \A w \in PendingIds(mem) : board[w] = 0
  BY Working, AfterReconciliation
<1>4. \A w \in S : w \notin mem.done /\ (w \in Writes => board[w] = 0)
  BY <1>3, Types DEF Plannable, Settled
<1>5. Settled(mem)'
  <2>1. (\A t \in mem.done : board[t] > 0)' /\ (mem.done \cap PendingIds(mem) = {})'
    BY <1>2, <1>3 DEF Settled, PendingIds
  <2>2. (mem.done \cap Votes \cap Active(mem.jobs) = {})'
    BY <1>2, <1>3, <1>4 DEF Settled, Active, InStatus
  <2>3. \A w \in Writes :
          /\ board[w] > 0 => w \in mem'.done \cup PendingIds(mem)'
          /\ w \in InStatus(mem'.jobs, {"queued", "failed"}) => board[w] = 0
          /\ ~ (board[w] > 0 /\ w \in PendingIds(mem)')
    BY <1>2, <1>3, <1>4 DEF Settled, InStatus, PendingIds
  <2> QED BY <2>1, <2>2, <2>3 DEF Settled, PendingIds, Active, InStatus
<1>6. \A w \in PendingIds(mem)' : board[w] = 0
  BY <1>2, <1>3 DEF PendingIds
<1> QED BY <1>2, <1>3, <1>5, <1>6, QuietSave

LEMMA QuietQueueVotes == ASSUME Inv, QueueVotes PROVE RuntimeInv'
<1>1. PICK S \in SUBSET Plannable(Votes) :
        IF S = {} THEN pc' = "draft" /\ UNCHANGED <<mem, then>> ELSE Enqueue(S, "draft")
  BY DEF QueueVotes
<1>2. pc = "votes" /\ beat' = TRUE /\ UNCHANGED <<db, file, cur, board>>
  BY DEF QueueVotes
<1>3. CASE S = {}
  <2>1. pc' = "draft" /\ UNCHANGED <<mem, then>>
    BY <1>1, <1>3
  <2>2. /\ mem = db /\ file = db.jobs /\ Settled(db)'
        /\ \A w \in PendingIds(mem) : board[w] = 0
    BY <1>2, Working, AfterReconciliation
  <2> QED BY <1>2, <2>1, <2>2
          DEF Inv, RuntimeInv, InStep, InExecution, Reconciliation, WritesOnce, Saving,
              PendingIds
<1>4. CASE S # {}
  <2>1. S \subseteq Plannable(Targets) /\ Enqueue(S, "draft")
    BY <1>1, <1>4 DEF Plannable, Targets
  <2> QED BY <1>2, <2>1, QuietEnqueue
<1> QED BY <1>3, <1>4

LEMMA QuietQueueWrite == ASSUME Inv, QueueWrite PROVE RuntimeInv'
<1>1. PICK w \in Plannable(Writes) : Enqueue({w}, "report")
  BY DEF QueueWrite
<1>2. {w} \subseteq Plannable(Targets)
  BY DEF Plannable, Targets
<1>3. pc = "draft" /\ UNCHANGED <<db, file, cur, board, beat>>
  BY DEF QueueWrite
<1> QED BY <1>1, <1>2, <1>3, Types, QuietEnqueue

LEMMA QuietReport == ASSUME Quiet, Inv, Report PROVE RuntimeInv'
<1>1. /\ pc \in {"votes", "draft", "report"} /\ beat' = TRUE
      /\ mem' = mem /\ pc' = "save" /\ then' = "idle"
      /\ UNCHANGED <<db, file, cur, board>>
  BY DEF Report, Save, Quiet
<1>2. Settled(db)' /\ Settled(mem)'
  BY <1>1, AfterReconciliation
<1> QED BY <1>1, <1>2, QuietSave

\* A run starts from the durable state, also when sqlite has no jobs.
LEMMA QuietStart == ASSUME Inv, StartExecutor \/ StartHeartbeat PROVE RuntimeInv'
<1>1. /\ pc = "idle" /\ pc' \in {"sweep", "reconcile"} /\ mem' = Load
      /\ UNCHANGED <<db, file, then, cur, board, beat>>
  BY DEF StartExecutor, StartHeartbeat
<1>2. Settled(db) /\ file = db.jobs /\ WritesOnce
  BY <1>1 DEF Inv, RuntimeInv, InStep
<1>3. Load = db
  BY <1>2, Types, StateParts DEF Load
<1>4. Settled(db)'
  BY <1>1, <1>2, SameSettled
<1> QED BY <1>1, <1>2, <1>3, <1>4
        DEF RuntimeInv, InStep, InExecution, Reconciliation, WritesOnce, Saving

LEMMA QuietSaveDatabase == ASSUME Inv, SaveDatabase PROVE RuntimeInv'
<1>1. /\ pc = "save" /\ pc' = "saveFile" /\ db' = mem
      /\ UNCHANGED <<file, mem, then, cur, board, beat>>
  BY DEF SaveDatabase
<1>2. Settled(mem) /\ InExecution /\ Reconciliation /\ WritesOnce
  BY <1>1 DEF Inv, RuntimeInv, InStep
<1>3. Settled(db)'
  BY <1>1, <1>2, SameSettled
<1> QED BY <1>1, <1>2, <1>3
        DEF RuntimeInv, InStep, InExecution, Reconciliation, WritesOnce, Saving,
            PendingIds, InStatus

LEMMA QuietSaveFile == ASSUME Inv, SaveFile PROVE RuntimeInv'
<1>1. /\ pc = "saveFile" /\ pc' = then /\ file' = mem.jobs
      /\ UNCHANGED <<db, then, board, beat>>
      /\ then \in {"idle", "sweep", "publish", "votes", "draft", "report"}
      /\ then # "idle" => UNCHANGED <<mem, cur>>
  BY DEF SaveFile, Inv, TypeInv, TypeOK
<1>2. mem = db /\ Settled(db) /\ InExecution /\ Reconciliation /\ WritesOnce
  BY <1>1 DEF Inv, RuntimeInv, InStep
<1>3. Settled(db)'
  BY <1>1, <1>2, SameSettled
<1> QED BY <1>1, <1>2, <1>3
        DEF RuntimeInv, InStep, InExecution, Reconciliation, WritesOnce, Saving,
            PendingIds, InStatus

\* A killed run leaves the durable state, which is settled.
LEMMA QuietCrash == ASSUME Quiet, Inv, Crash PROVE RuntimeInv'
<1>1. /\ pc # "saveFile" /\ pc' = "idle" /\ UNCHANGED <<db, file, board, beat>>
  BY DEF Crash, Quiet
<1>2. Settled(db) /\ file = db.jobs /\ WritesOnce
  BY <1>1 DEF Inv, RuntimeInv, InStep
<1>3. Settled(db)'
  BY <1>1, <1>2, SameSettled
<1> QED BY <1>1, <1>2, <1>3
        DEF RuntimeInv, InStep, InExecution, Reconciliation, WritesOnce, Saving

\* A period passes only after a heartbeat, so that leases get one period older.
LEMMA QuietTick == ASSUME Quiet, Inv, Tick PROVE RuntimeInv'
<1>1. /\ pc = "idle" /\ beat = TRUE /\ beat' = FALSE /\ pc' = "idle"
      /\ db' = AgedState(db) /\ file' = Aged(file) /\ board' = board
  BY DEF Tick, Quiet
<1>2. Settled(db) /\ file = db.jobs /\ WritesOnce /\ JobsOK(db.jobs)
  BY <1>1, Types, StateParts DEF Inv, RuntimeInv, InStep
<1>3. /\ db'.jobs = Aged(db.jobs) /\ db'.done = db.done
      /\ DOMAIN db'.pending = DOMAIN db.pending
  BY <1>1, Types, AgedStateOK
<1>4. /\ DOMAIN db'.jobs = DOMAIN db.jobs
      /\ \A t \in DOMAIN db.jobs : /\ db'.jobs[t].status = db.jobs[t].status
                                   /\ db'.jobs[t].age <= db.jobs[t].age + 1
  BY <1>2, <1>3, AgedOK
<1>5. \A t \in DOMAIN db.jobs : db.jobs[t].age \in Int /\ db'.jobs[t].age \in Int
  <2>1. JobsOK(db'.jobs)
    BY <1>2, <1>3, AgedOK
  <2> QED BY <1>2, <1>4, <2>1 DEF JobsOK, IsTable, Job
<1>6. Settled(db)'
  BY <1>1, <1>2, <1>3, <1>4, <1>5 DEF Settled, PendingIds, Active, InStatus
<1>7. file' = db'.jobs
  BY <1>1, <1>2, <1>3
<1> QED BY <1>1, <1>2, <1>6, <1>7
        DEF RuntimeInv, InStep, InExecution, Reconciliation, WritesOnce, Saving

LEMMA QuietNext == ASSUME Quiet PROVE Inv /\ [Next]_vars => Inv'
<1> SUFFICES ASSUME Inv, [Next]_vars PROVE Inv'
  OBVIOUS
<1>1. TypeInv'
  BY TypeNext DEF Inv
<1>2. RuntimeInv'
  <2>1. CASE UNCHANGED vars
    BY <2>1 DEF vars, Inv, RuntimeInv, Settled, InStep, InExecution, Reconciliation,
                WritesOnce, Saving, PendingIds, Active, InStatus
  <2>2. CASE Executor
    <3>1. ~AnswerLost
      BY DEF AnswerLost, Quiet
    <3> QED BY <2>2, <3>1, QuietStart, QuietSweep, QuietPickNone, QuietPick, QuietPublish,
               QuietPublished, QuietRefused DEF Executor
  <2>3. CASE Heartbeat
    <3>1. ~HeartbeatDown /\ ~ReconcileFails
      BY DEF HeartbeatDown, ReconcileFails, Quiet
    <3> QED BY <2>3, <3>1, QuietStart, QuietReconcile, QuietQueueVotes, QuietQueueWrite,
               QuietReport DEF Heartbeat
  <2>4. CASE SaveDatabase \/ SaveFile \/ Tick \/ Crash
    BY <2>4, QuietSaveDatabase, QuietSaveFile, QuietTick, QuietCrash
  <2> QED BY <2>1, <2>2, <2>3, <2>4 DEF Next, Run
<1> QED BY <1>1, <1>2 DEF Inv

\* Without faults the runtime keeps its inductive invariant.
THEOREM RuntimeCorrect == ASSUME Quiet PROVE Spec => []RuntimeInv
<1>1. Inv => RuntimeInv
  BY DEF Inv
<1> QED BY QuietInit, QuietNext, <1>1, PTL DEF Spec

\* Without faults an authored write is published at most once, whenever runs
\* are killed and however often requests are refused.
THEOREM PublishedOnce == ASSUME Quiet PROVE Spec => []WritesOnce
<1>1. RuntimeInv => WritesOnce
  BY DEF RuntimeInv
<1> QED BY RuntimeCorrect, <1>1, PTL

\* Without faults what was published is recorded, or pending until a heartbeat
\* finds it.
THEOREM NeverForgotten == ASSUME Quiet PROVE Spec => []NothingForgotten
<1>1. RuntimeInv => NothingForgotten
  BY DEF RuntimeInv, NothingForgotten, Settled
<1> QED BY RuntimeCorrect, <1>1, PTL

\* Without faults a write that waits for an attempt, or was given up, is new:
\* stale recovery and retries never bring back what was published.
THEOREM WaitingNew == ASSUME Quiet PROVE Spec => []WaitingIsNew
<1>1. RuntimeInv => WaitingIsNew
  BY DEF RuntimeInv, WaitingIsNew, Settled
<1> QED BY RuntimeCorrect, <1>1, PTL

\* Without faults nothing that is recorded as done, votes and follows
\* included, is requested again.
THEOREM RecordedFinal == ASSUME Quiet PROVE Spec => RecordedIsFinal
<1>1. ASSUME Inv, [Next]_vars
      PROVE  [\A t \in db.done : board'[t] = board[t]]_vars
  <2>1. CASE Publish
    <3>1. mem = db /\ Settled(db) /\ db.done \subseteq Targets
      BY <1>1, <2>1, Working, Types, StateParts DEF Publish
    <3>2. /\ cur \subseteq InStatus(db.jobs, {"running"})
          /\ \A w \in cur \cap Writes : board[w] = 0
      BY <1>1, <2>1, <3>1 DEF Publish, Inv, RuntimeInv, InExecution
    <3>3. db.done \cap cur = {}
      BY <3>1, <3>2 DEF Settled, Active, InStatus, Targets
    <3> QED BY <2>1, <3>1, <3>3 DEF Publish
  <2>2. CASE board' = board
    BY <2>2
  <2> QED BY <1>1, <2>1, <2>2
      DEF Next, Run, Executor, Heartbeat, vars, StartExecutor, Sweep, PickNone, Pick,
          Published, Refused, AnswerLost, Failed, StartHeartbeat, HeartbeatDown, Reconcile,
          ReconcileFails, QueueVotes, QueueWrite, Report, SaveDatabase, SaveFile, Tick, Crash
<1> QED BY QuietInit, QuietNext, <1>1, PTL DEF Spec, RecordedIsFinal

----------------------------------------------------------------------------
\* The views of MCVenue together.  Each of them does its own steps or none.
LEMMA EachView == VenueSpec => Spec /\ BudgetSpec /\ ClientSpec
<1>1. VenueInit => Init /\ BudgetInit /\ ClientInit
  BY DEF VenueInit
<1>2. [VenueNext]_venueVars => [Next]_vars /\ [BudgetNext]_budgetVars /\ [ClientNext]_clientVars
  BY DEF VenueNext, venueVars
<1> QED BY <1>1, <1>2, PTL DEF VenueSpec, Spec, BudgetSpec, ClientSpec

\* The runtime, the budgets and the verification keep their type invariants, whichever it
\* is that moves.
THEOREM VenueTypesCorrect == VenueSpec => []TypesOK
<1>1. TypeOK /\ BudgetTypeOK /\ ClientTypeOK => TypesOK
  BY DEF TypesOK
<1> QED BY <1>1, EachView, TypeCorrect, BudgetTypeCorrect, ClientTypeCorrect, PTL

----------------------------------------------------------------------------
\* The challenges of the instance.

\* The words of the instance.
LEMMA InstanceWords ==
  ASSUME NEW v \in Nat, NEW n \in 1..3
  PROVE  /\ DOMAIN Wide(n, v) = {n} /\ Wide(n, v)[n] = v /\ Wide(n, v) \in Word
         /\ DOMAIN NotNumber = {} /\ NotNumber \in Word
<1>1. Wide(n, v) = [k \in {n} |-> v]
  BY DEF Wide
<1>2. Wide(n, v) \in [{n} -> Nat] /\ {n} \in SUBSET (1..3)
  BY <1>1
<1> QED BY <1>1, <1>2, SilentWord DEF Word

\* Of a set of one width this is the widest.
LEMMA OneWidth ==
  ASSUME NEW n \in 1..3
  PROVE  Widest({n}) = n
<1>1. {n} \subseteq 1..3 /\ {n} # {}
  OBVIOUS
<1> QED BY <1>1, WidestIs

\* A number in n words is one.
LEMMA SplitIs ==
  ASSUME NEW v \in Nat, NEW n \in 1..3
  PROVE  Split(v, n) \in Seq(Word) /\ IsNumber(Split(v, n), v)
<1>1. /\ Split(v, n) = [i \in 1..n |-> IF i = 1 THEN Wide(n, v) ELSE NotNumber]
      /\ Wide(n, v) \in Word /\ NotNumber \in Word
  BY InstanceWords DEF Split
<1>2. Split(v, n) \in Seq(Word) /\ Len(Split(v, n)) = n /\ Split(v, n)[1] = Wide(n, v)
  BY <1>1
<1>3. Split(v, n) # <<>>
  BY <1>2
<1>4. DOMAIN Wide(n, v) = {n} /\ Wide(n, v)[n] = v /\ Widest({n}) = n
  BY InstanceWords, OneWidth
<1> QED BY <1>2, <1>3, <1>4 DEF IsNumber

\* So is one that is read as itself and together with the next word.
LEMMA AttachedIs ==
  ASSUME NEW v \in Nat
  PROVE  Attached(v) \in Seq(Word) /\ IsNumber(Attached(v), v)
<1> DEFINE first == [n \in 1..2 |-> v]
<1>1. first \in Word /\ NotNumber \in Word
  <2>1. first \in [1..2 -> Nat] /\ 1..2 \in SUBSET (1..3)
    OBVIOUS
  <2> QED BY <2>1, SilentWord DEF Word
<1>2. DOMAIN first = 1..2 /\ first[2] = v /\ 1..2 # {} /\ Widest(1..2) = 2
  <2>1. 1..2 \subseteq 1..3 /\ 1..2 # {} /\ 2 \in 1..2
    OBVIOUS
  <2>2. Widest(1..2) \in 1..2 /\ 2 <= Widest(1..2)
    BY <2>1, WidestIs
  <2> QED BY <2>1, <2>2
<1> HIDE DEF first
<1>3. Attached(v) = <<first, NotNumber>>
  BY DEF Attached, first
<1>4. /\ Attached(v) \in Seq(Word) /\ Len(Attached(v)) = 2 /\ Attached(v)[1] = first
      /\ Attached(v) # <<>>
  BY <1>1, <1>3
<1> QED BY <1>2, <1>4 DEF IsNumber

\* Every spelling of the instance is one of an operand.
LEMMA SpellingIs ==
  ASSUME NEW v \in Nat, NEW t \in 1..3, NEW u \in 1..3
  PROVE  Spelling(v, t, u) \in Seq(Word) /\ Spelled(Spelling(v, t, u), v)
<1>1. CASE v < 20 \/ v % 10 = 0
  <2>1. Spelling(v, t, u) = Split(v, t)
    BY <1>1 DEF Spelling
  <2>2. Split(v, t) \in Seq(Word) /\ IsNumber(Split(v, t), v)
    BY SplitIs
  <2> QED BY <2>1, <2>2 DEF Spelled
<1>2. CASE ~(v < 20 \/ v % 10 = 0)
  <2>1. PICK w \in Nat, x \in 1..9 : /\ w = v - (v % 10) /\ x = v % 10 /\ v = w + x
                                     /\ w >= 20 /\ w % 10 = 0
    <3>1. v % 10 \in 1..9 /\ v - (v % 10) \in Nat /\ v - (v % 10) >= 20 /\ (v - (v % 10)) % 10 = 0
      BY <1>2
    <3> QED BY <3>1
  <2>2. Spelling(v, t, u) = Split(w, t) \o Split(x, u)
    BY <1>2, <2>1 DEF Spelling
  <2>3. PICK y \in Seq(Word), z \in Seq(Word) :
          y = Split(w, t) /\ z = Split(x, u) /\ IsNumber(y, w) /\ IsNumber(z, x)
    <3>1. x \in Nat
      OBVIOUS
    <3>2. Split(w, t) \in Seq(Word) /\ IsNumber(Split(w, t), w)
      BY SplitIs
    <3>3. Split(x, u) \in Seq(Word) /\ IsNumber(Split(x, u), x)
      BY <3>1, SplitIs
    <3> QED BY <3>2, <3>3
  <2>4. y \o z \in Seq(Word)
    BY ConcatProperties
  <2>5. Spelling(v, t, u) = y \o z
    BY <2>2, <2>3
  <2>6. Spelled(y \o z, v)
    BY <2>1, <2>3 DEF Spelled
  <2> QED BY <2>4, <2>5, <2>6
<1> QED BY <1>1, <1>2

\* Small counts stand beside the operands.
LEMMA InstanceCounts ==
  /\ NotNumber \in Beside(2) /\ \A k \in 0..2 : Wide(1, k) \in Beside(2)
<1>1. NotNumber \in Beside(2)
  BY SilentWord DEF Beside
<1>2. ASSUME NEW k \in 0..2 PROVE Wide(1, k) \in Beside(2)
  <2>1. k \in Nat /\ 1 \in 1..3
    OBVIOUS
  <2>2. DOMAIN Wide(1, k) = {1} /\ Wide(1, k)[1] = k /\ Wide(1, k) \in Word
    BY <2>1, InstanceWords
  <2> QED BY <2>2 DEF Beside
<1> QED BY <1>1, <1>2

\* No words, and two of them.
LEMMA TwoWords ==
  ASSUME NEW S, NEW x \in S, NEW y \in S
  PROVE  <<x, y>> \in Seq(S) /\ <<>> \in Seq(S)
OBVIOUS

\* A text with two operands asks for them.
LEMMA TextAsks ==
  ASSUME NEW a \in 3..99, NEW b \in 3..99, NEW x \in Seq(Word), NEW y \in Seq(Word),
         Spelled(x, a), Spelled(y, b), NEW left \in Seq(Beside(2)), NEW right \in Seq(Beside(2)),
         right = <<>> \/ right[1] = NotNumber,
         NEW words, words = left \o x \o <<NotNumber>> \o y \o right
  PROVE  Asks(words, a, b) /\ words \in Seq(Word)
<1>1. PICK between \in Seq(Beside(2)) : between = <<NotNumber>>
  <2>1. <<NotNumber>> \in Seq(Beside(2))
    BY InstanceCounts
  <2> QED BY <2>1
<1>2. between # <<>> /\ between[1] = NotNumber
  BY <1>1
<1>3. words = left \o x \o between \o y \o right
  BY <1>1
<1>4. 2 \in 0..19 /\ 2 < a /\ 2 < b
  OBVIOUS
<1>5. Asks(words, a, b)
  BY <1>2, <1>3, <1>4 DEF Asks
<1>6. Beside(2) \subseteq Word
  BY DEF Beside
<1>7. left \in Seq(Word) /\ between \in Seq(Word) /\ right \in Seq(Word)
  BY <1>6, SeqMonotonic
<1>8. Five(Word, left, x, between, y, right, words)
  BY <1>3, <1>7 DEF Five
<1> QED BY <1>5, <1>8, FiveParts

\* A text of a challenge is asked for its result, or says nothing.
Asking(text, operation, a, b) ==
  /\ text \in Texts /\ operation \in Operations /\ text.said = {operation}
  /\ Asks(text.words, a, b)
  /\ operation = "divided" => (200 * a) % (2 * b) # b

LEMMA AskedIs ==
  ASSUME NEW operation \in Operations, NEW a \in 3..99, NEW b \in 3..99,
         operation = "divided" => (200 * a) % (2 * b) # b,
         NEW x \in Seq(Word), NEW y \in Seq(Word), Spelled(x, a), Spelled(y, b),
         NEW left \in Seq(Beside(2)), NEW right \in Seq(Beside(2)),
         right = <<>> \/ right[1] = NotNumber
  PROVE  Asking(Asked(operation, x, y, left, right), operation, a, b)
<1>1. PICK words : words = left \o x \o <<NotNumber>> \o y \o right
  OBVIOUS
<1>2. Asks(words, a, b) /\ words \in Seq(Word)
  BY <1>1, TextAsks
<1>3. Asked(operation, x, y, left, right) = [words |-> words, said |-> {operation}]
  BY <1>1 DEF Asked
<1>4. [words |-> words, said |-> {operation}] \in Texts
  BY <1>2 DEF Texts
<1> QED BY <1>2, <1>3, <1>4 DEF Asking

\* A challenge with one text that asks is regular, and one with a second after a text that
\* says nothing.
LEMMA OneText ==
  ASSUME NEW c, NEW text, NEW operation, NEW a \in Nat, NEW b \in Nat,
         Asking(text, operation, a, b), c.texts = <<text>>, c.truth = Apply(operation, a, b)
  PROVE  Regular(c)
<1>1. text \in Texts /\ operation \in Operations
  BY DEF Asking
<1>2. c.texts \in Seq(Texts) /\ Len(c.texts) = 1 /\ c.texts[1] = text
  BY <1>1
<1>3. 1 \in 1..Len(c.texts) /\ \A j \in 1..1 - 1 : c.texts[j].said = {}
  BY <1>2
<1> QED BY <1>1, <1>2, <1>3 DEF Regular, Asking

LEMMA SecondText ==
  ASSUME NEW c, NEW before \in Texts, before.said = {}, NEW text, NEW operation, NEW a \in Nat,
         NEW b \in Nat, Asking(text, operation, a, b), c.texts = <<before, text>>,
         c.truth = Apply(operation, a, b)
  PROVE  Regular(c)
<1>1. text \in Texts /\ operation \in Operations
  BY DEF Asking
<1>2. c.texts \in Seq(Texts) /\ Len(c.texts) = 2 /\ c.texts[1] = before /\ c.texts[2] = text
  BY <1>1
<1>3. 2 \in 1..Len(c.texts) /\ \A j \in 1..2 - 1 : c.texts[j].said = {}
  BY <1>2
<1> QED BY <1>1, <1>2, <1>3 DEF Regular, Asking

\* The operands of the instance; 17 by 6 is no answer's half.
LEMMA InstanceOperands ==
  ASSUME NEW operation \in Operations
  PROVE  \E a, b \in 3..99 : /\ Operands(operation)[1] = a /\ Operands(operation)[2] = b
                             /\ operation = "divided" => (200 * a) % (2 * b) # b
<1>1. CASE operation = "divided"
  <2>1. Operands(operation)[1] = 17 /\ Operands(operation)[2] = 6
    BY <1>1 DEF Operands
  <2>2. (200 * 17) % (2 * 6) # 6 /\ 17 \in 3..99 /\ 6 \in 3..99
    OBVIOUS
  <2> QED BY <2>1, <2>2
<1>2. CASE operation # "divided"
  BY <1>2 DEF Operands, Operations
<1> QED BY <1>1, <1>2

\* A text of the instance asks for its operands.
LEMMA TextIs ==
  ASSUME NEW op \in Operations, NEW t \in 1..3, NEW u \in 1..3,
         NEW left \in Seq(Beside(2)), NEW right \in Seq(Beside(2)),
         right = <<>> \/ right[1] = NotNumber, NEW c,
         c.texts = <<Text(op, t, u, left, right)>>,
         c.truth = Apply(op, Operands(op)[1], Operands(op)[2])
  PROVE  Regular(c)
<1>1. PICK a \in 3..99, b \in 3..99 :
        /\ Operands(op)[1] = a /\ Operands(op)[2] = b
        /\ op = "divided" => (200 * a) % (2 * b) # b
  BY InstanceOperands
<1>2. a \in Nat /\ b \in Nat
  BY ONLY a \in 3..99, b \in 3..99
<1>3. PICK x \in Seq(Word), y \in Seq(Word) :
        x = Spelling(a, t, u) /\ y = Spelling(b, u, t) /\ Spelled(x, a) /\ Spelled(y, b)
  BY <1>2, SpellingIs
<1>4. PICK text : text = Asked(op, x, y, left, right)
  OBVIOUS
<1>5. Asking(text, op, a, b)
  BY <1>1, <1>3, <1>4, AskedIs
<1>6. Text(op, t, u, left, right) = text
  BY <1>1, <1>3, <1>4 DEF Text
<1>7. c.texts = <<text>> /\ c.truth = Apply(op, a, b)
  BY <1>1, <1>6, Zenon
<1> QED BY <1>2, <1>5, <1>7, OneText

\* Those of the instance that are marked as regular are so, as RulesCorrect assumes.
LEMMA InstanceIsRegular == \A c \in MCChallenges : c.regular => Regular(c)
<1> SUFFICES ASSUME NEW c \in MCChallenges, c.regular PROVE Regular(c)
  OBVIOUS
<1> DEFINE Sums == {[texts |-> <<Text(op, t, u, left, right)>>, regular |-> TRUE,
                     truth |-> Apply(op, Operands(op)[1], Operands(op)[2])] :
             op \in Operations, t \in 1..3, u \in {1, 2},
             left \in {<<Wide(1, 1), NotNumber>>}, right \in {<<>>, <<NotNumber, Wide(1, 2)>>}}
<1>1. \/ c \in Sums
      \/ c = [texts |-> <<Unread, Short>>, truth |-> 800, regular |-> TRUE]
      \/ c = [texts |-> <<Inexact>>, truth |-> 1700, regular |-> TRUE]
  BY DEF MCChallenges
<1>2. PICK none \in Seq(Beside(2)) : none = <<>>
  BY InstanceCounts, TwoWords
<1>3. CASE c \in Sums
  <2>1. PICK op \in Operations, t \in 1..3, u \in {1, 2},
             left \in {<<Wide(1, 1), NotNumber>>}, right \in {<<>>, <<NotNumber, Wide(1, 2)>>} :
          c = [texts |-> <<Text(op, t, u, left, right)>>, regular |-> TRUE,
               truth |-> Apply(op, Operands(op)[1], Operands(op)[2])]
    BY <1>3
  <2>2. u \in 1..3
    BY ONLY u \in {1, 2}
  <2>3. left \in Seq(Beside(2)) /\ right \in Seq(Beside(2))
    <3>1. PICK one \in Beside(2), two \in Beside(2), word \in Beside(2) :
            one = Wide(1, 1) /\ two = Wide(1, 2) /\ word = NotNumber
      BY InstanceCounts
    <3>2. <<one, word>> \in Seq(Beside(2)) /\ <<word, two>> \in Seq(Beside(2))
      BY TwoWords
    <3> QED BY <1>2, <3>1, <3>2
  <2>4. right = <<>> \/ right[1] = NotNumber
    OBVIOUS
  <2>5. /\ c.texts = <<Text(op, t, u, left, right)>>
        /\ c.truth = Apply(op, Operands(op)[1], Operands(op)[2])
    BY <2>1
  <2> QED BY <2>2, <2>3, <2>4, <2>5, TextIs
<1>4. CASE c = [texts |-> <<Unread, Short>>, truth |-> 800, regular |-> TRUE]
  <2>1. PICK a \in 3..99, b \in 3..99, op \in Operations : a = 5 /\ b = 3 /\ op = "plus"
    BY DEF Operations
  <2>2. PICK x \in Seq(Word), y \in Seq(Word) :
          x = Split(a, 1) /\ y = Split(b, 1) /\ Spelled(x, a) /\ Spelled(y, b)
    <3>1. a \in Nat /\ b \in Nat /\ 1 \in 1..3
      OBVIOUS
    <3> QED BY <3>1, SplitIs DEF Spelled
  <2>3. Asking(Asked(op, x, y, none, none), op, a, b)
    <3>1. op = "divided" => (200 * a) % (2 * b) # b
      BY <2>1
    <3> QED BY <1>2, <2>2, <3>1, AskedIs
  <2>4. Short = Asked(op, x, y, none, none)
    BY <1>2, <2>1, <2>2 DEF Short
  <2>5. Unread \in Texts /\ Unread.said = {}
    BY InstanceCounts, SilentWord DEF Unread, Texts
  <2>6. c.texts = <<Unread, Short>> /\ c.truth = Apply(op, a, b)
    BY <1>4, <2>1 DEF Apply
  <2>7. Asking(Short, op, a, b) /\ a \in Nat /\ b \in Nat
    BY <2>3, <2>4
  <2> QED BY <2>5, <2>6, <2>7, SecondText
<1>5. CASE c = [texts |-> <<Inexact>>, truth |-> 1700, regular |-> TRUE]
  <2>1. PICK a \in 3..99, b \in 3..99, op \in Operations : a = 20 /\ b = 3 /\ op = "minus"
    BY DEF Operations
  <2>2. PICK x \in Seq(Word), y \in Seq(Word) :
          x = Attached(a) /\ y = Split(b, 1) /\ Spelled(x, a) /\ Spelled(y, b)
    <3>1. a \in Nat /\ b \in Nat /\ 1 \in 1..3
      OBVIOUS
    <3> QED BY <3>1, AttachedIs, SplitIs DEF Spelled
  <2>3. Asking(Asked(op, x, y, none, none), op, a, b)
    <3>1. op = "divided" => (200 * a) % (2 * b) # b
      BY <2>1
    <3> QED BY <1>2, <2>2, <3>1, AskedIs
  <2>4. Inexact = Asked(op, x, y, none, none)
    BY <1>2, <2>1, <2>2 DEF Inexact
  <2>5. c.texts = <<Inexact>> /\ c.truth = Apply(op, a, b)
    BY <1>5, <2>1 DEF Apply
  <2>6. Asking(Inexact, op, a, b) /\ a \in Nat /\ b \in Nat
    BY <2>3, <2>4
  <2> QED BY <2>5, <2>6, OneText
<1> HIDE DEF Sums
<1> QED BY <1>1, <1>3, <1>4, <1>5
=============================================================================
