--------------------------- MODULE PromptRotation ---------------------------
(***************************************************************************)
(* How the Moltbook side of the outreach agent rotates the variants of its *)
(* writing prompt, and what it does about posts that Moltbook flags.       *)
(*                                                                         *)
(* prompt-rotation.json has a bucket for each kind of write: the variant   *)
(* in use and how many writes were published since the last rotation.  A   *)
(* draft takes the variant of its bucket; when it is published, long after *)
(* that perhaps, the bucket is told.  Heartbeats pause posting when a post *)
(* was flagged.  MoltbookRuntime has the queue in detail; here a job is    *)
(* queued or running, and its copies in the database and in state.json are *)
(* one.                                                                    *)
(***************************************************************************)
EXTENDS Integers, FiniteSets, FiniteSetsExt, Functions

CONSTANTS
  Post, Reply, \* what can be written
  Variant,     \* the variants of the prompt
  NoVariant,
  Windows,     \* MIN_ROTATION_WINDOW..MAX_ROTATION_WINDOW
  MaxAge,      \* MAX_VARIANT_AGE_MS, in periods
  MaxQueue,    \* MAX_QUEUED_ACTION_JOBS
  SpamPause,   \* MOLTBOOK_SPAM_PAUSE_MS, in periods
  FailedPause, \* MOLTBOOK_FAILED_VERIFICATION_PAUSE_MS, in periods
  MaxFaults    \* bound of the model on faults

ASSUME RotationAssumption ==
  /\ Post \cap Reply = {} /\ NoVariant \notin Variant
  /\ Windows \subseteq Nat \ {0} /\ \E widest \in Windows : \A n \in Windows : n <= widest
  /\ {MaxAge, MaxQueue, SpamPause, FailedPause} \subseteq Nat \ {0}
  /\ MaxFaults \in Nat

VARIABLES
  buckets,  \* prompt-rotation.json: the bucket of each scope, if it has one
  last,     \* prompt-rotation.json: the scope that was stored last, if any
  state,    \* the durable state of the agent
  copy,     \* the copy of the run in progress
  step,     \* what the run does next
  on,       \* the writes it has worked on in this phase
  chosen,   \* the variant that the next draft is written with
  live,     \* external: what was published at Moltbook
  flagged,  \* external: the posts that Moltbook has flagged
  owed,     \* what is left of the longest pause that a saved flag calls for
  found,    \* the longest pause that the flags found in this phase call for
  faults    \* runs that were killed, or failed after the record of a success

store == <<buckets, last>>
moltbook == <<live, flagged>>
rotationVars == <<store, state, copy, step, on, chosen, moltbook, owed, found, faults>>

Write == Post \cup Reply
Scope == {"create_post", "reply_to_activity"}
ScopeOf(w) == IF w \in Post THEN "create_post" ELSE "reply_to_activity"

NoWindow == 0

\* count, window: actionsSinceRotation, rotateAfterActions.  age: since lastActionAt
\* or, as long as there was no action, since lastSelectedAt.
NewBucket ==
  [variant |-> NoVariant, count |-> 0, window |-> Min(Windows),
   acted |-> FALSE, age |-> 0]

NoChoice == [variant |-> NoVariant, window |-> NoWindow, reused |-> FALSE]

\* jobs: the choice each draft was written with; pause: what is left of
\* outboundPostPauseUntil; processed: moltbookProcessedModerationPostIds.
EmptyState ==
  [jobs |-> [w \in {} |-> NoChoice], running |-> {}, pending |-> {},
   artifacts |-> {}, processed |-> {}, pause |-> 0]

RotationInit ==
  /\ buckets = [s \in {} |-> NewBucket] /\ last = "none"
  /\ state = EmptyState /\ copy = EmptyState
  /\ step = "idle" /\ on = {} /\ chosen = NoChoice
  /\ live = {} /\ flagged = {}
  /\ owed = 0 /\ found = 0 /\ faults = 0

Then(next) == step' = next

----------------------------------------------------------------------------
\* The rotation store.

\* A scope without a bucket takes over the one that was stored last.
Bucket(s) ==
  IF s \in DOMAIN buckets THEN buckets[s]
  ELSE IF last # "none" THEN buckets[last] ELSE NewBucket

StoreBucket(s, b) ==
  /\ buckets' = [x \in DOMAIN buckets \cup {s} |-> IF x = s THEN b ELSE buckets[x]]
  /\ last' = s

ShouldRotate(b) ==
  \/ b.variant = NoVariant
  \/ b.count >= b.window
  \/ b.age >= MaxAge

\* A selection does not count as an action, not even one that rotates.
Selected(b) == [b EXCEPT !.age = IF b.acted THEN @ ELSE 0]

RotatedTo(b, v, n) == [Selected(b) EXCEPT !.variant = v, !.count = 0, !.window = n]

\* The language model picks any variant, or the scores of the history do.
Rotated(b) == {RotatedTo(b, v, n) : v \in Variant, n \in Windows}

\* What a recorded action makes of a bucket.  One that counts begins a new count
\* when the write's variant is not the current one, or was new when it was drafted.
Told(b, c, counts) ==
  LET fresh == c.variant # b.variant \/ (c.window # NoWindow /\ ~c.reused)
  IN [b EXCEPT !.variant = c.variant,
               !.count = IF ~counts THEN @ ELSE IF fresh THEN 1 ELSE @ + 1,
               !.window = IF c.window # NoWindow THEN c.window ELSE @,
               !.acted = TRUE, !.age = 0]

\* Its entry only matters to later scores, and Rotated allows for any.
RecordAction(s, c, counts) ==
  StoreBucket(s, Told(Bucket(s), c, counts))

----------------------------------------------------------------------------
\* Executor run: one job.

\* A running job whose pending write is gone was settled by a heartbeat.
SweepJobs(s) ==
  [s EXCEPT !.jobs = Restrict(@, DOMAIN @ \ (s.running \ s.pending)),
            !.running = @ \cap s.pending]

PickJob ==
  /\ step = "idle"
  /\ LET s == SweepJobs(state)
     IN \E w \in DOMAIN s.jobs \ s.running :
          /\ state' = [s EXCEPT !.running = @ \cup {w}, !.pending = @ \cup {w}]
          /\ on' = {w}
  /\ copy' = state' /\ Then("publish")
  /\ UNCHANGED <<store, chosen, moltbook, owed, found, faults>>

PublishJob ==
  /\ step = "publish"
  /\ live' = live \cup on /\ Then("answer")
  /\ UNCHANGED <<store, state, copy, on, chosen, flagged, owed, found, faults>>

\* The bucket is told before the state is saved.
RecordPublished ==
  /\ step = "answer"
  /\ \E w \in on : RecordAction(ScopeOf(w), copy.jobs[w], TRUE)
  /\ Then("published")
  /\ UNCHANGED <<state, copy, on, chosen, moltbook, owed, found, faults>>

Own(w) == <<"own", w>>
Remote(p) == <<"remote", p>>
Artifact(id, v) == [id |-> id, variant |-> v]

\* What was published is remembered by the fingerprint of its text; its id at
\* Moltbook is not kept.
Recovered(s, S) ==
  [s EXCEPT !.artifacts = @ \cup {Artifact(Own(w), s.jobs[w].variant) : w \in S},
            !.pending = @ \ S]

Settled(s) ==
  [Recovered(s, on) EXCEPT !.jobs = Restrict(@, DOMAIN @ \ on), !.running = @ \ on]

SavePublished ==
  /\ step = "published"
  /\ state' = Settled(copy)
  /\ copy' = EmptyState /\ on' = {} /\ Then("idle")
  /\ UNCHANGED <<store, chosen, moltbook, owed, found, faults>>

\* The record of a failure is not counted, and may itself fail.
RecordFailure ==
  /\ UNCHANGED store \/ \E w \in on : RecordAction(ScopeOf(w), copy.jobs[w], FALSE)
  /\ Then("failed")
  /\ UNCHANGED <<state, on, chosen, moltbook, owed, found>>

\* Refused, or carried out at Moltbook and reported as an error.
RecordFailed ==
  step \in {"publish", "answer"} /\ RecordFailure /\ UNCHANGED <<copy, faults>>

\* What follows the record of a success fails: the audit of the rotation, and then
\* the job counts as failed, or marking notifications as read, and then it is done.
FailAfterRecord ==
  /\ step = "published" /\ faults < MaxFaults
  /\ faults' = faults + 1
  /\ copy' \in {copy, Settled(copy)}
  /\ RecordFailure

\* The job waits for another attempt, or it is given up.
SaveFailed ==
  /\ step = "failed"
  /\ \E left \in {DOMAIN copy.jobs, DOMAIN copy.jobs \ on} :
       state' = [copy EXCEPT !.jobs = Restrict(@, left),
                            !.running = @ \ on, !.pending = @ \ on]
  /\ copy' = EmptyState /\ on' = {} /\ Then("idle")
  /\ UNCHANGED <<store, chosen, moltbook, owed, found, faults>>

----------------------------------------------------------------------------
\* Heartbeat: account health.

\* Posts of the profile that no artifact has the id of are added without a variant.
Backfill ==
  /\ step = "idle"
  /\ LET known == {a.id : a \in state.artifacts}
         missing == {p \in live \cap Post : Remote(p) \notin known}
     IN copy' = [state EXCEPT !.artifacts =
                  @ \cup {Artifact(Remote(p), NoVariant) : p \in missing}]
  /\ Then("health")
  /\ UNCHANGED <<store, state, on, chosen, moltbook, owed, found, faults>>

\* The profile cannot be read.
SkipHealth ==
  /\ step = "idle"
  /\ copy' = state /\ Then("reconcile")
  /\ UNCHANGED <<store, state, on, chosen, moltbook, owed, found, faults>>

PauseFor(flag) == IF flag = "spam" THEN SpamPause ELSE FailedPause

ExtendPause_Replaced(pause, n) == n

\* A pause that lasts longer is not shortened.
ExtendPause(pause, n) == IF pause > n THEN pause ELSE n

\* Without a variant nothing is recorded, and no artifact has the id of a post and
\* a variant: the variant of a flagged post is not penalized.
RecordModeration(p) ==
  LET own == {a \in copy.artifacts : a.id = Remote(p) /\ a.variant # NoVariant}
  IN IF own = {} THEN UNCHANGED store
     ELSE \E a \in own :
            LET c == [variant |-> a.variant, window |-> NoWindow, reused |-> FALSE]
            IN RecordAction("create_post", c, TRUE)

CheckPost ==
  /\ step = "health"
  /\ \E p \in (live \cap flagged) \ copy.processed :
       \E flag \in {"spam", "failed"} :
         /\ copy' = [copy EXCEPT !.processed = @ \cup {p},
                               !.pause = ExtendPause(@, PauseFor(flag))]
         /\ found' = Max({found, PauseFor(flag)})
         /\ RecordModeration(p)
  /\ UNCHANGED <<state, step, on, chosen, moltbook, owed, faults>>

SaveHealth ==
  /\ step = "health"
  /\ live \cap flagged \subseteq copy.processed
  /\ state' = copy
  /\ owed' = Max({owed, found}) /\ found' = 0
  /\ Then("reconcile")
  /\ UNCHANGED <<store, copy, on, chosen, moltbook, faults>>

----------------------------------------------------------------------------
\* Heartbeat: reconciliation.

RecordRecovered ==
  /\ step = "reconcile"
  /\ \E w \in (copy.pending \cap live) \ on :
       /\ RecordAction(ScopeOf(w), [copy.jobs[w] EXCEPT !.window = NoWindow], TRUE)
       /\ on' = on \cup {w}
  /\ UNCHANGED <<state, copy, step, chosen, moltbook, owed, found, faults>>

\* A pending write that is not found for long enough is given up.
SaveReconciled ==
  /\ step = "reconcile" /\ copy.pending \cap live \subseteq on
  /\ \E expired \in SUBSET (copy.pending \ live) :
       copy' = [Recovered(copy, on) EXCEPT !.pending = @ \ expired]
  /\ state' = copy' /\ on' = {} /\ Then("plan")
  /\ UNCHANGED <<store, chosen, moltbook, owed, found, faults>>

----------------------------------------------------------------------------
\* Heartbeat: planning and drafting at most one write.

Written(s) == {w \in Write : Own(w) \in {a.id : a \in s.artifacts}}

Unwritten(s) == Write \ (Written(s) \cup DOMAIN s.jobs \cup s.pending)

\* None during a pause or while one is pending; jobs in the queue do not ask.
PostReady(s) == s.pause = 0 /\ s.pending \cap Post = {}

PlanWrite ==
  /\ step = "plan"
  /\ \E w \in Unwritten(copy) : (w \in Post => PostReady(copy)) /\ on' = {w}
  /\ Then("select")
  /\ UNCHANGED <<store, state, copy, chosen, moltbook, owed, found, faults>>

PlanNothing ==
  /\ step = "plan"
  /\ copy' = EmptyState /\ Then("idle")
  /\ UNCHANGED <<store, state, on, chosen, moltbook, owed, found, faults>>

\* The choice is stored before the draft is written.
SelectVariant ==
  /\ step = "select"
  /\ \E w \in on :
       LET b == Bucket(ScopeOf(w))
       IN \E n \in IF ShouldRotate(b) THEN Rotated(b) ELSE {Selected(b)} :
            /\ StoreBucket(ScopeOf(w), n)
            /\ chosen' = [variant |-> n.variant, window |-> n.window,
                          reused |-> ~ShouldRotate(b)]
  /\ Then("draft")
  /\ UNCHANGED <<state, copy, on, moltbook, owed, found, faults>>

EndRun ==
  copy' = EmptyState /\ on' = {} /\ chosen' = NoChoice /\ Then("idle")

DropDraft ==
  /\ step = "draft" /\ EndRun
  /\ UNCHANGED <<store, state, moltbook, owed, found, faults>>

\* One post at a time is queued, though another may be drafted.  The queue drops
\* the oldest jobs; which they are is MoltbookRuntime's matter.
QueueDraft ==
  /\ step = "draft" /\ Cardinality((DOMAIN copy.jobs \cup on) \cap Post) <= 1
  /\ LET jobs == [w \in DOMAIN copy.jobs \cup on |->
                    IF w \in on THEN chosen ELSE copy.jobs[w]]
     IN \E left \in kSubset(Min({Cardinality(DOMAIN jobs), MaxQueue}), DOMAIN jobs) :
          state' = [copy EXCEPT !.jobs = Restrict(jobs, left), !.running = @ \cap left]
  /\ EndRun
  /\ UNCHANGED <<store, moltbook, owed, found, faults>>

----------------------------------------------------------------------------
\* The environment.

\* One found during a check might as well be found after it.
FlagPost ==
  /\ step = "idle"
  /\ \E p \in (live \cap Post) \ flagged : flagged' = flagged \cup {p}
  /\ UNCHANGED <<store, state, copy, step, on, chosen, live, owed, found, faults>>

KillRun ==
  /\ step # "idle" /\ faults < MaxFaults
  /\ faults' = faults + 1 /\ found' = 0
  /\ EndRun
  /\ UNCHANGED <<store, state, moltbook, owed>>

Less(n) == Max({n - 1, 0})

PassTime ==
  /\ step = "idle"
  /\ buckets' = [s \in DOMAIN buckets |->
       [buckets[s] EXCEPT !.age = Min({@ + 1, MaxAge})]]
  /\ state' = [state EXCEPT !.pause = Less(@)]
  /\ owed' = Less(owed)
  /\ UNCHANGED <<last, copy, step, on, chosen, moltbook, found, faults>>

RotationNext ==
  \/ PickJob \/ PublishJob \/ RecordPublished \/ SavePublished
  \/ RecordFailed \/ FailAfterRecord \/ SaveFailed
  \/ Backfill \/ SkipHealth \/ CheckPost \/ SaveHealth
  \/ RecordRecovered \/ SaveReconciled
  \/ PlanWrite \/ PlanNothing \/ SelectVariant \/ DropDraft \/ QueueDraft
  \/ FlagPost \/ KillRun \/ PassTime

RotationSpec == RotationInit /\ [][RotationNext]_rotationVars

----------------------------------------------------------------------------
\* Properties.

Choice == [variant : Variant \cup {NoVariant}, window : Windows \cup {NoWindow},
           reused : BOOLEAN]

BucketOK(b) ==
  b \in [variant : Variant, count : Nat, window : Windows,
         acted : BOOLEAN, age : 0..MaxAge]

AgentOK(s) ==
  /\ s = [jobs |-> s.jobs, running |-> s.running, pending |-> s.pending,
          artifacts |-> s.artifacts, processed |-> s.processed, pause |-> s.pause]
  /\ DOMAIN s.jobs \subseteq Write /\ Cardinality(DOMAIN s.jobs) <= MaxQueue
  /\ \A w \in DOMAIN s.jobs : s.jobs[w] \in Choice /\ s.jobs[w].variant \in Variant
  /\ s.running \subseteq DOMAIN s.jobs /\ s.pending \subseteq Write
  /\ s.processed \subseteq Post
  /\ s.pause \in 0..SpamPause \cup 0..FailedPause

\* The store and the copies of the state are well formed.
RotationTypeOK ==
  /\ DOMAIN buckets \subseteq Scope /\ \A s \in DOMAIN buckets : BucketOK(buckets[s])
  /\ IF last = "none" THEN DOMAIN buckets = {} ELSE last \in DOMAIN buckets
  /\ AgentOK(state) /\ AgentOK(copy) /\ chosen \in Choice
  /\ on \subseteq Write /\ flagged \subseteq live /\ live \subseteq Write
  /\ faults \in 0..MaxFaults

\* A variant is used for more writes than its window by those that were queued
\* when it was full, and by those that a fault made the bucket count twice, but by
\* no more, although retries and late jobs switch variants back.  A heartbeat that
\* is killed may have counted as many writes as the queue holds.
WindowIsKept ==
  \A s \in DOMAIN buckets : buckets[s].count < Max(Windows) + MaxQueue * (1 + faults)

\* No post is queued while a flagged post that the agent knows of calls for a
\* pause, whatever other flags were found since and whichever run was killed.
NoPostInPause ==
  [][(DOMAIN state'.jobs \ DOMAIN state.jobs) \cap Post # {} => owed = 0]_rotationVars

\* Both of the above: the windows of the variants are kept, and so are the pauses.
RotationIsSound == []WindowIsKept /\ NoPostInPause
=============================================================================
