-------------------------- MODULE MoltbookRuntime --------------------------
(***************************************************************************)
(* The Moltbook side of the outreach agent: heartbeats plan actions and    *)
(* queue them as jobs, executor runs publish one due job at a time, and    *)
(* later heartbeats reconcile writes whose outcome is unknown.             *)
(*                                                                         *)
(* Both kinds of run are processes of their own that load the state, work  *)
(* on a copy and save it several times: first to sqlite, then to the       *)
(* state.json beside it.  One file lock keeps them apart, so there is at   *)
(* most one run at a time, and a run can be killed between any two steps.  *)
(*                                                                         *)
(* Faults names what can go wrong besides kills and refused requests.      *)
(***************************************************************************)
EXTENDS ActionQueue, FiniteSetsExt

CONSTANTS
  MaxMisses,  \* PENDING_WRITE_MAX_RECONCILIATION_MISSES
  MaxPending, \* MAX_PENDING_WRITES
  Slots,      \* executor runs between two heartbeats
  MaxCrashes, \* bound of the model on killed runs
  MaxBoard,   \* bound of the model on publications counted
  Faults      \* see FaultKinds

FaultKinds == {
  "lost",   \* a publication succeeds and an error is reported
  "unseen", \* reconciliation does not find what was published
  "unread", \* a heartbeat fails at or before reconciliation
  "down",   \* a heartbeat cannot load its sources
  "late",   \* a heartbeat does not reconcile in its period
  "torn"}   \* a run is killed between sqlite and state.json

ASSUME RuntimeAssumption ==
  /\ {MaxMisses, MaxPending, Slots, MaxBoard} \subseteq Nat \ {0}
  /\ MaxCrashes \in Nat
  /\ Faults \subseteq FaultKinds

VARIABLES
  db,      \* the state in sqlite
  file,    \* the jobs in state.json
  mem,     \* the copy of the run in progress
  pc,      \* what that run does next, "idle" when there is none
  then,    \* what it does after saving
  cur,     \* the targets whose job it executes: one or none
  board,   \* external: how often each target was acted on at Moltbook
  slots,   \* executor runs left before the next heartbeat is due
  beat,    \* a heartbeat has got past reconciliation in this period
  crashes

vars == <<db, file, mem, pc, then, cur, board, slots, beat, crashes>>

NoPending == [t \in {} |-> {}]

Empty ==
  [jobs |-> NoJobs, pending |-> NoPending, done |-> {}, rest |-> [k \in Kinds |-> 0]]

PendingIds(s) == DOMAIN s.pending

Orphans_Kept(s) == {}

\* Running jobs of authored writes that no pending write accounts for.
Orphans(s) == (InStatus(s.jobs, {"running"}) \cap Writes) \ PendingIds(s)

Init ==
  /\ db = Empty /\ file = NoJobs /\ mem = Empty
  /\ pc = "idle" /\ then = "idle" /\ cur = {}
  /\ board = [t \in Targets |-> 0]
  /\ slots = Slots /\ beat = FALSE /\ crashes = 0

----------------------------------------------------------------------------
\* Loading and saving.  The jobs come from state.json when sqlite has none.

Load == [db EXCEPT !.jobs = IF DOMAIN db.jobs = {} THEN file ELSE db.jobs]

Save(s, next) == mem' = s /\ pc' = "save" /\ then' = next

SaveDatabase ==
  /\ pc = "save"
  /\ db' = mem /\ pc' = "saveFile"
  /\ UNCHANGED <<file, mem, then, cur, board, slots, beat, crashes>>

SaveFile ==
  /\ pc = "saveFile"
  /\ file' = mem.jobs /\ pc' = then
  /\ mem' = IF then = "idle" THEN Empty ELSE mem
  /\ cur' = IF then = "idle" THEN {} ELSE cur
  /\ UNCHANGED <<db, then, board, slots, beat, crashes>>

----------------------------------------------------------------------------
\* Pending writes: a function from targets to the reconciliations that missed
\* and to what is left of the cooldown that a record would start.

NewPending == [misses |-> 0, rest |-> Cooldown]

\* A pending write too many evicts one that was pending for longest; those that
\* are past their cooldown are not told apart.
Evictions(pending) ==
  IF Cardinality(DOMAIN pending) < MaxPending THEN {{}}
  ELSE {{t} : t \in {t \in DOMAIN pending :
                       \A u \in DOMAIN pending : pending[t].rest <= pending[u].rest}}

\* A pending write of the same target is replaced.
AddPending(s, t) ==
  LET others == Restrict(s.pending, DOMAIN s.pending \ {t})
  IN {[s EXCEPT !.pending = [u \in (DOMAIN others \ E) \cup {t} |->
                              IF u = t THEN NewPending ELSE others[u]]] :
        E \in Evictions(others)}

RemovePending(s, t) ==
  [s EXCEPT !.pending = Restrict(@, DOMAIN @ \ {t})]

\* What is done is recorded, with its time as the start of a cooldown.  What
\* was recorded before starts none.
Record(s, t, rest) ==
  [s EXCEPT !.done = @ \cup {t},
            !.rest[Kind(t)] = IF t \in s.done THEN @ ELSE Larger(@, rest)]

\* The same for pending writes that are found, each as of its own time.
RecordAll(s, found) ==
  LET new == found \ s.done
  IN [s EXCEPT !.done = @ \cup new,
               !.rest["write"] = Max({@} \cup {s.pending[t].rest : t \in new})]

----------------------------------------------------------------------------
\* Executor run.

StartExecutor ==
  /\ pc = "idle" /\ slots > 0
  /\ DOMAIN Load.jobs # {}
  /\ mem' = Load /\ pc' = "sweep" /\ slots' = slots - 1
  /\ UNCHANGED <<db, file, then, cur, board, beat, crashes>>

\* A running write that is not pending any more was recovered or has expired.
Sweep ==
  /\ pc = "sweep"
  /\ \E t \in Orphans(mem) :
       Save([mem EXCEPT !.jobs = RemoveJob(@, t)], "sweep")
  /\ UNCHANGED <<db, file, cur, board, slots, beat, crashes>>

PickNone ==
  /\ pc = "sweep" /\ Orphans(mem) = {}
  /\ LET jobs == RecoverStale(mem.jobs)
     IN /\ NothingToRun(jobs, mem.rest)
        /\ Save([mem EXCEPT !.jobs = Postpone(jobs, Due(jobs), mem.rest)], "idle")
  /\ UNCHANGED <<db, file, cur, board, slots, beat, crashes>>

Picked(s, p) ==
  [s EXCEPT !.jobs = Select(Postpone(RecoverStale(@), p[2], s.rest), p[1])]

WithPending(s, t) == IF t \in Writes THEN AddPending(s, t) ELSE {s}

Pick_Unsaved ==
  /\ pc = "sweep" /\ Orphans(mem) = {}
  /\ \E p \in Picks(RecoverStale(mem.jobs), mem.rest) :
       \E s \in WithPending(Picked(mem, p), p[1]) :
         cur' = {p[1]} /\ mem' = s /\ pc' = "publish"
  /\ UNCHANGED <<db, file, then, board, slots, beat, crashes>>

\* The pending write is saved before the request is made.
Pick ==
  /\ pc = "sweep" /\ Orphans(mem) = {}
  /\ \E p \in Picks(RecoverStale(mem.jobs), mem.rest) :
       \E s \in WithPending(Picked(mem, p), p[1]) :
         cur' = {p[1]} /\ Save(s, "publish")
  /\ UNCHANGED <<db, file, board, slots, beat, crashes>>

\* The request is carried out at Moltbook.
Publish ==
  /\ pc = "publish"
  /\ board' = [t \in Targets |-> IF t \in cur THEN Smaller(board[t] + 1, MaxBoard)
                                 ELSE board[t]]
  /\ pc' = "answer"
  /\ UNCHANGED <<db, file, mem, then, cur, slots, beat, crashes>>

\* The answer is good, and the action is recorded.  An error while the
\* notifications are marked as read changes nothing any more.
Published ==
  /\ pc = "answer"
  /\ \E t \in cur :
       LET recorded == Record(RemovePending(mem, t), t, Cooldown)
       IN Save([recorded EXCEPT !.jobs = RemoveJob(@, t)], "idle")
  /\ UNCHANGED <<db, file, cur, board, slots, beat, crashes>>

\* Any error makes the job wait for a retry or fail, and forgets the pending write.
Failed ==
  /\ \E t \in cur, retryable \in BOOLEAN :
       \E job \in Requeued(mem.jobs[t], retryable) :
         Save(RemovePending([mem EXCEPT !.jobs[t] = job], t), "idle")
  /\ UNCHANGED <<db, file, cur, board, slots, beat, crashes>>

Refused == pc = "publish" /\ Failed

\* The request was carried out, but the answer is lost, the verification that
\* follows it fails, or the prompt rotation cannot be recorded.
AnswerLost == pc = "answer" /\ "lost" \in Faults /\ Failed

----------------------------------------------------------------------------
\* Heartbeat run.

StartHeartbeat ==
  /\ pc = "idle" /\ ~beat
  /\ mem' = Load /\ pc' = "reconcile"
  /\ UNCHANGED <<db, file, then, cur, board, slots, beat, crashes>>

\* The failed run still saves the state it has, which is the initial one.
HeartbeatDown ==
  /\ pc = "idle" /\ ~beat /\ "down" \in Faults
  /\ Save(Empty, "idle")
  /\ UNCHANGED <<db, file, cur, board, slots, beat, crashes>>

Findable_AnyAuthor == PendingIds(mem)
Findable_None == {}

\* The pending writes that can be matched with something at Moltbook.
Findable == {t \in PendingIds(mem) : board[t] > 0}

Missed(p) == [p EXCEPT !.misses = @ + 1]

\* Writes that are found are recorded, with the time they were pending since;
\* the others expire after MaxMisses unsuccessful reconciliations.
Reconciled(s, found) ==
  LET missed == [t \in DOMAIN s.pending \ found |-> Missed(s.pending[t])]
  IN [RecordAll(s, found) EXCEPT
        !.pending = Restrict(missed, {t \in DOMAIN missed : missed[t].misses < MaxMisses})]

Reconcile ==
  /\ pc = "reconcile"
  /\ IF PendingIds(mem) = {}
     THEN pc' = "votes" /\ UNCHANGED <<mem, then>>
     ELSE \E found \in SUBSET Findable :
            /\ "unseen" \in Faults \/ found = Findable
            /\ Save(Reconciled(mem, found), "votes")
  /\ UNCHANGED <<db, file, cur, board, slots, beat, crashes>>

ReconcileFails ==
  /\ pc = "reconcile" /\ "unread" \in Faults /\ PendingIds(mem) # {}
  /\ pc' = "votes"
  /\ UNCHANGED <<db, file, mem, then, cur, board, slots, beat, crashes>>

Plannable_DoneToo(S) == S \ (PendingIds(mem) \cup Active(mem.jobs))

Plannable(S) == S \ (mem.done \cup PendingIds(mem) \cup Active(mem.jobs))

Enqueue(S, next) ==
  \E new \in [S -> StartDelays] :
    \E jobs \in Cuts(Merge(mem.jobs,
                   [t \in S |-> NewJob(new[t], mem.rest[Kind(t)])])) :
      Save([mem EXCEPT !.jobs = jobs], next)

\* Upvotes and follows are queued together, then at most one write is drafted.
QueueVotes ==
  /\ pc = "votes"
  /\ \E S \in SUBSET Plannable(Votes) :
       IF S = {} THEN pc' = "draft" /\ UNCHANGED <<mem, then>> ELSE Enqueue(S, "draft")
  /\ beat' = TRUE
  /\ UNCHANGED <<db, file, cur, board, slots, crashes>>

QueueWrite ==
  /\ pc = "draft"
  /\ \E w \in Plannable(Writes) : Enqueue({w}, "report")
  /\ UNCHANGED <<db, file, cur, board, slots, beat, crashes>>

\* The run ends, with or without a draft or after an error, with a last save.
Report ==
  /\ pc \in {"votes", "draft", "report"} \/ (pc = "reconcile" /\ "unread" \in Faults)
  /\ Save(mem, "idle") /\ beat' = (pc # "reconcile")
  /\ UNCHANGED <<db, file, cur, board, slots, crashes>>

----------------------------------------------------------------------------
\* The environment.

Crash ==
  /\ pc # "idle" /\ crashes < MaxCrashes
  /\ pc = "saveFile" => "torn" \in Faults
  /\ crashes' = crashes + 1
  /\ pc' = "idle" /\ then' = "idle" /\ mem' = Empty /\ cur' = {}
  /\ UNCHANGED <<db, file, board, slots, beat>>

AgedState(s) ==
  [s EXCEPT !.jobs = Aged(@),
            !.rest = [k \in Kinds |-> Larger(s.rest[k] - 1, 0)],
            !.pending = [t \in DOMAIN s.pending |->
                          [s.pending[t] EXCEPT !.rest = Larger(@ - 1, 0)]]]

\* A heartbeat period passes.  Unless heartbeats are late one of them has
\* reconciled in it, and the executor has had a run if there was a job.
Tick ==
  /\ pc = "idle"
  /\ "late" \in Faults \/ (beat /\ (slots < Slots \/ DOMAIN Load.jobs = {}))
  /\ db' = AgedState(db) /\ file' = Aged(file)
  /\ slots' = Slots /\ beat' = FALSE
  /\ UNCHANGED <<mem, pc, then, cur, board, crashes>>

Executor == \/ StartExecutor \/ Sweep \/ PickNone \/ Pick
            \/ Publish \/ Published \/ Refused \/ AnswerLost
Heartbeat == \/ StartHeartbeat \/ HeartbeatDown \/ Reconcile \/ ReconcileFails
             \/ QueueVotes \/ QueueWrite \/ Report

Run == Executor \/ Heartbeat \/ SaveDatabase \/ SaveFile \/ Tick

Next == Run \/ Crash

Spec == Init /\ [][Next]_vars

\* The processes are started again and again, and Moltbook cannot fail to be
\* read for ever.
FairSpec == Spec /\ WF_vars(Run) /\ SF_vars(Reconcile)

----------------------------------------------------------------------------
\* Properties.

PendingWrite == [misses : 0..MaxMisses - 1, rest : 0..Cooldown]

JobsOK(jobs) ==
  IsTable(jobs, Targets, Job) /\ Cardinality(DOMAIN jobs) <= MaxJobs
PendingOK(pending) ==
  IsTable(pending, Writes, PendingWrite) /\ Cardinality(DOMAIN pending) <= MaxPending

\* Every copy of the state is well formed, and only an executor run that has
\* picked a job has a current target.
StateOK(s) ==
  /\ s \in [jobs : {s.jobs}, pending : {s.pending}, done : SUBSET Targets,
            rest : [Kinds -> 0..Cooldown]]
  /\ JobsOK(s.jobs) /\ PendingOK(s.pending)

TypeOK ==
  /\ StateOK(db) /\ StateOK(mem) /\ JobsOK(file)
  /\ pc \in {"idle", "sweep", "save", "saveFile", "publish", "answer",
             "reconcile", "votes", "draft", "report"}
  /\ then \in {"idle", "sweep", "publish", "votes", "draft", "report"}
  /\ cur \subseteq Targets /\ Cardinality(cur) <= 1
  /\ board \in [Targets -> 0..MaxBoard]
  /\ slots \in 0..Slots /\ beat \in BOOLEAN /\ crashes \in 0..MaxCrashes

\* An authored write is requested only while its durable record is pending
\* and running, so a killed run always leaves a trace of what it may have done.
WriteAhead ==
  pc \in {"publish", "answer"} =>
    cur \cap Writes \subseteq PendingIds(db) \cap InStatus(db.jobs, {"running"})

\* What the state records as done was done, whatever failed on the way.
RecordsAreTrue == \A t \in db.done \cup mem.done : board[t] > 0

\* An authored write is published at most once.
WritesOnce == \A w \in Writes : board[w] <= 1

\* What was published is known to the durable state: it is recorded, or
\* pending until a heartbeat finds it.
NothingForgotten ==
  \A w \in Writes : board[w] > 0 => w \in db.done \cup PendingIds(db)

\* A write that waits for an attempt, or was given up, was never published.
WaitingIsNew ==
  \A w \in Writes \cap InStatus(db.jobs, {"queued", "failed"}) : board[w] = 0

\* What the durable state records is never done again.
RecordedIsFinal ==
  [][\A t \in db.done : board'[t] = board[t]]_vars

\* The inductive form of the four properties above, for runs in which no fault
\* occurs.  Durable states, and the copy about to be saved, settle each write:
\* what is published is recorded or pending, what waits for an attempt is new,
\* and a heartbeat reconciles before the second tick of a lease.
Settled(s) ==
  /\ \A t \in s.done : board[t] > 0
  /\ s.done \cap PendingIds(s) = {}
  /\ s.done \cap Votes \cap Active(s.jobs) = {}
  /\ \A w \in Writes :
       /\ board[w] > 0 => w \in s.done \cup PendingIds(s)
       /\ w \in InStatus(s.jobs, {"queued", "failed"}) => board[w] = 0
       /\ board[w] > 0 /\ w \in PendingIds(s) /\ w \in InStatus(s.jobs, {"running"})
            => s.jobs[w].age <= IF beat THEN 0 ELSE 1

\* The run in progress: what it works on is what is saved, except while it saves.
InStep ==
  /\ pc \notin {"idle", "save"} => mem = db
  /\ pc # "saveFile" => file = db.jobs
  /\ pc = "save" => Settled(mem)

Saving(next) == pc \in {"save", "saveFile"} /\ then \in next

\* The job in execution is running and, for a write, pending; before the
\* request it is new, and after it, done.
InExecution ==
  /\ pc \in {"publish", "answer"} \/ Saving({"publish"}) =>
       /\ cur \subseteq InStatus(mem.jobs, {"running"})
       /\ \A w \in cur \cap Writes : w \in PendingIds(mem) /\ mem.jobs[w].age = 0
  /\ pc = "publish" \/ Saving({"publish"}) => \A w \in cur \cap Writes : board[w] = 0
  /\ pc = "answer" => \A t \in cur : board[t] > 0

\* After reconciliation nothing that was published is pending.
Reconciliation ==
  LET after == {"votes", "draft", "report"}
  IN pc \in after \/ Saving(after) => \A w \in PendingIds(mem) : board[w] = 0

RuntimeInv ==
  Settled(db) /\ InStep /\ InExecution /\ Reconciliation /\ WritesOnce

\* A pending write is recorded or given up, and does not block its target for
\* ever, and a queued job is executed, given up or cut from the queue.
WorkSettles ==
  /\ \A w \in Writes : w \in PendingIds(db) ~> w \notin PendingIds(db)
  /\ \A t \in Targets : t \in Active(db.jobs) ~> t \notin Active(db.jobs)
============================================================================
