--------------------------- MODULE RedditRuntime ---------------------------
(***************************************************************************)
(* The Reddit side of the outreach agent.  Heartbeats pick one discovered  *)
(* post or comment, draft a reply and queue it, with an upvote before it;  *)
(* executor runs publish one due job; a session, started by hand, does     *)
(* both.  Runs exclude each other and can be killed between any two steps. *)
(*                                                                         *)
(* The queued jobs have three copies: sqlite, which counts unless it is    *)
(* empty, state.json, which counts then, and reddit-memory.json, which     *)
(* also holds the history.  Unlike the Moltbook side no record is written  *)
(* ahead of a publication.                                                 *)
(***************************************************************************)
EXTENDS ActionQueue

CONSTANTS
  Thing,      \* the post or comment that each upvote is for
  MaxPerDay,  \* maxActionsPerDay
  KillWindow, \* history entries that findKillSwitch looks at
  Breaker,    \* rest after repeatedly hidden replies
  Slots,      \* executor runs between two heartbeats
  MaxCrashes, \* bound of the model on killed runs
  MaxBoard    \* bound of the model on publications counted

ASSUME RedditAssumption ==
  /\ Thing \in [Votes -> Writes]
  /\ {MaxPerDay, KillWindow, Slots, MaxBoard} \subseteq Nat \ {0}
  /\ MaxJobs < KillWindow \* 30 and 50
  /\ {Breaker, MaxCrashes} \subseteq Nat

VARIABLES
  db,          \* the jobs in sqlite
  file,        \* the jobs in state.json
  json,        \* reddit-memory.json, which can hold jobs too
  mem,         \* the copy of the run in progress
  ws,          \* the copy that a session keeps while it executes a job
  run,         \* see Runs; a session that publishes at once is "publishing"
  pc,          \* what the run does next
  then,        \* what it does after loading or saving
  cur,         \* the target it works on: one or none
  board,       \* external: how often each reply was published at Reddit
  interrupted, \* writes published in an attempt that was not recorded
  slots,       \* executor runs left before the next heartbeat is due
  beat,        \* a heartbeat or session has run in this period
  crashes

stores == <<db, file, json>>
world == <<board, interrupted, slots, beat, crashes>>
vars == <<stores, mem, ws, run, pc, then, cur, world>>

Runs == {"none", "heartbeat", "executor", "session", "publishing"}

NeverBanned == -1

\* What a memory holds: the targets of its history, the upvoted things, the
\* entries since a ban (NeverBanned without one), the entries of today, what
\* is left of the latest entry's nextEligibleAt, and the execution cooldowns.
EmptyMemory ==
  [jobs |-> NoJobs, touched |-> {}, voted |-> {}, ban |-> NeverBanned, today |-> 0,
   session |-> 0, rest |-> [k \in Kinds |-> 0]]

Init ==
  /\ db = NoJobs /\ file = NoJobs /\ json = EmptyMemory
  /\ mem = EmptyMemory /\ ws = EmptyMemory
  /\ run = "none" /\ pc = "idle" /\ then = "idle" /\ cur = {}
  /\ board = [t \in Writes |-> 0] /\ interrupted = {}
  /\ slots = Slots /\ beat = FALSE /\ crashes = 0

Goto(next) == pc' = next /\ UNCHANGED then

----------------------------------------------------------------------------
\* Loading.  Jobs that only reddit-memory.json has are moved to sqlite, then
\* it is stripped of jobs.

StoredJobs == IF DOMAIN db = {} THEN file ELSE db

Hydrate ==
  /\ pc = "load" /\ DOMAIN StoredJobs = {} /\ DOMAIN json.jobs # {}
  /\ db' \in Cuts(json.jobs)
  /\ Goto("hydrateFile")
  /\ UNCHANGED <<file, json, mem, ws, run, cur, world>>

HydrateFile ==
  /\ pc = "hydrateFile"
  /\ file' = db /\ Goto("load")
  /\ UNCHANGED <<db, json, mem, ws, run, cur, world>>

Load ==
  /\ pc = "load" /\ (DOMAIN StoredJobs # {} \/ DOMAIN json.jobs = {})
  /\ mem' = [json EXCEPT !.jobs = StoredJobs]
  /\ json' = [json EXCEPT !.jobs = NoJobs]
  /\ Goto(then)
  /\ UNCHANGED <<db, file, ws, run, cur, world>>

LoadThen(next) == pc' = "load" /\ then' = next

----------------------------------------------------------------------------
\* Saving: sqlite, then state.json, then reddit-memory.json without the jobs.
\* A synchronisation leaves the last one out.

Save(s, next) == mem' = s /\ pc' = "saveDb" /\ then' = next

Sync(s, next) == mem' = s /\ pc' = "syncDb" /\ then' = next

WriteDb ==
  /\ pc \in {"saveDb", "syncDb"}
  /\ db' = mem.jobs
  /\ Goto(IF pc = "saveDb" THEN "saveFile" ELSE "syncFile")
  /\ UNCHANGED <<file, json, mem, ws, run, cur, world>>

WriteFile ==
  /\ pc \in {"saveFile", "syncFile"}
  /\ file' = mem.jobs
  /\ Goto(IF pc = "saveFile" THEN "saveJson" ELSE then)
  /\ UNCHANGED <<db, json, mem, ws, run, cur, world>>

WriteJson ==
  /\ pc = "saveJson"
  /\ json' = [mem EXCEPT !.jobs = NoJobs]
  /\ Goto(then)
  /\ UNCHANGED <<db, file, mem, ws, run, cur, world>>

----------------------------------------------------------------------------
\* Starting and ending a run.

Start(kind, first) == run' = kind /\ LoadThen(first)

StartExecutor ==
  /\ pc = "idle" /\ slots > 0 /\ DOMAIN StoredJobs # {}
  /\ Start("executor", "health") /\ slots' = slots - 1
  /\ UNCHANGED <<stores, mem, ws, cur, board, interrupted, beat, crashes>>

StartPlanner ==
  /\ pc = "idle" /\ ~beat
  /\ \E kind \in {"heartbeat", "session"} : Start(kind, "killSwitch")
  /\ beat' = TRUE
  /\ UNCHANGED <<stores, mem, ws, cur, board, interrupted, slots, crashes>>

Stopped ==
  /\ run' = "none" /\ pc' = "idle" /\ then' = "idle"
  /\ mem' = EmptyMemory /\ ws' = EmptyMemory /\ cur' = {}

\* A session only reports; the others load once more and write a snapshot of
\* the jobs to sqlite and state.json, after an error too.
Finish ==
  /\ pc = "finish"
  /\ IF run \in {"session", "publishing"} THEN Stopped
     ELSE LoadThen("snapshot") /\ UNCHANGED <<mem, ws, run, cur>>
  /\ UNCHANGED <<stores, world>>

Snapshot ==
  /\ pc = "snapshot"
  /\ Sync(mem, "end")
  /\ UNCHANGED <<stores, ws, run, cur, world>>

End == pc = "end" /\ Stopped /\ UNCHANGED <<stores, world>>

----------------------------------------------------------------------------
\* Guards on the account.

KillSwitch_Off(m) == FALSE

\* A ban among the last entries of the history.
KillSwitch(m) == m.ban # NeverBanned /\ m.ban < KillWindow

CheckKillSwitch ==
  /\ pc = "killSwitch"
  /\ Goto(IF KillSwitch(mem) THEN "finish" ELSE "health")
  /\ UNCHANGED <<stores, mem, ws, run, cur, world>>

Healthy ==
  /\ pc = "health"
  /\ Goto(IF run = "heartbeat" THEN "discover" ELSE "execute")
  /\ ws' = IF run = "session" THEN mem ELSE ws
  /\ UNCHANGED <<stores, mem, run, cur, world>>

\* The account cannot be used.  The first time that counts as a ban; the jobs
\* stay, as the memory that the ban is appended to has none.
RecordBan ==
  /\ pc = "health" /\ mem.ban = NeverBanned
  /\ json' = [json EXCEPT !.ban = 0, !.today = @ + 1, !.session = 0]
  /\ mem' = json'
  /\ Goto("finish")
  /\ UNCHANGED <<db, file, ws, run, cur, world>>

\* After that the queue is cleared.
ClearQueue ==
  /\ pc = "health" /\ mem.ban # NeverBanned
  /\ IF DOMAIN mem.jobs = {}
     THEN Goto("finish") /\ UNCHANGED <<mem, json>>
     ELSE json' = [mem EXCEPT !.jobs = NoJobs] /\ Sync(json', "finish")
  /\ UNCHANGED <<db, file, ws, run, cur, world>>

----------------------------------------------------------------------------
\* Executing the next due job.  When a session has not executed one it goes on
\* to plan an action, with the copy it had before.

SaveAndGoOn(s) ==
  Save(s, IF run = "session" THEN "plan" ELSE "finish")

ExecuteNone ==
  /\ pc = "execute"
  /\ LET jobs == RecoverStale(mem.jobs)
     IN /\ NothingToRun(jobs, mem.rest)
        /\ SaveAndGoOn([mem EXCEPT !.jobs = Postpone(jobs, Due(jobs), mem.rest)])
  /\ UNCHANGED <<stores, ws, run, cur, world>>

Execute ==
  /\ pc = "execute"
  /\ \E p \in Picks(RecoverStale(mem.jobs), mem.rest) :
       /\ Save([mem EXCEPT !.jobs = Select(Postpone(RecoverStale(@), p[2], mem.rest), p[1])],
               "publish")
       /\ cur' = {p[1]}
  /\ UNCHANGED <<stores, ws, run, world>>

\* The request is carried out at Reddit, where a second upvote changes nothing.
Publish ==
  /\ pc = "publish"
  /\ board' = [t \in Writes |-> IF t \in cur THEN Smaller(board[t] + 1, MaxBoard)
                                 ELSE board[t]]
  /\ Goto("answer")
  /\ UNCHANGED <<stores, mem, ws, run, cur, interrupted, slots, beat, crashes>>

Recorded_Untouched(m, t, rest) == [m EXCEPT !.jobs = RemoveJob(@, t), !.today = @ + 1]

\* An upvote is recorded without nextEligibleAt, a reply with it.  A reply that
\* is not publicly visible is recorded too, and may trip the circuit breaker.
Recorded(m, t, rest) ==
  [m EXCEPT !.jobs = RemoveJob(@, t),
            !.touched = @ \cup ({t} \cap Writes),
            !.voted = @ \cup {Thing[v] : v \in {t} \cap Votes},
            !.ban = IF @ = NeverBanned THEN @ ELSE Smaller(@ + 1, KillWindow),
            !.today = @ + 1,
            !.session = IF t \in Writes THEN Cooldown ELSE 0,
            !.rest[Kind(t)] = rest]

\* What fails after the record has been saved, the prompt rotation, loses nothing.
Published ==
  /\ pc = "answer"
  /\ \E t \in cur :
       \E rest \in {Cooldown} \cup (IF t \in Writes THEN {Breaker} ELSE {}) :
         Save(Recorded(mem, t, rest), "finish")
  /\ UNCHANGED <<stores, ws, run, cur, world>>

\* Any error makes the job wait for a retry or, and then the run fails too, fail.
Failed ==
  \E t \in cur, retryable \in BOOLEAN :
    \E job \in Requeued(mem.jobs[t], retryable) :
      LET s == [mem EXCEPT !.jobs[t] = job]
      IN IF job.status = "queued" THEN SaveAndGoOn(s) ELSE Save(s, "finish")

Refused ==
  /\ pc = "publish" /\ Failed
  /\ UNCHANGED <<stores, ws, run, cur, world>>

\* The request was carried out, but its answer is an error or is lost.
AnswerLost ==
  /\ pc = "answer" /\ Failed
  /\ interrupted' = interrupted \cup (cur \cap Writes)
  /\ UNCHANGED <<stores, ws, run, cur, board, slots, beat, crashes>>

Plan ==
  /\ pc = "plan"
  /\ mem' = ws /\ cur' = {}
  /\ Goto("discover")
  /\ UNCHANGED <<stores, ws, run, world>>

----------------------------------------------------------------------------
\* Planning one reply.

\* Everything recorded today counts, upvotes and bans too, but not what is queued.
DayIsFull(m) == m.today >= MaxPerDay

\* nextEligibleAt of the latest entry, whatever it is.
Resting(m) == m.session > 0

Candidates_All(m) == Writes

\* What the memory has not touched; the gates of the review queue and the
\* pauses of subreddits reject some or all of it.
Candidates(m) == Writes \ m.touched

\* Ingestion and triage read Reddit; nothing is saved yet.  They may fail.
NothingPlanned ==
  /\ pc = "discover" /\ Goto("finish")
  /\ UNCHANGED <<stores, mem, ws, run, cur, world>>

PlanAction ==
  /\ pc = "discover" /\ ~DayIsFull(mem) /\ ~Resting(mem)
  /\ \E w \in Candidates(mem) : cur' = {w}
  /\ Goto("draft")
  /\ UNCHANGED <<stores, mem, ws, run, world>>

DraftFails ==
  /\ pc = "draft" /\ Goto("finish")
  /\ UNCHANGED <<stores, mem, ws, run, cur, world>>

Draft ==
  /\ pc = "draft" /\ Goto("enqueue")
  /\ UNCHANGED <<stores, mem, ws, run, cur, world>>

Enqueued(jobs, t, delay, rest) == Merge(jobs, [u \in {t} |-> NewJob(delay, rest)])

\* Once there is a draft the post or comment is to be upvoted first, unless it
\* was: that job is only saved in reddit-memory.json, with all the others.
DraftAndUpvote ==
  /\ pc = "draft"
  /\ \E v \in Votes \ DOMAIN mem.jobs, delay \in StartDelays :
       /\ Thing[v] \in cur \ mem.voted
       /\ mem' = [mem EXCEPT !.jobs = Enqueued(@, v, delay, mem.rest["vote"])]
  /\ json' = mem'
  /\ Goto("enqueue")
  /\ UNCHANGED <<db, file, ws, run, cur, world>>

\* A session can be configured to execute the next due job right away.
Queued == {"finish"} \cup (IF run = "session" THEN {"reload"} ELSE {})

\* A reply that is queued already is not queued again, and then nothing is saved.
AlreadyQueued ==
  /\ pc = "enqueue" /\ cur \subseteq Active(mem.jobs)
  /\ \E next \in Queued : Goto(next)
  /\ UNCHANGED <<stores, mem, ws, run, cur, world>>

Enqueue ==
  /\ pc = "enqueue"
  /\ \E t \in cur \ Active(mem.jobs), delay \in StartDelays :
       \E jobs \in Cuts(Enqueued(mem.jobs, t, delay, mem.rest["write"])) :
         \E next \in Queued :
           Save([mem EXCEPT !.jobs = jobs], next)
  /\ UNCHANGED <<stores, ws, run, cur, world>>

PublishNow ==
  /\ pc = "reload"
  /\ run' = "publishing" /\ LoadThen("execute")
  /\ UNCHANGED <<stores, mem, ws, cur, world>>

----------------------------------------------------------------------------
\* The environment.

Crash ==
  /\ pc # "idle" /\ crashes < MaxCrashes
  /\ crashes' = crashes + 1
  /\ interrupted' = interrupted \cup
       {w \in (cur \cap Writes) \ json.touched : pc = "answer" \/ w \in mem.touched}
  /\ Stopped
  /\ UNCHANGED <<stores, board, slots, beat>>

AgedMemory(m, newDay) ==
  [m EXCEPT !.jobs = Aged(@),
            !.rest = [k \in Kinds |-> Larger(m.rest[k] - 1, 0)],
            !.session = Larger(@ - 1, 0),
            !.today = IF newDay THEN 0 ELSE @]

\* A heartbeat period passes, in which the executor has had a run if there was
\* a job.
Tick ==
  /\ pc = "idle" /\ (slots < Slots \/ DOMAIN StoredJobs = {})
  /\ db' = Aged(db) /\ file' = Aged(file)
  /\ \E newDay \in BOOLEAN : json' = AgedMemory(json, newDay)
  /\ slots' = Slots /\ beat' = FALSE
  /\ UNCHANGED <<mem, ws, run, pc, then, cur, board, interrupted, crashes>>

Loading == Hydrate \/ HydrateFile \/ Load
Saving == WriteDb \/ WriteFile \/ WriteJson
Guarding == CheckKillSwitch \/ Healthy \/ RecordBan \/ ClearQueue
Executing == ExecuteNone \/ Execute \/ Publish \/ Published \/ Refused \/ AnswerLost
Planning == \/ Plan \/ NothingPlanned \/ PlanAction \/ DraftFails \/ Draft
            \/ DraftAndUpvote \/ AlreadyQueued \/ Enqueue \/ PublishNow
Ending == Finish \/ Snapshot \/ End

Step == \/ StartExecutor \/ StartPlanner \/ Loading \/ Saving \/ Guarding
        \/ Executing \/ Planning \/ Ending \/ Tick

Next == Step \/ Crash

Spec == Init /\ [][Next]_vars

----------------------------------------------------------------------------
\* Properties.

MemoryOK(m) ==
  /\ m \in [jobs : {m.jobs}, touched : SUBSET Writes, voted : SUBSET Writes,
            ban : NeverBanned..KillWindow, today : Nat,
            session : 0..Cooldown, rest : [Kinds -> 0..Larger(Cooldown, Breaker)]]
  /\ IsTable(m.jobs, Targets, Job)

\* Every copy is well formed, and what sqlite and state.json keep is cut.
TypeOK ==
  /\ MemoryOK(json) /\ MemoryOK(mem) /\ MemoryOK(ws)
  /\ \A jobs \in {db, file} :
       IsTable(jobs, Targets, Job) /\ Cardinality(DOMAIN jobs) <= MaxJobs
  /\ run \in Runs /\ (run = "none" <=> pc = "idle")
  /\ cur \subseteq Targets /\ Cardinality(cur) <= 1
  /\ board \in [Writes -> 0..MaxBoard] /\ interrupted \subseteq Writes
  /\ slots \in 0..Slots /\ beat \in BOOLEAN /\ crashes \in 0..MaxCrashes

\* A reply is published twice only after an attempt whose record was prevented
\* by a kill or a lost answer: nothing is written ahead of the request.
OnceUnlessInterrupted == \A w \in Writes : board[w] <= 1 \/ w \in interrupted

\* What reddit-memory.json records is not published again, whichever copy of the
\* jobs survives a kill: it is written after both others have dropped the job.
RecordedIsFinal ==
  [][\A w \in json.touched : board'[w] = board[w]]_vars

\* Once a ban is on record no entry pushes it out of the window of the kill
\* switch, as fewer jobs than that are left and no reply is queued after it.
BanIsFinal == json.ban < KillWindow

\* The cap of the day is checked when a reply is planned, so what is executed
\* exceeds it by the jobs that were queued by then, and by no more.
DayBound == json.today <= MaxPerDay + MaxJobs

\* Both of the above: what limits the replies holds however the jobs, the records
\* and the runs that are killed interleave.
ReplyLimits == BanIsFinal /\ DayBound
=============================================================================
