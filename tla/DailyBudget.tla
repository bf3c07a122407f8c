---------------------------- MODULE DailyBudget ----------------------------
(***************************************************************************)
(* The daily budgets of the Moltbook agent: how many comments and posts it *)
(* publishes in a UTC day, and how far apart.  Budgets are looked at when  *)
(* a heartbeat plans a write, and counted when a write is recorded; in     *)
(* between it waits in the queue, is published by an executor run, and may *)
(* be recorded by a reconciliation on the next day.  MoltbookRuntime has   *)
(* queue, leases and the two copies of the state in detail.                *)
(***************************************************************************)
EXTENDS Integers, FiniteSets, FiniteSetsExt

CONSTANTS
  Posts, Comments, \* what can be written
  DayLength,       \* periods in a UTC day
  NewUntil,        \* the time at which the agent stops being a new one
  PostsPerDay, CommentsPerDay, \* limits for agents that are new or not
  PostSpacing, CommentSpacing, \* postCooldownMs, commentCooldownMs, in periods
  QueueLimit,      \* MAX_QUEUED_ACTION_JOBS
  MaxTime, MaxLost \* bounds of the model on time and on lost answers

ASSUME BudgetAssumption ==
  /\ Posts \cap Comments = {}
  /\ {DayLength, QueueLimit} \subseteq Nat \ {0}
  /\ {NewUntil, MaxTime, MaxLost} \subseteq Nat
  /\ {PostsPerDay, CommentsPerDay, PostSpacing, CommentSpacing} \subseteq [BOOLEAN -> Nat]

VARIABLES
  now,       \* the clock
  agent,     \* the durable state of the agent
  at,        \* what the run in progress does next
  write,     \* the write it works on, if any
  published, \* external: each publication, with the time its attempt began
  lost       \* the publications whose answer was lost

budgetVars == <<now, agent, at, write, published, lost>>

Items == Posts \cup Comments
Day(t) == t \div DayLength
Never == -1
New == now < NewUntil

\* date: dailyPostDate and dailyCommentDate.  queue: queuedActionJobs, of which
\* some are running; pending: the createdAt of each pending write.
BudgetInit ==
  /\ now = 0 /\ at = "idle" /\ write = {} /\ published = {} /\ lost = {}
  /\ agent = [date |-> 0, posts |-> 0, comments |-> 0,
              lastPost |-> Never, lastComment |-> Never,
              queue |-> {}, running |-> {}, stale |-> {},
              pending |-> [w \in {} |-> 0], done |-> {}]

\* Whoever loads or changes the state begins a new count on a new day.
NormalState(s) ==
  IF s.date = Day(now) THEN s
  ELSE [s EXCEPT !.date = Day(now), !.posts = 0, !.comments = 0]

----------------------------------------------------------------------------
\* What may be planned.

\* The rest of the day is divided by what is left of the budget.
Pace(s) ==
  LET left == CommentsPerDay[New] - s.comments
      rest == (Day(now) + 1) * DayLength - now
  IN Max({CommentSpacing[New], (rest + left - 1) \div left})

CanComment(s) ==
  /\ s.comments < CommentsPerDay[New]
  /\ s.lastComment = Never \/ now - s.lastComment >= Pace(s)

CanPost(s) ==
  /\ s.posts < PostsPerDay[New]
  /\ s.lastPost = Never \/ now - s.lastPost >= PostSpacing[New]
  /\ DOMAIN s.pending \cap Posts = {}

Plans(s) ==
  LET fresh == Items \ (s.done \cup s.queue \cup DOMAIN s.pending)
  IN {w \in fresh : IF w \in Posts THEN CanPost(s) ELSE CanComment(s)}

Queued_Same(s, w) == w \in s.queue

\* All posts have the action id create-post.
Queued(s, w) == IF w \in Posts THEN s.queue \cap Posts # {} ELSE w \in s.queue

----------------------------------------------------------------------------
\* What is recorded.

\* Writes count for the day of their attempts, if that is today, and space the next ones.
CountedToday(s, ws) ==
  LET n == NormalState(s)
      today == {w \in ws : Day(s.pending[w]) = Day(now)}
      created(items) == {s.pending[w] : w \in ws \cap items}
  IN [n EXCEPT !.posts = @ + Cardinality(today \cap Posts),
               !.comments = @ + Cardinality(today \cap Comments),
               !.lastPost = Max({@} \cup created(Posts)),
               !.lastComment = Max({@} \cup created(Comments))]

Leave(s, gone) ==
  [s EXCEPT !.queue = @ \ gone, !.running = @ \ gone, !.stale = @ \ gone,
            !.pending = [w \in DOMAIN @ \ gone |-> @[w]]]

RecordWrites(s, ws) ==
  LET n == Leave(CountedToday(s, ws), ws)
  IN [n EXCEPT !.done = @ \cup ws]

----------------------------------------------------------------------------
\* Executor run.  A running job without a pending write is removed.

PickWrite ==
  /\ at = "idle"
  /\ LET s == NormalState(Leave(agent, agent.running \ DOMAIN agent.pending))
     IN \E w \in s.queue \ (s.running \ s.stale) :
          /\ write' = {w}
          /\ agent' = [s EXCEPT !.running = @ \cup {w}, !.stale = @ \ {w},
                                !.pending = [v \in DOMAIN @ \cup {w} |->
                                               IF v = w THEN now ELSE @[v]]]
  /\ at' = "publish"
  /\ UNCHANGED <<now, published, lost>>

PublishWrite ==
  /\ at = "publish"
  /\ published' = published \cup
       {[item |-> w, created |-> agent.pending[w], time |-> now] : w \in write}
  /\ at' = "answer"
  /\ UNCHANGED <<now, agent, write, lost>>

RecordAnswer ==
  /\ at = "answer"
  /\ agent' = RecordWrites(agent, write)
  /\ at' = "idle" /\ write' = {}
  /\ UNCHANGED <<now, published, lost>>

\* An error: the job is queued again or given up, and the pending write removed.
FailWrite ==
  /\ at \in {"publish", "answer"}
  /\ \E w \in write, again \in BOOLEAN :
       /\ agent' = LET s == NormalState(Leave(agent, {w}))
                   IN IF again THEN [s EXCEPT !.queue = @ \cup {w}] ELSE s
       /\ lost' = lost \cup {p \in published : at = "answer" /\ p.item = w}
  /\ Cardinality(lost') <= MaxLost
  /\ at' = "idle" /\ write' = {}
  /\ UNCHANGED <<now, published>>

----------------------------------------------------------------------------
\* Heartbeat.

\* Records the pending writes that were published.  Others miss, and are removed when
\* they have missed too often.  What still runs is due again after its lease, which
\* outlasts this reconciliation.
ReconcileWrites ==
  /\ at = "idle"
  /\ \E expired \in SUBSET DOMAIN agent.pending :
       LET out == {w \in DOMAIN agent.pending :
                     \E p \in published : p.item = w /\ p.created = agent.pending[w]}
           s == RecordWrites(agent, out)
       IN /\ expired \cap out = {}
          /\ agent' = [s EXCEPT !.pending = [w \in DOMAIN @ \ expired |-> @[w]],
                                !.stale = s.running \ expired]
  /\ at' = "plan"
  /\ UNCHANGED <<now, write, published, lost>>

PlanOne ==
  /\ at = "plan"
  /\ \E w \in Plans(NormalState(agent)) : write' = {w}
  /\ at' = "draft"
  /\ UNCHANGED <<now, agent, published, lost>>

PlanNone ==
  /\ at = "plan"
  /\ at' = "idle"
  /\ UNCHANGED <<now, agent, write, published, lost>>

\* The draft is written and queued, unless its action is queued already.  A queue that
\* is too long loses another job; which one, is left open.
EnqueueWrite ==
  /\ at = "draft"
  /\ \E w \in write :
       LET s == NormalState(agent)
           excess == Max({0, Cardinality(s.queue) + 1 - QueueLimit})
       IN IF Queued(s, w) THEN agent' = s
          ELSE \E cut \in kSubset(excess, s.queue) :
                 agent' = [s EXCEPT !.queue = (@ \ cut) \cup {w},
                                    !.running = @ \ cut, !.stale = @ \ cut]
  /\ at' = "idle" /\ write' = {}
  /\ UNCHANGED <<now, published, lost>>

----------------------------------------------------------------------------
\* A run is killed; time passes.

KillRun ==
  /\ at # "idle"
  /\ at' = "idle" /\ write' = {}
  /\ UNCHANGED <<now, agent, published, lost>>

PassPeriod ==
  /\ now < MaxTime
  /\ now' = now + 1
  /\ UNCHANGED <<agent, at, write, published, lost>>

BudgetNext ==
  \/ PickWrite \/ PublishWrite \/ RecordAnswer \/ FailWrite
  \/ ReconcileWrites \/ PlanOne \/ PlanNone \/ EnqueueWrite
  \/ KillRun \/ PassPeriod

BudgetSpec == BudgetInit /\ [][BudgetNext]_budgetVars

----------------------------------------------------------------------------
\* Properties.

\* What runs is queued, only what was picked is pending, and nothing that is
\* recorded is queued or pending.
BudgetTypeOK ==
  /\ now \in 0..MaxTime /\ agent.date \in 0..Day(now)
  /\ at \in {"idle", "publish", "answer", "plan", "draft"}
  /\ write \subseteq Items /\ (write = {} <=> at \in {"idle", "plan"})
  /\ {agent.posts, agent.comments} \subseteq Nat
  /\ {agent.lastPost, agent.lastComment} \subseteq Never..now
  /\ agent.queue \subseteq Items /\ Cardinality(agent.queue) <= QueueLimit
  /\ agent.stale \subseteq agent.running /\ agent.running \subseteq agent.queue
  /\ agent.pending \in [DOMAIN agent.pending -> 0..now]
  /\ agent.done \cap (agent.queue \cup DOMAIN agent.pending) = {}
  /\ lost \subseteq published

Most(limit) == Max({limit[new] : new \in BOOLEAN})

On(d, items) == {p \in published \ lost : Day(p.time) = d /\ p.item \in items}

\* Publications of a day whose attempt began on the day before.
Straddling(ps) == {p \in ps : Day(p.created) < Day(p.time)}

\* Posts of a day keep to their budget, but for those whose attempt began before
\* midnight.  Comments are planned as long as the recorded ones are within theirs, so that
\* what the queue holds may come on top, and no more.  Posts are as far apart as the
\* spacing demands, counted from the attempt.  All of that holds whichever run, of
\* whichever day, records what was published, but for lost answers.
BudgetsAreKept ==
  /\ \A p \in published :
       LET posts == On(Day(p.time), Posts)
           comments == On(Day(p.time), Comments)
       IN /\ Cardinality(posts) <= Most(PostsPerDay) + Cardinality(Straddling(posts))
          /\ Cardinality(comments)
               < Most(CommentsPerDay) + QueueLimit + Cardinality(Straddling(comments))
  /\ \A p, q \in published \ lost :
       {p.item, q.item} \subseteq Posts /\ p # q /\ p.created <= q.created
         => q.time - p.created >= Min({PostSpacing[new] : new \in BOOLEAN})
=============================================================================
