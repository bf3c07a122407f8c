# Verification of coti-agent-messaging

TLA+ models of this repository's core logic, the TLC runs that check them, and
the theorems that TLAPS proves about them. Paths are relative to the repository.

## The system

The repository holds three long-running programs and some tools.

| Part | State it keeps | Operations |
|---|---|---|
| **Starter-grant service** (`starter-grant-service/src`) | one JSON file: `challenges`, `claims`, `audits`, `rateLimits`; an in-memory payout queue; a funder account on the COTI chain | issue a challenge, claim a grant, status, funding health, rate limits, attribution events |
| **Outreach agent, Moltbook** (`outreach-agent/src`) | an SQLite database and `state.json`: action jobs, pending writes, history, counters, cooldowns | *heartbeat* (reconcile, plan, draft, enqueue) and *executor* (pick due job, publish, record), two systemd timers under one `flock` |
| **Outreach agent, Reddit** | action jobs in SQLite, `state.json` and `reddit-memory.json`, which also has the history and cooldowns; a directory of browser requests | *heartbeat* (guards, ingest, plan, draft, enqueue), *executor*, both under one `flock`; a *session* started by hand; a browser worker |
| **Prompt rotation, account health** | `prompt-rotation.json`; the pause of posts and the recent posts in the Moltbook state | select and rotate a variant, record an action; find flagged posts |
| **Language-model bridge** (`bridge-server.ts`) | a directory of request and response files, a status file | serve requests that a person answers, stop |
| **Moltbook client** (`moltbook-api.ts`, `moltbook-verification.ts`) | none but the write in progress | publish, solve a verification challenge, answer it |
| **Analytics dashboard** (`analytics-dashboard/src`) | its own tables for manual actions; otherwise a read model over the agents' files | ingest, snapshot, manual CTA |
| **Contract statistics** (`contracts/src`) | none but the run in progress | find the first block, scan the logs, ask for details, report |

The MCP server, its SDK and the Solidity contracts are git submodules that are
not part of this tree; they are not modelled.

### Starter-grant service

* `storage.ts` is a FIFO lock: `transact` loads the file, runs the handler and
  saves the state, **also when the handler throws**. Handlers are atomic with
  respect to each other, except that a claim awaits the funder's balance while
  it holds the lock.
* `claims.ts` issues challenges and accepts or rejects claims. An accepted claim
  is saved as `pending_funding`; after the transaction its payout joins the queue.
* `payout-queue.ts` sends the native transfer, saves its hash, waits for the
  receipt with a timer, and saves the outcome. The queue lives in memory only.
* `funder.ts` computes whether the balance suffices and talks to the node.

Hard behaviours: a crash between any two of these steps; errors from the node
that do not say whether the transfer was taken; a timer racing the receipt; the
balance read before an await and compared after it; a challenge that is
reopened by a failed payout while others are issued; records cut from the tables.

Correct means: no wallet is paid twice, nothing is recorded as paid that was
not, wallet and install dedupe hold over the whole life of a claim, challenge
and failure limits hold, and a queued payout ends.

### Outreach agent

`runExecutor` (every 30 s) and `runHeartbeat` (every 5 min) exclude each other
with one file lock and are killed by systemd time limits. A write to Moltbook is
persisted as a *pending write* before it is published, and matched with what the
site shows by a later reconciliation. A job in `running` for 15 minutes is taken
for stale and becomes due again. Hard behaviours: a crash around the publish call; a
lost answer; a lease that ends before the reconciliation; the two copies of the
state (SQLite first, then `state.json`); caps that are read when a job is
planned and exceeded when it runs. Correct means: nothing is published twice, no
job is lost or retried for ever, and daily caps and cooldowns hold.

### Reddit

Heartbeats, executor runs and sessions plan a reply, queue it with an upvote
before it, and publish one due job each. Unlike Moltbook nothing is written ahead of a
request. Hard behaviours: three copies of the jobs, written one after the other, of which
another one counts after each kind of kill; a ban that must stop everything while jobs
stay queued, recorded in a history of which only the last 50 entries are
looked at; a daily cap checked when a reply is planned and not when it is
published; a session that goes on with the copy it had before it executed a job.

The browser is driven by a worker of its own. A run puts a request into a
directory and polls for the response for some minutes; the worker claims requests by
renaming them, and one that starts puts back what was being processed. A pid in a
lock file keeps it at one worker, nearly. Hard behaviours: workers killed before or after
a form is submitted, runs that give up while their request is processed, two workers
that pass the lock together, requests of earlier runs that are carried out late.

Correct means: nothing is published twice but where a record was prevented, what
is recorded is final whichever copy survives, a ban stays a ban, and an answer is that of
the request it answers, in order.

### Prompt rotation, account health

`prompt-rotation.json` counts, for each kind of write, the writes published with the
current variant, and rotates it after a few. Drafts carry their variant through
the queue and are recorded long after, by an executor run or a reconciliation. The
heartbeat looks for posts of its own that Moltbook has flagged, and pauses posting.
Correct means: a variant does not outlive its window by more than the queue, and no
post is queued while a known flag calls for a pause.

### Grant service over HTTP: rate limits and attribution

Each POST route is a chain of transactions on two stores, the grant file and the
attribution database, which the agent writes to and the dashboard reads as well. Between
two of them other requests run, and a restart drops the rest of the chain. Correct means: SDK
events are let in only for wallets that were paid, limits hold in every window,
and a report that is read in parts adds up.

### From a plan to a text

What is published is written by a language model, and both agents check what it answers.
On Moltbook one bundle of actions is selected from the feeds, and the text of at most one
write is shaped (normalised, linked, cut), checked against the rules and against what was
written lately, and queued. On Reddit each answer is checked, up to three times, cut if
it is too long, and checked again before it is sent; afterwards the public thread tells whether
it is shown. The daily budgets of comments and posts are looked at when a write is planned
and counted when it is recorded. Hard behaviours: a check that is made before
a later change of the text; memories of recent writes that are cut; two lists of forbidden
words that differ; a budget checked long before the write it is for; midnight in
between; an outcome that is unknown. Correct means: what is sent keeps the rules in the
form in which it is sent, a text is not repeated while it is remembered, budgets hold, and the
record of a write agrees with the site.

### Reading Reddit

A session reads its own threads again and some that listings turn up, offers what is new to the
planner, and keeps in a ledger what it has seen. Hard behaviours: a ledger that is
bounded, that only some sessions save, and that both excludes threads and tells new
comments. Correct means: each comment gets a chance, and one only.

### The Moltbook client

The site hides what is published until an arithmetic challenge is answered. The client
reads it with rules of its own, and asks a language model when they find nothing or are
wrong. Any failure fails the attempt, that of the record of a success too, and the executor may
publish again. Correct means: the rules read what the site is known to ask, no more is shown than
one copy, and the outcome of the job is that of its last copy, unless an answer or a record is lost.

### The language-model bridge

Requests and responses are files in one directory, which each server empties when it starts
and removes when it ends, before it knows whether another one has the port; a stop command
kills the process and removes the directory as well. Correct means: who waits for an
answer gets a whole one or an error, and can be found by who answers as long as no other process
has removed the directory. Files may outlive an answered request, as failures to remove them are
ignored.

### Dashboard and contract statistics

The dashboard is a read model over the agents' files and tables. Its attribution report is
composed of separate statements while events come in; the rest groups rows. The contract
statistics search for the first block, scan in batches, and ask for details with
concurrent workers whose requests are retried. Correct means: whatever fails on the way,
a report counts each message once, and its figures belong to the messages they are told of.

## Modules

| Module | Models | Source |
|---|---|---|
| `GrantTables` | challenge and claim tables, pruning, the questions handlers ask of them | `claims.ts`, `funder.ts`, `types.ts` |
| `StarterGrant` | lock, handlers, payout queue, chain, time, crashes; its properties | `claims.ts`, `payout-queue.ts`, `storage.ts`, `funder.ts` |
| `GrantLedger` | the promise: reserve, pay, grant, release | - |
| `GrantAttribution` | the POST routes as chains of transactions, refs, events, the wallet index, the report | `server.ts`, `attribution-store.ts`, `analytics-dashboard/src/storage.ts` |
| `RateLimits` | the table of rate-limit entries | `claims.ts` |
| `ActionQueue` | the queue of action jobs: compaction, picking, cooldowns, leases, retries, ageing | `action-execution.ts`, `job-queue.ts`, `policy.ts` |
| `MoltbookRuntime` | executor and heartbeat runs, pending writes, the two copies of the state, kills, time | `moltbook-job-runtime.ts`, `heartbeat.ts`, `moltbook-heartbeat-phases.ts`, `storage.ts`, `policy.ts` |
| `DailyBudget` | daily caps and spacing, from planning to record | `policy.ts`, `moltbook-job-runtime.ts`, `moltbook-action-planning.ts` |
| `Drafting` | bundle, draft, shape, checks, what is remembered | `moltbook-action-planning.ts`, `llm-content.ts`, `policy.ts`, `moltbook-account-health.ts` |
| `Verification` | one write with its challenge and its retries | `moltbook-api.ts`, `moltbook-verification.ts` |
| `PromptRotation` | buckets, variants, records of writes, flagged posts and the pause | `prompt-rotation.ts`, `moltbook-account-health.ts`, `moltbook-job-runtime.ts`, `policy.ts` |
| `LlmBridge` | servers, their directory, requests and the stop command | `bridge-server.ts` |
| `RedditRuntime` | heartbeat, executor and session runs, three copies of the jobs, guards, kills, time | `reddit-job-executor.ts`, `reddit-memory-persist.ts`, `reddit-account-guards.ts`, `reddit-session-limits.ts`, `reddit-controller.ts`, `storage.ts` |
| `RedditScan` | reading threads, offering items, the scan ledger | `reddit-ingestion-discovery.ts`, `reddit-scan-ledger.ts`, `reddit-review-queue.ts` and the readers of each backend |
| `RedditReply` | one reply: draft, checks, controllers, retries, the look at the thread | `llm-content.ts`, `reddit-controller.ts`, `action-execution.ts` |
| `RedditBridge` | request directories, client with time-out, workers with their lock, kills | `reddit-browser-worker.ts`, `reddit-controller.ts` |
| `MessageStats` | search, scan, pool of workers and report of the contract statistics | `contracts/src/message-stats.ts` |
| `MCStarterGrant`, `MCMoltbook`, `MCWriting`, `MCVenue`, `MCReddit`, `MCBridge`, `MCServices` | the instances for TLC | - |
| `QueueLemmas` | lemmas about `ActionQueue`, for both runtimes | - |
| `StarterGrantProofs`, `GrantLimitProofs` | theorems about `StarterGrant` | - |
| `MoltbookProofs` | what helpers and actions do; theorems about `MoltbookRuntime` and `MCVenue` | - |
| `BudgetProofs` | theorems about `DailyBudget` and `Verification` | - |
| `RedditProofs` | theorems about `RedditRuntime`, `RedditReply`, `RedditScan` and `MCReddit` | - |
| `ClientProofs` | theorems about `RedditBridge` and `Drafting` | - |
| `ServiceProofs` | theorems about `GrantAttribution`, `PromptRotation`, `RateLimits`, `LlmBridge`, `MessageStats` and `MCServices` | - |

Some instances run several components that share no state: `MCWriting` the Moltbook runtime and
the drafting, `MCVenue` the Moltbook runtime, the budgets and the verification, `MCReddit` the
Reddit runtime, the scan and the reply, `MCServices` five small ones. A variable of
the instance names the component of a behavior, and the others stay in their initial states,
so nothing is multiplied.

`MoltbookRuntime` and `RedditRuntime` extend `ActionQueue` as `StarterGrant` extends `GrantTables`:
the pure module holds the data and the questions asked of it, the other one the
processes.

### How `StarterGrant` corresponds to the code

*Tables.* `challenges` and `claims` are functions from insertion numbers, which
stand for the random ids and for the order of the JSON arrays: the code only
appends and cuts from the front. Claims keep status, wallet, install, requester
and date. Texts, hashes and audit events are left out. `keepRecentChallenges`
sorts by date, which is the insertion order except for records of the same
millisecond.

*Lock.* Every transaction is one step, except a claim: `BeginClaim` takes the
lock and reads the balance, and `DenyClaim`, `RejectClaim`, `AcceptClaim` or
`AbandonClaim` finishes it. In between the chain, the clock and crashes move, and
the payout queue does everything that needs no lock. A request captures `now`
before it waits for the lock, so `now` is any value between the previous
request's and the clock.

*Requests that only prune* (status, rate limits, refused challenges) are
`PruneStore`. A challenge request that finds an open challenge returns it, which
is also `PruneStore`.

*Claims.* `DenyClaim` covers every throw before the challenge is looked at, the
error of the balance request included, because the pruned state is saved then
too; `AbandonClaim` is the failed save. `RejectClaim` takes any wallet, install
and challenge, also one in `funding` or `claimed`, and a Boolean for payload,
answer and signature.

*Payout.* `phase` is the program counter of `process`: `idle`, `sendFailed`,
`sent` (hash not yet saved), `waiting`, `waitFailed`, `timedOut`, `confirmed`.
`FailRecord` is a transaction that could not save. Whatever happens to a payout
in flight, a restart forgets it (`Crash`).

*Chain (external).* A transfer is in the mempool, mined, reverted or dropped.
With `ErrorsAreFinal = FALSE` an error from the node says nothing about the
transfer; with `TRUE` it is never mined after an error. A time-out never says
anything. Amount and gas are constants.

### How `ActionQueue` and `MoltbookRuntime` correspond to the code

*Targets and kinds.* A target is what an action is about: a comment to answer, a
post to comment on or upvote, an agent to follow. Compaction keeps one job for
each dedupe key, so the queue is a function from targets to jobs. `Writes` are
comments and replies, which have pending writes; `Votes` are upvotes and follows,
which have none. There is one cooldown for each of the two kinds; the
cooldown between any two actions (10 s) is shorter than a period of the
heartbeat and left out, as are priorities.

*State.* `db` is the SQLite state, `file` the jobs in `state.json`, `mem` the copy
of the run in progress. Each has the job queue, `pending` (`pendingWrites`),
`done` (`repliedCommentIds`, `upvotedPostIds`, `followedAgentNames` and the
history, whose bounds of hundreds are left out) and `rest`, what is left of each
cooldown. `board` is external: how often Moltbook carried out each action.

*Runs.* `flock` lets one run live at a time; `pc` is its program counter. The
executor sweeps running writes whose pending write is gone (`Sweep`), picks a due
job and saves it as running and pending (`Pick`), requests it (`Publish`), and
records the outcome (`Published`, `Refused`, `AnswerLost`). The heartbeat
reconciles pending writes (`Reconcile`), queues votes and follows (`QueueVotes`),
drafts at most one write (`QueueWrite`) and saves a last time (`Report`). Which
candidates the feeds and the language model offer, daily budgets, pauses and the dry
run are the choice of what to queue, which may be nothing.

*Saving* is two steps, `SaveDatabase` and `SaveFile`. `Load` takes the jobs
of the file when the database has none. A save that fails ends the run and is a
`Crash` before the step.

*Time* is relative: `wait`, `age` and `rest` count heartbeat periods (5 minutes),
and `Tick` lets one pass. By default a lease is three periods.

*Faults* is the set of what may go wrong besides kills (`Crash`) and refused
requests (`Refused`), which always may:

| Fault | In the code |
|---|---|
| `lost` | a publication succeeds, and the answer, its verification or the prompt-rotation record fails |
| `unseen` | a pending write is published and not found by `matchesPendingWrite` |
| `unread` | reconciliation throws (`moltbook-job-runtime.ts:643`), or the run fails before it |
| `down` | the sources of a heartbeat cannot be loaded |
| `late` | no heartbeat reconciles in a period |
| `torn` | a run is killed between the two saves |

### How `RedditRuntime` corresponds to the code

*Jobs.* The queue is that of `ActionQueue`, the same functions of
`action-execution.ts`. `Writes` are the posts and comments that a reply can be for, `Votes`
the upvote of each (`Thing`).

*Copies.* `db` is SQLite, `file` the jobs of `state.json`, `json` the memory file. `Load`
takes the jobs of SQLite, of `state.json` when that has none, and of `json` only when
both are empty, and then moves them (`Hydrate`, `HydrateFile`). A save is three steps,
`WriteDb`, `WriteFile`, `WriteJson`; a synchronisation leaves out the third. `mem` is
the copy of the run, and `ws` the one that a session keeps while it executes a job.

*Memory.* A record of `touched` and `voted` targets, entries since the latest ban, entries of
today, what is left of the latest `nextEligibleAt` and of the cooldowns. The history itself is
not kept: only these questions are asked of it. Any clock tick may be the start of
a new day.

*Runs.* `run` and `pc` say which run is in progress and where. Heartbeat and executor are
under one `flock`; a session is started by hand and does both. The flock does not cover it,
but the model lets one run be in progress at a time: two at once is the operator's mistake.
Each run looks at the kill switch or the account (`CheckKillSwitch`, `RecordBan`,
`ClearQueue`), executes (`Execute`, `Publish`, `Published`, `Refused`, `AnswerLost`)
or plans (`PlanAction`, `DraftAndUpvote`, `Enqueue`), and writes a snapshot.

*External.* `board` counts the publications of each reply. A publication may be reported as an error
(`AnswerLost`). Which candidates ingestion and the review queue offer is a choice;
excluded is what the memory has touched.

### How `RedditBridge` corresponds to the code

Requests are numbered in the order of their file names. `requests`, `processing` and
`responses` are the three directories; a step moves, writes or removes one file.
A client run sends, polls, learns `ok`, `failed` or `late`, and removes both files
whatever happened; it may be killed at each step, and the next run sends the next
request. A worker's `pc` goes from `down` over `locking` (it found no lock of a live
worker) and `restoring` to `polling` and through one request after the other. Reading the
lock and writing it are two steps, so `raced` can happen; it is counted as a fault.
`Submit` is the submission of the form; `Fail` covers every error before and after it.
A signal closes a worker between two requests; the lock of a killed one is left and
is ignored, as its pid is not alive. `orphans` and `raced` are history variables. Not
modelled are errors of the disk, requests that read a page, and what happens on pages.

### How `PromptRotation` corresponds to the code

`buckets` and `last` are the store: a scope without a bucket takes over the one stored last, as
`getBucketState` does. `count` and `window` are
`actionsSinceRotation` and `rotateAfterActions`; `age` counts periods up to
`MAX_VARIANT_AGE_MS`. `Told` is what `recordPromptRotationAction` does to a bucket.
The steps of an executor run (`PickJob` to `SaveFailed`) and of a
heartbeat (`Backfill` to `QueueDraft`) are those of the runtime as far as drafts, pending
writes and posts go. `RecordPublished` precedes the save, so a kill in between lets
the reconciliation record the write again; a rotation record that is stored and
then fails in its audit is recorded as a failure as well (`FailAfterRecord`). `found`
and `owed` are history variables: the pause the flags found in this phase call for, and
what is left of the longest one that was saved.

Two oddities of the code are kept: a queued post is published during a pause, as only
planning asks for it; and the variant of a flagged post is never penalized, because the
artifacts of published posts have the id `post:<fingerprint>` (`policy.ts:1362`) and backfilled
ones no variant, so the lookup by the post's id at Moltbook finds nothing that has one, while
the message at `moltbook-account-health.ts:164` says "penalizing this variant".

### How `GrantAttribution` and `RateLimits` correspond to the code

A handler has a request and a label `at`, the next transaction of its chain. `challenges` is
the grant store as far as attribution goes: `none`, `issued`, `funding` or `claimed`, and
the ref of the challenge. `PayOut`, `Pending` and `FailPayOut` are the outcomes of the queue that
`StarterGrant` has in detail. Statements on the database may fail, which the code logs
and ignores: the row is then not written and the chain goes on. `paid` and `usage` are history
variables. The report is read in four statements: the totals, the groups, and two lists of refs with
room for `TopRefs` (25) and `RecentRefs` (10). Which refs a full list has is a choice, as the order
of the lists is left out. A statement that fails sends an empty report.

In `RateLimits` a transaction prunes entries older than the window, refuses or
appends, and cuts the table to its limit. `age` counts periods; an entry whose age
is the window still counts, as in the code. `allowed` and `cut` are history
variables of the window that ends now. The code filters the table; as its entries are in the order
of their times, that drops the first ones (`Recent`), and the type invariant says that what is in the
window is exactly what `Recent` keeps. Histories forget by a window of their own, `LastWindow`.

### How `DailyBudget` corresponds to the code

`agent` is the durable state as far as budgets go: the day and the counts of posts and comments
(`date` stands for both dates, which change together), the times of the last ones, the queue, what
of it runs, and the time at which each pending write began. `NormalState` is the part of
`normalizeState` that begins a new day. A write counts for the day on which its attempt began
(`CountedToday`), whoever records it: the executor (`RecordAnswer`) or a reconciliation
(`ReconcileWrites`). Both use `RecordWrites`, for the one write of the run or for all that were
found; their order does not matter to a count and a latest time. `Plans` has the caps, the pace of
comments and the spacing of posts, all of which are looked at only when a heartbeat plans.
`published` and `lost` are external and a history variable.

### How `Drafting` corresponds to the code

A heartbeat goes through `turn`: it reads the recent posts of the account
(`SyncAccountHealth`), selects a bundle from what is offered (`SelectBundle`, with or
without a usable answer of the model), queues what needs no text (`EnqueueJobs`) and writes
(`ChooseAndDraft`). The last one is the whole way of an answer: `Shaped` normalises
it, adds a tracked link and cuts to the limit, `Verdicts` are the checks in the order of the code.
A post without a proof point is asked for once more. A text is its pieces, its wording and
the sense of that: similarity of texts is being of one sense. `artifacts` and the posts
published last are what a text is compared with.

### How `Verification` corresponds to the code

`PublishContent`, `Solve`, `Unsolved`, `Ask` and `Verify` are the steps of `createPost`,
`createComment` and `verifyContentIfNeeded`; `RecordOutcome` and `RecordFailure` those of the
executor. A record of a success that throws (`moltbook-job-runtime.ts:353` to `:368`, in the `try` of
the publication) leads to the same `catch` as a refusal. Whether a failure is retried depends on the
words of its message, which `RecordFailure` leaves open.

A word is what `fuzzyNumberValue` makes of it: the widths, from one word to three, at which it and
the words after it, written together, read as a number, exactly or within the edit distance, and
the number of each width. So "twentyto" is a word of the widths one and two if a text spells it
"twenty to" with a word that is no stop word, and the rules take both. What the letters are is left
out; how words are joined to numbers, numbers to operands, and the precedence of the four
operations are not. Numbers are whole (decimals are left out; the normalisation leaves no sign),
answers are in hundredths, a quotient rounded up at an exact half, where the code may round down. A
quotient by zero is passed over for the next text.

`truth` is what the site takes for right, `regular` marks a challenge of the forms that the site is
known to use. `Regular` says what these are, for operands of any size: each read as one number, or
as tens and units (`Spelled`), with words of one operation, and with smaller counts, up to 19,
before, between and behind them, which are not joined with other words and of which none follows an
operand without another word; a quotient is no exact half. An inexact match belongs to an operand if
it reads as that number, so `Regular` also says which noise the rules tolerate: none that reads as a
number not below the operands, and none that reads on beyond one. Numbers that a double does not
hold are beyond the model. TLC runs some of the challenges; it cannot enumerate `Regular`, which
only `RulesCorrect` uses.

### How `LlmBridge` corresponds to the code

A process goes from `down` over `emptying`, `starting` and `listening` to `up`; it is `bare` when it
could not write its first status, as it then listens without handlers of signals, and `closing`
after a signal. Each handler awaits between its writes, so its steps are actions of their own: the
request file, the status, the polls, the status again, the answer, and the removal of the two files,
of which each may fail unnoticed. Whatever a handler writes into a directory that is gone is a
rejection: a failed request, or in the error path the end of the process (`FailRequest`). `wiped`
and `crashed` are history variables. A response is written in parts by whoever answers, and also
late, when its request is over.

### How `RedditScan` corresponds to the code

One action for each backend reads threads and offers items (`IngestViaReddapi`,
`IngestViaUnofficial`, `IngestViaBrowser`, `IngestViaApi`); the session then chooses an
item (`ChooseAction`), writes a draft, or queues a reply and saves the
ledger. The rules and scores that let an item pass or choose it are a choice. `given` and
`recorded` are history variables. With ReddAPI a comment is known by its place in the list
(`byPlace`), and what is shown of comments holds of places.

### How `RedditReply` corresponds to the code

`DraftReply` asks for an answer and checks it in the order of `validateRedditDraft`;
`TrimLast` cuts the last one. `Submit` is a try: the check before publication, what the
controller refuses, sends and learns, and whether the failure is retried, which depends on
the words of its message. A text is whether it is too long, which list a word of it is in, and
whether that word is in the part that is cut off. `CheckVisibility` is the look at the
public thread. `copies` is external, `doubts` counts tries that sent a copy and failed.

### How `MessageStats` corresponds to the code

The chain is the block of each message and of the contract, chosen at the start; nothing is
sent after `toBlock` was read that would be seen. `phase` goes through the ways
to find the first block (given, by code, by logs), the scan and two pools of workers, for
the details of the messages and the times of their blocks. A worker takes the next item and
awaits its answer; a failed one is asked for again `Attempts` times. The figures are
operators on what the workers stored, compared with reference definitions when the report is done.

## Runs

| Run | Configuration | Shows |
|---|---|---|
| `grant_safety` | `GrantSafety.cfg` | eight invariants with errors that are not final and a table that keeps 2 of 3 claims |
| `grant_ledger` | `GrantLedgerRun.cfg` | the refinement of `GrantLedger`, and that the payout queue drains, when errors are final and no record is cut |
| `grant_ambiguous` | `GrantAmbiguous.cfg` | violation of `OneTimeGrant`: a send error for a transfer that is mined |
| `grant_forgotten` | `GrantForgotten.cfg` | violation of `OneTimeGrant`: the claim's record was cut |
| `moltbook_faults` | `MoltbookFaults.cfg` | what holds of the runtime with every fault switched on, and with one place for pending writes so that they are evicted; and what holds of drafts |
| `moltbook_safety` | `MoltbookSafety.cfg` | no write is published twice or forgotten, with up to three kills and no fault; budgets; the verification of a write |
| `moltbook_liveness` | `MoltbookLiveness.cfg` | pending writes and jobs settle, lost answers, unreadable pages and wiped states included |
| `moltbook_blind_retry` | `MoltbookBlindRetry.cfg` | violation of `WritesOnce`: a lost answer |
| `moltbook_wiped` | `MoltbookWiped.cfg` | violation of `NothingForgotten`: a heartbeat that cannot load its sources |
| `reddit_safety` | `RedditSafety.cfg` | publications, records, bans and the daily cap with a kill at any step and lost answers; the scan; the way of a reply |
| `reddit_bridge` | `RedditBridge.cfg` | executions, answers and their order with kills, time-outs and racing workers; requests settle |
| `services` | `Services.cfg` | prompt rotation, attribution, rate limits, the language-model bridge and the contract statistics |

The properties of `grant_safety`:

* `TypeOK`: shapes and lower bounds.
* `OneLiveClaim`: two live claims share neither wallet nor install.
* `OneTransferPerClaim`: a claim is sent at most once.
* `ClaimedIsPaid`: claimed means mined, to that wallet.
* `OneTimeGrantUnlessForgotten`: a wallet is paid once, unless a record was cut
  or a failure was reported for a transfer that was or may be mined.
* `FundingIsPending`: a challenge in `funding` has a pending claim behind it.
* `OneOpenChallenge`: one for an identity, reopened ones included.
* `LimitsHold`: `OpenChallengesBounded`, `FailuresBounded` (the lock-out limit holds in every
  window, for claims dated by requests that waited) and `AmountsReserved` (the balance
  covers all unpaid pending claims, gas aside).

*Findings.* The two violations are the two ways to a second grant the safety
run excludes. (1) `payout-queue.ts:78` frees the wallet on every error that is not a
time-out; an RPC error does not mean the transfer was not taken. (2)
`claims.ts:113` keeps 2000 claim records, rejected ones included; when later
claims push a claimed one out, its wallet is eligible again. `docs/mcp.md:521`
calls wallet dedupe "the real enforcement boundary for the one-time grant".

The properties of the Moltbook runs:

* `TypeOK`: the queue, the pending writes and all counters keep their limits, in
  each copy of the state.
* `WriteAhead`: an authored write is requested only while its pending write and
  its running job are durable.
* `RecordsAreTrue`: what is recorded as done was done.
* `WritesOnce`: an authored write is published at most once.
* `NothingForgotten`: what was published is recorded or pending, durably.
* `RecordedIsFinal`: what is recorded is not done again, votes included.
* `WorkSettles`: a pending write is recorded or expires; an active job is executed, given up or
  cut.
* `WritingIsSound`: a queued text keeps the rules in its final form (`TextIsLegal`); two posts
  of one sense have so many writes between them that the first was forgotten
  (`PostsDiffer`); a bundle has one write and no more follows than allowed.
* `BudgetsAreKept`: posts of a day, comments up to what the queue holds, and the spacing of
  posts, whichever run of whichever day records them, but for attempts that straddle midnight
  and lost answers.
* `RulesAreRight`: the client's rules answer the challenges that are marked as regular.
* `OutcomeIsTrue`: only hidden copies are published again, and the outcome is that of the last
  one, but for lost answers and for successes whose record throws, each of which may leave one more
  copy that is shown.

*Findings.* (3) `moltbook_blind_retry`: every error of the publication, or of what follows it
in the same `try`, requeues the job **and** removes the pending write in one save
(`moltbook-job-runtime.ts:389`), so a write whose answer was lost is retried
without reconciliation, while the outreach README says that uncertain writes are
reconciled "instead of blindly retrying". (4) `moltbook_wiped`: the session of a
heartbeat starts from `createInitialState()`, and when its sources cannot be
loaded the error path saves that over the durable state (`heartbeat.ts:204`).

Beyond the findings, two promises that nobody makes do not hold, and the safety
run leaves their faults out: a heartbeat that is late by more than a lease lets stale
recovery repeat a published write (`late` refutes `WritesOnce`), and a run that is killed
between the two saves lets the file bring back the last job after it was done
(`torn` refutes `RecordedIsFinal`). A vote whose run is killed after the request
is requested again: votes have no pending record.

The properties of `reddit_safety`:

* `TypesOK`: every copy is well formed, and what is durable is cut; so are the ledgers of the scan.
* `OnceUnlessInterrupted`: a reply is published twice only after an attempt whose record was
  prevented by a kill or a lost answer.
* `RecordedIsFinal`: what the memory file has recorded is not published again, whichever
  copy of the jobs survives a kill. It holds because that file is written last.
* `ReplyLimits`: `BanIsFinal` (no number of entries recorded after a ban pushes it out of the
  window of the kill switch) and `DayBound` (the cap of the day is exceeded by no more than
  what was queued).
* `ScanIsSound`: a comment that is long enough and unanswered is offered when it is first
  read, and not again after a session saved its ledger, unless the ledger had to forget it.
* `ReplyIsSound`: what is queued keeps the drafting rules and what is sent has no listed word
  (`DraftIsLegal`); there are no more copies than tries in doubt allow (`CopiesAreCounted`);
  the record agrees with a thread that was read (`RecordIsTrue`); what can never be sent is
  tried once (`HopelessIsDropped`).

Of `reddit_bridge`:

* `TypeOK`: a file is in one place, and what is processed has a holder.
* `OnceUnlessOrphaned`: a form is submitted twice only if its worker was killed with it, or
  workers raced.
* `OkIsDone`: what a run reports as published was.
* `AnsweredInOrder`: once a run has its answer, no earlier request is open, late and restored ones
  included.
* `RequestsSettle`: a request is served or withdrawn, under fairness.

Of `services`:

* `TypesOK`: the type invariants of the five modules.
* `RotationIsSound`: `WindowIsKept`, a bucket's count stays below the widest window, a full queue,
  and a full queue for each fault, as a heartbeat that is killed may have counted as many writes as
  the queue holds; and `NoPostInPause`, no post is queued while a known flag calls for a pause.
* `UsageIsOfGrantee`: on the route without the token, and while claim records are not cut, an SDK
  event is let in only for a paid wallet and its ref. (With the token no wallet is looked up; after
  a cut a wallet may be granted again, for another ref.)
* `ReportAddsUp`: a later part of a report accounts for what an earlier one counts, but for the refs
  that a list has no room for; a list with room for all falls behind in nothing.
* `WindowLimit`: no requester exceeds a limit, but by what others drove out of the
  full table.
* `BridgeIsSound`: a client is told only what was written in full; a request that waits has its
  file, and a server ends with a rejection, unless another process removed its directory.
* `ReportIsTrue`: however the first block was found and whichever requests failed, each
  message is counted once and in order, details belong to their messages, and the figures are
  those of the reference definitions.

*Observed, and without a run*, as no document says otherwise or nothing depends on it:

* a wallet that was paid may never be attributed, after a restart between payout and index
  (`server.ts:553`); claims that are refused or fail are no events;
* a pause does not hold back a queued post; backfilled posts are cut again at once when the
  memory of 20 artifacts is full, and own posts are remembered twice;
* the fingerprints of created posts do not help once a tracked link is configured, as every link is
  new; the cut of a long post may leave its link twice, or a fragment;
* a Reddit client that times out does not withdraw a request in process, and its late response
  stays in the directory; an executed upvote ends the cooldown that the reply before it began;
  the first blocked run records the ban and leaves the queue, which the next one clears;
* `isRetryablePublishError` looks for error codes in error messages: a refusal of the
  manual controller is retried, an expired token ends the job at once; queued replies to
  comments always fail through ReddAPI and the browser, for want of an address;
* another comment with the same first 80 characters counts as the agent's own, in the look at the
  public thread and in the browser's own check;
* `outreach-agent/README.md:325` says that own threads are "always re-checked", and the code
  reads the first `maxOwnThreadReads`; `:327` says that cold scrapes are skipped "when comment
  count is unchanged", and the code compares a ledger entry with its own count, so that every
  young entry excludes its thread. ReddAPI's comment ids are places in a list.

### Bounds

*Starter grants.* Two wallets and two installs are what dedupe, identity mismatch and limits
distinguish; with one of each no race is possible, a third adds no new relation.
One requester: a second only weakens the lock-out. `MaxClaims = 3` allows a
first claim, a second one racing it, and one after either failed or was cut;
`MaxChallenges = 2` a reopened and a new challenge. `MaxClock = 1` with
`ChallengeTtl = 1` and `RejectWindow = 0` (`1` in the two violations) lets challenges
expire and windows end. `MaxStoredClaims` stands for 2000: 2 in `grant_safety`,
so that records are cut; `MaxClaims` in `grant_ledger`, so that none is; 1 in
`grant_forgotten`. `InitialBalance` covers one grant and its gas exactly (two
grants without gas in `grant_ledger`), and `MaxBalance` bounds top-ups.

*Moltbook runtime.* Two writes compete for a cooldown, a place in the queue and, in
`moltbook_faults`, a place among pending writes; one vote or follow has the other cooldown.
`MaxJobs = 2` for three targets makes compaction cut. `MaxAttempts = 2` has a retry and a last
attempt. `Lease = 3` and `MaxMisses = 3` are the defaults in periods and reconciliations, 2 where
more faults or liveness need the room. `MaxCrashes = 3` kills the same job in all its attempts and
once more. `Slots` (executor runs in a period, ten in the system) and `Overdue` (how long a due
job is seen to wait) bound what repeats itself, and `MaxBoard = 2` tells twice from once.
`MaxPending` is as large as `Writes` except in `moltbook_faults`: an evicted write is forgotten,
but in the system ten unresolved writes within three heartbeats need ten killed runs. Liveness is
checked for one write and one vote, which take their turns in one queue; the faults are worth more
there than a second write.

*Budgets, drafting, verification.* A day of three periods and time for one midnight and a bit
more; one post and one or two comments a day; three posts, three comments, or one of each;
one lost answer. Drafting: a post, a reply and two agents to follow; three wordings of
two senses; posts of two pieces; memories of two; four published and two queued writes, so that
both memories forget. Verification: two attempts, one answer or record lost, the four
operations, operands in one to three words with other counts around them, one that is matched
inexactly together with the next word, a divisor of zero before a text that can be read, and
challenges that only the model can answer.

*Reddit runtime.* Two replies and one upvote, of the first of them, with `MaxJobs = 2`: the
upvote, its reply and another one compete for the queue, which is cut. `MaxPerDay = 1` is
reached by one action, so that the cap is exceeded. `KillWindow = 3` exceeds `MaxJobs` as 50
exceeds 30; that is an assumption of the module, as `BanIsFinal` depends on it. `Breaker = 2`
differs from `Cooldown = 1`. One kill and any number of lost answers; `MaxAttempts = 2`; one
executor run in a period, `Overdue = 0`. A second kill multiplies the states and adds a
second interrupted attempt only.

*Scan and reply.* Two threads, two comments of one of them, all limits one, so that threads and
ledger entries are left out; the list of seen comments has room for both, as one that has not
excuses everything that `ScanIsSound` says of comments. Three answers and two tries, every
controller, layout and kind of text.

*Bridges.* Two workers, as a race needs; two requests, as an order needs; two faults of any
kind: a race and a kill, two kills, a killed run and a killed worker. Two servers of the
language-model bridge, two requests, three starts and two stops: each server starts over the
other one.

*Services.* Windows of one write, a queue of one, two variants, pauses of two periods and one; two
posts and a reply. With faults (two) only the posts are written, without the reply too: the sum is
what a run of five minutes explores. Attribution: one wallet, two refs, two handlers at once and
three requests, from any challenge already issued; lists with room for one ref of two. With
reports (`report`) two requests, as the report only reads. Rate limits: two requesters, limits of
two and one, a table of three that the two overfill, up to two entries lost in a window.
Statistics: three messages in up to five blocks, batches of two, two workers, two attempts.

`CHECK_DEADLOCK FALSE` is said in `services`, whose bounded numbers of requests, starts and
faults end, and in `reddit_bridge`, whose workers are at rest when every run has its answer and
kills are used up.

### Fairness

*Bridge.* `FairSpec` has weak fairness of each worker's steps: it polls in a loop, and
is started again when it ends (`outreach-agent/docker-compose.yml:7`,
`restart: unless-stopped`). Nothing is
assumed of runs, and kills are finitely many in the model.

*Moltbook.* `FairSpec` has weak fairness of `Run`, any step of a run or of time: the timers start
runs again and again, each step of a run ends or the run is killed, and kills are finitely many in
the model. It has strong fairness of `Reconcile`: while the site cannot be read, no pending write
is looked at and none expires, and it can be read now and then. No other outcome is fair: every
request may be refused, every answer lost, every draft declined. Heartbeats and executor runs both
happen in a period that ends because `Tick` waits for them (without `late`), which is how five
minutes relate to thirty seconds.

*Starter grants.* `QueueDrains` assumes weak fairness of a claim that holds the lock (it awaits one
RPC call and file writes), of the outcome of sending, and of the confirmation
timer, which fires after `fundingConfirmTimeoutMs` whatever the node does; and
strong fairness of recording an outcome, because the lock, which requests take
again and again, is a FIFO in which the payout's transaction has its turn. No
fairness is assumed of the chain, of requests or of crashes. `sendTransaction`
has no time limit of its own in `funder.ts`; that it returns is assumed.

## Proofs

All theorems are for every value of the constants that the named assumptions of their
modules allow: limits are natural numbers, some of them positive, sets of targets are finite.
Where more is assumed, it is said. TLC has checked each invariant below, or its parts, before it was
proved.

### Starter grants

| Theorem | States |
|---|---|
| `StarterGrantProofs!TypeCorrect` | `Spec => []TypeOK` |
| `Dedupe` | `Spec => []OneLiveClaim` |
| `SentOnce` | `Spec => []OneTransferPerClaim` |
| `ClaimedAfterPayment` | `Spec => []ClaimedIsPaid` |
| `RecordsMatch` | `Spec => []PayoutsMatchRecords` |
| `OneGrantPerWallet` | `Spec => []OneTimeGrantUnlessForgotten` |
| `LedgerImplemented` | `ErrorsAreFinal /\ Spec /\ []WithinRetention => ImplementsLedger` |
| `GrantLimitProofs!FundingHasClaim` | `Spec => []FundingIsPending` |
| `OneChallengePerIdentity` | `Spec => []OneOpenChallenge` |
| `LimitsAreKept` | `Spec => []LimitsHold` |

None of the properties but the type is inductive alone. `RecordConfirmation`
sets a claim to `claimed` from any status, so `OneLiveClaim` survives it only
because the claim of the payout in process is still pending; that holds because
jobs are queued in the order of their claims, one per claim (`JobsArePending`).
`OneTransferPerClaim` needs that no queued claim was sent yet, except the one in
process; `ClaimedIsPaid` needs that the awaited transfer is that of the payout in
process (`InProcess`). `PayoutsMatchRecords` is the conjunction of these facts. A step
touches the claim table in three ways, and there is a lemma for each: it cuts records
(`CutStep`), adds one (`AddedClaim`), or ends the payout in process (`FinishStep`).

`OneGrantPerWallet` follows: within the retention limit every transfer's claim is
still stored (`Retained`, with the counting lemma `PruneClaimsRetains`), it is not
rejected, and not failed because failures were final; so two mined transfers to
one wallet have live claims of one wallet, which are one claim, sent once.

`LedgerImplemented` is the refinement, step by step: every action of the service is a step of
the ledger or leaves it unchanged. The step that releases a reservation is the hard one: it
must not release a grant that was or will be paid. The invariant `Final` says that a
failure that was recorded was final, that after a failed sending nothing was sent for the claim
in process, and that after a failed confirmation its transfer was reverted or dropped.

`FundingIsPending` and `OneOpenChallenge`: a challenge is issued only to an identity without a live
claim, and that excludes one in `funding` only if the pending claim behind it is of the same wallet
and install (`Funded`). Every other step of the table `Withers` it: it opens nothing.

`LimitsAreKept` has an invariant for each of its parts. A failed payout reopens its challenge, so
`OpenInv` counts those in funding as open; it turns a pending claim into a failure, so `FailuresInv`
counts pending claims as failures in every window, also in those that begin later. `AmountsInv`
relates the balance that a claim has read under the lock to what was paid since: payouts
lower the balance and what is promised together.

### Moltbook

| Theorem | States | Assumes |
|---|---|---|
| `MoltbookProofs!TypeCorrect` | `Spec => []TypeOK` | - |
| `WriteAheadAlways` | `Spec => []WriteAhead` | - |
| `RecordsTrue` | `Spec => []RecordsAreTrue` | - |
| `RuntimeCorrect` | `Spec => []RuntimeInv` | `Quiet` |
| `PublishedOnce` | `Spec => []WritesOnce` | `Quiet` |
| `NeverForgotten` | `Spec => []NothingForgotten` | `Quiet` |
| `WaitingNew` | `Spec => []WaitingIsNew` | `Quiet` |
| `RecordedFinal` | `Spec => RecordedIsFinal` | `Quiet` |
| `VenueTypesCorrect` | `VenueSpec => []TypesOK` | - |
| `ClientProofs!WritingCorrect` | `DraftingSpec => []WritingIsSound` | - |
| `BudgetProofs!BudgetsCorrect` | `BudgetSpec => []BudgetsAreKept` | - |
| `BudgetTypeCorrect` | `BudgetSpec => []BudgetTypeOK` | - |
| `ClientTypeCorrect` | `ClientSpec => []ClientTypeOK` | - |
| `OutcomeCorrect` | `ClientSpec => []OutcomeIsTrue` | - |
| `RulesCorrect` | `ClientSpec => []RulesAreRight` | `c.regular => Regular(c)` |

The first three hold with every fault. `Quiet` says that no fault occurs, that a
lease is longer than one heartbeat period, and that every write has room to be
pending; kills and refusals are unbounded.

`QueueLemmas` states what the operators of `ActionQueue` keep and change, for both runtimes; the
lemmas of `MoltbookProofs` state, for each helper and each action, what it keeps of a well formed
state and which jobs and pending writes it changes; the invariants are then proved from these
statements with one lemma or step for each action. Of the properties under `Quiet` none is
inductive. `RuntimeInv` joins:

* `Settled`, of the durable state and of the copy about to be saved: what was
  published is recorded or pending, what waits is new, and a published write that
  still runs has an age of at most one period, none once a heartbeat has passed
  reconciliation in this period. This is why stale recovery, which requeues only
  jobs as old as the lease, cannot requeue a published write.
* `InStep`: outside its saves, the copy of a run is what is durable, and the two
  copies on disk agree. A kill therefore loses nothing that is not settled.
* `InExecution`: before its request a write is new, after it the action is done,
  and its job is running and pending throughout.
* `Reconciliation`: after it, and until the end of the heartbeat, no pending
  write was published.

`WritingCorrect`: that a text which passes the checks is legal in its final form is one lemma,
`AcceptedText`, over every shape an answer can take; `BundleIsSmall` follows from what is selected
(`SelectedIs`) and from the follows added later (`FollowsFit`). `PostsDiffer` is about the past and
needs an invariant: what was forgotten has given way to later writes (`MemoryInv`, with the counting
lemma `Displaced`), only posts are remembered twice, and at most one post waits in the queue, as all
posts have one action id, which would still differ if it were published now (`WaitingInv`).

`BudgetsAreKept` speaks of publications, the agent only of what it has recorded. `BudgetInv` closes
the gap: a publication that is not recorded has a pending write that names its attempt, and its job
is in the queue and not due, so that no one repeats it (`KnownOK`); what is recorded of the agent's
day is counted (`CountsOK`); at most one post is in the queue or on its way, as all posts have one
action id, and the day of its attempt has room for it (`PostsOK`); the comments that are recorded
for a day are, with those in the queue, and with those whose attempt began that day, fewer than
budget and queue together (`CommentsOK`). A heartbeat plans only when it has reconciled, when all
that was published is recorded (`Planning`); an executor works on what no one else may pick
(`Executing`). The parts are predicates of a time, an agent and a set of publications,
and one lemma for each kind of move (a period passes, a write is picked, published, recorded, queued
or leaves) says that they are kept; the lemma of an action puts its moves together. What
the property leaves open is real: an attempt before midnight may be published after it, and a
comment is planned when the recorded ones are below the limit, whatever is queued.

`OutcomeIsTrue` needs that an attempt works on its own copy (`OwnCopy`) and that of the shown
copies all but the last are paid for by lost answers and records (`ShownIsCounted`); it is for any
challenges and guesses.

`RulesCorrect` is about what the client computes. `ExtractNumbers` is a recursive function: a
table exists that satisfies its equation (`TableExists`, filled from the end; the induction is the
lemma `PassedOn`, from the well-foundedness of the natural numbers), and from that equation alone
what is read from each place of a text follows. Small counts are read one by one (`ReadsGap`); an
operand as one number, whether it is one word or up to three, or tens and units split separately,
as the widest reading of its first word is taken (`ReadsNumber`) and nothing after it joins it
(`ReadsOperand`). Hence the numbers of a regular text are its operands among
smaller ones (`ReadsAsked`), whose two largest, in their order, are these (`TwoAmongCounts`). The
assumption says what the mark `regular` means; the challenges of the run meet it
(`InstanceIsRegular` in `MoltbookProofs`). It also shows what the rules need: that a word
separates an operand from a count behind it, as "twenty" and a count would be read as one.

`VenueTypesCorrect` joins three theorems: a step of `MCVenue` is one of one view, and a stutter of
the others (`EachView`); so for `MCReddit` and `MCServices`.

### Reddit

| Theorem | States |
|---|---|
| `RedditProofs!RuntimeTypeCorrect` | `Spec => []TypeOK` |
| `OnceCorrect` | `Spec => []OnceUnlessInterrupted` |
| `LimitsCorrect` | `Spec => []ReplyLimits` |
| `RecordedCorrect` | `Spec => RecordedIsFinal` |
| `ReplyTypeCorrect` | `ReplySpec => []ReplyTypeOK` |
| `ReplySound` | `ReplySpec => []ReplyIsSound` |
| `ScanTypeCorrect` | `ScanSpec => []ScanTypeOK` |
| `ScanSoundCorrect` | `ScanSpec => []ScanIsSound` |
| `RedditTypesCorrect` | `RedditSpec => []TypesOK` |
| `ClientProofs!TypeCorrect` | `RedditBridge`: `Spec => []TypeOK` |
| `OnceCorrect` | `Spec => []OnceUnlessOrphaned` |
| `OkCorrect` | `Spec => []OkIsDone` |
| `OrderCorrect` | `Spec => []AnsweredInOrder` |

The properties of the runtime rest on one relation, `Fits(m, jobs)`: a memory fits a copy of the
jobs when nothing it has touched is among them, when after a ban the entries recorded since and
the room the jobs may still need stay below the window of the kill switch, and when the entries of
today and that room stay within `MaxPerDay + MaxJobs`. The invariant says that the memory file
fits each of the copies on disk and the copy of the run, and that the memory of the run fits its
jobs; that the two memories are level except while a publication is being recorded; and what of
that holds of the copy that a session keeps while it executes (`ws`). It is the order of the three
writes that makes a kill between any two of them harmless: the memory file, written last, can only
know less than the run, and a job that it does not know to be done is an interrupted one. `MaxJobs
< KillWindow` is used for the ban.

`ReplySound` is inductive but for what the checks of a text have in common: an accepted draft has no
word of the drafting lists, and one that the venue refuses is never sent.

`ScanIsSound` relates what was read, what was offered and what a ledger remembers. Its invariant
says of both ledgers, the saved one and the one that a session would save, that each is a ledger
(`LedgerFor`) for the threads recorded, the comments offered and the comments answered: what it
says was seen was offered or answered, and a comment that was offered and is no longer in it has
given way to more comments, or more threads, than it may hold. A read merges into the ledger of
the session only; saving makes that the saved one, and a kill drops it with what was offered from
it. The limits are those of two loops that cut the oldest, so a lemma each says what a cut keeps.
Threads and comments are finitely many, which any history is.

For the browser bridge `BridgeInv` joins, as long as workers have not raced:
`Exclusive` (the one that serves has the lock), `Processing` (once it has restored, what
is processed is what it holds, and it holds the oldest), `Honest` (answers follow
submissions; also after a race), `Ordered` (what was answered is older than what is open) and
`Fresh` (a request of no killed worker is held by the worker that processes it, and was
not submitted before). `AnsweredInOrder` is not inductive: an answer is given to the
oldest request only because requests are claimed by `Min` and restored before any is.

### Services

| Theorem | States |
|---|---|
| `ServiceProofs!GranteeCorrect` | `AttributionSpec => []UsageIsOfGrantee` |
| `RotationTypeCorrect` | `RotationSpec => []RotationTypeOK` |
| `RotationCorrect` | `RotationSpec => RotationIsSound` |
| `RatesCorrect` | `RateSpec => []WindowLimit` |
| `RateTypeCorrect` | `RateSpec => []RateTypeOK` |
| `AttributionTypeCorrect` | `AttributionSpec => []AttributionTypeOK` |
| `ReportCorrect` | `AttributionSpec => ReportAddsUp` |
| `LlmTypeCorrect` | `LlmSpec => []LlmTypeOK` |
| `LlmBridgeCorrect` | `LlmSpec => []BridgeIsSound` |
| `StatsTypeCorrect` | `StatsSpec => []StatsTypeOK` |
| `ReportTrue` | `StatsSpec => []ReportIsTrue` |
| `ServicesTypeCorrect` | `MCServices`: `Spec => []TypesOK` |

An event of the SDK is checked against the wallet index, two transactions before it is recorded; the
index is written by another handler, three after a payout. The invariant says that what a
handler has found stays true (`StillTrue`), which rests on a paid wallet being
claimed for good (`Stores`) and on one payout for a wallet at a time (`OnePayout`).

`WindowIsKept` needs a potential: what a bucket has counted and the jobs and pending writes that
may still be counted stay below the limit (`CountInv`), where a kill may add a full queue.
`NoPostInPause` needs that the pause that is saved is at least what is owed, and that the copy of
a heartbeat that plans is the saved state.

`WindowLimit` is inductive once it is said what the table and the two histories have to do with
each other (`RateInv`): what was let through in the window is what the table has lost of it,
followed by what the table holds of it, `allowed = cut \o Recent(entries)`; and the table holds no
more of a requester and a bucket than its limit. Both hold because entries stay in the order of
their times, so that the code's filter, its cut to the newest entries and the passing of time each
take a prefix.

`ReportAddsUp` compares what two statements of one report have read. `ReportInv` says that what
the first counted as resolved is no more than there is now, whichever refs are listed:
transactions of all handlers only add refs and events (`DatabaseGrows`), and a sum over more refs,
or of larger counts, is larger, which is an induction on finite sets of refs (`Ref` is assumed
finite: it is what was registered).

`LlmInv` says that an open request belongs to a process that is up or closing, that one process
listens, and that without the directory every running process has lost it (`Wiped`), so that only
such a one can end with a rejection.

`ReportIsTrue` has an invariant in five parts. `ChainInv`: blocks do not decrease from message to
message, and the contract is not younger than the first. `FirstInv`: the search keeps `low <=
high`, and unless the block was given, no message is before `low`; a probe of the code or of the
logs moves one of the two and keeps that. `MessagesInv`: the messages collected are increasing and
are those from `low` to what was scanned (`SeenTo`), so that batches neither overlap nor leave a
gap. `PoolTyped`: `next` is beyond what any worker does, and no two do the same. `Heard` in
`PoolInv`: each item taken is answered rightly or still in the hands of a worker; when none is and
`next` is beyond the end, all results are right. That two increasing sequences with the same
elements are equal gives the messages (and their order), and that sorting is determined by
counting what is smaller (`PlaceOf`) the percentiles.

### Only model-checked

* Liveness: `QueueDrains`, `WorkSettles`, `RequestsSettle`. They rest on fairness, of which the
  provers know nothing.
* The four findings are counterexamples of runs, not theorems.

Every other property that a run finds to hold is stated by a theorem, for all values of its
constants. Where a definition of the code recurs over data (`ExtractNumbers`, the merge of the
scan ledger, the filters and sums of reports), it is a recursive function or a fold, and what it
computes is proved from the well-foundedness of the natural numbers, or of finite sets under
inclusion, which the library states without operators as parameters: the set of those for which it
holds has no least counterexample.

## Not modelled

*Starter grants.* HTTP parsing, authorisation, the texts of challenges and their answers, audit
events, the gas price, configuration changes across restarts.

*Moltbook.* Posts in `MoltbookRuntime`, whose jobs share one fixed target
(`create_post`; `DailyBudget` and `Drafting` have them); the circuit breaker, which only counts
records that are not `posted` while the executor writes no other; the byte limit of the
saved state; analytics tables. The limits of 8 posts looked at and 50 processed ids of account
health. Direct messages. How feeds are parsed, and the scores of candidates.

*Prompt rotation.* The scores that choose a variant (any may be chosen), old store formats. The
wording of prompts: a language model answers anything in the models.

*Reddit.* The rules and daily limits of a subreddit and its pauses (a choice); slices of the
history other than the window of the kill switch; disk errors; what the browser does on
pages. Two runs at a time are excluded (see above). The kill reasons of `reddit-evaluation` are a
report of the command line that nothing acts on.

*Other parts.* The HTTP client of the language-model bridge; the dashboard's other read models, which
group rows that nothing else reads; usage units, averages and the order of the tops in the
contract statistics. Deployment and evaluation scripts have no state of the running system.

Much of the source is text: prompts, parsers, page selectors, HTML, tests. The models
cover the code that changes state; a larger share of lines would be transliteration.
`PROJECT.json` lists every component with its status and reason, and every hazard of the
code with the properties that cover it.

## Plan

1. Starter grants: claims, payout queue, chain, rate limits, attribution (**done**, with proofs).
2. Moltbook: queue, executor, heartbeat, pending writes, both copies of the state (**done**, with
   proofs); budgets, drafting, verification, language-model bridge (**done**, with proofs).
3. Reddit: runs, guards, copies of the jobs, replies, scan, browser bridge (**done**, with proofs).
4. Prompt rotation and account health, contract statistics (**done**, with proofs).
5. Left to model: posts as targets of the Moltbook runtime; two Reddit runs at a time.
