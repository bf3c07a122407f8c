----------------------------- MODULE RedditScan -----------------------------
(***************************************************************************)
(* Which posts and comments of Reddit a session may reply to.  A session   *)
(* reads again the threads the agent took part in, and some that listings  *)
(* and searches turn up; it offers to the planner what is new in them, and *)
(* at most one reply is queued.  The scan ledger keeps what was seen, but  *)
(* it is saved only by a session that queues something.                    *)
(*                                                                         *)
(* Jobs and the history are what RedditRuntime models in full; here an     *)
(* executor run is one step.                                               *)
(*                                                                         *)
(* A comment is known by its id.  ReddAPI gives none, and its place in the *)
(* list stands for it: with that backend Remarks are places, and what      *)
(* holds of them does not hold of the comments, which change their places. *)
(***************************************************************************)
EXTENDS Integers, Sequences, FiniteSets, FiniteSetsExt, SequencesExt, Functions

CONSTANTS
  Threads,         \* posts, each with the comments under it
  Remarks,         \* comments by others
  ThreadOf,        \* the thread of each comment
  Length,          \* "tiny", "short" (for own threads only) or "long"
  MaxOwn,          \* maxOwnThreadReads
  MaxDiscovery,    \* maxDiscoveryThreadReads
  MaxSearches,     \* maxSearchesPerSubreddit
  OwnLimit,        \* ownThreadCommentLimit
  DiscoveryLimit,  \* discoveryCommentLimit
  MaxTriage,       \* llmTriageMaxItems
  Ttl,             \* scanLedgerTtlHours, in periods
  MaxSeen,         \* MAX_SEEN_COMMENT_IDS_PER_POST
  MaxEntries,      \* scanLedgerMaxEntries
  MaxDrafts,       \* bound of the model on items drafted for in dry runs
  MaxWaiting       \* bound of the model on queued replies

ASSUME ScanAssumption ==
  /\ IsFiniteSet(Threads) /\ IsFiniteSet(Remarks) /\ Threads \cap Remarks = {}
  /\ ThreadOf \in [Remarks -> Threads]
  /\ Length \in [Remarks -> {"tiny", "short", "long"}]
  /\ {MaxOwn, MaxDiscovery, MaxSearches, OwnLimit, DiscoveryLimit, MaxTriage} \subseteq Nat
  /\ {MaxDrafts, MaxWaiting} \subseteq Nat
  /\ {Ttl, MaxSeen, MaxEntries} \subseteq Nat \ {0}

VARIABLES
  byPlace,   \* the backend is ReddAPI, which names a comment by its place
  written,   \* external: the comments there are
  ledger,    \* the scan ledger, saved in reddit-memory.json
  past,      \* the history there: see NoPast
  waiting,   \* the items whose reply is queued
  stage,     \* what the session does next, "idle" when there is none
  reads,     \* its snapshots of threads
  offer,     \* the items it offers to the planner
  scan,      \* the ledger with these snapshots
  choice,    \* the item it drafts a reply to: one or none
  given,     \* comments offered by a session that saved its ledger
  recorded   \* threads that such a session read

session == <<stage, reads, offer, scan, choice>>
scanVars == <<byPlace, written, ledger, past, waiting, session, given, recorded>>

Items == Threads \cup Remarks

Home(i) == IF i \in Threads THEN i ELSE ThreadOf[i]

Comments(t) == {r \in written : ThreadOf[r] = t}

\* Items replied to, items drafted for in a dry run, and the threads that
\* collectOwnThreadTargets finds, the last touched first.
NoPast == [replied |-> {}, drafted |-> {}, own |-> <<>>]

Nothing == [t \in {} |-> {}]

NoSession ==
  stage = "idle" /\ reads = Nothing /\ offer = {} /\ scan = Nothing /\ choice = {}

EndSession ==
  stage' = "idle" /\ reads' = Nothing /\ offer' = {} /\ scan' = Nothing /\ choice' = {}

ScanInit ==
  /\ byPlace \in BOOLEAN
  /\ written = {} /\ ledger = Nothing /\ past = NoPast /\ waiting = {}
  /\ NoSession /\ given = {} /\ recorded = {}

----------------------------------------------------------------------------
\* The scan ledger: for each thread the age of its last scan, the number of
\* comments it had, and the comments seen, oldest first.

Entry == [age : 0..Ttl, count : Nat, seen : Seq(Remarks)]

ShouldSkipColdDiscoveryRead(t, count) ==
  t \in DOMAIN ledger /\ ledger[t].age < Ttl /\ count <= ledger[t].count

\* The count of the entry itself is passed, so every young entry excludes its
\* thread, whatever is new in it.
ScanLedgerExclude ==
  {t \in DOMAIN ledger : ShouldSkipColdDiscoveryRead(t, ledger[t].count)}

Seen(t) == IF t \in DOMAIN ledger THEN Range(ledger[t].seen) ELSE {}

HasNewComments(t, count) == t \notin DOMAIN ledger \/ count > ledger[t].count

\* The elements of a sequence that are not in a set, in their order.
Without(s, S) == FoldLeft(LAMBDA q, x : IF x \in S THEN q ELSE Append(q, x), <<>>, s)

MergeSeenCommentIds_Fresh(old, fresh) == fresh

\* New ones go last, and only the last MaxSeen are kept.
MergeSeenCommentIds(old, fresh) ==
  LET merged == old \o Without(fresh, Range(old))
      n == Len(merged)
  IN IF n <= MaxSeen THEN merged ELSE SubSeq(merged, n - MaxSeen + 1, n)

\* What f says of a thread, or else what g says.
Over(f, g) == [t \in DOMAIN f \cup DOMAIN g |-> IF t \in DOMAIN f THEN f[t] ELSE g[t]]

UpsertFromSnapshots(snapshots) ==
  [t \in DOMAIN snapshots |->
     [age |-> 0, count |-> snapshots[t].count,
      seen |-> MergeSeenCommentIds(IF t \in DOMAIN ledger THEN ledger[t].seen ELSE <<>>,
                                   snapshots[t].got)]]

\* The entries scanned last are kept; ties are broken either way.
Pruned(entries) ==
  {Restrict(entries, S) : S \in
     {S \in kSubset(IF Cardinality(DOMAIN entries) <= MaxEntries
                    THEN Cardinality(DOMAIN entries) ELSE MaxEntries, DOMAIN entries) :
        \A t \in S, u \in DOMAIN entries \ S : entries[t].age <= entries[u].age}}

----------------------------------------------------------------------------
\* Which threads are read.

Latest(s, n) == SubSeq(s, 1, IF n < Len(s) THEN n ELSE Len(s))

\* Only the threads touched last are read again.
OwnReads == Range(Latest(past.own, MaxOwn))

\* All of them are excluded from discovery, as are those scanned lately.
Excluded == Range(past.own) \cup ScanLedgerExclude

\* The cap may be drawn at random, by score, from a pool of the best.
PickThreadReadCandidates(results) ==
  LET candidates == results \ Excluded
  IN IF Cardinality(candidates) <= MaxDiscovery THEN {candidates}
     ELSE kSubset(MaxDiscovery, candidates)

\* A thread that is skipped now is not replaced by another one.
DiscoveryReads(picked) ==
  {t \in picked \ OwnReads : ~ShouldSkipColdDiscoveryRead(t, Cardinality(Comments(t)))}

\* A snapshot holds some comments of a thread, up to a limit, in any order.
Snapshots(t, own, limit) ==
  LET n == Cardinality(Comments(t))
  IN {[own |-> own, count |-> n, got |-> q] :
        q \in UNION {SetToSeqs(S) : S \in kSubset(IF limit < n THEN limit ELSE n, Comments(t))}}

\* Reading a thread can fail, and then it is left out.
ReadsOf(S, own, limit) ==
  UNION {{f \in [R -> UNION {Snapshots(t, own, limit) : t \in R}] :
            \A t \in R : f[t] \in Snapshots(t, own, limit)} : R \in SUBSET S}

----------------------------------------------------------------------------
\* Which items are offered.

\* A comment is offered unless it was replied to, seen, or is too short.
OfferedComments(t, snapshot) ==
  LET own == snapshot.own \/ t \in Range(past.own)
  IN {r \in Range(snapshot.got) \ (past.replied \cup Seen(t)) :
        Length[r] \in IF own THEN {"short", "long"} ELSE {"long"}}

\* A post is offered unless it was replied to, or was seen in a thread of others
\* that has no new comments.
OfferedPost(t, snapshot) ==
  LET own == snapshot.own \/ t \in Range(past.own)
  IN {t} \ (past.replied \cup IF ~own /\ ~HasNewComments(t, snapshot.count) THEN {t} ELSE {})

SnapshotsToSourceItems(snapshots) ==
  UNION {OfferedComments(t, snapshots[t]) \cup OfferedPost(t, snapshots[t]) :
           t \in DOMAIN snapshots}

----------------------------------------------------------------------------
\* Ingestion, once for each backend.

\* Listings and searches of random subreddits find any threads, or fail.
Listed == SUBSET Threads

Searched == IF MaxSearches = 0 THEN {{}} ELSE SUBSET Threads

\* Snapshots of the same thread count once, the first of them.
DedupeSnapshots(mine, found) == Over(mine, found)

Ingest(results, ownLimit, discoveryLimit) ==
  /\ stage = "idle"
  /\ \E mine \in ReadsOf(OwnReads, TRUE, ownLimit) :
     \E picked \in PickThreadReadCandidates(results) :
     \E found \in ReadsOf(DiscoveryReads(picked), FALSE, discoveryLimit) :
       LET snapshots == DedupeSnapshots(mine, found)
       IN /\ reads' = snapshots
          /\ offer' = SnapshotsToSourceItems(snapshots)
          /\ scan' \in Pruned(Over(UpsertFromSnapshots(snapshots), ledger))
  /\ stage' = "plan" /\ choice' = {}
  /\ UNCHANGED <<byPlace, written, ledger, past, waiting, given, recorded>>

\* This backend only searches, and it reads whole threads.
IngestViaReddapi ==
  /\ byPlace
  /\ \E results \in Searched :
       Ingest(results, Cardinality(Remarks), Cardinality(Remarks))

IngestViaUnofficial ==
  /\ ~byPlace
  /\ \E results \in Listed : Ingest(results, OwnLimit, DiscoveryLimit)

IngestViaBrowser ==
  /\ ~byPlace
  /\ \E results \in Listed : Ingest(results, OwnLimit, DiscoveryLimit)

\* This backend does not read the comments of what it discovers.
IngestViaApi ==
  /\ ~byPlace
  /\ \E results \in Listed : Ingest(results, OwnLimit, 0)

----------------------------------------------------------------------------
\* Planning.

\* Triage judges at most MaxTriage items; the language model, or rules when it
\* fails or is not there, finds each of them worth a reply or not.
Triaged ==
  {v \in [offer -> {"worth", "not", "untriaged"}] :
     Cardinality({i \in offer : v[i] # "untriaged"}) =
       IF MaxTriage < Cardinality(offer) THEN MaxTriage ELSE Cardinality(offer)}

\* A bad verdict takes every sign of a need from an item; what was not judged
\* goes by rules.
WithSignals(verdicts) == {i \in offer : verdicts[i] # "not"}

\* The other gates may block any of them: the rules and the daily limits of its
\* subreddit, its topic, or what was said before.
PassingGates(verdicts) == SUBSET WithSignals(verdicts)

\* What was replied to or drafted for; for a post, anything in its thread.
AlreadyTouched(i) ==
  LET done == past.replied \cup past.drafted
  IN i \in done \/ \E d \in done : Home(d) = i

\* The model's choice among the candidates, or the one with the best score.
ChooseAction ==
  /\ stage = "plan"
  /\ \E verdicts \in Triaged : \E passing \in PassingGates(verdicts) :
       \E i \in passing : ~AlreadyTouched(i) /\ choice' = {i}
  /\ stage' = "draft"
  /\ UNCHANGED <<byPlace, written, ledger, past, waiting, reads, offer, scan, given, recorded>>

\* No candidate is left, a limit of the account is reached, the draft fails, or
\* the run is killed: the ledger of this session is lost.
GiveUp ==
  /\ stage \in {"plan", "draft", "enqueue"} /\ EndSession
  /\ UNCHANGED <<byPlace, written, ledger, past, waiting, given, recorded>>

Touch(t) == <<t>> \o Without(past.own, {t})

\* A dry run records the draft in the memory as it is on disk.
DryRun ==
  /\ stage = "draft" /\ Cardinality(past.drafted) < MaxDrafts
  /\ \E i \in choice :
       past' = [past EXCEPT !.drafted = @ \cup {i}, !.own = Touch(Home(i))]
  /\ EndSession
  /\ UNCHANGED <<byPlace, written, ledger, waiting, given, recorded>>

SaveMemory ==
  /\ ledger' = scan
  /\ given' = given \cup (offer \cap Remarks)
  /\ recorded' = recorded \cup DOMAIN reads

\* Queueing an upvote saves the memory before the reply is queued.
QueueUpvote ==
  /\ stage = "draft" /\ SaveMemory
  /\ stage' = "enqueue"
  /\ UNCHANGED <<byPlace, written, past, waiting, reads, offer, scan, choice>>

EnqueueJob ==
  /\ stage \in {"draft", "enqueue"} /\ choice \cap waiting = {}
  /\ Cardinality(waiting) < MaxWaiting
  /\ waiting' = waiting \cup choice
  /\ SaveMemory /\ EndSession
  /\ UNCHANGED <<byPlace, written, past>>

----------------------------------------------------------------------------
\* Between sessions.

\* A reply is published, visible or hidden by a filter; only a visible one makes
\* its thread one of ours.
PublishReply ==
  /\ stage = "idle"
  /\ \E i \in waiting, visible \in BOOLEAN :
       /\ waiting' = waiting \ {i}
       /\ past' = [past EXCEPT !.replied = @ \cup {i},
                               !.own = IF visible THEN Touch(Home(i)) ELSE @]
  /\ UNCHANGED <<byPlace, written, ledger, session, given, recorded>>

DropJob ==
  /\ stage = "idle"
  /\ \E i \in waiting : waiting' = waiting \ {i}
  /\ UNCHANGED <<byPlace, written, ledger, past, session, given, recorded>>

\* What others write during a session is read by the next one; where comments are
\* named by their places, the list has one place more.
WriteRemark ==
  /\ stage = "idle"
  /\ \E r \in Remarks \ written : written' = written \cup {r}
  /\ UNCHANGED <<byPlace, ledger, past, waiting, session, given, recorded>>

PeriodPasses ==
  /\ stage = "idle"
  /\ ledger' = [t \in DOMAIN ledger |->
                  [ledger[t] EXCEPT !.age = IF @ < Ttl THEN @ + 1 ELSE @]]
  /\ UNCHANGED <<byPlace, written, past, waiting, session, given, recorded>>

ScanNext ==
  \/ IngestViaReddapi \/ IngestViaUnofficial \/ IngestViaBrowser \/ IngestViaApi
  \/ ChooseAction \/ GiveUp \/ DryRun \/ QueueUpvote \/ EnqueueJob
  \/ PublishReply \/ DropJob \/ WriteRemark \/ PeriodPasses

ScanSpec == ScanInit /\ [][ScanNext]_scanVars

----------------------------------------------------------------------------
\* Properties.

LedgerOK(entries) ==
  /\ DOMAIN entries \subseteq Threads /\ Cardinality(DOMAIN entries) <= MaxEntries
  /\ \A t \in DOMAIN entries :
       /\ entries[t] \in Entry /\ Len(entries[t].seen) <= MaxSeen
       /\ \A r \in Range(entries[t].seen) : ThreadOf[r] = t

\* Ledgers keep to their limits, and to the thread of each comment.
ScanTypeOK ==
  /\ LedgerOK(ledger) /\ LedgerOK(scan)
  /\ written \subseteq Remarks /\ waiting \subseteq Items /\ offer \subseteq Items
  /\ past.replied \subseteq Items /\ past.drafted \subseteq Items
  /\ Range(past.own) \subseteq Threads
  /\ stage \in {"idle", "plan", "draft", "enqueue"}
  /\ choice \subseteq offer /\ Cardinality(choice) <= 1
  /\ given \subseteq Remarks /\ recorded \subseteq Threads

\* The ledger can only forget a comment when its limits are exceeded.
MayBeForgotten(r) ==
  Cardinality(Comments(ThreadOf[r])) > MaxSeen \/ Cardinality(recorded) > MaxEntries

\* Each comment that is long enough and not yet answered gets its chance when it
\* is first read, and a session that saved its ledger was its only chance: it is
\* not offered again unless the ledger had to forget it.
ScanIsSound ==
  stage = "plan" =>
    \A t \in DOMAIN reads : \A r \in Range(reads[t].got) :
      /\ Length[r] = "long" /\ r \notin past.replied => r \in offer \cup given
      /\ r \in offer \cap given => MayBeForgotten(r)
=============================================================================
