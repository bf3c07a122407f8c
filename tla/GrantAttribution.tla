-------------------------- MODULE GrantAttribution --------------------------
(***************************************************************************)
(* Attribution of starter grants to the outreach that led to them.  The    *)
(* grant service handles HTTP requests, each a chain of separate           *)
(* transactions on two stores: its own, of challenges and claims, and the  *)
(* sqlite database of attribution, which the outreach agent writes to and  *)
(* the dashboard reads as well.  Requests interleave between transactions. *)
(*                                                                         *)
(* StarterGrant has the claims in detail, RateLimits what is refused       *)
(* before a handler begins.                                                *)
(***************************************************************************)
EXTENDS Integers, FiniteSetsExt, Functions

CONSTANTS
  Ref, Wallet,
  None,       \* no ref, and no wallet
  Handler,    \* requests that are handled at the same time
  TopRefs, RecentRefs, \* the limits of the two lists of refs of a report
  MaxRequests \* bound of the model on requests

ASSUME AttributionAssumption ==
  None \notin Ref \cup Wallet /\ IsFiniteSet(Ref) /\ {TopRefs, RecentRefs, MaxRequests} \subseteq Nat

VARIABLES
  challenges, \* grant store: the latest challenge of each wallet
  refs,       \* table outreach_refs
  events,     \* table attribution_events: how many each ref has
  byWallet,   \* table wallet_attribution
  requests,   \* what each handler works on
  arrived,    \* requests so far
  report,     \* how many parts of its report the dashboard has read, and what
              \* the latest says of resolved events, and of which refs
  paid,       \* the ref that each wallet was paid a grant for, if any
  usage       \* the wallets and refs of the SDK events that were let in

database == <<refs, events, byWallet>>
ghosts == <<paid, usage>>
attributionVars ==
  <<challenges, database, requests, arrived, report, ghosts>>

NoChallenge == [status |-> "none", ref |-> None]

\* op: the route, and for events who sends them; ref: the ref of the request, and
\* later the one of the challenge; outreachRef: the one that it wants stored, if any.
NoRequest ==
  [op |-> "none", at |-> "idle", wallet |-> None, ref |-> None, outreachRef |-> None]

NoReport == [read |-> 0, resolved |-> 0, listed |-> {}]

\* Challenges may have been asked for before.
AttributionInit ==
  /\ challenges \in [Wallet -> {NoChallenge} \cup [status : {"issued"}, ref : Ref \cup {None}]]
  /\ refs = {} /\ events = [r \in Ref |-> 0] /\ byWallet = [w \in {} |-> None]
  /\ requests = [h \in Handler |-> NoRequest] /\ arrived = 0
  /\ report = NoReport
  /\ paid = [w \in Wallet |-> None] /\ usage = {}

----------------------------------------------------------------------------
\* Requests.

At(h, label) == requests[h].at = label

Continue(h, label) == requests' = [requests EXCEPT ![h].at = label]

Answer(h) == requests' = [requests EXCEPT ![h] = NoRequest]

First(op) ==
  CASE op = "challenge" -> "issue"
    [] op \in {"claim", "authorized"} -> "persist"
    [] op \in {"click", "usage"} -> "known"

\* An event has a ref, and only those of the operator may have it stored.
Arrive(h) ==
  /\ At(h, "idle") /\ arrived < MaxRequests
  /\ \E op \in {"challenge", "claim", "authorized", "click", "usage"},
        w \in Wallet, r \in Ref \cup {None} :
       \E outreachRef \in {None, r} :
         /\ r = None => op \in {"challenge", "claim"}
         /\ outreachRef # None => op \notin {"click", "usage"}
         /\ requests' = [requests EXCEPT ![h] =
              [op |-> op, at |-> First(op), wallet |-> w, ref |-> r,
               outreachRef |-> outreachRef]]
  /\ arrived' = arrived + 1
  /\ UNCHANGED <<challenges, database, report, ghosts>>

\* Statements on the database may fail, which is logged and ignored.
Counted(r) == {events, [events EXCEPT ![r] = @ + 1]}

Persist(h) ==
  /\ At(h, "persist")
  /\ LET q == requests[h]
     IN /\ refs' \in {refs, refs \cup ({q.outreachRef} \ {None})}
        /\ IF q.op = "claim" THEN Continue(h, "claim")
           ELSE IF q.ref = None THEN Answer(h) ELSE Continue(h, "record")
  /\ UNCHANGED <<challenges, events, byWallet, arrived, report, ghosts>>

Record(h) ==
  /\ At(h, "record")
  /\ events' \in Counted(requests[h].ref)
  /\ usage' = IF requests[h].op = "usage" /\ events' # events
              THEN usage \cup {<<requests[h].wallet, requests[h].ref>>} ELSE usage
  /\ Answer(h)
  /\ UNCHANGED <<challenges, refs, byWallet, arrived, report, paid>>

----------------------------------------------------------------------------
\* POST /challenge.

\* The answer has the ref of the challenge: the first one that it was asked for with.
Issue(h) ==
  /\ At(h, "issue")
  /\ LET q == requests[h]
         c == challenges[q.wallet]
         ref == IF c.status = "issued" /\ c.ref # None THEN c.ref ELSE q.ref
     IN /\ c.status \in {"none", "issued"}
        /\ challenges' = [challenges EXCEPT ![q.wallet] = [status |-> "issued", ref |-> ref]]
        /\ requests' = [requests EXCEPT
             ![h] = [@ EXCEPT !.at = "persist", !.ref = ref]]
  /\ UNCHANGED <<database, arrived, report, ghosts>>

\* The wallet has claimed already.
RefuseChallenge(h) ==
  /\ At(h, "issue") /\ challenges[requests[h].wallet].status \in {"funding", "claimed"}
  /\ Answer(h)
  /\ UNCHANGED <<challenges, database, arrived, report, ghosts>>

ExpireChallenge(w) ==
  /\ challenges[w].status = "issued"
  /\ challenges' = [challenges EXCEPT ![w] = NoChallenge]
  /\ UNCHANGED <<database, requests, arrived, report, ghosts>>

----------------------------------------------------------------------------
\* POST /claim.

Claimable(c) == c.status = "issued"

\* The ref of the challenge counts, and that of the request if it has none.
Claim(h) ==
  /\ At(h, "claim")
  /\ LET q == requests[h]
         c == challenges[q.wallet]
     IN /\ Claimable(c)
        /\ challenges' = [challenges EXCEPT ![q.wallet].status = "funding"]
        /\ requests' = [requests EXCEPT
             ![h] = [@ EXCEPT !.at = "payout", !.ref = IF c.ref # None THEN c.ref ELSE q.ref]]
  /\ UNCHANGED <<database, arrived, report, ghosts>>

\* An attempt that is refused is no event.
RefuseClaim(h) ==
  /\ At(h, "claim")
  /\ Answer(h)
  /\ UNCHANGED <<challenges, database, arrived, report, ghosts>>

After(h, label) == IF requests[h].ref = None THEN Answer(h) ELSE Continue(h, label)

PayOut(h) ==
  /\ At(h, "payout")
  /\ LET w == requests[h].wallet
     IN /\ challenges' = [challenges EXCEPT ![w].status = "claimed"]
        /\ paid' = [paid EXCEPT ![w] = requests[h].ref]
  /\ After(h, "attempted")
  /\ UNCHANGED <<database, arrived, report, usage>>

\* Not confirmed in time: the claim stays pending.
Pending(h) ==
  /\ At(h, "payout")
  /\ After(h, "queuedAttempt")
  /\ UNCHANGED <<challenges, database, arrived, report, ghosts>>

\* A failed payout is no event either; the challenge can be claimed again.
FailPayOut(h) ==
  /\ At(h, "payout")
  /\ challenges' = [challenges EXCEPT ![requests[h].wallet].status = "issued"]
  /\ Answer(h)
  /\ UNCHANGED <<database, arrived, report, ghosts>>

RecordAttempt(h) ==
  /\ At(h, "attempted") \/ At(h, "queuedAttempt")
  /\ events' \in Counted(requests[h].ref)
  /\ Continue(h, IF At(h, "attempted") THEN "succeeded" ELSE "record")
  /\ UNCHANGED <<challenges, refs, byWallet, arrived, report, ghosts>>

RecordSuccess(h) ==
  /\ At(h, "succeeded")
  /\ events' \in Counted(requests[h].ref)
  /\ Continue(h, "wallet")
  /\ UNCHANGED <<challenges, refs, byWallet, arrived, report, ghosts>>

AttributeWallet(h) ==
  /\ At(h, "wallet")
  /\ LET q == requests[h]
     IN byWallet' \in {byWallet, [w \in DOMAIN byWallet \cup {q.wallet} |->
                                    IF w = q.wallet THEN q.ref ELSE byWallet[w]]}
  /\ Answer(h)
  /\ UNCHANGED <<challenges, refs, events, arrived, report, ghosts>>

----------------------------------------------------------------------------
\* POST /attribution/event without the token, and /attribution/ref with it.

\* A click is recorded for any known ref; events of the SDK look the wallet up.
CheckRef(h) ==
  /\ At(h, "known")
  /\ IF requests[h].ref \notin refs THEN Answer(h)
     ELSE Continue(h, IF requests[h].op = "usage" THEN "lookup" ELSE "record")
  /\ UNCHANGED <<challenges, database, arrived, report, ghosts>>

Attributed_Any(w, r) == w \in DOMAIN byWallet

Attributed(w, r) == w \in DOMAIN byWallet /\ byWallet[w] = r

CheckWallet(h) ==
  /\ At(h, "lookup")
  /\ IF Attributed(requests[h].wallet, requests[h].ref)
     THEN Continue(h, "record") ELSE Answer(h)
  /\ UNCHANGED <<challenges, database, arrived, report, ghosts>>

\* Also what the agent does when it has drafted or published something.
RegisterRef ==
  /\ \E r \in Ref : refs' = refs \cup {r}
  /\ UNCHANGED <<challenges, events, byWallet, requests, arrived, report, ghosts>>

----------------------------------------------------------------------------
\* The dashboard reads its report in separate statements: the totals, the groups,
\* the best refs and the latest ones.

Room(i) == CASE i = 3 -> TopRefs [] i = 4 -> RecentRefs [] OTHER -> Cardinality(refs)

\* Which refs a list has when there is no room for all is left open.
Listed(i) == IF Cardinality(refs) <= Room(i) THEN {refs} ELSE kSubset(Room(i), refs)

CountedIn_All(i, listed) ==
  IF i = 1 THEN SumFunction(events) ELSE SumFunctionOnSet(events, listed)

\* The totals leave out the events of refs that are not registered; the other parts
\* begin with the refs.
CountedIn(i, listed) ==
  IF i = 1 THEN SumFunction(events) - SumFunctionOnSet(events, Ref \ refs)
  ELSE SumFunctionOnSet(events, listed)

ReadPart ==
  /\ report.read < 4
  /\ \E listed \in Listed(report.read + 1) :
       report' = [read |-> report.read + 1, listed |-> listed,
                  resolved |-> CountedIn(report.read + 1, listed)]
  /\ UNCHANGED <<challenges, database, requests, arrived, ghosts>>

\* It is complete, or a statement has failed and an empty one is sent.
SendReport ==
  /\ report.read > 0 /\ report' = NoReport
  /\ UNCHANGED <<challenges, database, requests, arrived, ghosts>>

----------------------------------------------------------------------------
\* The service stops and is started again: what its requests were about to do is lost.
RestartService ==
  /\ requests' = [h \in Handler |-> NoRequest]
  /\ UNCHANGED <<challenges, database, arrived, report, ghosts>>

Handle(h) ==
  \/ Arrive(h) \/ Persist(h) \/ Record(h) \/ Issue(h) \/ RefuseChallenge(h)
  \/ Claim(h) \/ RefuseClaim(h) \/ PayOut(h) \/ Pending(h) \/ FailPayOut(h)
  \/ RecordAttempt(h) \/ RecordSuccess(h) \/ AttributeWallet(h)
  \/ CheckRef(h) \/ CheckWallet(h)

AttributionNext ==
  \/ \E h \in Handler : Handle(h)
  \/ \E w \in Wallet : ExpireChallenge(w)
  \/ RegisterRef \/ ReadPart \/ SendReport \/ RestartService

AttributionSpec == AttributionInit /\ [][AttributionNext]_attributionVars

----------------------------------------------------------------------------
\* Properties.

Labels == {"idle", "issue", "persist", "record", "claim", "payout", "attempted",
           "queuedAttempt", "succeeded", "wallet", "known", "lookup"}

\* The tables, the challenges and the requests are well formed, and a request
\* that records an event has a ref.
AttributionTypeOK ==
  /\ challenges \in [Wallet -> [status : {"none", "issued", "funding", "claimed"},
                                ref : Ref \cup {None}]]
  /\ refs \subseteq Ref /\ events \in [Ref -> Nat]
  /\ report \in [read : 0..4, resolved : Nat, listed : SUBSET Ref]
  /\ DOMAIN byWallet \subseteq Wallet /\ Range(byWallet) \subseteq Ref
  /\ \A h \in Handler :
       /\ requests[h].at \in Labels /\ requests[h].outreachRef \in Ref \cup {None}
       /\ requests[h].at \in {"record", "attempted", "queuedAttempt", "succeeded", "wallet"}
            => requests[h].ref \in Ref
  /\ paid \in [Wallet -> Ref \cup {None}] /\ usage \subseteq Wallet \X Ref

\* On the route without the token an SDK event is let in only for a wallet that was
\* paid a grant, for the ref that the grant is attributed to, whatever else was asked
\* for in between: the two stores agree although no transaction spans them.  (Claim
\* records are not cut here: after a cut a wallet may be granted again, for another ref.)
UsageIsOfGrantee ==
  \A u \in usage : paid[u[1]] = u[2] /\ u[2] \in refs

\* The parts of a report are read one after the other while events come in.  A later
\* part accounts for every event that an earlier one counts as resolved; a list that
\* has no room for all refs falls short by the events of those that it leaves out, and
\* by no more.
ReportAddsUp ==
  [][report'.read > 1 =>
       /\ report'.resolved + SumFunctionOnSet(events, refs \ report'.listed) >= report.resolved
       /\ Cardinality(refs) <= Room(report'.read) => report'.resolved >= report.resolved]_report
============================================================================
