---------------------------- MODULE StarterGrant ----------------------------
(***************************************************************************)
(* The starter-grant service: the file store with its transaction lock,    *)
(* the challenge and claim handlers, the in-memory payout queue, and the   *)
(* chain as the funder sees it.                                            *)
(*                                                                         *)
(* Every store transaction but one is a single step, because the lock      *)
(* lets no other transaction start before it has saved.  A claim is two    *)
(* steps: it asks the chain for the funder's balance while it holds the    *)
(* lock, and blocks, time and crashes may come before it continues.        *)
(***************************************************************************)
EXTENDS GrantTables, Sequences

CONSTANTS
  InitialBalance,  \* what the funder account holds at the start
  ErrorsAreFinal,  \* TRUE: after an error from the RPC node the transfer is never mined
  MaxChallenges, MaxClaims, MaxClock, MaxBalance \* bounds of the model

ASSUME GrantAssumption ==
  /\ {InitialBalance, MaxChallenges, MaxClaims, MaxClock, MaxBalance} \subseteq Nat
  /\ ErrorsAreFinal \in BOOLEAN

VARIABLES
  challenges,    \* state.challenges on disk
  claims,        \* state.claims on disk
  nextChallenge, \* insertion number of the next challenge
  nextClaim,     \* insertion number of the next claim
  clock,         \* Date.now()
  seen,          \* the `now` of the latest request that got the lock
  reading,       \* a claim holds the lock and awaits the funder's balance
  balanceRead,   \* the balance it was given
  queue,         \* accepted payouts, the one in process first
  phase,         \* where the payout in process is
  transfers,     \* what the funder account sent, by nonce
  balance        \* the funder account's balance

store == <<challenges, claims, nextChallenge, nextClaim>>
lock == <<seen, reading, balanceRead>>
payout == <<queue, phase>>
chain == <<transfers, balance>>
vars == <<store, clock, lock, payout, chain>>

ClaimIds == 1..MaxClaims
Phases == {"idle", "sendFailed", "sent", "waiting", "waitFailed", "timedOut", "confirmed"}
Job == [claim : ClaimIds, challenge : 1..MaxChallenges, wallet : Wallets]
TransferStatus == {"mempool", "mined", "reverted", "dropped"}
Transfer == [claim : ClaimIds, wallet : Wallets, status : TransferStatus]

Init ==
  /\ challenges = <<>> /\ claims = <<>>
  /\ nextChallenge = 1 /\ nextClaim = 1
  /\ clock = 0
  /\ seen = 0 /\ reading = FALSE /\ balanceRead = 0
  /\ queue = <<>> /\ phase = "idle"
  /\ transfers = <<>> /\ balance = InitialBalance

----------------------------------------------------------------------------
\* The handlers.  A request captures `now` before it waits for the lock and
\* requests get the lock in arrival order, so `now` may lie behind the clock
\* but never behind the previous request's.

StoreIsFree == ~reading

TakeLock(now) == StoreIsFree /\ now \in seen..clock /\ seen' = now

\* A transaction saves what it pruned even when the handler then throws: the
\* status and rate-limit requests, a refused or repeated challenge request,
\* and a claim refused before it reaches the balance.
PruneStore(now) ==
  /\ TakeLock(now)
  /\ challenges' = PruneChallenges(challenges, now)
  /\ claims' = PruneClaims(claims)
  /\ UNCHANGED <<nextChallenge, nextClaim, clock, reading, balanceRead, payout, chain>>

IssueChallenge(w, i, now) ==
  LET chs == PruneChallenges(challenges, now)
      cls == PruneClaims(claims)
      new == [wallet |-> w, install |-> i, issuedAt |-> now, status |-> "issued"]
  IN /\ TakeLock(now)
     /\ nextChallenge <= MaxChallenges
     /\ ~HasExistingClaim(cls, w, i)
     /\ ActiveChallenges(chs, w, i) = {}
     /\ Cardinality(OutstandingChallenges(chs, w, i)) < MaxOutstanding
     /\ challenges' = PruneChallenges(Insert(chs, nextChallenge, new), now)
     /\ claims' = cls
     /\ nextChallenge' = nextChallenge + 1
     /\ UNCHANGED <<nextClaim, clock, reading, balanceRead, payout, chain>>

BeginClaim(now) ==
  /\ TakeLock(now)
  /\ reading' = TRUE
  /\ balanceRead' = balance
  /\ UNCHANGED <<store, clock, payout, chain>>

ReleaseLock == reading' = FALSE /\ balanceRead' = 0 /\ UNCHANGED seen

\* Refused before a challenge is touched: an existing claim, a balance too low
\* or not to be had, a lock-out, or an unknown challenge id, which may always
\* be given.
DenyClaim ==
  /\ reading
  /\ ReleaseLock
  /\ challenges' = PruneChallenges(challenges, seen)
  /\ claims' = PruneClaims(claims)
  /\ UNCHANGED <<nextChallenge, nextClaim, clock, payout, chain>>

\* The claim passes every check that comes before its challenge is looked at.
IsAdmitted(cls, w, i, r) ==
  /\ ~HasExistingClaim(cls, w, i)
  /\ HasSufficientBalance(balanceRead, cls)
  /\ ~IsLockedOut(cls, w, i, r, seen)

\* `proof`: payload, answer and signature are those of the challenge.
IsClaimable(challenge, w, i, proof) ==
  challenge.status = "issued" /\ challenge.wallet = w /\ challenge.install = i /\ proof

NewClaim_DatedBack(w, i, r, c, status) ==
  [challenge |-> c, wallet |-> w, install |-> i, requester |-> r,
   status |-> status, createdAt |-> seen - RejectWindow - 1, txHash |-> FALSE]

NewClaim(w, i, r, c, status) ==
  [challenge |-> c, wallet |-> w, install |-> i, requester |-> r,
   status |-> status, createdAt |-> seen, txHash |-> FALSE]

\* A failed attempt spends the challenge, whoever made it.
RejectClaim(w, i, r, c, proof) ==
  LET chs == PruneChallenges(challenges, seen)
      cls == PruneClaims(claims)
  IN /\ reading /\ nextClaim <= MaxClaims
     /\ IsAdmitted(cls, w, i, r)
     /\ c \in DOMAIN chs
     /\ ~IsClaimable(chs[c], w, i, proof)
     /\ challenges' = SetChallengeStatus(chs, c, ChallengeStatus \ {"expired"}, "rejected")
     /\ claims' = Insert(cls, nextClaim, NewClaim(w, i, r, c, "rejected"))
     /\ nextClaim' = nextClaim + 1
     /\ ReleaseLock
     /\ UNCHANGED <<nextChallenge, clock, payout, chain>>

\* The claim is saved as pending, then its payout joins the queue.
AcceptClaim(w, i, r, c) ==
  LET chs == PruneChallenges(challenges, seen)
      cls == PruneClaims(claims)
  IN /\ reading /\ nextClaim <= MaxClaims
     /\ IsAdmitted(cls, w, i, r)
     /\ c \in DOMAIN chs
     /\ IsClaimable(chs[c], w, i, TRUE)
     /\ challenges' = PruneChallenges([chs EXCEPT ![c].status = "funding"], seen)
     /\ claims' = PruneClaims(Insert(cls, nextClaim, NewClaim(w, i, r, c, "pending_funding")))
     /\ nextClaim' = nextClaim + 1
     /\ queue' = Append(queue, [claim |-> nextClaim, challenge |-> c, wallet |-> w])
     /\ ReleaseLock
     /\ UNCHANGED <<nextChallenge, clock, phase, chain>>

\* The save failed: the file is the old one, and no payout is queued.
AbandonClaim ==
  /\ reading /\ ReleaseLock
  /\ UNCHANGED <<store, clock, payout, chain>>

----------------------------------------------------------------------------
\* The serial payout queue.

Current == Head(queue)

CanSend == phase = "idle" /\ queue # <<>> /\ balance >= Amount + Gas

Broadcast ==
  transfers' = Append(transfers,
    [claim |-> Current.claim, wallet |-> Current.wallet, status |-> "mempool"])

SendTransfer ==
  /\ CanSend
  /\ Broadcast
  /\ phase' = "sent"
  /\ UNCHANGED <<store, clock, lock, queue, balance>>

\* sendTransaction threw.  Unless errors are final, the node may still have
\* taken the transfer.
FailSend ==
  /\ phase = "idle" /\ queue # <<>>
  /\ phase' = "sendFailed"
  /\ \/ UNCHANGED transfers
     \/ ~ErrorsAreFinal /\ CanSend /\ Broadcast
  /\ UNCHANGED <<store, clock, lock, queue, balance>>

FinishPayout == queue' = Tail(queue) /\ phase' = "idle"

RecordSendFailure_KeepsFunding ==
  /\ phase = "sendFailed" /\ StoreIsFree
  /\ claims' = SetClaimStatus(claims, Current.claim, {"pending_funding"}, "funding_failed")
  /\ FinishPayout
  /\ UNCHANGED <<challenges, nextChallenge, nextClaim, clock, lock, chain>>

RecordSendFailure ==
  /\ phase = "sendFailed" /\ StoreIsFree
  /\ claims' = SetClaimStatus(claims, Current.claim, {"pending_funding"}, "funding_failed")
  /\ challenges' = Reopen(challenges, Current.challenge, clock)
  /\ FinishPayout
  /\ UNCHANGED <<nextChallenge, nextClaim, clock, lock, chain>>

RecordBroadcast ==
  /\ phase = "sent" /\ StoreIsFree
  /\ claims' = IF Current.claim \in DOMAIN claims
               THEN [claims EXCEPT ![Current.claim].txHash = TRUE] ELSE claims
  /\ phase' = "waiting"
  /\ UNCHANGED <<challenges, nextChallenge, nextClaim, clock, lock, queue, chain>>

\* Payouts are serial, so the transfer awaited is the last one sent.
Awaited == transfers[Len(transfers)]

SeeReceipt ==
  /\ phase = "waiting"
  /\ Awaited.status = "mined"
  /\ phase' = "confirmed"
  /\ UNCHANGED <<store, clock, lock, queue, chain>>

\* tx.wait rejected, or the receipt reports a revert.
FailWait ==
  /\ phase = "waiting"
  /\ ErrorsAreFinal => Awaited.status \in {"reverted", "dropped"}
  /\ phase' = "waitFailed"
  /\ UNCHANGED <<store, clock, lock, queue, chain>>

TimeOutWait_Never == FALSE /\ UNCHANGED vars

TimeOutWait ==
  /\ phase = "waiting"
  /\ phase' = "timedOut"
  /\ UNCHANGED <<store, clock, lock, queue, chain>>

\* A time-out leaves the claim pending and nothing looks at it again.
RecordTimeOut_AsSuccess ==
  /\ phase = "timedOut" /\ StoreIsFree
  /\ claims' = SetClaimStatus(claims, Current.claim, ClaimStatus, "claimed")
  /\ challenges' = SetChallengeStatus(challenges, Current.challenge, ChallengeStatus, "claimed")
  /\ FinishPayout
  /\ UNCHANGED <<nextChallenge, nextClaim, clock, lock, chain>>

RecordTimeOut ==
  /\ phase = "timedOut" /\ StoreIsFree
  /\ FinishPayout
  /\ UNCHANGED <<store, clock, lock, chain>>

RecordWaitFailure ==
  /\ phase = "waitFailed" /\ StoreIsFree
  /\ claims' = SetClaimStatus(claims, Current.claim, ClaimStatus, "funding_failed")
  /\ challenges' = Reopen(challenges, Current.challenge, clock)
  /\ FinishPayout
  /\ UNCHANGED <<nextChallenge, nextClaim, clock, lock, chain>>

RecordConfirmation ==
  /\ phase = "confirmed" /\ StoreIsFree
  /\ claims' = SetClaimStatus(claims, Current.claim, ClaimStatus, "claimed")
  /\ challenges' = SetChallengeStatus(challenges, Current.challenge, ChallengeStatus, "claimed")
  /\ FinishPayout
  /\ UNCHANGED <<nextChallenge, nextClaim, clock, lock, chain>>

\* Saving the payout's outcome failed: the job is over, the store unchanged.
FailRecord ==
  /\ phase \notin {"idle", "waiting"} /\ StoreIsFree
  /\ FinishPayout
  /\ UNCHANGED <<store, clock, lock, chain>>

----------------------------------------------------------------------------
\* The process, time, and the chain.

\* A restart keeps the file and starts with an empty payout queue.
Crash_ResumePending ==
  /\ reading' = FALSE /\ balanceRead' = 0
  /\ phase' = "idle"
  /\ IF Pending(claims) = {} THEN queue' = <<>>
     ELSE \E k \in Pending(claims) :
            queue' = <<[claim |-> k, challenge |-> claims[k].challenge,
                        wallet |-> claims[k].wallet]>>
  /\ UNCHANGED <<store, clock, seen, chain>>

Crash ==
  /\ reading' = FALSE /\ balanceRead' = 0
  /\ queue' = <<>> /\ phase' = "idle"
  /\ UNCHANGED <<store, clock, seen, chain>>

Tick ==
  /\ clock < MaxClock
  /\ clock' = clock + 1
  /\ UNCHANGED <<store, lock, payout, chain>>

Settle(n, status, cost) ==
  /\ transfers[n].status = "mempool"
  /\ balance >= cost
  /\ transfers' = [transfers EXCEPT ![n].status = status]
  /\ balance' = balance - cost
  /\ UNCHANGED <<store, clock, lock, payout>>

MineTransfer(n) == Settle(n, "mined", Amount + Gas)
RevertTransfer(n) == Settle(n, "reverted", Gas)
DropTransfer(n) == Settle(n, "dropped", 0)

TopUp ==
  /\ balance + Amount + Gas <= MaxBalance
  /\ balance' = balance + Amount + Gas
  /\ UNCHANGED <<store, clock, lock, payout, transfers>>

----------------------------------------------------------------------------
EndClaim ==
  \/ DenyClaim
  \/ AbandonClaim
  \/ \E w \in Wallets, i \in Installs, r \in Requesters, c \in DOMAIN challenges :
       \/ AcceptClaim(w, i, r, c)
       \/ \E proof \in BOOLEAN : RejectClaim(w, i, r, c, proof)

Request ==
  \E now \in seen..clock :
    \/ PruneStore(now)
    \/ BeginClaim(now)
    \/ \E w \in Wallets, i \in Installs : IssueChallenge(w, i, now)

SendOutcome == SendTransfer \/ FailSend
WaitOutcome == SeeReceipt \/ FailWait \/ TimeOutWait
Record ==
  \/ RecordSendFailure
  \/ RecordBroadcast
  \/ RecordTimeOut
  \/ RecordWaitFailure
  \/ RecordConfirmation
  \/ FailRecord

ChainStep ==
  \/ TopUp
  \/ \E n \in DOMAIN transfers :
       MineTransfer(n) \/ RevertTransfer(n) \/ DropTransfer(n)

Next ==
  \/ Request
  \/ EndClaim
  \/ SendOutcome
  \/ WaitOutcome
  \/ Record
  \/ ChainStep
  \/ Tick
  \/ Crash

Spec == Init /\ [][Next]_vars

\* The event loop runs what is ready: a claim that holds the lock finishes, a
\* call to the node returns, the confirmation timer fires, and the lock is a
\* FIFO, so a payout's transaction that waits for it gets it in its turn.
Fairness ==
  /\ WF_vars(EndClaim)
  /\ WF_vars(SendOutcome)
  /\ WF_vars(TimeOutWait)
  /\ SF_vars(Record)

FairSpec == Spec /\ Fairness

----------------------------------------------------------------------------
\* Properties.

\* The shape of every variable, and the lower bounds the steps rely on.
TypeOK ==
  /\ challenges \in [DOMAIN challenges -> Challenge]
  /\ DOMAIN challenges \subseteq 1..(nextChallenge - 1)
  /\ claims \in [DOMAIN claims -> Claim]
  /\ DOMAIN claims \subseteq 1..(nextClaim - 1)
  /\ nextChallenge \in 1..(MaxChallenges + 1) /\ nextClaim \in 1..(MaxClaims + 1)
  /\ clock \in Nat /\ seen \in 0..clock
  /\ reading \in BOOLEAN /\ balanceRead \in Nat
  /\ queue \in Seq(Job) /\ phase \in Phases
  /\ transfers \in Seq(Transfer) /\ balance \in Nat

\* No claim record has yet been cut from the table.
WithinRetention == nextClaim <= MaxStoredClaims + 1

Mined == {n \in DOMAIN transfers : transfers[n].status = "mined"}
MinedFor(k) == {n \in Mined : transfers[n].claim = k}
Payable(n) == transfers[n].status \in {"mempool", "mined"}

\* Two stored claims that are pending or claimed share neither wallet nor
\* install: the dedupe of existingClaimReason holds across the whole life of a
\* claim, whatever is issued, reopened, pruned or lost in between.
OneLiveClaim ==
  \A j, k \in DOMAIN claims :
    j # k /\ IsLive(claims[j]) /\ IsLive(claims[k]) =>
      claims[j].wallet # claims[k].wallet /\ claims[j].install # claims[k].install

\* A claim is sent at most once, through errors, time-outs and restarts.
OneTransferPerClaim ==
  \A m, n \in DOMAIN transfers : transfers[m].claim = transfers[n].claim => m = n

\* A queued payout is the only business its claim still has: the claim, if it
\* is stored, is pending and of the same wallet and challenge, the jobs are in
\* the order of their claims, and nothing was sent for them yet, except for
\* the one in process.
JobsArePending ==
  \A n \in DOMAIN queue :
    LET job == queue[n]
    IN /\ job.claim < nextClaim
       /\ \A m \in DOMAIN queue : m < n => queue[m].claim < job.claim
       /\ job.claim \in DOMAIN claims =>
            /\ claims[job.claim].status = "pending_funding"
            /\ claims[job.claim].wallet = job.wallet
            /\ claims[job.claim].challenge = job.challenge
       /\ \A t \in DOMAIN transfers :
            transfers[t].claim = job.claim => n = 1 /\ phase # "idle"

\* A transfer went to the wallet of its claim, which was accepted once.
TransfersHaveClaims ==
  \A n \in DOMAIN transfers :
    LET k == transfers[n].claim
    IN /\ k < nextClaim
       /\ k \in DOMAIN claims =>
            claims[k].wallet = transfers[n].wallet /\ claims[k].status # "rejected"

\* The transfer whose receipt is awaited is that of the payout in process.
InProcess ==
  /\ phase # "idle" => queue # <<>>
  /\ phase \notin {"idle", "sendFailed"} =>
       /\ transfers # <<>>
       /\ Awaited.claim = Current.claim /\ Awaited.wallet = Current.wallet
  /\ phase = "confirmed" => Awaited.status = "mined"

\* Nothing but the retention limit removes a claim.
Retained == WithinRetention => DOMAIN claims = 1..(nextClaim - 1)

\* The store, the in-memory queue and the chain tell one story, although each
\* is written at a different moment and any of them may be cut short.
PayoutsMatchRecords ==
  JobsArePending /\ TransfersHaveClaims /\ InProcess /\ Retained

\* The service records a grant as claimed only when its transfer is mined, to
\* the wallet that claimed it.
ClaimedIsPaid ==
  \A k \in DOMAIN claims : claims[k].status = "claimed" =>
    \E n \in MinedFor(k) : transfers[n].wallet = claims[k].wallet

\* No wallet receives two grants.
OneTimeGrant ==
  \A m, n \in Mined : transfers[m].wallet = transfers[n].wallet => m = n

\* No failed claim has a transfer that was, or can still be, mined.
FailuresWereFinal ==
  \A k \in DOMAIN claims : claims[k].status = "funding_failed" =>
    \A n \in DOMAIN transfers : transfers[n].claim = k => ~Payable(n)

\* The only ways to a second grant: a claim record was cut from the table, or
\* an error was reported for a transfer that could still be mined.
OneTimeGrantUnlessForgotten ==
  WithinRetention /\ FailuresWereFinal => OneTimeGrant

\* A challenge is being funded only while its claim is pending, so a failed
\* payout reopens the challenge of its own claim and no other.
FundingIsPending ==
  WithinRetention => \A c \in DOMAIN challenges : challenges[c].status = "funding" =>
    \E k \in Pending(claims) : claims[k].challenge = c

\* A wallet and install never hold two open challenges: one reopened by a
\* failed payout never meets one that was issued meanwhile.
OneOpenChallenge ==
  WithinRetention => \A b, c \in DOMAIN challenges :
    /\ b # c
    /\ {challenges[b].status, challenges[c].status} \subseteq {"issued", "funding"}
    => \/ challenges[b].wallet # challenges[c].wallet
       \/ challenges[b].install # challenges[c].install

\* Neither a wallet nor an install holds more open challenges than allowed,
\* those reopened by failed payouts included.
OpenChallengesBounded ==
  LET Open == {c \in DOMAIN challenges : challenges[c].status = "issued"}
  IN WithinRetention =>
       /\ \A w \in Wallets :
            Cardinality({c \in Open : challenges[c].wallet = w}) <= MaxOutstanding
       /\ \A i \in Installs :
            Cardinality({c \in Open : challenges[c].install = i}) <= MaxOutstanding

\* In every window of RejectWindow, ended or not, the stored failures of a
\* wallet or an install do not exceed the limit of the lock-out.
FailuresBounded ==
  \A t \in 0..clock :
    LET Failed == {k \in DOMAIN claims :
                     HasFailed(claims[k]) /\ claims[k].createdAt \in (t - RejectWindow)..t}
    IN /\ \A w \in Wallets :
            Cardinality({k \in Failed : claims[k].wallet = w}) <= RejectLimit
       /\ \A i \in Installs :
            Cardinality({k \in Failed : claims[k].install = i}) <= RejectLimit

Unpaid == {k \in Pending(claims) : MinedFor(k) = {}}
GasSpent ==
  Gas * Cardinality({n \in DOMAIN transfers : transfers[n].status \in {"mined", "reverted"}})

\* The same tokens are never promised twice: gas aside, the balance covers
\* every pending claim not yet paid, although the balance a claim was admitted
\* on may be older than transfers that were mined while it held the lock.
AmountsReserved ==
  WithinRetention /\ FailuresWereFinal =>
    balance + GasSpent >= Amount * Cardinality(Unpaid)

\* Limits of the service hold however requests and payouts interleave: of open challenges,
\* of failures in a window, and of the tokens that are promised.
LimitsHold == OpenChallengesBounded /\ FailuresBounded /\ AmountsReserved

\* A payout that was queued leaves the queue: no transfer that is never
\* confirmed, no failed save and no claim holding the lock blocks the ones
\* behind it.
QueueDrains ==
  \A k \in ClaimIds :
    (\E n \in DOMAIN queue : queue[n].claim = k)
      ~> ~(\E n \in DOMAIN queue : queue[n].claim = k)

----------------------------------------------------------------------------
\* The ledger the service implements: its pairs are the live claims, and a
\* wallet's payments its mined transfers.

PairsWith(status) ==
  {<<claims[k].wallet, claims[k].install>> :
     k \in {j \in DOMAIN claims : claims[j].status = status}}

PaymentsTo(w) == Cardinality({n \in Mined : transfers[n].wallet = w})

Ledger == INSTANCE GrantLedger WITH
  reserved <- PairsWith("pending_funding"),
  granted  <- PairsWith("claimed"),
  paid     <- [w \in Wallets |-> PaymentsTo(w)]

\* Every step of the service is a step of the ledger or leaves it unchanged,
\* when errors are final and no claim record is ever cut from the table.
ImplementsLedger == Ledger!Spec
============================================================================
