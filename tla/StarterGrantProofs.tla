------------------------- MODULE StarterGrantProofs -------------------------
(***************************************************************************)
(* Theorems about the starter-grant service, for every set of wallets,     *)
(* installs and requesters and for every limit: the type invariant; the    *)
(* invariants that relate the store, the payout queue and the chain; and   *)
(* the refinement of the ledger.                                           *)
(***************************************************************************)
EXTENDS StarterGrant, FiniteSetTheorems, SequenceTheorems, TLAPS

----------------------------------------------------------------------------
\* The tables: what inserting, pruning and setting a status leave as it was.

\* Pruning challenges keeps their type and adds no challenge.
LEMMA PruneChallengesType ==
  ASSUME NEW chs, chs \in [DOMAIN chs -> Challenge], NEW now \in Nat
  PROVE  /\ PruneChallenges(chs, now) \in [DOMAIN PruneChallenges(chs, now) -> Challenge]
         /\ DOMAIN PruneChallenges(chs, now) \subseteq DOMAIN chs
<1> DEFINE refreshed == RefreshStatuses(chs, now)
<1>1. refreshed \in [DOMAIN chs -> Challenge]
  BY DEF RefreshStatuses, Challenge, ChallengeStatus
<1>2. PICK kept \in SUBSET DOMAIN refreshed :
        KeepRecentChallenges(refreshed) = Restrict(refreshed, kept)
  <2> DEFINE all == DOMAIN refreshed
             active == Newest({c \in all : refreshed[c].status = "issued"}, MaxStoredChallenges)
             inactive == Newest({c \in all : refreshed[c].status # "issued"},
                                MaxStoredChallenges - Cardinality(active))
  <2>1. active \cup inactive \subseteq all
    BY DEF Newest
  <2> QED BY <2>1 DEF KeepRecentChallenges
<1> HIDE DEF refreshed
<1>3. Restrict(refreshed, kept) \in [kept -> Challenge]
  BY <1>1, <1>2 DEF Restrict
<1> QED BY <1>1, <1>2, <1>3 DEF PruneChallenges, refreshed

\* Pruning claims changes no claim that it keeps.
LEMMA PruneClaimsKeeps ==
  ASSUME NEW cls, cls \in [DOMAIN cls -> Claim]
  PROVE  /\ PruneClaims(cls) \in [DOMAIN PruneClaims(cls) -> Claim]
         /\ DOMAIN PruneClaims(cls) \subseteq DOMAIN cls
         /\ \A k \in DOMAIN PruneClaims(cls) : PruneClaims(cls)[k] = cls[k]
BY DEF PruneClaims, KeepRecent, Newest, Restrict

\* Setting a status keeps every record's other fields.
LEMMA SetChallengeStatusType ==
  ASSUME NEW chs, chs \in [DOMAIN chs -> Challenge], NEW c, NEW from,
         NEW to \in ChallengeStatus
  PROVE  /\ SetChallengeStatus(chs, c, from, to) \in [DOMAIN chs -> Challenge]
         /\ DOMAIN SetChallengeStatus(chs, c, from, to) = DOMAIN chs
BY DEF SetChallengeStatus, Challenge

\* Reopening a challenge keeps the table a table of challenges.
LEMMA ReopenType ==
  ASSUME NEW chs, chs \in [DOMAIN chs -> Challenge], NEW c, NEW now
  PROVE  /\ Reopen(chs, c, now) \in [DOMAIN chs -> Challenge]
         /\ DOMAIN Reopen(chs, c, now) = DOMAIN chs
BY DEF Reopen, Challenge, ChallengeStatus

\* Setting the status of a claim changes that record and no other.
LEMMA SetClaimStatusType ==
  ASSUME NEW cls, cls \in [DOMAIN cls -> Claim], NEW k, NEW from, NEW to \in ClaimStatus
  PROVE  /\ SetClaimStatus(cls, k, from, to) \in [DOMAIN cls -> Claim]
         /\ DOMAIN SetClaimStatus(cls, k, from, to) = DOMAIN cls
         /\ \A j \in DOMAIN cls : j # k => SetClaimStatus(cls, k, from, to)[j] = cls[j]
         /\ k \in DOMAIN cls =>
              LET new == SetClaimStatus(cls, k, from, to)[k]
              IN new = IF cls[k].status \in from THEN [cls[k] EXCEPT !.status = to] ELSE cls[k]
BY DEF SetClaimStatus, Claim

----------------------------------------------------------------------------
\* Type correctness.

\* The pruned tables of a store that has its type.
LEMMA TypeOfPrunedStore ==
  ASSUME TypeOK, NEW now \in Nat
  PROVE  /\ PruneChallenges(challenges, now) \in
              [DOMAIN PruneChallenges(challenges, now) -> Challenge]
         /\ DOMAIN PruneChallenges(challenges, now) \subseteq DOMAIN challenges
         /\ PruneClaims(claims) \in [DOMAIN PruneClaims(claims) -> Claim]
         /\ DOMAIN PruneClaims(claims) \subseteq DOMAIN claims
         /\ \A k \in DOMAIN PruneClaims(claims) : PruneClaims(claims)[k] = claims[k]
BY PruneChallengesType, PruneClaimsKeeps DEF TypeOK

\* The constants that bound or pay are natural numbers.
LEMMA LimitsAreNat ==
  MaxChallenges \in Nat /\ MaxClaims \in Nat /\ Amount \in Nat /\ Gas \in Nat
BY GrantAssumption, TableAssumption

\* The requests that take the lock keep the types.
LEMMA RequestType ==
  ASSUME TypeOK, Request
  PROVE  TypeOK'
<1>1. PICK now \in seen..clock :
        \/ PruneStore(now)
        \/ BeginClaim(now)
        \/ \E w \in Wallets, i \in Installs : IssueChallenge(w, i, now)
  BY DEF Request
<1>2. now \in Nat /\ now <= clock
  BY DEF TypeOK
<1> DEFINE chs == PruneChallenges(challenges, now)
           cls == PruneClaims(claims)
<1>3. /\ chs \in [DOMAIN chs -> Challenge] /\ DOMAIN chs \subseteq DOMAIN challenges
      /\ cls \in [DOMAIN cls -> Claim] /\ DOMAIN cls \subseteq DOMAIN claims
  BY <1>2, TypeOfPrunedStore
<1> HIDE DEF chs, cls
<1>4. CASE PruneStore(now)
  BY <1>2, <1>3, <1>4 DEF TypeOK, PruneStore, TakeLock, payout, chain, chs, cls
<1>5. CASE BeginClaim(now)
  BY <1>2, <1>5 DEF TypeOK, BeginClaim, TakeLock, store, payout, chain
<1>6. ASSUME NEW w \in Wallets, NEW i \in Installs, IssueChallenge(w, i, now)
      PROVE  TypeOK'
  <2> DEFINE new == [wallet |-> w, install |-> i, issuedAt |-> now, status |-> "issued"]
             inserted == Insert(chs, nextChallenge, new)
  <2>1. new \in Challenge
    BY <1>2 DEF Challenge, ChallengeStatus
  <2> HIDE DEF new
  <2>2. inserted \in [DOMAIN inserted -> Challenge] /\ DOMAIN inserted = DOMAIN chs \cup {nextChallenge}
    BY <2>1, <1>3 DEF Insert
  <2>3. /\ PruneChallenges(inserted, now) \in [DOMAIN PruneChallenges(inserted, now) -> Challenge]
        /\ DOMAIN PruneChallenges(inserted, now) \subseteq DOMAIN inserted
    BY <2>2, <1>2, PruneChallengesType
  <2>4. /\ challenges' = PruneChallenges(inserted, now) /\ claims' = cls
        /\ nextChallenge <= MaxChallenges /\ nextChallenge' = nextChallenge + 1
        /\ seen' = now
        /\ UNCHANGED <<nextClaim, clock, reading, balanceRead, payout, chain>>
    BY <1>6 DEF IssueChallenge, TakeLock, chs, cls, new
  <2> HIDE DEF inserted
  <2>5. DOMAIN challenges' \subseteq 1..(nextChallenge' - 1)
    BY <1>3, <2>2, <2>3, <2>4 DEF TypeOK
  <2>6. nextChallenge' \in 1..(MaxChallenges + 1)
    BY <2>4, LimitsAreNat DEF TypeOK
  <2> QED BY <1>2, <1>3, <2>3, <2>4, <2>5, <2>6 DEF TypeOK, payout, chain
<1> QED BY <1>1, <1>4, <1>5, <1>6

\* The insertion numbers are numbers, wherever they are kept.
LEMMA Numbers ==
  ASSUME TypeOK
  PROVE  /\ nextClaim \in Nat /\ nextClaim >= 1
         /\ nextClaim <= MaxClaims => nextClaim \in ClaimIds
         /\ \A c \in DOMAIN challenges : c \in Nat /\ c \in 1..MaxChallenges
         /\ \A n \in DOMAIN queue : queue[n] \in Job /\ queue[n].claim \in Nat
         /\ \A n \in DOMAIN transfers :
              transfers[n] \in Transfer /\ transfers[n].claim \in Nat
         /\ MaxStoredClaims \in Nat
<1>1. /\ nextClaim \in Nat /\ nextClaim >= 1
      /\ nextClaim <= MaxClaims => nextClaim \in ClaimIds
  BY LimitsAreNat DEF TypeOK, ClaimIds
<1>2. \A c \in DOMAIN challenges : c \in Nat /\ c \in 1..MaxChallenges
  BY LimitsAreNat DEF TypeOK
<1>3. \A k \in ClaimIds : k \in Nat
  BY LimitsAreNat DEF ClaimIds
<1>4. \A n \in DOMAIN queue : queue[n] \in Job
  BY DEF TypeOK
<1>5. \A n \in DOMAIN transfers : transfers[n] \in Transfer
  BY DEF TypeOK
<1>6. MaxStoredClaims \in Nat
  BY TableAssumption
<1> QED BY <1>1, <1>2, <1>3, <1>4, <1>5, <1>6 DEF Job, Transfer

\* A claim record made for a request that holds the lock.
LEMMA NewClaimType ==
  ASSUME TypeOK, NEW w \in Wallets, NEW i \in Installs, NEW r \in Requesters,
         NEW c \in Nat, NEW status \in ClaimStatus
  PROVE  NewClaim(w, i, r, c, status) \in Claim
BY DEF TypeOK, NewClaim, Claim

\* The ways a claim ends keep the types.
LEMMA EndClaimType ==
  ASSUME TypeOK, EndClaim
  PROVE  TypeOK'
<1> DEFINE chs == PruneChallenges(challenges, seen)
           cls == PruneClaims(claims)
<1>1. /\ chs \in [DOMAIN chs -> Challenge] /\ DOMAIN chs \subseteq DOMAIN challenges
      /\ cls \in [DOMAIN cls -> Claim] /\ DOMAIN cls \subseteq DOMAIN claims
  BY TypeOfPrunedStore DEF TypeOK
<1> HIDE DEF chs, cls
<1>2. CASE DenyClaim
  BY <1>1, <1>2 DEF TypeOK, DenyClaim, ReleaseLock, payout, chain, chs, cls
<1>3. CASE AbandonClaim
  BY <1>3 DEF TypeOK, AbandonClaim, ReleaseLock, store, payout, chain
<1>4. ASSUME NEW w \in Wallets, NEW i \in Installs, NEW r \in Requesters,
             NEW c \in DOMAIN challenges, AcceptClaim(w, i, r, c)
      PROVE  TypeOK'
  <2> DEFINE funding == [chs EXCEPT ![c].status = "funding"]
             new == NewClaim(w, i, r, c, "pending_funding")
             inserted == Insert(cls, nextClaim, new)
             job == [claim |-> nextClaim, challenge |-> c, wallet |-> w]
  <2>1. c \in Nat /\ c \in 1..MaxChallenges /\ nextClaim \in ClaimIds
    <3>1. c \in 1..(nextChallenge - 1) /\ nextClaim <= MaxClaims
      BY <1>4 DEF TypeOK, AcceptClaim
    <3> QED BY <3>1, LimitsAreNat DEF TypeOK, ClaimIds
  <2>2. funding \in [DOMAIN funding -> Challenge] /\ DOMAIN funding = DOMAIN chs /\ seen \in Nat
    <3>1. ASSUME NEW d \in DOMAIN chs
          PROVE  funding[d] \in Challenge
      <4>1. chs[d] \in Challenge
        BY <1>1
      <4> QED BY <4>1 DEF Challenge, ChallengeStatus
    <3>2. DOMAIN funding = DOMAIN chs /\ funding = [d \in DOMAIN chs |-> funding[d]]
      OBVIOUS
    <3>3. seen \in Nat
      BY DEF TypeOK
    <3> HIDE DEF funding
    <3> QED BY <3>1, <3>2, <3>3
  <2> HIDE DEF funding
  <2>3. /\ PruneChallenges(funding, seen) \in [DOMAIN PruneChallenges(funding, seen) -> Challenge]
        /\ DOMAIN PruneChallenges(funding, seen) \subseteq DOMAIN chs
    BY <2>2, PruneChallengesType
  <2>4. inserted \in [DOMAIN inserted -> Claim] /\ DOMAIN inserted = DOMAIN cls \cup {nextClaim}
    <3>1. new \in Claim
      BY <2>1, NewClaimType DEF ClaimStatus
    <3> HIDE DEF new
    <3> QED BY <3>1, <1>1 DEF Insert
  <2>5. /\ PruneClaims(inserted) \in [DOMAIN PruneClaims(inserted) -> Claim]
        /\ DOMAIN PruneClaims(inserted) \subseteq DOMAIN inserted
    BY <2>4, PruneClaimsKeeps
  <2>6. job \in Job
    BY <2>1 DEF Job
  <2>7. /\ challenges' = PruneChallenges(funding, seen) /\ claims' = PruneClaims(inserted)
        /\ nextClaim' = nextClaim + 1 /\ queue' = Append(queue, job)
        /\ reading' = FALSE /\ balanceRead' = 0
        /\ UNCHANGED <<seen, nextChallenge, clock, phase, chain>>
    BY <1>4 DEF AcceptClaim, ReleaseLock, chs, cls, funding
  <2> HIDE DEF inserted, job
  <2>8. DOMAIN challenges' \subseteq 1..(nextChallenge' - 1)
    BY <1>1, <2>3, <2>7 DEF TypeOK
  <2>9. DOMAIN claims' \subseteq 1..(nextClaim' - 1)
    <3>1. DOMAIN claims' \subseteq DOMAIN claims \cup {nextClaim} /\ nextClaim' = nextClaim + 1
      BY <1>1, <2>4, <2>5, <2>7
    <3> QED BY <3>1 DEF TypeOK
  <2>10. nextClaim' \in 1..(MaxClaims + 1)
    BY <2>1, <2>7, LimitsAreNat DEF ClaimIds
  <2>11. queue' \in Seq(Job)
    BY <2>6, <2>7 DEF TypeOK
  <2> QED BY <2>3, <2>5, <2>7, <2>8, <2>9, <2>10, <2>11 DEF TypeOK, chain
<1>5. ASSUME NEW w \in Wallets, NEW i \in Installs, NEW r \in Requesters,
             NEW c \in DOMAIN challenges, NEW proof \in BOOLEAN, RejectClaim(w, i, r, c, proof)
      PROVE  TypeOK'
  <2> DEFINE set == SetChallengeStatus(chs, c, ChallengeStatus \ {"expired"}, "rejected")
             new == NewClaim(w, i, r, c, "rejected")
             inserted == Insert(cls, nextClaim, new)
  <2>1. c \in Nat /\ nextClaim \in ClaimIds
    <3>1. c \in 1..(nextChallenge - 1) /\ nextClaim <= MaxClaims
      BY <1>5 DEF TypeOK, RejectClaim
    <3> QED BY <3>1, LimitsAreNat DEF TypeOK, ClaimIds
  <2>2. set \in [DOMAIN chs -> Challenge] /\ DOMAIN set = DOMAIN chs
    BY <1>1, SetChallengeStatusType DEF ChallengeStatus
  <2>3. inserted \in [DOMAIN inserted -> Claim] /\ DOMAIN inserted = DOMAIN cls \cup {nextClaim}
    <3>1. new \in Claim
      BY <2>1, NewClaimType DEF ClaimStatus
    <3> HIDE DEF new
    <3> QED BY <3>1, <1>1 DEF Insert
  <2>4. /\ challenges' = set /\ claims' = inserted /\ nextClaim' = nextClaim + 1
        /\ reading' = FALSE /\ balanceRead' = 0
        /\ UNCHANGED <<seen, nextChallenge, clock, payout, chain>>
    BY <1>5 DEF RejectClaim, ReleaseLock, chs, cls
  <2> HIDE DEF set, inserted
  <2>5. DOMAIN challenges' \subseteq 1..(nextChallenge' - 1)
    BY <1>1, <2>2, <2>4 DEF TypeOK
  <2>6. DOMAIN claims' \subseteq 1..(nextClaim' - 1)
    BY <1>1, <2>3, <2>4 DEF TypeOK
  <2>7. nextClaim' \in 1..(MaxClaims + 1)
    BY <2>1, <2>4, LimitsAreNat DEF ClaimIds
  <2> QED BY <2>2, <2>3, <2>4, <2>5, <2>6, <2>7 DEF TypeOK, payout, chain
<1> QED BY <1>2, <1>3, <1>4, <1>5 DEF EndClaim

\* The queue's steps.  What is in process is the head of a queue that is not
\* empty, which holds in every phase but "idle".
HeadInProcess == phase # "idle" => queue # <<>>

\* A queue to which something was appended is not empty.
LEMMA AppendNotEmpty ==
  ASSUME NEW S, NEW seq \in Seq(S), NEW x
  PROVE  Append(seq, x) # <<>>
<1>1. seq \in Seq(S \cup {x}) /\ x \in S \cup {x}
  OBVIOUS
<1> QED BY <1>1, AppendProperties

\* The payout in process is a job.
LEMMA CurrentType ==
  ASSUME TypeOK, queue # <<>>
  PROVE  /\ Current \in Job
         /\ Tail(queue) \in Seq(Job)
BY HeadTailProperties DEF TypeOK, Current

\* What is sent is a transfer.
LEMMA BroadcastType ==
  ASSUME TypeOK, queue # <<>>, Broadcast
  PROVE  transfers' \in Seq(Transfer)
BY CurrentType DEF TypeOK, Broadcast, Transfer, TransferStatus, Job

\* Sending a transfer and waiting for it keep the types.
LEMMA SendAndWaitType ==
  ASSUME TypeOK, SendOutcome \/ WaitOutcome
  PROVE  TypeOK'
<1>1. CASE SendTransfer
  <2>1. transfers' \in Seq(Transfer)
    BY <1>1, BroadcastType DEF SendTransfer, CanSend
  <2> QED BY <1>1, <2>1 DEF TypeOK, SendTransfer, Phases, store, lock
<1>2. CASE FailSend
  <2>1. transfers' \in Seq(Transfer)
    BY <1>2, BroadcastType DEF FailSend, TypeOK
  <2> QED BY <1>2, <2>1 DEF TypeOK, FailSend, Phases, store, lock
<1>3. CASE SeeReceipt
  BY <1>3 DEF TypeOK, SeeReceipt, Phases, store, lock, chain
<1>4. CASE FailWait
  BY <1>4 DEF TypeOK, FailWait, Phases, store, lock, chain
<1>5. CASE TimeOutWait
  BY <1>5 DEF TypeOK, TimeOutWait, Phases, store, lock, chain
<1> QED BY <1>1, <1>2, <1>3, <1>4, <1>5 DEF SendOutcome, WaitOutcome

\* Recording a payout's outcome keeps the types.
LEMMA RecordType ==
  ASSUME TypeOK, HeadInProcess, Record
  PROVE  TypeOK'
<1> USE DEF Phases
<1>1. phase # "idle" /\ queue # <<>>
  BY DEF Record, RecordSendFailure, RecordBroadcast, RecordTimeOut, RecordWaitFailure,
         RecordConfirmation, FailRecord, HeadInProcess
<1>2. /\ challenges \in [DOMAIN challenges -> Challenge]
      /\ claims \in [DOMAIN claims -> Claim]
  BY DEF TypeOK
<1>3. Tail(queue) \in Seq(Job)
  BY <1>1, CurrentType
<1>4. CASE RecordSendFailure
  <2>1. /\ challenges' \in [DOMAIN challenges -> Challenge]
        /\ claims' \in [DOMAIN claims -> Claim]
    BY <1>2, <1>4, ReopenType, SetClaimStatusType DEF RecordSendFailure, ClaimStatus
  <2> QED BY <1>3, <1>4, <2>1 DEF TypeOK, RecordSendFailure, FinishPayout, lock, chain
<1>5. CASE RecordBroadcast
  <2>1. claims' \in [DOMAIN claims -> Claim]
    BY <1>2, <1>5 DEF RecordBroadcast, Claim
  <2> QED BY <1>5, <2>1 DEF TypeOK, RecordBroadcast, lock, chain
<1>6. CASE RecordTimeOut
  BY <1>3, <1>6 DEF TypeOK, RecordTimeOut, FinishPayout, store, lock, chain
<1>7. CASE RecordWaitFailure
  <2>1. /\ challenges' \in [DOMAIN challenges -> Challenge]
        /\ claims' \in [DOMAIN claims -> Claim]
    BY <1>2, <1>7, ReopenType, SetClaimStatusType DEF RecordWaitFailure, ClaimStatus
  <2> QED BY <1>3, <1>7, <2>1 DEF TypeOK, RecordWaitFailure, FinishPayout, lock, chain
<1>8. CASE RecordConfirmation
  <2>1. /\ challenges' \in [DOMAIN challenges -> Challenge]
        /\ claims' \in [DOMAIN claims -> Claim]
    BY <1>2, <1>8, SetChallengeStatusType, SetClaimStatusType
       DEF RecordConfirmation, ClaimStatus, ChallengeStatus
  <2> QED BY <1>3, <1>8, <2>1 DEF TypeOK, RecordConfirmation, FinishPayout, lock, chain
<1>9. CASE FailRecord
  BY <1>3, <1>9 DEF TypeOK, FailRecord, FinishPayout, store, lock, chain
<1> QED BY <1>4, <1>5, <1>6, <1>7, <1>8, <1>9 DEF Record

\* The chain, time and restarts keep the types.
LEMMA EnvironmentType ==
  ASSUME TypeOK, ChainStep \/ Tick \/ Crash
  PROVE  TypeOK'
<1>1. ASSUME NEW n \in DOMAIN transfers, NEW status \in TransferStatus, NEW cost \in Nat,
             Settle(n, status, cost)
      PROVE  TypeOK'
  <2>1. [transfers EXCEPT ![n].status = status] \in Seq(Transfer)
    <3>1. transfers[n] \in Transfer /\ [transfers[n] EXCEPT !.status = status] \in Transfer
      <4>1. transfers[n] \in Transfer
        BY DEF TypeOK
      <4> QED BY <4>1 DEF Transfer
    <3>2. [transfers EXCEPT ![n] = [transfers[n] EXCEPT !.status = status]] \in Seq(Transfer)
      BY <3>1, ExceptSeq DEF TypeOK
    <3> QED BY <3>2
  <2>2. balance - cost \in Nat
    BY <1>1 DEF TypeOK, Settle
  <2> QED BY <1>1, <2>1, <2>2 DEF TypeOK, Settle, store, lock, payout
<1>2. ASSUME NEW n \in DOMAIN transfers, MineTransfer(n) \/ RevertTransfer(n) \/ DropTransfer(n)
      PROVE  TypeOK'
  <2>1. Amount + Gas \in Nat /\ Gas \in Nat /\ 0 \in Nat
    BY LimitsAreNat
  <2>2. {"mined", "reverted", "dropped"} \subseteq TransferStatus
    BY DEF TransferStatus
  <2> QED BY <1>1, <1>2, <2>1, <2>2 DEF MineTransfer, RevertTransfer, DropTransfer
<1>3. CASE TopUp
  <2>1. balance' \in Nat
    BY <1>3, LimitsAreNat DEF TypeOK, TopUp
  <2> QED BY <1>3, <2>1 DEF TypeOK, TopUp, store, lock, payout
<1>4. CASE Tick
  BY <1>4 DEF TypeOK, Tick, store, lock, payout, chain
<1>5. CASE Crash
  <2>1. queue' \in Seq(Job) /\ phase' \in Phases /\ balanceRead' \in Nat
    BY <1>5 DEF Crash, Phases
  <2>2. reading' \in BOOLEAN
    BY <1>5, Zenon DEF Crash
  <2> QED BY <1>5, <2>1, <2>2 DEF TypeOK, Crash, store, chain
<1> QED BY <1>2, <1>3, <1>4, <1>5 DEF ChainStep

\* No step empties the queue under a payout in process.
LEMMA HeadInProcessStep ==
  ASSUME TypeOK, HeadInProcess, [Next]_vars
  PROVE  HeadInProcess'
<1> USE DEF HeadInProcess
<1>1. CASE UNCHANGED payout
  BY <1>1 DEF payout
<1>2. ASSUME NEW job, phase' = phase, queue' = Append(queue, job)
      PROVE  HeadInProcess'
  BY <1>2, AppendNotEmpty DEF TypeOK
<1>3. CASE Request
  BY <1>1, <1>3 DEF Request, PruneStore, BeginClaim, IssueChallenge
<1>4. CASE EndClaim
  <2>1. ASSUME NEW w \in Wallets, NEW i \in Installs, NEW r \in Requesters,
               NEW c \in DOMAIN challenges, AcceptClaim(w, i, r, c)
        PROVE  HeadInProcess'
    BY <1>2, <2>1 DEF AcceptClaim
  <2> QED BY <1>1, <1>4, <2>1 DEF EndClaim, DenyClaim, AbandonClaim, RejectClaim
<1>5. CASE SendOutcome
  BY <1>5 DEF SendOutcome, SendTransfer, FailSend, CanSend
<1>6. CASE WaitOutcome
  BY <1>6 DEF WaitOutcome, SeeReceipt, FailWait, TimeOutWait
<1>7. CASE Record
  BY <1>7 DEF Record, RecordSendFailure, RecordBroadcast, RecordTimeOut, RecordWaitFailure,
              RecordConfirmation, FailRecord, FinishPayout
<1>8. CASE ChainStep
  BY <1>1, <1>8 DEF ChainStep, TopUp, MineTransfer, RevertTransfer, DropTransfer, Settle
<1>9. CASE Tick
  BY <1>1, <1>9 DEF Tick
<1>10. CASE Crash
  BY <1>10 DEF Crash
<1>11. CASE UNCHANGED vars
  BY <1>1, <1>11 DEF vars
<1> QED BY <1>3, <1>4, <1>5, <1>6, <1>7, <1>8, <1>9, <1>10, <1>11 DEF Next

\* The first state has the types.
LEMMA TypeInit == Init => TypeOK /\ HeadInProcess
<1> SUFFICES ASSUME Init PROVE TypeOK /\ HeadInProcess
  OBVIOUS
<1>1. /\ DOMAIN challenges = {} /\ challenges \in [DOMAIN challenges -> Challenge]
      /\ DOMAIN claims = {} /\ claims \in [DOMAIN claims -> Claim]
  BY DEF Init
<1>2. queue \in Seq(Job) /\ transfers \in Seq(Transfer)
  BY DEF Init
<1>3. InitialBalance \in Nat /\ 1 \in 1..(MaxChallenges + 1) /\ 1 \in 1..(MaxClaims + 1)
  BY GrantAssumption, LimitsAreNat
<1>4. clock \in Nat /\ seen \in 0..clock /\ balanceRead \in Nat
  BY DEF Init
<1>5. reading \in BOOLEAN
  BY Zenon DEF Init
<1> QED BY <1>1, <1>2, <1>3, <1>4, <1>5 DEF Init, TypeOK, HeadInProcess, Phases

\* Every step keeps the types.
LEMMA TypeStep ==
  TypeOK /\ HeadInProcess /\ [Next]_vars => TypeOK' /\ HeadInProcess'
<1> SUFFICES ASSUME TypeOK, HeadInProcess, [Next]_vars
             PROVE  TypeOK'
  BY HeadInProcessStep
<1>1. CASE UNCHANGED vars
  BY <1>1 DEF TypeOK, vars, store, lock, payout, chain
<1> QED BY <1>1, RequestType, EndClaimType, SendAndWaitType, RecordType, EnvironmentType DEF Next

\* Every variable keeps its type: no handler, payout or restart leaves a
\* record without its fields, a job or transfer of no claim, or a balance
\* below zero.
THEOREM TypeCorrect == Spec => []TypeOK
<1>1. TypeOK /\ HeadInProcess /\ [Next]_vars => (TypeOK /\ HeadInProcess)'
  BY TypeStep
<1> QED BY TypeInit, <1>1, PTL DEF Spec

----------------------------------------------------------------------------
\* The store, the queue and the chain agree.  A step touches the claim table
\* in one of three ways: it cuts old records, it adds one record at the end,
\* or it changes the record of the payout in process.

GrantInv ==
  TypeOK /\ PayoutsMatchRecords /\ OneLiveClaim /\ OneTransferPerClaim /\ ClaimedIsPaid

Part(small, big) ==
  /\ DOMAIN small \subseteq DOMAIN big
  /\ \A k \in DOMAIN small : small[k] = big[k]

\* Pruning cuts nothing from a table that was never longer than its limit.
LEMMA PruneClaimsRetains ==
  ASSUME NEW cls, NEW n \in Nat, DOMAIN cls \subseteq 1..n, n <= MaxStoredClaims
  PROVE  DOMAIN PruneClaims(cls) = DOMAIN cls
<1>1. ASSUME NEW k \in DOMAIN cls
      PROVE  Cardinality({j \in DOMAIN cls : j > k}) < MaxStoredClaims
  <2> DEFINE later == {j \in DOMAIN cls : j > k}
  <2>1. k \in 1..n /\ later \in SUBSET ((k + 1)..n)
    OBVIOUS
  <2> HIDE DEF later
  <2>2. IsFiniteSet((k + 1)..n) /\ Cardinality((k + 1)..n) <= n - k
    <3>1. k + 1 \in Int /\ n \in Int /\ k <= n
      BY <2>1
    <3>2. /\ IsFiniteSet((k + 1)..n)
          /\ Cardinality((k + 1)..n) = IF k + 1 > n THEN 0 ELSE n - (k + 1) + 1
      BY <3>1, FS_Interval
    <3> QED BY <2>1, <3>2
  <2>3. IsFiniteSet(later) /\ Cardinality(later) <= Cardinality((k + 1)..n)
    BY <2>1, <2>2, FS_Subset
  <2>4. Cardinality(later) \in Nat /\ Cardinality((k + 1)..n) \in Nat
    BY <2>2, <2>3, FS_CardinalityType
  <2>5. MaxStoredClaims \in Nat
    BY TableAssumption
  <2>6. Cardinality(later) < MaxStoredClaims
    BY <2>1, <2>2, <2>3, <2>4, <2>5
  <2> QED BY <2>6 DEF later
<1> QED BY <1>1 DEF PruneClaims, KeepRecent, Newest, Restrict

\* What pruning keeps is a part of the table.
LEMMA PrunedPart ==
  ASSUME NEW cls, cls \in [DOMAIN cls -> Claim]
  PROVE  Part(PruneClaims(cls), cls)
BY PruneClaimsKeeps DEF Part

\* Within the retention limit a request cuts no claim.
LEMMA PrunedStoreRetains ==
  ASSUME TypeOK, WithinRetention
  PROVE  DOMAIN PruneClaims(claims) = DOMAIN claims
<1>1. nextClaim - 1 \in Nat /\ nextClaim - 1 <= MaxStoredClaims
  BY TableAssumption DEF TypeOK, WithinRetention
<1> QED BY <1>1, PruneClaimsRetains DEF TypeOK

\* A step that at most cuts records, and leaves queue and chain alone.
LEMMA CutStep ==
  ASSUME GrantInv, TypeOK', Part(claims', claims),
         WithinRetention => DOMAIN claims' = DOMAIN claims,
         UNCHANGED <<nextClaim, queue, phase, transfers>>
  PROVE  GrantInv'
<1> USE DEF GrantInv, Part
<1>1. JobsArePending'
  BY DEF PayoutsMatchRecords, JobsArePending
<1>2. TransfersHaveClaims'
  BY DEF PayoutsMatchRecords, TransfersHaveClaims
<1>3. InProcess'
  BY DEF PayoutsMatchRecords, InProcess, Awaited, Current
<1>4. Retained'
  BY DEF PayoutsMatchRecords, Retained, WithinRetention
<1>5. OneLiveClaim' /\ OneTransferPerClaim' /\ ClaimedIsPaid'
  BY DEF OneLiveClaim, IsLive, OneTransferPerClaim, ClaimedIsPaid, MinedFor, Mined
<1> QED BY <1>1, <1>2, <1>3, <1>4, <1>5 DEF PayoutsMatchRecords

\* A step that adds the record of the next claim to what it keeps of the table.
LEMMA AddedClaim ==
  ASSUME GrantInv, TypeOK', NEW cls, Part(cls, claims), NEW new \in Claim,
         Part(claims', Insert(cls, nextClaim, new)),
         nextClaim' = nextClaim + 1, UNCHANGED <<phase, transfers>>
  PROVE  /\ \A k \in DOMAIN claims' :
              \/ k = nextClaim /\ claims'[k] = new
              \/ k \in DOMAIN cls /\ k \in DOMAIN claims /\ k # nextClaim
                 /\ claims'[k] = claims[k] /\ claims'[k] = cls[k]
         /\ nextClaim \notin DOMAIN claims
         /\ new.status # "claimed" => ClaimedIsPaid'
         /\ OneTransferPerClaim'
         /\ TransfersHaveClaims'
<1>1. nextClaim \notin DOMAIN claims /\ nextClaim \in Nat
  BY DEF GrantInv, TypeOK
<1>2. \A k \in DOMAIN claims' :
         \/ k = nextClaim /\ claims'[k] = new
         \/ k \in DOMAIN cls /\ k \in DOMAIN claims /\ k # nextClaim
            /\ claims'[k] = claims[k] /\ claims'[k] = cls[k]
  BY <1>1 DEF Part, Insert
<1>3. ASSUME new.status # "claimed"
      PROVE  ClaimedIsPaid'
  BY <1>1, <1>2, <1>3 DEF GrantInv, ClaimedIsPaid, MinedFor, Mined
<1>4. OneTransferPerClaim'
  BY DEF GrantInv, OneTransferPerClaim
<1>5. TransfersHaveClaims'
  <2>1. \A n \in DOMAIN transfers : transfers[n].claim < nextClaim /\ transfers[n].claim \in Nat
    BY Numbers DEF GrantInv, PayoutsMatchRecords, TransfersHaveClaims
  <2> QED BY <1>1, <1>2, <2>1 DEF GrantInv, PayoutsMatchRecords, TransfersHaveClaims
<1> QED BY <1>1, <1>2, <1>3, <1>4, <1>5

\* The requests that take the lock preserve the invariant.
LEMMA RequestInv ==
  ASSUME GrantInv, TypeOK', Request
  PROVE  GrantInv'
<1>1. /\ claims' = PruneClaims(claims) \/ UNCHANGED claims
      /\ UNCHANGED <<nextClaim, queue, phase, transfers>>
  BY DEF Request, PruneStore, BeginClaim, IssueChallenge, store, payout, chain
<1>2. Part(PruneClaims(claims), claims)
  BY PrunedPart DEF GrantInv, TypeOK
<1>3. Part(claims, claims)
  BY DEF Part
<1>4. WithinRetention => DOMAIN claims' = DOMAIN claims
  BY <1>1, PrunedStoreRetains DEF GrantInv
<1> QED BY <1>1, <1>2, <1>3, <1>4, CutStep

\* What both a rejected and an accepted claim leave of the records before.
LEMMA AdmittedStore ==
  ASSUME GrantInv, TypeOK', NEW new \in Claim,
         nextClaim' = nextClaim + 1,
         \/ claims' = Insert(PruneClaims(claims), nextClaim, new)
         \/ claims' = PruneClaims(Insert(PruneClaims(claims), nextClaim, new))
  PROVE  /\ Part(PruneClaims(claims), claims)
         /\ Part(claims', Insert(PruneClaims(claims), nextClaim, new))
         /\ Retained'
<1> DEFINE cls == PruneClaims(claims)
           added == Insert(cls, nextClaim, new)
<1>1. cls \in [DOMAIN cls -> Claim] /\ Part(cls, claims)
  BY PruneClaimsKeeps, PrunedPart DEF GrantInv, TypeOK
<1> HIDE DEF cls
<1>2. added \in [DOMAIN added -> Claim] /\ DOMAIN added = DOMAIN cls \cup {nextClaim}
  BY <1>1 DEF Insert
<1> HIDE DEF added
<1>3. Part(PruneClaims(added), added) /\ Part(added, added)
  BY <1>2, PrunedPart DEF Part
<1>4. Retained'
  <2> SUFFICES ASSUME WithinRetention'
               PROVE  DOMAIN claims' = 1..nextClaim
    BY DEF Retained, GrantInv, TypeOK
  <2>1. nextClaim \in Nat /\ nextClaim >= 1 /\ nextClaim <= MaxStoredClaims
    BY Numbers DEF WithinRetention, GrantInv
  <2>2. WithinRetention
    BY <2>1, Numbers DEF WithinRetention, GrantInv
  <2>3. DOMAIN cls = 1..(nextClaim - 1)
    BY <2>2, PrunedStoreRetains DEF GrantInv, PayoutsMatchRecords, Retained, cls
  <2>4. DOMAIN added = 1..nextClaim
    BY <1>2, <2>1, <2>3
  <2>5. DOMAIN PruneClaims(added) = DOMAIN added
    BY <2>1, <2>4, PruneClaimsRetains
  <2> QED BY <2>4, <2>5 DEF added, cls
<1> QED BY <1>1, <1>3, <1>4 DEF added, cls

\* The ways a claim ends preserve the invariant.
LEMMA EndClaimInv ==
  ASSUME GrantInv, TypeOK', EndClaim
  PROVE  GrantInv'
<1> DEFINE cls == PruneClaims(claims)
<1>1. Part(cls, claims) /\ Part(claims, claims)
  BY PrunedPart DEF GrantInv, TypeOK, Part
<1>2. CASE DenyClaim \/ AbandonClaim
  <2>1. /\ claims' = cls \/ UNCHANGED claims
        /\ UNCHANGED <<nextClaim, queue, phase, transfers>>
    BY <1>2 DEF DenyClaim, AbandonClaim, store, payout, chain
  <2>2. WithinRetention => DOMAIN claims' = DOMAIN claims
    BY <2>1, PrunedStoreRetains DEF GrantInv
  <2> QED BY <1>1, <2>1, <2>2, CutStep
<1>3. ASSUME NEW w \in Wallets, NEW i \in Installs, NEW r \in Requesters,
             NEW c \in DOMAIN challenges, AcceptClaim(w, i, r, c)
      PROVE  GrantInv'
  <2> DEFINE new == NewClaim(w, i, r, c, "pending_funding")
             job == [claim |-> nextClaim, challenge |-> c, wallet |-> w]
  <2>1. new \in Claim
    BY Numbers, NewClaimType DEF GrantInv, ClaimStatus
  <2>2. /\ new.wallet = w /\ new.install = i /\ new.challenge = c
        /\ new.status = "pending_funding"
    BY DEF NewClaim
  <2>3. /\ claims' = PruneClaims(Insert(cls, nextClaim, new))
        /\ nextClaim' = nextClaim + 1 /\ queue' = Append(queue, job)
        /\ UNCHANGED <<phase, transfers>>
        /\ ~HasExistingClaim(cls, w, i)
    BY <1>3 DEF AcceptClaim, IsAdmitted, chain
  <2> HIDE DEF new
  <2>4. Part(claims', Insert(cls, nextClaim, new)) /\ Retained'
    BY <2>1, <2>3, AdmittedStore
  <2> HIDE DEF cls
  <2>5. /\ \A k \in DOMAIN claims' :
              \/ k = nextClaim /\ claims'[k] = new
              \/ k \in DOMAIN cls /\ k \in DOMAIN claims /\ k # nextClaim
                 /\ claims'[k] = claims[k] /\ claims'[k] = cls[k]
        /\ ClaimedIsPaid' /\ OneTransferPerClaim' /\ TransfersHaveClaims'
    BY <1>1, <2>1, <2>2, <2>3, <2>4, AddedClaim
  <2>6. OneLiveClaim'
    BY <2>2, <2>3, <2>5 DEF GrantInv, OneLiveClaim, HasExistingClaim, IsLive
  <2>7. JobsArePending'
    <3>1. /\ queue \in Seq(Job) /\ job \in Job
          /\ nextClaim \in Nat
      <4>1. nextClaim \in ClaimIds /\ c \in 1..MaxChallenges
        BY <1>3, Numbers DEF GrantInv, AcceptClaim
      <4> QED BY <4>1 DEF GrantInv, TypeOK, Job
    <3>2. /\ DOMAIN queue' = 1..(Len(queue) + 1) /\ DOMAIN queue = 1..Len(queue)
          /\ Len(queue) \in Nat
          /\ queue'[Len(queue) + 1] = job
          /\ \A n \in 1..Len(queue) : queue'[n] = queue[n]
      BY <2>3, <3>1, AppendProperties
    <3>3. \A n \in DOMAIN queue : queue[n].claim \in Nat /\ queue[n].claim < nextClaim
      BY Numbers DEF GrantInv, PayoutsMatchRecords, JobsArePending
    <3>4. ASSUME NEW n \in DOMAIN queue'
          PROVE  LET j == queue'[n]
                 IN /\ j.claim < nextClaim'
                    /\ \A m \in DOMAIN queue' : m < n => queue'[m].claim < j.claim
                    /\ j.claim \in DOMAIN claims' =>
                         /\ claims'[j.claim].status = "pending_funding"
                         /\ claims'[j.claim].wallet = j.wallet
                         /\ claims'[j.claim].challenge = j.challenge
                    /\ \A t \in DOMAIN transfers' :
                         transfers'[t].claim = j.claim => n = 1 /\ phase' # "idle"
      <4>1. CASE n = Len(queue) + 1
        <5>1. /\ queue'[n].claim = nextClaim /\ queue'[n].wallet = w
              /\ queue'[n].challenge = c
          BY <3>2, <4>1
        <5>2. \A t \in DOMAIN transfers' : transfers'[t].claim # nextClaim
          BY <3>1, <2>3 DEF GrantInv, PayoutsMatchRecords, TransfersHaveClaims
        <5> QED BY <2>2, <2>3, <2>5, <3>1, <3>2, <3>3, <4>1, <5>1, <5>2
      <4>2. CASE n \in DOMAIN queue
        <5>1. queue'[n] = queue[n] /\ \A m \in DOMAIN queue' : m < n => m \in DOMAIN queue /\ queue'[m] = queue[m]
          BY <3>2, <4>2
        <5> HIDE DEF job
        <5> QED BY <2>3, <2>5, <3>1, <3>3, <4>2, <5>1
                DEF GrantInv, PayoutsMatchRecords, JobsArePending
      <4> QED BY <3>2, <4>1, <4>2
    <3> QED BY <3>4 DEF JobsArePending
  <2>8. InProcess'
    <3>1. queue # <<>> => queue' # <<>> /\ Head(queue') = Head(queue)
      <4>1. queue \in Seq(Job) /\ job \in Job
        <5>1. nextClaim \in ClaimIds /\ c \in 1..MaxChallenges
          BY <1>3, Numbers DEF GrantInv, AcceptClaim
        <5> QED BY <5>1 DEF GrantInv, TypeOK, Job
      <4> QED BY <2>3, <4>1, AppendProperties
    <3> QED BY <2>3, <3>1 DEF GrantInv, PayoutsMatchRecords, InProcess, Current, Awaited
  <2> QED BY <2>4, <2>5, <2>6, <2>7, <2>8 DEF GrantInv, PayoutsMatchRecords
<1>4. ASSUME NEW w \in Wallets, NEW i \in Installs, NEW r \in Requesters,
             NEW c \in DOMAIN challenges, NEW proof \in BOOLEAN, RejectClaim(w, i, r, c, proof)
      PROVE  GrantInv'
  <2> DEFINE new == NewClaim(w, i, r, c, "rejected")
  <2>1. new \in Claim
    BY Numbers, NewClaimType DEF GrantInv, ClaimStatus
  <2>2. new.status = "rejected"
    BY DEF NewClaim
  <2>3. /\ claims' = Insert(cls, nextClaim, new)
        /\ nextClaim' = nextClaim + 1
        /\ UNCHANGED <<queue, phase, transfers>>
    BY <1>4 DEF RejectClaim, payout, chain
  <2> HIDE DEF new
  <2>4. Part(claims', Insert(cls, nextClaim, new)) /\ Retained'
    BY <2>1, <2>3, AdmittedStore
  <2> HIDE DEF cls
  <2>5. /\ \A k \in DOMAIN claims' :
              \/ k = nextClaim /\ claims'[k] = new
              \/ k \in DOMAIN cls /\ k \in DOMAIN claims /\ k # nextClaim
                 /\ claims'[k] = claims[k] /\ claims'[k] = cls[k]
        /\ ClaimedIsPaid' /\ OneTransferPerClaim' /\ TransfersHaveClaims'
    BY <1>1, <2>1, <2>2, <2>3, <2>4, AddedClaim
  <2>6. OneLiveClaim'
    BY <2>2, <2>5 DEF GrantInv, OneLiveClaim, IsLive
  <2>7. JobsArePending'
    <3>1. nextClaim \in Nat /\ \A n \in DOMAIN queue : queue[n].claim \in Nat
      BY Numbers DEF GrantInv
    <3>2. \A k \in DOMAIN claims' : k < nextClaim => k \in DOMAIN claims /\ claims'[k] = claims[k]
      BY <2>5, <3>1
    <3> HIDE DEF cls
    <3> QED BY <2>3, <3>1, <3>2 DEF GrantInv, PayoutsMatchRecords, JobsArePending
  <2>8. InProcess'
    BY <2>3 DEF GrantInv, PayoutsMatchRecords, InProcess, Current, Awaited
  <2> QED BY <2>4, <2>5, <2>6, <2>7, <2>8 DEF GrantInv, PayoutsMatchRecords
<1> QED BY <1>2, <1>3, <1>4 DEF EndClaim

\* The steps of the payout in process.
LEMMA InProcessFacts ==
  ASSUME GrantInv, queue # <<>>
  PROVE  /\ 1 \in DOMAIN queue /\ Current = queue[1]
         /\ DOMAIN transfers = 1..Len(transfers) /\ Len(transfers) \in Nat
         /\ transfers # <<>> => Len(transfers) \in DOMAIN transfers
<1>1. queue \in Seq(Job) /\ transfers \in Seq(Transfer)
  BY DEF GrantInv, TypeOK
<1>2. Len(queue) \in Nat /\ Len(queue) > 0 /\ DOMAIN queue = 1..Len(queue)
  BY <1>1, EmptySeq
<1>3. transfers # <<>> => Len(transfers) > 0
  BY <1>1, EmptySeq
<1> QED BY <1>1, <1>2, <1>3 DEF Current

\* Sending, or failing to send, preserves the invariant.
LEMMA SendInv ==
  ASSUME GrantInv, TypeOK', SendOutcome
  PROVE  GrantInv'
<1>1. /\ phase = "idle" /\ queue # <<>>
      /\ \/ phase' = "sendFailed" /\ UNCHANGED transfers
         \/ phase' \in {"sent", "sendFailed"} /\ Broadcast
      /\ UNCHANGED <<claims, nextClaim, queue>>
  BY DEF SendOutcome, SendTransfer, FailSend, CanSend, store
<1> DEFINE job == Current
           sent == [claim |-> job.claim, wallet |-> job.wallet, status |-> "mempool"]
<1>2. 1 \in DOMAIN queue /\ job = queue[1] /\ DOMAIN transfers = 1..Len(transfers)
      /\ Len(transfers) \in Nat
  BY <1>1, InProcessFacts
<1>3. \A t \in DOMAIN transfers : transfers[t].claim # job.claim
  BY <1>1, <1>2 DEF GrantInv, PayoutsMatchRecords, JobsArePending
<1>4. CASE UNCHANGED transfers /\ phase' = "sendFailed"
  <2>1. JobsArePending'
    BY <1>1, <1>4 DEF GrantInv, PayoutsMatchRecords, JobsArePending
  <2>2. TransfersHaveClaims' /\ Retained' /\ OneLiveClaim' /\ OneTransferPerClaim'
        /\ ClaimedIsPaid'
    BY <1>1, <1>4 DEF GrantInv, PayoutsMatchRecords, TransfersHaveClaims, Retained,
        WithinRetention, OneLiveClaim, OneTransferPerClaim, ClaimedIsPaid, MinedFor, Mined
  <2>3. InProcess'
    BY <1>1, <1>4 DEF InProcess
  <2> QED BY <2>1, <2>2, <2>3 DEF GrantInv, PayoutsMatchRecords
<1>5. CASE phase' \in {"sent", "sendFailed"} /\ Broadcast
  <2>1. /\ DOMAIN transfers' = 1..(Len(transfers) + 1) /\ Len(transfers') = Len(transfers) + 1
        /\ transfers'[Len(transfers) + 1] = sent
        /\ \A t \in DOMAIN transfers : transfers'[t] = transfers[t]
        /\ transfers' # <<>>
    <3>1. transfers \in Seq(Transfer) /\ sent \in Transfer
      BY <1>1, CurrentType DEF GrantInv, TypeOK, Job, Transfer, TransferStatus
    <3>2. transfers' = Append(transfers, sent)
      BY <1>5 DEF Broadcast
    <3> HIDE DEF sent
    <3> QED BY <3>1, <3>2, AppendProperties
  <2>2. sent.claim = job.claim /\ sent.wallet = job.wallet /\ sent.status = "mempool"
    OBVIOUS
  <2> HIDE DEF sent, job
  <2>3. \A t \in DOMAIN transfers' :
          \/ t \in DOMAIN transfers /\ transfers'[t] = transfers[t]
             /\ transfers'[t].claim # job.claim
          \/ t = Len(transfers) + 1 /\ transfers'[t] = sent /\ t \notin DOMAIN transfers
    BY <1>2, <1>3, <2>1
  <2>4. JobsArePending'
    <3>1. \A n \in DOMAIN queue : n # 1 => queue[n].claim # job.claim
      <4>1. DOMAIN queue = 1..Len(queue) /\ Len(queue) \in Nat
        BY DEF GrantInv, TypeOK
      <4>2. \A n \in DOMAIN queue : queue[n].claim \in Nat
        BY Numbers DEF GrantInv
      <4>3. \A n \in DOMAIN queue : n # 1 => 1 < n
        BY <4>1
      <4> QED BY <1>2, <4>2, <4>3 DEF GrantInv, PayoutsMatchRecords, JobsArePending
    <3> QED BY <1>1, <1>5, <2>2, <2>3, <3>1 DEF GrantInv, PayoutsMatchRecords, JobsArePending
  <2>5. TransfersHaveClaims'
    BY <1>1, <1>2, <2>2, <2>3 DEF GrantInv, PayoutsMatchRecords, TransfersHaveClaims, JobsArePending
  <2>6. OneTransferPerClaim'
    BY <2>2, <2>3 DEF GrantInv, OneTransferPerClaim
  <2>7. InProcess'
    BY <1>1, <1>5, <2>1, <2>2 DEF InProcess, Awaited, Current, job
  <2>8. Retained' /\ OneLiveClaim'
    BY <1>1 DEF GrantInv, PayoutsMatchRecords, Retained, WithinRetention, OneLiveClaim
  <2>9. ClaimedIsPaid'
    BY <1>1, <1>2, <2>1 DEF GrantInv, ClaimedIsPaid, MinedFor, Mined
  <2> QED BY <2>4, <2>5, <2>6, <2>7, <2>8, <2>9 DEF GrantInv, PayoutsMatchRecords
<1> QED BY <1>1, <1>4, <1>5

\* A receipt, an error or a time-out preserves the invariant.
LEMMA WaitInv ==
  ASSUME GrantInv, TypeOK', WaitOutcome
  PROVE  GrantInv'
<1>1. /\ phase = "waiting" /\ phase' \in {"confirmed", "waitFailed", "timedOut"}
      /\ phase' = "confirmed" => Awaited.status = "mined"
      /\ UNCHANGED <<claims, nextClaim, queue, transfers>>
  BY DEF WaitOutcome, SeeReceipt, FailWait, TimeOutWait, store, chain
<1>2. JobsArePending'
  BY <1>1 DEF GrantInv, PayoutsMatchRecords, JobsArePending
<1>3. InProcess'
  BY <1>1 DEF GrantInv, PayoutsMatchRecords, InProcess, Awaited, Current
<1>4. TransfersHaveClaims' /\ Retained' /\ OneLiveClaim' /\ OneTransferPerClaim' /\ ClaimedIsPaid'
  BY <1>1 DEF GrantInv, PayoutsMatchRecords, TransfersHaveClaims, Retained,
      WithinRetention, OneLiveClaim, OneTransferPerClaim, ClaimedIsPaid, MinedFor, Mined
<1> QED BY <1>2, <1>3, <1>4 DEF GrantInv, PayoutsMatchRecords

\* A payout leaves the queue, and at most the status of its claim has changed.
LEMMA FinishStep ==
  ASSUME GrantInv, TypeOK', phase # "idle", queue # <<>>, FinishPayout,
         UNCHANGED <<nextClaim, transfers>>,
         DOMAIN claims' = DOMAIN claims,
         \A k \in DOMAIN claims : k # Current.claim => claims'[k] = claims[k],
         Current.claim \in DOMAIN claims =>
           LET old == claims[Current.claim]
               new == claims'[Current.claim]
           IN /\ new.wallet = old.wallet /\ new.install = old.install
              /\ new.status \in {"pending_funding", "funding_failed", "claimed"}
              /\ new.status = "claimed" => phase = "confirmed"
  PROVE  GrantInv'
<1> DEFINE job == Current
<1>1. /\ 1 \in DOMAIN queue /\ job = queue[1]
      /\ transfers # <<>> => Len(transfers) \in DOMAIN transfers
  BY InProcessFacts
<1>2. job.claim \in DOMAIN claims =>
         claims[job.claim].status = "pending_funding" /\ claims[job.claim].wallet = job.wallet
  BY <1>1 DEF GrantInv, PayoutsMatchRecords, JobsArePending
<1>3. /\ queue' = Tail(queue) /\ phase' = "idle"
      /\ \A n \in DOMAIN queue' : n + 1 \in DOMAIN queue /\ queue'[n] = queue[n + 1]
                                  /\ n \in Nat /\ n >= 1
  <2>1. queue \in Seq(Job) /\ queue' = Tail(queue) /\ phase' = "idle"
    BY DEF GrantInv, TypeOK, FinishPayout
  <2> QED BY <2>1, HeadTailProperties
<1> HIDE DEF job
<1>4. JobsArePending'
  <2>1. \A n \in DOMAIN queue : n # 1 => queue[n].claim # job.claim
    <3>1. DOMAIN queue = 1..Len(queue) /\ Len(queue) \in Nat
      BY DEF GrantInv, TypeOK
    <3>2. \A n \in DOMAIN queue : queue[n].claim \in Nat
      BY Numbers DEF GrantInv
    <3>3. \A n \in DOMAIN queue : n # 1 => 1 < n
      BY <3>1
    <3> QED BY <1>1, <3>2, <3>3 DEF GrantInv, PayoutsMatchRecords, JobsArePending
  <2>2. ASSUME NEW n \in DOMAIN queue'
        PROVE  LET j == queue'[n]
               IN /\ j.claim < nextClaim'
                  /\ \A m \in DOMAIN queue' : m < n => queue'[m].claim < j.claim
                  /\ j.claim \in DOMAIN claims' =>
                       /\ claims'[j.claim].status = "pending_funding"
                       /\ claims'[j.claim].wallet = j.wallet
                       /\ claims'[j.claim].challenge = j.challenge
                  /\ \A t \in DOMAIN transfers' :
                       transfers'[t].claim = j.claim => n = 1 /\ phase' # "idle"
    <3>1. /\ n + 1 \in DOMAIN queue /\ queue'[n] = queue[n + 1] /\ n \in Nat /\ n >= 1
          /\ n + 1 # 1
      BY <1>3
    <3>2. queue'[n].claim # job.claim
      BY <2>1, <3>1
    <3>3. \A m \in DOMAIN queue' : m < n => m + 1 \in DOMAIN queue /\ queue'[m] = queue[m + 1]
                                             /\ m + 1 < n + 1
      BY <1>3, <3>1
    <3>4. queue'[n].claim \in DOMAIN claims' =>
             claims'[queue'[n].claim] = claims[queue'[n].claim]
      BY <3>2 DEF job
    <3> QED BY <3>1, <3>3, <3>4 DEF GrantInv, PayoutsMatchRecords, JobsArePending
  <2> QED BY <2>2 DEF JobsArePending
<1>5. TransfersHaveClaims'
  BY DEF GrantInv, PayoutsMatchRecords, TransfersHaveClaims, job
<1>6. InProcess' /\ Retained' /\ OneTransferPerClaim'
  BY <1>3 DEF InProcess, GrantInv, PayoutsMatchRecords, Retained, WithinRetention,
      OneTransferPerClaim
<1>7. OneLiveClaim'
  <2>1. \A k \in DOMAIN claims' : IsLive(claims'[k]) =>
           k \in DOMAIN claims /\ IsLive(claims[k])
           /\ claims'[k].wallet = claims[k].wallet /\ claims'[k].install = claims[k].install
    BY <1>2 DEF IsLive, job
  <2> QED BY <2>1 DEF GrantInv, OneLiveClaim
<1>8. ClaimedIsPaid'
  <2>1. CASE phase = "confirmed"
    <3>1. /\ Len(transfers) \in DOMAIN transfers
          /\ transfers[Len(transfers)].claim = job.claim
          /\ transfers[Len(transfers)].wallet = job.wallet
          /\ transfers[Len(transfers)].status = "mined"
      BY <1>1, <2>1 DEF GrantInv, PayoutsMatchRecords, InProcess, Awaited, job
    <3> QED BY <1>2, <3>1 DEF GrantInv, ClaimedIsPaid, MinedFor, Mined, job
  <2>2. CASE phase # "confirmed"
    BY <2>2 DEF GrantInv, ClaimedIsPaid, MinedFor, Mined
  <2> QED BY <2>1, <2>2
<1> QED BY <1>4, <1>5, <1>6, <1>7, <1>8 DEF GrantInv, PayoutsMatchRecords

\* Recording a payout's outcome, or failing to, preserves the invariant.
LEMMA RecordInv ==
  ASSUME GrantInv, TypeOK', Record
  PROVE  GrantInv'
<1>1. phase # "idle" /\ queue # <<>> /\ 1 \in DOMAIN queue /\ Current = queue[1]
  <2>1. phase # "idle"
    BY DEF Record, RecordSendFailure, RecordBroadcast, RecordTimeOut, RecordWaitFailure,
           RecordConfirmation, FailRecord
  <2> QED BY <2>1, InProcessFacts DEF GrantInv, PayoutsMatchRecords, InProcess
<1>2. claims \in [DOMAIN claims -> Claim]
  BY DEF GrantInv, TypeOK
<1>3. Current.claim \in DOMAIN claims => claims[Current.claim].status = "pending_funding"
  BY <1>1 DEF GrantInv, PayoutsMatchRecords, JobsArePending
<1>4. ASSUME NEW from, NEW to \in {"funding_failed", "claimed"},
             claims' = SetClaimStatus(claims, Current.claim, from, to),
             to = "claimed" => phase = "confirmed",
             FinishPayout, UNCHANGED <<nextClaim, transfers>>
      PROVE  GrantInv'
  <2>1. /\ DOMAIN claims' = DOMAIN claims
        /\ \A k \in DOMAIN claims : k # Current.claim => claims'[k] = claims[k]
    BY <1>2, <1>4 DEF SetClaimStatus
  <2>2. Current.claim \in DOMAIN claims =>
           LET old == claims[Current.claim]
               new == claims'[Current.claim]
           IN /\ new.wallet = old.wallet /\ new.install = old.install
              /\ new.status = old.status \/ new.status = to
    <3>1. Current.claim \in DOMAIN claims => claims[Current.claim] \in Claim
      BY <1>2
    <3> QED BY <3>1, <1>4 DEF SetClaimStatus, Claim
  <2>3. Current.claim \in DOMAIN claims =>
           LET old == claims[Current.claim]
               new == claims'[Current.claim]
           IN /\ new.wallet = old.wallet /\ new.install = old.install
              /\ new.status \in {"pending_funding", "funding_failed", "claimed"}
              /\ new.status = "claimed" => phase = "confirmed"
    BY <1>3, <1>4, <2>2
  <2> QED BY <1>1, <1>4, <2>1, <2>3, FinishStep
<1>5. CASE RecordSendFailure
  BY <1>4, <1>5 DEF RecordSendFailure, chain
<1>6. CASE RecordWaitFailure
  BY <1>4, <1>6 DEF RecordWaitFailure, chain
<1>7. CASE RecordConfirmation
  BY <1>4, <1>7 DEF RecordConfirmation, chain
<1>8. CASE RecordTimeOut \/ FailRecord
  <2>1. FinishPayout /\ UNCHANGED <<claims, nextClaim, transfers>>
    BY <1>8 DEF RecordTimeOut, FailRecord, store, chain
  <2>2. Current.claim \in DOMAIN claims =>
           LET old == claims[Current.claim]
               new == claims'[Current.claim]
           IN /\ new.wallet = old.wallet /\ new.install = old.install
              /\ new.status \in {"pending_funding", "funding_failed", "claimed"}
              /\ new.status = "claimed" => phase = "confirmed"
    BY <1>3, <2>1
  <2> QED BY <1>1, <2>1, <2>2, FinishStep
<1>9. CASE RecordBroadcast
  <2>1. /\ phase = "sent" /\ phase' = "waiting"
        /\ UNCHANGED <<nextClaim, queue, transfers>>
    BY <1>9 DEF RecordBroadcast, chain
  <2>2. /\ DOMAIN claims' = DOMAIN claims
        /\ \A k \in DOMAIN claims : claims'[k].status = claims[k].status
             /\ claims'[k].wallet = claims[k].wallet /\ claims'[k].install = claims[k].install
             /\ claims'[k].challenge = claims[k].challenge
    <3>1. \A k \in DOMAIN claims : claims[k] \in Claim
      BY <1>2
    <3> QED BY <3>1, <1>9 DEF RecordBroadcast, Claim
  <2>3. JobsArePending' /\ TransfersHaveClaims' /\ Retained'
    BY <2>1, <2>2 DEF GrantInv, PayoutsMatchRecords, JobsArePending, TransfersHaveClaims,
        Retained, WithinRetention
  <2>4. InProcess' /\ OneTransferPerClaim'
    BY <2>1 DEF GrantInv, PayoutsMatchRecords, InProcess, Awaited, Current, OneTransferPerClaim
  <2>5. OneLiveClaim' /\ ClaimedIsPaid'
    BY <2>1, <2>2 DEF GrantInv, OneLiveClaim, IsLive, ClaimedIsPaid, MinedFor, Mined
  <2> QED BY <2>3, <2>4, <2>5 DEF GrantInv, PayoutsMatchRecords
<1> QED BY <1>5, <1>6, <1>7, <1>8, <1>9 DEF Record

\* The chain, time and restarts preserve the invariant.
LEMMA EnvironmentInv ==
  ASSUME GrantInv, TypeOK', ChainStep \/ Tick \/ Crash
  PROVE  GrantInv'
<1>1. Part(claims, claims)
  BY DEF Part
<1>2. ASSUME NEW n \in DOMAIN transfers, NEW status, NEW cost, Settle(n, status, cost)
      PROVE  GrantInv'
  <2>1. /\ transfers[n].status = "mempool" /\ UNCHANGED <<claims, nextClaim, queue, phase>>
        /\ DOMAIN transfers' = DOMAIN transfers /\ Len(transfers') = Len(transfers)
        /\ transfers' # <<>>
        /\ \A t \in DOMAIN transfers :
             /\ transfers'[t].claim = transfers[t].claim
             /\ transfers'[t].wallet = transfers[t].wallet
             /\ t # n => transfers'[t] = transfers[t]
    <3>1. /\ transfers[n].status = "mempool" /\ UNCHANGED <<claims, nextClaim, queue, phase>>
          /\ transfers' = [transfers EXCEPT ![n].status = status]
      BY <1>2 DEF Settle, store, payout
    <3>2. transfers \in Seq(Transfer) /\ transfers[n] \in Transfer
      BY Numbers DEF GrantInv, TypeOK
    <3>3. Len(transfers') = Len(transfers) /\ DOMAIN transfers' = DOMAIN transfers
      BY <3>1, <3>2 DEF TypeOK
    <3> QED BY <3>1, <3>2, <3>3 DEF Transfer, TypeOK
  <2>2. JobsArePending' /\ TransfersHaveClaims' /\ Retained' /\ OneLiveClaim'
        /\ OneTransferPerClaim'
    BY <2>1 DEF GrantInv, PayoutsMatchRecords, JobsArePending, TransfersHaveClaims,
        Retained, WithinRetention, OneLiveClaim, OneTransferPerClaim
  <2>3. InProcess'
    <3>1. phase # "idle" => queue # <<>>
      BY DEF GrantInv, PayoutsMatchRecords, InProcess
    <3>2. transfers # <<>> /\ Len(transfers) \in DOMAIN transfers
      BY <2>1, EmptySeq DEF GrantInv, TypeOK
    <3>3. ASSUME phase \notin {"idle", "sendFailed"}
          PROVE  Awaited'.claim = Current'.claim /\ Awaited'.wallet = Current'.wallet
      BY <2>1, <3>2, <3>3 DEF GrantInv, PayoutsMatchRecords, InProcess, Awaited, Current
    <3>4. ASSUME phase = "confirmed"
          PROVE  Awaited'.status = "mined"
      <4>1. transfers[Len(transfers)].status = "mined"
        BY <3>4 DEF GrantInv, PayoutsMatchRecords, InProcess, Awaited
      <4> QED BY <2>1, <3>2, <4>1 DEF Awaited
    <3> QED BY <2>1, <3>1, <3>3, <3>4 DEF InProcess
  <2>4. ClaimedIsPaid'
    BY <2>1 DEF GrantInv, ClaimedIsPaid, MinedFor, Mined
  <2> QED BY <2>2, <2>3, <2>4 DEF GrantInv, PayoutsMatchRecords
<1>3. CASE TopUp \/ Tick
  <2>1. UNCHANGED <<claims, nextClaim, queue, phase, transfers>>
    BY <1>3 DEF TopUp, Tick, store, payout, chain
  <2> QED BY <1>1, <2>1, CutStep
<1>4. CASE Crash
  <2>1. UNCHANGED <<claims, nextClaim, transfers>> /\ queue' = <<>> /\ phase' = "idle"
    BY <1>4 DEF Crash, store, chain
  <2>2. JobsArePending' /\ InProcess'
    BY <2>1 DEF JobsArePending, InProcess
  <2>3. TransfersHaveClaims' /\ Retained' /\ OneLiveClaim' /\ OneTransferPerClaim' /\ ClaimedIsPaid'
    BY <2>1 DEF GrantInv, PayoutsMatchRecords, TransfersHaveClaims, Retained,
        WithinRetention, OneLiveClaim, OneTransferPerClaim, ClaimedIsPaid, MinedFor, Mined
  <2> QED BY <2>2, <2>3 DEF GrantInv, PayoutsMatchRecords
<1> QED BY <1>2, <1>3, <1>4
        DEF ChainStep, MineTransfer, RevertTransfer, DropTransfer

\* The first state satisfies the invariant.
LEMMA GrantInit == Init => GrantInv
<1> SUFFICES ASSUME Init PROVE GrantInv
  OBVIOUS
<1>1. /\ DOMAIN claims = {} /\ nextClaim = 1 /\ queue = <<>> /\ phase = "idle"
      /\ transfers = <<>>
  BY DEF Init
<1>2. JobsArePending /\ TransfersHaveClaims /\ InProcess /\ Retained
  BY <1>1 DEF JobsArePending, TransfersHaveClaims, InProcess, Retained
<1>3. OneLiveClaim /\ OneTransferPerClaim /\ ClaimedIsPaid
  BY <1>1 DEF OneLiveClaim, OneTransferPerClaim, ClaimedIsPaid
<1> QED BY <1>2, <1>3, TypeInit DEF GrantInv, PayoutsMatchRecords

\* The invariant is inductive.
LEMMA GrantStep == GrantInv /\ [Next]_vars => GrantInv'
<1> SUFFICES ASSUME GrantInv, [Next]_vars PROVE GrantInv'
  OBVIOUS
<1>1. TypeOK'
  BY TypeStep DEF GrantInv, PayoutsMatchRecords, InProcess, HeadInProcess
<1>2. CASE UNCHANGED vars
  BY <1>1, <1>2, CutStep DEF vars, store, payout, chain, Part
<1> QED BY <1>1, <1>2, RequestInv, EndClaimInv, SendInv, WaitInv, RecordInv, EnvironmentInv
        DEF Next

\* The invariant holds in every state the service can reach.
THEOREM GrantInvHolds == Spec => []GrantInv
BY GrantInit, GrantStep, PTL DEF Spec

\* At any moment two stored claims that are pending or claimed share neither
\* wallet nor install, however requests, payouts and restarts interleave.
THEOREM Dedupe == Spec => []OneLiveClaim
BY GrantInvHolds, PTL DEF GrantInv

\* The payout queue hands the transfer of a claim to the chain at most once,
\* and a restart, an error or a time-out never hands it over again.
THEOREM SentOnce == Spec => []OneTransferPerClaim
BY GrantInvHolds, PTL DEF GrantInv

\* A claim is recorded as claimed only after its transfer to the claiming
\* wallet was mined.
THEOREM ClaimedAfterPayment == Spec => []ClaimedIsPaid
BY GrantInvHolds, PTL DEF GrantInv

\* Store, queue and chain agree after every step.
THEOREM RecordsMatch == Spec => []PayoutsMatchRecords
BY GrantInvHolds, PTL DEF GrantInv

\* Within the retention limit pruning leaves the claims alone.
LEMMA SameClaims ==
  ASSUME TypeOK, WithinRetention
  PROVE  PruneClaims(claims) = claims
<1>1. DOMAIN PruneClaims(claims) = DOMAIN claims
  BY PrunedStoreRetains
<1>2. \A k \in DOMAIN claims : PruneClaims(claims)[k] = claims[k]
  BY <1>1, PruneClaimsKeeps DEF TypeOK
<1>3. PruneClaims(claims) \in [DOMAIN claims -> Claim] /\ claims \in [DOMAIN claims -> Claim]
  BY <1>1, PruneClaimsKeeps DEF TypeOK
<1> QED BY <1>2, <1>3

\* A transfer that was, or can still be, mined pays a stored claim that is live.
LEMMA LiveTransfer ==
  ASSUME GrantInv, WithinRetention, FailuresWereFinal, NEW n \in DOMAIN transfers, Payable(n)
  PROVE  LET k == transfers[n].claim
         IN k \in DOMAIN claims /\ IsLive(claims[k]) /\ claims[k].wallet = transfers[n].wallet
<1> DEFINE k == transfers[n].claim
<1>1. k \in 1..(nextClaim - 1)
  <2>1. transfers[n] \in Transfer /\ k < nextClaim /\ nextClaim \in Nat
    BY Numbers DEF GrantInv, PayoutsMatchRecords, TransfersHaveClaims
  <2>2. k \in 1..MaxClaims
    BY <2>1 DEF Transfer, ClaimIds
  <2> QED BY <2>1, <2>2, LimitsAreNat
<1>2. k \in DOMAIN claims
  BY <1>1 DEF GrantInv, PayoutsMatchRecords, Retained
<1>3. claims[k].wallet = transfers[n].wallet /\ claims[k].status # "rejected"
  BY <1>2 DEF GrantInv, PayoutsMatchRecords, TransfersHaveClaims
<1>4. claims[k].status # "funding_failed"
  BY <1>2 DEF FailuresWereFinal
<1>5. claims[k].status \in ClaimStatus
  <2>1. claims[k] \in Claim
    BY <1>2 DEF GrantInv, TypeOK
  <2> QED BY <2>1 DEF Claim
<1> QED BY <1>2, <1>3, <1>4, <1>5 DEF IsLive, ClaimStatus

\* Two mined transfers to one wallet have claims that are both still live and
\* both of that wallet, so they are one claim, which is sent once.
LEMMA PaidOnce == GrantInv => OneTimeGrantUnlessForgotten
<1> SUFFICES ASSUME GrantInv, WithinRetention, FailuresWereFinal,
                    NEW m \in Mined, NEW n \in Mined,
                    transfers[m].wallet = transfers[n].wallet
             PROVE  m = n
  BY DEF OneTimeGrantUnlessForgotten, OneTimeGrant
<1>1. ASSUME NEW t \in Mined
      PROVE  LET k == transfers[t].claim
             IN k \in DOMAIN claims /\ IsLive(claims[k]) /\ claims[k].wallet = transfers[t].wallet
  BY LiveTransfer DEF Mined, Payable
<1>2. transfers[m].claim = transfers[n].claim
  BY <1>1 DEF GrantInv, OneLiveClaim
<1> QED BY <1>2 DEF GrantInv, OneTransferPerClaim, Mined

\* While no claim record was cut from the table and no failed claim has a
\* transfer that was or may be mined, no wallet was paid twice.
THEOREM OneGrantPerWallet == Spec => []OneTimeGrantUnlessForgotten
BY GrantInvHolds, PaidOnce, PTL

----------------------------------------------------------------------------
\* The ledger.  When errors are final, what failed was not paid and never will be.

Final ==
  /\ FailuresWereFinal
  /\ phase = "sendFailed" => \A n \in DOMAIN transfers : transfers[n].claim # Current.claim
  /\ phase = "waitFailed" => Awaited.status \in {"reverted", "dropped"}

\* Only the step that records the failure of a payout makes a claim a failed one.
LEMMA FailedBefore ==
  ASSUME GrantInv, GrantInv', [Next]_vars,
         NEW k \in DOMAIN claims', claims'[k].status = "funding_failed"
  PROVE  \/ k \in DOMAIN claims /\ claims[k].status = "funding_failed"
         \/ /\ k \in DOMAIN claims /\ k = Current.claim /\ UNCHANGED transfers
            /\ RecordSendFailure \/ RecordWaitFailure
<1>1. claims \in [DOMAIN claims -> Claim] /\ nextClaim \in Nat
  BY DEF GrantInv, TypeOK
<1>2. Part(claims, claims) /\ Part(PruneClaims(claims), claims)
  BY <1>1, PrunedPart DEF Part
<1>3. ASSUME Part(claims', claims)
      PROVE  k \in DOMAIN claims /\ claims[k].status = "funding_failed"
  BY <1>3 DEF Part
<1>4. CASE UNCHANGED vars
  BY <1>4 DEF vars, store
<1>5. CASE Request \/ DenyClaim \/ AbandonClaim
  BY <1>2, <1>3, <1>5 DEF Request, PruneStore, BeginClaim, IssueChallenge, DenyClaim,
                          AbandonClaim, store
<1>6. ASSUME NEW new \in Claim, new.status # "funding_failed", nextClaim' = nextClaim + 1,
             \/ claims' = Insert(PruneClaims(claims), nextClaim, new)
             \/ claims' = PruneClaims(Insert(PruneClaims(claims), nextClaim, new))
      PROVE  k \in DOMAIN claims /\ claims[k].status = "funding_failed"
  <2>1. /\ Part(PruneClaims(claims), claims)
        /\ Part(claims', Insert(PruneClaims(claims), nextClaim, new))
    BY <1>6, AdmittedStore DEF GrantInv
  <2> QED
    BY <1>6, <2>1 DEF Part, Insert
<1>7. CASE EndClaim
  <2>1. ASSUME NEW w \in Wallets, NEW i \in Installs, NEW r \in Requesters,
               NEW c \in DOMAIN challenges, NEW status \in {"rejected", "pending_funding"}
        PROVE  /\ NewClaim(w, i, r, c, status) \in Claim
               /\ NewClaim(w, i, r, c, status).status # "funding_failed"
    BY <2>1, Numbers, NewClaimType DEF GrantInv, ClaimStatus, NewClaim
  <2>2. ASSUME NEW w \in Wallets, NEW i \in Installs, NEW r \in Requesters,
               NEW c \in DOMAIN challenges, AcceptClaim(w, i, r, c)
        PROVE  k \in DOMAIN claims /\ claims[k].status = "funding_failed"
    <3> DEFINE new == NewClaim(w, i, r, c, "pending_funding")
    <3>1. /\ claims' = PruneClaims(Insert(PruneClaims(claims), nextClaim, new))
          /\ nextClaim' = nextClaim + 1
      BY <2>2 DEF AcceptClaim
    <3>2. new \in Claim /\ new.status # "funding_failed"
      BY <2>1
    <3> QED
      BY <1>6, <3>1, <3>2
  <2>3. ASSUME NEW w \in Wallets, NEW i \in Installs, NEW r \in Requesters,
               NEW c \in DOMAIN challenges, NEW proof \in BOOLEAN, RejectClaim(w, i, r, c, proof)
        PROVE  k \in DOMAIN claims /\ claims[k].status = "funding_failed"
    <3> DEFINE new == NewClaim(w, i, r, c, "rejected")
    <3>1. /\ claims' = Insert(PruneClaims(claims), nextClaim, new)
          /\ nextClaim' = nextClaim + 1
      BY <2>3 DEF RejectClaim
    <3>2. new \in Claim /\ new.status # "funding_failed"
      BY <2>1
    <3> QED
      BY <1>6, <3>1, <3>2
  <2> QED
    BY <1>5, <1>7, <2>2, <2>3 DEF EndClaim
<1>8. CASE SendOutcome \/ WaitOutcome \/ ChainStep \/ Tick \/ Crash
  BY <1>8 DEF SendOutcome, SendTransfer, FailSend, WaitOutcome, SeeReceipt, FailWait, TimeOutWait,
              ChainStep, TopUp, MineTransfer, RevertTransfer, DropTransfer, Settle, Tick, Crash, store
<1>9. CASE Record
  <2>1. ASSUME NEW from, NEW to \in ClaimStatus,
               claims' = SetClaimStatus(claims, Current.claim, from, to)
        PROVE  /\ k \in DOMAIN claims
               /\ claims[k].status # "funding_failed" => k = Current.claim /\ to = "funding_failed"
    <3>1. DOMAIN claims' = DOMAIN claims /\ k \in DOMAIN claims
      BY <1>1, <2>1 DEF SetClaimStatus
    <3>2. k # Current.claim => claims'[k] = claims[k]
      BY <1>1, <2>1, <3>1 DEF SetClaimStatus
    <3>3. claims'[k].status \in {claims[k].status, to}
      BY <1>1, <2>1, <3>1 DEF SetClaimStatus, Claim
    <3> QED
      BY <3>1, <3>2, <3>3
  <2>2. CASE RecordSendFailure \/ RecordWaitFailure
    BY <2>1, <2>2 DEF RecordSendFailure, RecordWaitFailure, ClaimStatus, chain
  <2>3. CASE RecordConfirmation
    BY <2>1, <2>3 DEF RecordConfirmation, ClaimStatus
  <2>4. CASE RecordBroadcast
    <3>1. DOMAIN claims' = DOMAIN claims /\ claims'[k].status = claims[k].status
      BY <1>1, <2>4 DEF RecordBroadcast, Claim
    <3> QED
      BY <3>1
  <2>5. CASE RecordTimeOut \/ FailRecord
    BY <2>5 DEF RecordTimeOut, FailRecord, store
  <2> QED
    BY <1>9, <2>2, <2>3, <2>4, <2>5 DEF Record
<1> QED
  BY <1>4, <1>5, <1>7, <1>8, <1>9 DEF Next

\* The transfers of a step are those before, each at least as settled, or one more that
\* is sent for the payout in process.
LEMMA TransfersGrow ==
  ASSUME GrantInv, [Next]_vars
  PROVE  /\ \A n \in DOMAIN transfers :
              /\ n \in DOMAIN transfers'
              /\ transfers'[n].claim = transfers[n].claim
              /\ transfers'[n].wallet = transfers[n].wallet
              /\ transfers[n].status # "mempool" => transfers'[n] = transfers[n]
         /\ \A n \in DOMAIN transfers' \ DOMAIN transfers :
              /\ phase = "idle" /\ queue # <<>> /\ UNCHANGED <<claims, queue>>
              /\ transfers'[n].claim = Current.claim
              /\ phase' = "sendFailed" => ~ErrorsAreFinal
<1>1. transfers \in Seq(Transfer) /\ queue \in Seq(Job)
  BY DEF GrantInv, TypeOK
<1>2. CASE UNCHANGED transfers
  BY <1>2
<1>3. ASSUME phase = "idle", queue # <<>>, Broadcast, UNCHANGED <<claims, queue>>,
             phase' = "sendFailed" => ~ErrorsAreFinal
      PROVE  /\ \A n \in DOMAIN transfers :
                  /\ n \in DOMAIN transfers'
                  /\ transfers'[n].claim = transfers[n].claim
                  /\ transfers'[n].wallet = transfers[n].wallet
                  /\ transfers[n].status # "mempool" => transfers'[n] = transfers[n]
             /\ \A n \in DOMAIN transfers' \ DOMAIN transfers :
                  /\ phase = "idle" /\ queue # <<>> /\ UNCHANGED <<claims, queue>>
                  /\ transfers'[n].claim = Current.claim
                  /\ phase' = "sendFailed" => ~ErrorsAreFinal
  <2>1. [claim |-> Current.claim, wallet |-> Current.wallet, status |-> "mempool"] \in Transfer
    BY <1>3, CurrentType DEF GrantInv, Transfer, TransferStatus, Job
  <2> QED
    BY <1>1, <1>3, <2>1, AppendProperties DEF Broadcast
<1>4. CASE SendOutcome
  BY <1>2, <1>3, <1>4 DEF SendOutcome, SendTransfer, FailSend, CanSend, store
<1>5. CASE ChainStep
  <2>1. ASSUME NEW n \in DOMAIN transfers, NEW status, NEW cost, Settle(n, status, cost)
        PROVE  /\ DOMAIN transfers' = DOMAIN transfers
               /\ \A t \in DOMAIN transfers :
                    /\ transfers'[t].claim = transfers[t].claim
                    /\ transfers'[t].wallet = transfers[t].wallet
                    /\ transfers[t].status # "mempool" => transfers'[t] = transfers[t]
    <3>1. \A t \in DOMAIN transfers : transfers[t] \in Transfer
      BY <1>1
    <3> QED
      BY <2>1, <3>1 DEF Settle, Transfer
  <2> QED
    BY <1>2, <1>5, <2>1 DEF ChainStep, TopUp, MineTransfer, RevertTransfer, DropTransfer
<1>6. CASE UNCHANGED vars \/ Request \/ EndClaim \/ WaitOutcome \/ Record \/ Tick \/ Crash
  <2>1. UNCHANGED vars \/ Request \/ WaitOutcome \/ Tick \/ Crash => UNCHANGED transfers
    BY DEF vars, chain, Request, PruneStore, BeginClaim, IssueChallenge, WaitOutcome, SeeReceipt,
           FailWait, TimeOutWait, Tick, Crash
  <2>2. EndClaim => UNCHANGED transfers
    <3>1. ASSUME NEW w \in Wallets, NEW i \in Installs, NEW r \in Requesters,
                 NEW c \in DOMAIN challenges, AcceptClaim(w, i, r, c)
          PROVE  UNCHANGED transfers
      BY <3>1 DEF AcceptClaim, chain
    <3>2. ASSUME NEW w \in Wallets, NEW i \in Installs, NEW r \in Requesters,
                 NEW c \in DOMAIN challenges, NEW proof \in BOOLEAN, RejectClaim(w, i, r, c, proof)
          PROVE  UNCHANGED transfers
      BY <3>2 DEF RejectClaim, chain
    <3>3. DenyClaim \/ AbandonClaim => UNCHANGED transfers
      BY DEF DenyClaim, AbandonClaim, chain
    <3> QED BY <3>1, <3>2, <3>3 DEF EndClaim
  <2>3. Record => UNCHANGED transfers
    BY DEF Record, RecordSendFailure, RecordBroadcast, RecordTimeOut, RecordWaitFailure,
           RecordConfirmation, FailRecord, chain
  <2> QED
    BY <1>2, <1>6, <2>1, <2>2, <2>3
<1> QED
  BY <1>4, <1>5, <1>6 DEF Next

\* A payout is in process until it is recorded, and fails once.
LEMMA PhaseStep ==
  ASSUME GrantInv, [Next]_vars
  PROVE  /\ phase # "idle" /\ phase' # "idle" => Current' = Current
         /\ phase' = "sendFailed" => phase = "sendFailed" \/ FailSend
         /\ phase' = "waitFailed" => phase = "waitFailed" \/ FailWait
<1>1. CASE UNCHANGED vars \/ Request \/ DenyClaim \/ AbandonClaim \/ ChainStep \/ Tick \/ Crash
  <2>1. UNCHANGED payout \/ phase' = "idle"
    BY <1>1
    DEF vars, Request, PruneStore, BeginClaim, IssueChallenge, DenyClaim, AbandonClaim, ChainStep,
        TopUp, MineTransfer, RevertTransfer, DropTransfer, Settle, Tick, Crash
  <2> QED
    BY <2>1 DEF payout, Current
<1>2. CASE EndClaim
  <2>1. ASSUME NEW w \in Wallets, NEW i \in Installs, NEW r \in Requesters,
               NEW c \in DOMAIN challenges, AcceptClaim(w, i, r, c)
        PROVE  UNCHANGED phase /\ (queue # <<>> => Current' = Current)
    <3> DEFINE job == [claim |-> nextClaim, challenge |-> c, wallet |-> w]
    <3>1. queue \in Seq(Job) /\ job \in Job
      <4>1. nextClaim \in ClaimIds /\ c \in 1..MaxChallenges
        BY <2>1, Numbers DEF GrantInv, AcceptClaim
      <4> QED BY <4>1 DEF GrantInv, TypeOK, Job
    <3>2. UNCHANGED phase /\ queue' = Append(queue, job)
      BY <2>1 DEF AcceptClaim
    <3> QED
      BY <3>1, <3>2, AppendProperties DEF Current
  <2>2. ASSUME NEW w \in Wallets, NEW i \in Installs, NEW r \in Requesters,
               NEW c \in DOMAIN challenges, NEW proof \in BOOLEAN, RejectClaim(w, i, r, c, proof)
        PROVE  UNCHANGED <<queue, phase>>
    BY <2>2 DEF RejectClaim, payout
  <2>3. phase # "idle" => queue # <<>>
    BY DEF GrantInv, PayoutsMatchRecords, InProcess
  <2> QED
    BY <1>1, <1>2, <2>1, <2>2, <2>3 DEF EndClaim, Current
<1>3. CASE SendOutcome \/ WaitOutcome \/ Record
  BY <1>3
  DEF SendOutcome, SendTransfer, FailSend, CanSend, WaitOutcome, SeeReceipt, FailWait, TimeOutWait,
      Record, RecordSendFailure, RecordBroadcast, RecordTimeOut, RecordWaitFailure,
      RecordConfirmation, FailRecord, FinishPayout, Current
<1> QED
  BY <1>1, <1>2, <1>3 DEF Next

LEMMA FinalStep ==
  ASSUME ErrorsAreFinal, GrantInv, GrantInv', Final, [Next]_vars
  PROVE  Final'
<1>1. FailuresWereFinal'
  <2> SUFFICES ASSUME NEW k \in DOMAIN claims', claims'[k].status = "funding_failed",
                      NEW n \in DOMAIN transfers', transfers'[n].claim = k
               PROVE  transfers'[n].status \notin {"mempool", "mined"}
    BY DEF FailuresWereFinal, Payable
  <2>1. CASE k \in DOMAIN claims /\ claims[k].status = "funding_failed"
    <3>1. CASE n \in DOMAIN transfers
      BY <2>1, <3>1, TransfersGrow DEF Final, FailuresWereFinal, Payable
    <3>2. CASE n \notin DOMAIN transfers
      <4>1. queue # <<>> /\ k = Current.claim
        BY <3>2, TransfersGrow
      <4>2. 1 \in DOMAIN queue /\ Current = queue[1]
        BY <4>1, InProcessFacts
      <4> QED
        BY <2>1, <4>1, <4>2 DEF GrantInv, PayoutsMatchRecords, JobsArePending
    <3> QED
      BY <3>1, <3>2
  <2>2. CASE /\ k = Current.claim /\ UNCHANGED transfers
             /\ RecordSendFailure \/ RecordWaitFailure
    <3>1. CASE RecordSendFailure
      BY <2>2, <3>1 DEF RecordSendFailure, Final
    <3>2. CASE RecordWaitFailure
      <4>1. /\ queue # <<>> /\ transfers # <<>> /\ Awaited.claim = k
            /\ Awaited.status \in {"reverted", "dropped"}
        BY <2>2, <3>2 DEF RecordWaitFailure, Final, GrantInv, PayoutsMatchRecords, InProcess
      <4>2. Len(transfers) \in DOMAIN transfers
        BY <4>1, InProcessFacts
      <4>3. n = Len(transfers)
        BY <2>2, <4>1, <4>2 DEF GrantInv, OneTransferPerClaim, Awaited
      <4> QED
        BY <2>2, <4>1, <4>3 DEF Awaited
    <3> QED
      BY <2>2, <3>1, <3>2
  <2> QED
    BY <2>1, <2>2, FailedBefore
<1>2. ASSUME phase' = "sendFailed", NEW n \in DOMAIN transfers'
      PROVE  transfers'[n].claim # Current'.claim
  <2>1. CASE phase = "sendFailed"
    <3>1. Current' = Current /\ n \in DOMAIN transfers
      BY <1>2, <2>1, PhaseStep, TransfersGrow
    <3> QED
      BY <2>1, <3>1, TransfersGrow DEF Final
  <2>2. CASE FailSend
    <3>1. /\ phase = "idle" /\ queue # <<>> /\ UNCHANGED <<queue, transfers>>
      BY <2>2 DEF FailSend
    <3>2. 1 \in DOMAIN queue /\ Current = queue[1] /\ Current' = Current
      BY <3>1, InProcessFacts DEF Current
    <3> QED
      BY <3>1, <3>2 DEF GrantInv, PayoutsMatchRecords, JobsArePending
  <2> QED
    BY <1>2, <2>1, <2>2, PhaseStep
<1>3. ASSUME phase' = "waitFailed"
      PROVE  Awaited'.status \in {"reverted", "dropped"}
  <2>1. CASE phase = "waitFailed"
    <3>1. /\ Awaited.status \in {"reverted", "dropped"} /\ transfers # <<>> /\ queue # <<>>
      BY <2>1 DEF Final, GrantInv, PayoutsMatchRecords, InProcess
    <3>2. /\ Len(transfers) \in DOMAIN transfers /\ DOMAIN transfers = 1..Len(transfers)
          /\ Len(transfers) \in Nat
      BY <3>1, InProcessFacts
    <3>3. DOMAIN transfers' = DOMAIN transfers
      BY <2>1, TransfersGrow
    <3>4. DOMAIN transfers' = 1..Len(transfers') /\ Len(transfers') \in Nat
      BY DEF GrantInv, TypeOK
    <3>5. Len(transfers') = Len(transfers)
      BY <3>2, <3>3, <3>4
    <3> QED
      BY <3>1, <3>2, <3>5, TransfersGrow DEF Awaited
  <2>2. CASE FailWait
    BY <2>2 DEF FailWait, chain, Awaited
  <2> QED
    BY <1>3, <2>1, <2>2, PhaseStep
<1> QED
  BY <1>1, <1>2, <1>3 DEF Final

----------------------------------------------------------------------------
\* The service implements the ledger.

\* A wallet is paid once if a transfer to it was mined, and never otherwise.
LEMMA Payments ==
  ASSUME GrantInv, WithinRetention, FailuresWereFinal, NEW w
  PROVE  PaymentsTo(w) = IF \E n \in Mined : transfers[n].wallet = w THEN 1 ELSE 0
<1> DEFINE to == {n \in Mined : transfers[n].wallet = w}
<1>1. CASE to = {}
  <2>1. PaymentsTo(w) = 0
    BY <1>1, FS_EmptySet DEF PaymentsTo
  <2> QED BY <1>1, <2>1
<1>2. CASE to # {}
  <2>1. PICK n \in to : TRUE
    BY <1>2
  <2>2. to = {n}
    BY <2>1, PaidOnce DEF OneTimeGrantUnlessForgotten, OneTimeGrant
  <2>3. PaymentsTo(w) = 1
    BY <2>2, FS_Singleton DEF PaymentsTo
  <2> QED BY <2>1, <2>3
<1> QED BY <1>1, <1>2

\* The claims that one pending claim leaves behind.
LEMMA OnePairMoves ==
  ASSUME GrantInv, NEW k \in DOMAIN claims, claims[k].status = "pending_funding",
         NEW from, "pending_funding" \in from, NEW to \in {"claimed", "funding_failed"},
         claims' = SetClaimStatus(claims, k, from, to)
  PROVE  LET pair == <<claims[k].wallet, claims[k].install>>
         IN /\ pair \in PairsWith("pending_funding")
            /\ PairsWith("pending_funding")' = PairsWith("pending_funding") \ {pair}
            /\ PairsWith("claimed")' =
                 IF to = "claimed" THEN PairsWith("claimed") \cup {pair} ELSE PairsWith("claimed")
<1> DEFINE pair == <<claims[k].wallet, claims[k].install>>
<1>1. claims \in [DOMAIN claims -> Claim]
  BY DEF GrantInv, TypeOK
<1>2. /\ DOMAIN claims' = DOMAIN claims
      /\ \A j \in DOMAIN claims : j # k => claims'[j] = claims[j]
      /\ claims'[k].status = to /\ claims'[k].wallet = claims[k].wallet
      /\ claims'[k].install = claims[k].install
  BY <1>1 DEF SetClaimStatus, Claim
<1>3. \A j \in DOMAIN claims : j # k /\ claims[j].status = "pending_funding" =>
        claims[j].wallet # claims[k].wallet
  BY DEF GrantInv, OneLiveClaim, IsLive
<1>4. pair \in PairsWith("pending_funding")
  BY DEF PairsWith
<1>5. PairsWith("pending_funding")' = PairsWith("pending_funding") \ {pair}
  <2>1. ASSUME NEW p \in PairsWith("pending_funding")'
        PROVE  p \in PairsWith("pending_funding") \ {pair}
    <3>1. PICK j \in DOMAIN claims' : claims'[j].status = "pending_funding"
                                      /\ p = <<claims'[j].wallet, claims'[j].install>>
      BY DEF PairsWith
    <3> QED BY <1>2, <1>3, <3>1 DEF PairsWith
  <2>2. ASSUME NEW p \in PairsWith("pending_funding"), p # pair
        PROVE  p \in PairsWith("pending_funding")'
    <3>1. PICK j \in DOMAIN claims : claims[j].status = "pending_funding"
                                     /\ p = <<claims[j].wallet, claims[j].install>>
      BY DEF PairsWith
    <3> QED BY <1>2, <2>2, <3>1 DEF PairsWith
  <2> QED BY <2>1, <2>2
<1>6. PairsWith("claimed")' =
        IF to = "claimed" THEN PairsWith("claimed") \cup {pair} ELSE PairsWith("claimed")
  <2>1. ASSUME NEW p \in PairsWith("claimed")'
        PROVE  p \in PairsWith("claimed") \/ (to = "claimed" /\ p = pair)
    <3>1. PICK j \in DOMAIN claims' : claims'[j].status = "claimed"
                                      /\ p = <<claims'[j].wallet, claims'[j].install>>
      BY DEF PairsWith
    <3> QED BY <1>2, <3>1 DEF PairsWith
  <2>2. ASSUME NEW p \in PairsWith("claimed")
        PROVE  p \in PairsWith("claimed")'
    <3>1. PICK j \in DOMAIN claims : claims[j].status = "claimed"
                                     /\ p = <<claims[j].wallet, claims[j].install>>
      BY DEF PairsWith
    <3> QED BY <1>2, <3>1 DEF PairsWith
  <2>3. to = "claimed" => pair \in PairsWith("claimed")'
    BY <1>2 DEF PairsWith
  <2> QED BY <2>1, <2>2, <2>3
<1> QED BY <1>4, <1>5, <1>6

\* A step that leaves the live claims and the mined transfers is none of the ledger's.
LEMMA LedgerStutters ==
  ASSUME \A s \in {"pending_funding", "claimed"} : PairsWith(s)' = PairsWith(s),
         Mined' = Mined, \A n \in Mined : transfers'[n].wallet = transfers[n].wallet
  PROVE  UNCHANGED Ledger!ledger
<1>1. \A w \in Wallets : PaymentsTo(w)' = PaymentsTo(w)
  BY DEF PaymentsTo
<1> QED BY <1>1 DEF Ledger!ledger

\* Claims of which at most unlive ones were added hold the same pairs.
LEMMA SamePairs ==
  ASSUME \A k \in DOMAIN claims :
           /\ k \in DOMAIN claims' /\ claims'[k].wallet = claims[k].wallet
           /\ claims'[k].install = claims[k].install /\ claims'[k].status = claims[k].status,
         \A k \in DOMAIN claims' \ DOMAIN claims : claims'[k].status = "rejected"
  PROVE  \A s \in {"pending_funding", "claimed"} : PairsWith(s)' = PairsWith(s)
<1> SUFFICES ASSUME NEW s \in {"pending_funding", "claimed"} PROVE PairsWith(s)' = PairsWith(s)
  OBVIOUS
<1>1. ASSUME NEW p \in PairsWith(s)' PROVE p \in PairsWith(s)
  <2>1. PICK j \in DOMAIN claims' : claims'[j].status = s
                                    /\ p = <<claims'[j].wallet, claims'[j].install>>
    BY DEF PairsWith
  <2>2. j \in DOMAIN claims
    BY <2>1
  <2> QED BY <2>1, <2>2 DEF PairsWith
<1>2. ASSUME NEW p \in PairsWith(s) PROVE p \in PairsWith(s)'
  <2>1. PICK j \in DOMAIN claims : claims[j].status = s
                                   /\ p = <<claims[j].wallet, claims[j].install>>
    BY DEF PairsWith
  <2> QED BY <2>1 DEF PairsWith
<1> QED BY <1>1, <1>2

\* An accepted claim reserves a grant for a wallet and install that have none.
LEMMA AcceptReserves ==
  ASSUME GrantInv, GrantInv', WithinRetention', NEW w \in Wallets, NEW i \in Installs,
         NEW r \in Requesters, NEW c \in DOMAIN challenges, AcceptClaim(w, i, r, c)
  PROVE  Ledger!Reserve(w, i)
<1> DEFINE new == NewClaim(w, i, r, c, "pending_funding")
<1>1. /\ nextClaim' = nextClaim + 1 /\ UNCHANGED transfers
      /\ claims' = PruneClaims(Insert(PruneClaims(claims), nextClaim, new))
      /\ ~HasExistingClaim(PruneClaims(claims), w, i)
  BY DEF AcceptClaim, IsAdmitted, chain
<1>2. /\ new.wallet = w /\ new.install = i /\ new.status = "pending_funding" /\ new \in Claim
  <2>1. new \in Claim
    BY Numbers, NewClaimType DEF GrantInv, ClaimStatus
  <2> QED BY <2>1 DEF NewClaim
<1> HIDE DEF new
<1>3. /\ nextClaim \in Nat /\ nextClaim >= 1 /\ WithinRetention /\ nextClaim \notin DOMAIN claims
      /\ nextClaim' - 1 = nextClaim
  <2>1. nextClaim \in Nat /\ nextClaim >= 1 /\ MaxStoredClaims \in Nat
    BY Numbers DEF GrantInv
  <2>2. DOMAIN claims \subseteq 1..(nextClaim - 1)
    BY DEF GrantInv, TypeOK
  <2> QED BY <1>1, <2>1, <2>2 DEF WithinRetention
<1>4. DOMAIN claims = 1..(nextClaim - 1) /\ DOMAIN claims' = 1..nextClaim
  BY <1>3 DEF GrantInv, PayoutsMatchRecords, Retained
<1>5. PruneClaims(claims) = claims
  BY <1>3, SameClaims DEF GrantInv
<1>6. Part(claims', Insert(claims, nextClaim, new))
  BY <1>1, <1>2, <1>5, AdmittedStore DEF GrantInv
<1>7. /\ nextClaim \in DOMAIN claims' /\ claims'[nextClaim] = new
      /\ \A k \in DOMAIN claims : k \in DOMAIN claims' /\ claims'[k] = claims[k]
      /\ \A k \in DOMAIN claims' : k # nextClaim => k \in DOMAIN claims
  <2> DEFINE added == Insert(claims, nextClaim, new)
  <2>1. DOMAIN added = DOMAIN claims \cup {nextClaim}
    BY DEF Insert
  <2>2. added[nextClaim] = new /\ \A k \in DOMAIN claims : added[k] = claims[k]
    BY <1>3 DEF Insert
  <2>3. DOMAIN claims' \subseteq DOMAIN added /\ \A k \in DOMAIN claims' : claims'[k] = added[k]
    BY <1>6 DEF Part
  <2> HIDE DEF added
  <2>4. nextClaim \in DOMAIN claims' /\ \A k \in DOMAIN claims : k \in DOMAIN claims'
    BY <1>3, <1>4
  <2> QED BY <2>1, <2>2, <2>3, <2>4
<1>8. PairsWith("pending_funding")' = PairsWith("pending_funding") \cup {<<w, i>>}
  <2>1. ASSUME NEW p \in PairsWith("pending_funding")'
        PROVE  p \in PairsWith("pending_funding") \cup {<<w, i>>}
    <3>1. PICK j \in DOMAIN claims' : claims'[j].status = "pending_funding"
                                      /\ p = <<claims'[j].wallet, claims'[j].install>>
      BY DEF PairsWith
    <3>2. CASE j = nextClaim
      BY <1>2, <1>7, <3>1, <3>2
    <3>3. CASE j # nextClaim
      BY <1>7, <3>1, <3>3 DEF PairsWith
    <3> QED BY <3>2, <3>3
  <2>2. ASSUME NEW p \in PairsWith("pending_funding")
        PROVE  p \in PairsWith("pending_funding")'
    <3>1. PICK j \in DOMAIN claims : claims[j].status = "pending_funding"
                                     /\ p = <<claims[j].wallet, claims[j].install>>
      BY DEF PairsWith
    <3> QED BY <1>7, <3>1 DEF PairsWith
  <2>3. <<w, i>> \in PairsWith("pending_funding")'
    BY <1>2, <1>7 DEF PairsWith
  <2> QED BY <2>1, <2>2, <2>3
<1>9. PairsWith("claimed")' = PairsWith("claimed")
  <2>1. ASSUME NEW p \in PairsWith("claimed")' PROVE p \in PairsWith("claimed")
    <3>1. PICK j \in DOMAIN claims' : claims'[j].status = "claimed"
                                      /\ p = <<claims'[j].wallet, claims'[j].install>>
      BY DEF PairsWith
    <3>2. j # nextClaim
      BY <1>2, <1>7, <3>1
    <3> QED BY <1>7, <3>1, <3>2 DEF PairsWith
  <2>2. ASSUME NEW p \in PairsWith("claimed") PROVE p \in PairsWith("claimed")'
    <3>1. PICK j \in DOMAIN claims : claims[j].status = "claimed"
                                     /\ p = <<claims[j].wallet, claims[j].install>>
      BY DEF PairsWith
    <3> QED BY <1>7, <3>1 DEF PairsWith
  <2> QED BY <2>1, <2>2
<1>10. \A g \in PairsWith("pending_funding") \cup PairsWith("claimed") : g[1] # w /\ g[2] # i
  BY <1>1, <1>5 DEF PairsWith, HasExistingClaim, IsLive
<1>11. \A v \in Wallets : PaymentsTo(v)' = PaymentsTo(v)
  BY <1>1 DEF PaymentsTo, Mined
<1> QED BY <1>8, <1>9, <1>10, <1>11 DEF Ledger!Reserve, Ledger!Held

\* A transfer that is mined is the first payment of a grant that is reserved.
LEMMA MinePays ==
  ASSUME GrantInv, GrantInv', WithinRetention, FailuresWereFinal, FailuresWereFinal',
         NEW n \in DOMAIN transfers, MineTransfer(n), NEW w \in Wallets, w = transfers[n].wallet
  PROVE  Ledger!Pay(w)
<1> DEFINE k == transfers[n].claim
<1>1. /\ UNCHANGED <<claims, nextClaim>> /\ transfers[n].status = "mempool"
      /\ transfers' = [transfers EXCEPT ![n].status = "mined"]
  BY DEF MineTransfer, Settle, store
<1>2. transfers[n] \in Transfer /\ transfers \in Seq(Transfer)
  BY Numbers DEF GrantInv, TypeOK
<1>3. /\ DOMAIN transfers' = DOMAIN transfers
      /\ \A t \in DOMAIN transfers : t # n => transfers'[t] = transfers[t]
      /\ transfers'[n].status = "mined" /\ transfers'[n].wallet = w
  BY <1>1, <1>2 DEF Transfer
<1>4. n \notin Mined /\ Mined' = Mined \cup {n}
  BY <1>1, <1>3 DEF Mined
<1>5. /\ k \in DOMAIN claims /\ IsLive(claims[k]) /\ claims[k].wallet = w
  BY <1>1, LiveTransfer DEF Payable
<1>6. ASSUME NEW t \in Mined PROVE transfers[t].wallet # w
  <2>1. t \in DOMAIN transfers /\ Payable(t)
    BY DEF Mined, Payable
  <2>2. /\ transfers[t].claim \in DOMAIN claims /\ IsLive(claims[transfers[t].claim])
        /\ claims[transfers[t].claim].wallet = transfers[t].wallet
    BY <2>1, LiveTransfer
  <2>3. CASE transfers[t].wallet = w
    <3>1. transfers[t].claim = k
      BY <1>5, <2>2, <2>3 DEF GrantInv, OneLiveClaim
    <3> QED BY <1>4, <2>1, <3>1 DEF GrantInv, OneTransferPerClaim
  <2> QED BY <2>3
<1>7. claims[k].status = "pending_funding"
  <2>1. claims[k].status # "claimed"
    BY <1>4, <1>5 DEF GrantInv, ClaimedIsPaid, MinedFor, OneTransferPerClaim, Mined
  <2> QED BY <1>5, <2>1 DEF IsLive
<1>8. \A v \in Wallets : PaymentsTo(v)' = IF v = w THEN 1 ELSE PaymentsTo(v)
  <2>2. {t \in Mined' : transfers'[t].wallet = w} = {n}
    BY <1>3, <1>4, <1>6 DEF Mined
  <2>3. PaymentsTo(w)' = 1
    BY <2>2, FS_Singleton DEF PaymentsTo
  <2>4. ASSUME NEW v \in Wallets, v # w PROVE PaymentsTo(v)' = PaymentsTo(v)
    <3>1. {t \in Mined' : transfers'[t].wallet = v} = {t \in Mined : transfers[t].wallet = v}
      BY <1>3, <1>4, <2>4 DEF Mined
    <3> QED BY <3>1 DEF PaymentsTo
  <2> QED BY <2>3, <2>4
<1>9. PaymentsTo(w) = 0
  BY <1>6, Payments
<1>10. \E i \in Installs : <<w, i>> \in PairsWith("pending_funding")
  <2>1. claims[k].install \in Installs
    BY <1>5 DEF GrantInv, TypeOK, Claim
  <2> QED BY <1>5, <1>7, <2>1 DEF PairsWith
<1>11. UNCHANGED <<PairsWith("pending_funding"), PairsWith("claimed")>>
  BY <1>1 DEF PairsWith
<1> QED BY <1>8, <1>9, <1>10, <1>11 DEF Ledger!Pay

\* The record of a payout's outcome gives its grant back unpaid, or grants it paid.
LEMMA RecordSettles ==
  ASSUME GrantInv, GrantInv', Final, WithinRetention,
         RecordSendFailure \/ RecordWaitFailure \/ RecordConfirmation
  PROVE  Ledger!Next
<1> DEFINE k == Current.claim
<1>1. phase # "idle" /\ queue # <<>>
  BY DEF RecordSendFailure, RecordWaitFailure, RecordConfirmation, GrantInv,
         PayoutsMatchRecords, InProcess
<1>2. 1 \in DOMAIN queue /\ Current = queue[1]
  BY <1>1, InProcessFacts
<1>3. k \in DOMAIN claims /\ claims[k].status = "pending_funding"
  <2>1. k < nextClaim /\ k \in ClaimIds /\ nextClaim \in Nat
    <3>1. queue[1] \in Job
      BY <1>2, Numbers DEF GrantInv
    <3> QED BY <1>2, <3>1, Numbers DEF GrantInv, PayoutsMatchRecords, JobsArePending, Job
  <2>2. k \in 1..(nextClaim - 1)
    BY <2>1, LimitsAreNat DEF ClaimIds
  <2>3. k \in DOMAIN claims
    BY <2>2 DEF GrantInv, PayoutsMatchRecords, Retained
  <2> QED BY <1>2, <2>3 DEF GrantInv, PayoutsMatchRecords, JobsArePending
<1>4. PICK w \in Wallets, i \in Installs : w = claims[k].wallet /\ i = claims[k].install
  <2>1. claims[k] \in Claim
    BY <1>3 DEF GrantInv, TypeOK
  <2> QED BY <2>1 DEF Claim
<1>5. UNCHANGED transfers
  BY DEF RecordSendFailure, RecordWaitFailure, RecordConfirmation, chain
<1>6. [v \in Wallets |-> PaymentsTo(v)]' = [v \in Wallets |-> PaymentsTo(v)]
  BY <1>5 DEF PaymentsTo, Mined
<1>7. CASE RecordSendFailure \/ RecordWaitFailure
  <2>1. ASSUME NEW n \in Mined PROVE transfers[n].claim # k
    <3>1. CASE RecordSendFailure
      BY <3>1 DEF RecordSendFailure, Final, Mined
    <3>2. CASE RecordWaitFailure
      <4>1. /\ transfers # <<>> /\ Awaited.claim = k /\ Awaited.status \in {"reverted", "dropped"}
        BY <3>2 DEF RecordWaitFailure, Final, GrantInv, PayoutsMatchRecords, InProcess
      <4>2. Len(transfers) \in DOMAIN transfers
        BY <1>1, <4>1, InProcessFacts
      <4>3. transfers[n].claim = k => n = Len(transfers)
        BY <4>1, <4>2 DEF GrantInv, OneTransferPerClaim, Awaited, Mined
      <4> QED BY <4>1, <4>3 DEF Awaited, Mined
    <3> QED BY <1>7, <3>1, <3>2
  <2>2. ASSUME NEW n \in Mined PROVE transfers[n].wallet # w
    <3>1. /\ transfers[n].claim \in DOMAIN claims /\ IsLive(claims[transfers[n].claim])
          /\ claims[transfers[n].claim].wallet = transfers[n].wallet
      BY LiveTransfer DEF Final, Mined, Payable
    <3> QED BY <1>3, <1>4, <2>1, <3>1 DEF GrantInv, OneLiveClaim, IsLive
  <2>3. PaymentsTo(w) = 0
    BY <2>2, Payments DEF Final
  <2>4. PICK from : /\ "pending_funding" \in from
                    /\ claims' = SetClaimStatus(claims, k, from, "funding_failed")
    BY <1>7 DEF RecordSendFailure, RecordWaitFailure, ClaimStatus
  <2>5. /\ <<w, i>> \in PairsWith("pending_funding")
        /\ PairsWith("pending_funding")' = PairsWith("pending_funding") \ {<<w, i>>}
        /\ PairsWith("claimed")' = PairsWith("claimed")
    BY <1>3, <1>4, <2>4, OnePairMoves
  <2>6. Ledger!Release(w, i)
    BY <1>6, <2>3, <2>5 DEF Ledger!Release
  <2> QED BY <2>6 DEF Ledger!Next
<1>8. CASE RecordConfirmation
  <2>1. /\ transfers # <<>> /\ Awaited.claim = k /\ Awaited.status = "mined"
    BY <1>8 DEF RecordConfirmation, GrantInv, PayoutsMatchRecords, InProcess
  <2>2. Len(transfers) \in Mined
    BY <1>1, <2>1, InProcessFacts DEF Mined, Awaited
  <2>3. transfers[Len(transfers)].wallet = w
    BY <1>3, <1>4, <2>1, <2>2 DEF GrantInv, PayoutsMatchRecords, TransfersHaveClaims, Awaited, Mined
  <2>4. PaymentsTo(w) = 1
    BY <2>2, <2>3, Payments DEF Final
  <2>5. /\ "pending_funding" \in ClaimStatus
        /\ claims' = SetClaimStatus(claims, k, ClaimStatus, "claimed")
    BY <1>8 DEF RecordConfirmation, ClaimStatus
  <2>6. /\ <<w, i>> \in PairsWith("pending_funding")
        /\ PairsWith("pending_funding")' = PairsWith("pending_funding") \ {<<w, i>>}
        /\ PairsWith("claimed")' = PairsWith("claimed") \cup {<<w, i>>}
    BY <1>3, <1>4, <2>5, OnePairMoves
  <2>7. Ledger!Grant(w, i)
    BY <1>6, <2>4, <2>6 DEF Ledger!Grant
  <2> QED BY <2>7 DEF Ledger!Next
<1> QED BY <1>7, <1>8

\* What is sent is not settled yet.
LEMMA SendingSettlesNothing ==
  ASSUME GrantInv, SendOutcome
  PROVE  /\ \A n \in DOMAIN transfers : n \in DOMAIN transfers' /\ transfers'[n] = transfers[n]
         /\ \A n \in DOMAIN transfers' \ DOMAIN transfers : transfers'[n].status = "mempool"
<1>1. transfers \in Seq(Transfer) /\ queue # <<>>
  BY DEF GrantInv, TypeOK, SendOutcome, SendTransfer, FailSend, CanSend
<1>2. Broadcast \/ UNCHANGED transfers
  BY DEF SendOutcome, SendTransfer, FailSend
<1>3. [claim |-> Current.claim, wallet |-> Current.wallet, status |-> "mempool"] \in Transfer
  BY <1>1, CurrentType DEF GrantInv, Transfer, TransferStatus, Job
<1> QED BY <1>1, <1>2, <1>3, AppendProperties DEF Broadcast

\* Every step of the service is a step of the ledger, or none.
LEMMA LedgerStep ==
  ASSUME GrantInv, GrantInv', Final, Final', WithinRetention, WithinRetention', [Next]_vars
  PROVE  [Ledger!Next]_(Ledger!ledger)
<1>1. ASSUME UNCHANGED <<claims, transfers>>
      PROVE  UNCHANGED Ledger!ledger
  BY <1>1, SamePairs, LedgerStutters DEF Mined
<1>2. ASSUME UNCHANGED transfers,
             \A k \in DOMAIN claims :
               /\ k \in DOMAIN claims' /\ claims'[k].wallet = claims[k].wallet
               /\ claims'[k].install = claims[k].install /\ claims'[k].status = claims[k].status,
             \A k \in DOMAIN claims' \ DOMAIN claims : claims'[k].status = "rejected"
      PROVE  UNCHANGED Ledger!ledger
  BY <1>2, SamePairs, LedgerStutters DEF Mined
<1>3. PruneClaims(claims) = claims
  BY SameClaims DEF GrantInv
<1>4. CASE UNCHANGED vars \/ Request \/ DenyClaim \/ AbandonClaim
  <2>1. UNCHANGED <<claims, transfers>>
    BY <1>3, <1>4 DEF vars, store, chain, Request, PruneStore, BeginClaim, IssueChallenge,
                      DenyClaim, AbandonClaim
  <2> QED BY <1>1, <2>1
<1>5. CASE WaitOutcome \/ TopUp \/ Tick \/ Crash \/ RecordTimeOut \/ FailRecord
  <2>1. UNCHANGED <<claims, transfers>>
    BY <1>5 DEF store, chain, WaitOutcome, SeeReceipt, FailWait, TimeOutWait, TopUp, Tick, Crash,
                RecordTimeOut, FailRecord
  <2> QED BY <1>1, <2>1
<1>6. ASSUME NEW w \in Wallets, NEW i \in Installs, NEW r \in Requesters,
             NEW c \in DOMAIN challenges, NEW proof \in BOOLEAN, RejectClaim(w, i, r, c, proof)
      PROVE  UNCHANGED Ledger!ledger
  <2> DEFINE new == NewClaim(w, i, r, c, "rejected")
  <2>1. UNCHANGED transfers /\ claims' = Insert(claims, nextClaim, new)
    BY <1>3, <1>6 DEF RejectClaim, chain
  <2>2. new.status = "rejected" /\ nextClaim \notin DOMAIN claims
    <3>1. nextClaim \in Nat /\ DOMAIN claims \subseteq 1..(nextClaim - 1)
      BY Numbers DEF GrantInv, TypeOK
    <3> QED BY <3>1 DEF NewClaim
  <2> HIDE DEF new
  <2>3. /\ \A k \in DOMAIN claims : k \in DOMAIN claims' /\ claims'[k] = claims[k]
        /\ \A k \in DOMAIN claims' \ DOMAIN claims : claims'[k] = new
    BY <2>1, <2>2 DEF Insert
  <2> QED BY <1>2, <2>1, <2>2, <2>3
<1>7. ASSUME NEW w \in Wallets, NEW i \in Installs, NEW r \in Requesters,
             NEW c \in DOMAIN challenges, AcceptClaim(w, i, r, c)
      PROVE  Ledger!Next
  BY <1>7, AcceptReserves DEF Ledger!Next
<1>8. CASE SendOutcome
  <2>1. UNCHANGED claims
    BY <1>8 DEF SendOutcome, SendTransfer, FailSend, store
  <2>2. Mined' = Mined
    BY <1>8, SendingSettlesNothing DEF Mined
  <2>3. \A n \in Mined : transfers'[n].wallet = transfers[n].wallet
    BY TransfersGrow DEF Mined
  <2> QED BY <2>1, <2>2, <2>3, LedgerStutters, SamePairs
<1>9. ASSUME NEW n \in DOMAIN transfers, MineTransfer(n)
      PROVE  Ledger!Next
  <2>1. transfers[n].wallet \in Wallets
    BY Numbers DEF GrantInv, Transfer
  <2> QED BY <1>9, <2>1, MinePays DEF Ledger!Next, Final
<1>10. ASSUME NEW n \in DOMAIN transfers, RevertTransfer(n) \/ DropTransfer(n)
       PROVE  UNCHANGED Ledger!ledger
  <2>1. PICK status \in {"reverted", "dropped"} :
          /\ UNCHANGED claims /\ transfers[n].status = "mempool"
          /\ transfers' = [transfers EXCEPT ![n].status = status]
    BY <1>10 DEF RevertTransfer, DropTransfer, Settle, store
  <2>2. transfers[n] \in Transfer
    BY Numbers DEF GrantInv
  <2>3. /\ DOMAIN transfers' = DOMAIN transfers /\ transfers'[n].status = status
        /\ \A t \in DOMAIN transfers : t # n => transfers'[t] = transfers[t]
    BY <2>1, <2>2 DEF Transfer
  <2>4. Mined' = Mined /\ \A t \in Mined : transfers'[t].wallet = transfers[t].wallet
    BY <2>1, <2>3 DEF Mined
  <2> QED BY <2>1, <2>4, LedgerStutters, SamePairs
<1>11. CASE RecordBroadcast
  <2>1. claims \in [DOMAIN claims -> Claim]
    BY DEF GrantInv, TypeOK
  <2>2. UNCHANGED transfers /\ DOMAIN claims' = DOMAIN claims
    BY <1>11, <2>1 DEF RecordBroadcast, chain
  <2>3. \A k \in DOMAIN claims :
          /\ claims'[k].wallet = claims[k].wallet
          /\ claims'[k].install = claims[k].install /\ claims'[k].status = claims[k].status
    BY <1>11, <2>1 DEF RecordBroadcast, Claim
  <2> QED BY <1>2, <2>2, <2>3
<1>12. EndClaim => UNCHANGED Ledger!ledger \/ Ledger!Next
  BY <1>4, <1>6, <1>7 DEF EndClaim
<1>13. Record => UNCHANGED Ledger!ledger \/ Ledger!Next
  BY <1>5, <1>11, RecordSettles DEF Record
<1>14. ChainStep => UNCHANGED Ledger!ledger \/ Ledger!Next
  BY <1>5, <1>9, <1>10 DEF ChainStep
<1> QED BY <1>4, <1>5, <1>8, <1>12, <1>13, <1>14 DEF Next

\* The service keeps the promise of the ledger: when errors are final and no claim record
\* was cut from the table, each of its steps reserves, pays, grants or gives back one grant as
\* the ledger allows, or leaves the ledger unchanged.
THEOREM LedgerImplemented ==
  ASSUME ErrorsAreFinal
  PROVE  Spec /\ []WithinRetention => ImplementsLedger
<1>1. Init => Final
  BY DEF Init, Final, FailuresWereFinal
<1>2. Init => Ledger!Init
  <2> SUFFICES ASSUME Init PROVE Ledger!Init
    OBVIOUS
  <2>1. Mined = {} /\ DOMAIN claims = {}
    BY DEF Init, Mined
  <2>2. \A w \in Wallets : PaymentsTo(w) = 0
    BY <2>1, FS_EmptySet DEF PaymentsTo
  <2>3. PairsWith("pending_funding") = {} /\ PairsWith("claimed") = {}
    BY <2>1 DEF PairsWith
  <2> QED BY <2>2, <2>3 DEF Ledger!Init
<1>3. GrantInv /\ GrantInv' /\ Final /\ [Next]_vars => Final'
  BY FinalStep
<1>4. /\ GrantInv /\ GrantInv' /\ Final /\ Final' /\ WithinRetention /\ WithinRetention'
      /\ [Next]_vars
      => [Ledger!Next]_(Ledger!ledger)
  BY LedgerStep
<1> QED BY <1>1, <1>2, <1>3, <1>4, GrantInvHolds, PTL DEF Spec, ImplementsLedger, Ledger!Spec
=============================================================================
