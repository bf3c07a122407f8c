------------------------- MODULE GrantLimitProofs --------------------------
(***************************************************************************)
(* What the starter-grant service limits.  Its challenges fit its claims:  *)
(* which are being funded, and which can be claimed.  With that, the       *)
(* numbers of open challenges and of failures keep their bounds, and the   *)
(* balance covers what is promised.                                        *)
(***************************************************************************)
EXTENDS StarterGrantProofs

IsOpen(challenge) == challenge.status \in {"issued", "funding"}

\* A challenge that is being funded has a pending claim of the same identity.
Funded ==
  \A c \in DOMAIN challenges : challenges[c].status = "funding" =>
    \E k \in Pending(claims) :
      /\ claims[k].challenge = c /\ claims[k].wallet = challenges[c].wallet
      /\ claims[k].install = challenges[c].install

Distinct ==
  \A b, c \in DOMAIN challenges :
    b # c /\ IsOpen(challenges[b]) /\ IsOpen(challenges[c])
    => \/ challenges[b].wallet # challenges[c].wallet
       \/ challenges[b].install # challenges[c].install

ChallengeInv == WithinRetention => Funded /\ Distinct

\* No challenge of the new table is more open than it was in the old one.
Withers(new, old) ==
  /\ DOMAIN new \subseteq DOMAIN old
  /\ \A c \in DOMAIN new :
       /\ new[c].wallet = old[c].wallet /\ new[c].install = old[c].install
       /\ IsOpen(new[c]) => IsOpen(old[c])
       /\ new[c].status = "funding" => old[c].status = "funding"

----------------------------------------------------------------------------
\* What the operations on the table do.

\* Pruning opens nothing, and removes or expires what is too old.
LEMMA PruneWithers ==
  ASSUME NEW chs, chs \in [DOMAIN chs -> Challenge], NEW now \in Nat
  PROVE  Withers(PruneChallenges(chs, now), chs)
<1> DEFINE refreshed == RefreshStatuses(chs, now)
<1>1. Withers(refreshed, chs)
  <2> SUFFICES ASSUME NEW c \in DOMAIN chs
      PROVE  /\ refreshed[c].wallet = chs[c].wallet /\ refreshed[c].install = chs[c].install
             /\ IsOpen(refreshed[c]) => IsOpen(chs[c])
             /\ refreshed[c].status = "funding" => chs[c].status = "funding"
    BY DEF Withers, RefreshStatuses
  <2>1. chs[c] \in Challenge
    OBVIOUS
  <2>2. \/ refreshed[c] = chs[c]
        \/ chs[c].status = "issued" /\ refreshed[c] = [chs[c] EXCEPT !.status = "expired"]
    BY DEF RefreshStatuses
  <2> QED BY <2>1, <2>2 DEF Challenge, IsOpen
<1>2. PICK kept \in SUBSET DOMAIN refreshed :
        KeepRecentChallenges(refreshed) = Restrict(refreshed, kept)
  <2> DEFINE all == DOMAIN refreshed
             active == Newest({c \in all : refreshed[c].status = "issued"}, MaxStoredChallenges)
             inactive == Newest({c \in all : refreshed[c].status # "issued"},
                                MaxStoredChallenges - Cardinality(active))
  <2>1. active \cup inactive \subseteq all
    BY DEF Newest
  <2> QED BY <2>1 DEF KeepRecentChallenges
<1> HIDE DEF refreshed
<1>3. Withers(Restrict(refreshed, kept), chs)
  BY <1>1, <1>2 DEF Withers, Restrict
<1> QED BY <1>2, <1>3 DEF PruneChallenges, refreshed

\* Setting a final status closes a challenge.
LEMMA SettingWithers ==
  ASSUME NEW chs, chs \in [DOMAIN chs -> Challenge], NEW c, NEW from,
         NEW to \in {"claimed", "rejected"}
  PROVE  Withers(SetChallengeStatus(chs, c, from, to), chs)
BY DEF SetChallengeStatus, Withers, IsOpen, Challenge

\* Reopening a challenge ends its funding.
LEMMA ReopenWithers ==
  ASSUME NEW chs, chs \in [DOMAIN chs -> Challenge], NEW c, NEW now
  PROVE  /\ Withers(Reopen(chs, c, now), chs)
         /\ c \in DOMAIN chs => Reopen(chs, c, now)[c].status # "funding"
BY DEF Reopen, Withers, IsOpen, Challenge

\* It withers in two steps as in one.
LEMMA WithersTwice ==
  ASSUME NEW a, NEW b, NEW c, Withers(a, b), Withers(b, c)
  PROVE  Withers(a, c)
BY DEF Withers

----------------------------------------------------------------------------
\* A step that opens no challenge, and ends the funding of those whose claims end.
LEMMA WitherStep ==
  ASSUME ChallengeInv, Withers(challenges', challenges), WithinRetention' => WithinRetention,
         WithinRetention => \A k \in Pending(claims) :
           \/ /\ k \in Pending(claims') /\ claims'[k].challenge = claims[k].challenge
              /\ claims'[k].wallet = claims[k].wallet
              /\ claims'[k].install = claims[k].install
           \/ \A c \in DOMAIN challenges' :
                c = claims[k].challenge => challenges'[c].status # "funding"
  PROVE  ChallengeInv'
<1> SUFFICES ASSUME WithinRetention PROVE Funded' /\ Distinct'
  BY DEF ChallengeInv
<1>1. Funded'
  BY DEF ChallengeInv, Funded, Withers
<1>2. Distinct'
  BY DEF ChallengeInv, Distinct, Withers
<1> QED BY <1>1, <1>2

\* A request for a challenge is refused to an identity that has a claim or one open.
LEMMA RequestChallenges ==
  ASSUME GrantInv, ChallengeInv, Request
  PROVE  ChallengeInv'
<1>1. PICK now \in seen..clock :
        PruneStore(now) \/ BeginClaim(now)
        \/ \E w \in Wallets, i \in Installs : IssueChallenge(w, i, now)
  BY DEF Request
<1>2. now \in Nat /\ challenges \in [DOMAIN challenges -> Challenge] /\ TypeOK
      /\ DOMAIN challenges \subseteq 1..(nextChallenge - 1)
      /\ nextChallenge \in Nat
  BY DEF GrantInv, TypeOK
<1> DEFINE chs == PruneChallenges(challenges, now)
<1>3. Withers(chs, challenges) /\ Withers(challenges, challenges)
  BY <1>2, PruneWithers DEF Withers
<1>4. UNCHANGED nextClaim /\ (claims' = PruneClaims(claims) \/ claims' = claims)
  BY <1>1 DEF PruneStore, BeginClaim, IssueChallenge, store
<1>5. WithinRetention' = WithinRetention /\ (WithinRetention => claims' = claims)
  BY <1>2, <1>4, SameClaims DEF WithinRetention
<1>6. CASE PruneStore(now) \/ BeginClaim(now)
  <2>1. challenges' = chs \/ challenges' = challenges
    BY <1>6 DEF PruneStore, BeginClaim, store
  <2> QED BY <1>3, <1>5, <2>1, WitherStep
<1>7. ASSUME NEW w \in Wallets, NEW i \in Installs, IssueChallenge(w, i, now)
      PROVE  ChallengeInv'
  <2> SUFFICES ASSUME WithinRetention PROVE Funded' /\ Distinct'
    BY <1>5 DEF ChallengeInv
  <2> DEFINE new == [wallet |-> w, install |-> i, issuedAt |-> now, status |-> "issued"]
             added == Insert(chs, nextChallenge, new)
  <2>1. /\ challenges' = PruneChallenges(added, now) /\ claims' = claims
        /\ ~HasExistingClaim(claims, w, i) /\ ActiveChallenges(chs, w, i) = {}
    BY <1>2, <1>5, <1>7, SameClaims DEF IssueChallenge
  <2>2. chs \in [DOMAIN chs -> Challenge] /\ nextChallenge \notin DOMAIN chs
    BY <1>2, PruneChallengesType
  <2>3. new \in Challenge
    BY <1>2 DEF Challenge, ChallengeStatus
  <2> HIDE DEF chs
  <2>4. added \in [DOMAIN added -> Challenge] /\ DOMAIN added = DOMAIN chs \cup {nextChallenge}
        /\ added[nextChallenge] = new /\ \A c \in DOMAIN chs : added[c] = chs[c]
    BY <2>2, <2>3 DEF Insert
  <2>5. Withers(challenges', added)
    <3> HIDE DEF added
    <3> QED BY <1>2, <2>1, <2>4, PruneWithers
  <2>6. new.status = "issued" /\ new.wallet = w /\ new.install = i
    OBVIOUS
  <2> HIDE DEF added, new
  <2>7. \A c \in DOMAIN challenges' :
          \/ c = nextChallenge /\ challenges'[c].status # "funding"
             /\ challenges'[c].wallet = w /\ challenges'[c].install = i
          \/ /\ c # nextChallenge /\ c \in DOMAIN chs /\ c \in DOMAIN challenges
             /\ challenges'[c].wallet = challenges[c].wallet
             /\ challenges'[c].install = challenges[c].install
             /\ chs[c].wallet = challenges[c].wallet
             /\ chs[c].install = challenges[c].install
             /\ IsOpen(challenges'[c]) => IsOpen(chs[c]) /\ IsOpen(challenges[c])
             /\ challenges'[c].status = "funding" => challenges[c].status = "funding"
             /\ chs[c].status = "funding" => challenges[c].status = "funding"
    BY <1>3, <2>2, <2>4, <2>5, <2>6 DEF Withers
  <2>8. Funded'
    BY <2>1, <2>7 DEF ChallengeInv, Funded
  <2>9. \A c \in DOMAIN challenges' : c # nextChallenge /\ IsOpen(challenges'[c]) =>
          challenges'[c].wallet # w \/ challenges'[c].install # i
    <3> SUFFICES ASSUME NEW c \in DOMAIN challenges', c # nextChallenge, IsOpen(challenges'[c]),
                        challenges'[c].wallet = w, challenges'[c].install = i
        PROVE  FALSE
      OBVIOUS
    <3>1. /\ c \in DOMAIN chs /\ chs[c].wallet = w /\ chs[c].install = i /\ IsOpen(chs[c])
          /\ c \in DOMAIN challenges /\ challenges[c].wallet = w
          /\ chs[c].status = "funding" => challenges[c].status = "funding"
      BY <2>7
    <3>2. chs[c].status # "issued"
      BY <2>1, <3>1 DEF ActiveChallenges
    <3>3. challenges[c].status = "funding"
      BY <3>1, <3>2 DEF IsOpen
    <3>4. PICK k \in Pending(claims) : claims[k].wallet = w
      BY <3>1, <3>3 DEF ChallengeInv, Funded
    <3> QED BY <2>1, <3>4 DEF HasExistingClaim, Pending, IsLive
  <2>10. Distinct'
    BY <2>7, <2>9 DEF ChallengeInv, Distinct
  <2> QED BY <2>8, <2>10
<1> QED BY <1>1, <1>6, <1>7

\* A claim that ends unaccepted closes challenges; an accepted one funds its own.
LEMMA EndClaimChallenges ==
  ASSUME GrantInv, ChallengeInv, EndClaim
  PROVE  ChallengeInv'
<1>1. /\ TypeOK /\ seen \in Nat /\ challenges \in [DOMAIN challenges -> Challenge]
      /\ nextClaim \in Nat /\ claims \in [DOMAIN claims -> Claim]
      /\ nextClaim \notin DOMAIN claims
  BY DEF GrantInv, TypeOK
<1> DEFINE chs == PruneChallenges(challenges, seen)
<1>2. Withers(chs, challenges) /\ Withers(challenges, challenges)
      /\ chs \in [DOMAIN chs -> Challenge]
  BY <1>1, PruneWithers, PruneChallengesType DEF Withers
<1>3. CASE DenyClaim \/ AbandonClaim
  <2>1. /\ challenges' = chs \/ challenges' = challenges
        /\ claims' = PruneClaims(claims) \/ claims' = claims
        /\ UNCHANGED nextClaim
    BY <1>3 DEF DenyClaim, AbandonClaim, store
  <2>2. WithinRetention' = WithinRetention /\ (WithinRetention => claims' = claims)
    BY <1>1, <2>1, SameClaims DEF WithinRetention
  <2> QED BY <1>2, <2>1, <2>2, WitherStep
<1>4. ASSUME NEW w \in Wallets, NEW i \in Installs, NEW r \in Requesters,
             NEW c \in DOMAIN challenges, NEW proof \in BOOLEAN, RejectClaim(w, i, r, c, proof)
      PROVE  ChallengeInv'
  <2>1. challenges' = SetChallengeStatus(chs, c, ChallengeStatus \ {"expired"}, "rejected")
    BY <1>4 DEF RejectClaim
  <2>2. Withers(challenges', challenges)
    <3> HIDE DEF chs
    <3>1. Withers(challenges', chs)
      BY <1>2, <2>1, SettingWithers
    <3> QED BY <1>2, <3>1, WithersTwice
  <2>3. WithinRetention' => WithinRetention
    BY <1>1, <1>4, TableAssumption DEF RejectClaim, WithinRetention
  <2>4. WithinRetention => \A k \in DOMAIN claims : k \in DOMAIN claims' /\ claims'[k] = claims[k]
    BY <1>1, <1>4, SameClaims DEF RejectClaim, Insert
  <2> QED BY <2>2, <2>3, <2>4, WitherStep DEF Pending
<1>5. ASSUME NEW w \in Wallets, NEW i \in Installs, NEW r \in Requesters,
             NEW c \in DOMAIN challenges, AcceptClaim(w, i, r, c)
      PROVE  ChallengeInv'
  <2> SUFFICES ASSUME WithinRetention' PROVE Funded' /\ Distinct'
    BY DEF ChallengeInv
  <2>1. WithinRetention /\ MaxStoredClaims \in Nat /\ nextClaim' = nextClaim + 1
    BY <1>1, <1>5, TableAssumption DEF AcceptClaim, WithinRetention
  <2> DEFINE new == NewClaim(w, i, r, c, "pending_funding")
             added == Insert(claims, nextClaim, new)
             funded == [chs EXCEPT ![c].status = "funding"]
  <2>2. /\ claims' = PruneClaims(added) /\ challenges' = PruneChallenges(funded, seen)
        /\ c \in DOMAIN chs /\ IsClaimable(chs[c], w, i, TRUE)
    BY <1>1, <1>5, <2>1, SameClaims DEF AcceptClaim
  <2>3. /\ new.challenge = c /\ new.wallet = w /\ new.install = i
        /\ new.status = "pending_funding" /\ new \in Claim
    <3>1. new \in Claim
      BY Numbers, NewClaimType DEF GrantInv, ClaimStatus
    <3> QED BY <3>1 DEF NewClaim
  <2> HIDE DEF new
  <2>4. claims' = added
    <3>1. DOMAIN added \subseteq 1..nextClaim /\ nextClaim <= MaxStoredClaims
      BY <1>1, <2>1 DEF Insert, WithinRetention, TypeOK
    <3>2. added \in [DOMAIN added -> Claim]
      BY <1>1, <2>3 DEF Insert
    <3> HIDE DEF added
    <3>3. DOMAIN PruneClaims(added) = DOMAIN added
      BY <1>1, <3>1, PruneClaimsRetains
    <3>4. PruneClaims(added) = added
      BY <3>2, <3>3, PruneClaimsKeeps
    <3> QED BY <2>2, <3>4
  <2>5. /\ nextClaim \in DOMAIN claims' /\ claims'[nextClaim] = new
        /\ \A k \in DOMAIN claims : k \in DOMAIN claims' /\ claims'[k] = claims[k]
    BY <1>1, <2>4 DEF Insert
  <2>6. /\ funded \in [DOMAIN funded -> Challenge] /\ DOMAIN funded = DOMAIN chs
        /\ funded[c].wallet = w /\ funded[c].install = i /\ chs[c].status = "issued"
        /\ chs[c].wallet = w /\ chs[c].install = i
        /\ \A b \in DOMAIN chs : b # c => funded[b] = chs[b]
    <3> HIDE DEF chs
    <3> QED BY <1>2, <2>2 DEF IsClaimable, Challenge, ChallengeStatus
  <2>7. Withers(challenges', funded)
    <3> HIDE DEF funded
    <3> QED BY <1>1, <2>2, <2>6, PruneWithers
  <2> HIDE DEF chs, funded
  <2>8. \A b \in DOMAIN challenges' :
          /\ b \in DOMAIN challenges /\ challenges'[b].wallet = challenges[b].wallet
          /\ challenges'[b].install = challenges[b].install
          /\ IsOpen(challenges'[b]) => IsOpen(challenges[b])
          /\ b # c /\ challenges'[b].status = "funding" => challenges[b].status = "funding"
          /\ b = c => challenges'[b].wallet = w /\ challenges'[b].install = i
    BY <1>2, <2>6, <2>7 DEF Withers, IsOpen
  <2>9. Funded'
    <3> SUFFICES ASSUME NEW b \in DOMAIN challenges', challenges'[b].status = "funding"
        PROVE  \E k \in Pending(claims') :
                 /\ claims'[k].challenge = b /\ claims'[k].wallet = challenges'[b].wallet
                 /\ claims'[k].install = challenges'[b].install
      BY DEF Funded
    <3>1. CASE b = c
      BY <2>3, <2>5, <2>8, <3>1 DEF Pending
    <3>2. CASE b # c
      BY <2>1, <2>5, <2>8, <3>2 DEF ChallengeInv, Funded, Pending
    <3> QED BY <3>1, <3>2
  <2>10. Distinct'
    BY <2>1, <2>8 DEF ChallengeInv, Distinct
  <2> QED BY <2>9, <2>10
<1> QED BY <1>3, <1>4, <1>5 DEF EndClaim

\* When a payout ends, the challenge of its claim is not being funded any more.
LEMMA RecordChallenges ==
  ASSUME GrantInv, ChallengeInv, Record
  PROVE  ChallengeInv'
<1>1. /\ 1 \in DOMAIN queue /\ Current = queue[1]
      /\ challenges \in [DOMAIN challenges -> Challenge]
      /\ claims \in [DOMAIN claims -> Claim]
  <2>1. phase # "idle"
    BY DEF Record, RecordSendFailure, RecordBroadcast, RecordTimeOut, RecordWaitFailure,
           RecordConfirmation, FailRecord
  <2> QED BY <2>1, InProcessFacts DEF GrantInv, PayoutsMatchRecords, InProcess, TypeOK
<1>2. /\ UNCHANGED nextClaim /\ WithinRetention' = WithinRetention
  BY DEF Record, RecordSendFailure, RecordBroadcast, RecordTimeOut, RecordWaitFailure,
         RecordConfirmation, FailRecord, store, WithinRetention
<1>3. Current.claim \in DOMAIN claims => claims[Current.claim].challenge = Current.challenge
  BY <1>1 DEF GrantInv, PayoutsMatchRecords, JobsArePending
<1>4. ASSUME NEW from, NEW to, claims' = SetClaimStatus(claims, Current.claim, from, to),
             Withers(challenges', challenges),
             \A c \in DOMAIN challenges' :
               c = Current.challenge => challenges'[c].status # "funding"
      PROVE  ChallengeInv'
  <2>1. \A k \in DOMAIN claims : k # Current.claim =>
          k \in DOMAIN claims' /\ claims'[k] = claims[k]
    BY <1>4 DEF SetClaimStatus
  <2>2. ASSUME NEW k \in Pending(claims)
        PROVE  \/ /\ k \in Pending(claims') /\ claims'[k].challenge = claims[k].challenge
                  /\ claims'[k].wallet = claims[k].wallet
                  /\ claims'[k].install = claims[k].install
               \/ \A c \in DOMAIN challenges' :
                    c = claims[k].challenge => challenges'[c].status # "funding"
    BY <1>3, <1>4, <2>1 DEF Pending
  <2> QED BY <1>2, <1>4, <2>2, WitherStep
<1>5. CASE RecordSendFailure \/ RecordWaitFailure
  <2>1. challenges' = Reopen(challenges, Current.challenge, clock)
    BY <1>5 DEF RecordSendFailure, RecordWaitFailure
  <2>2. Withers(challenges', challenges)
        /\ \A c \in DOMAIN challenges' :
             c = Current.challenge => challenges'[c].status # "funding"
    BY <1>1, <2>1, ReopenWithers DEF Withers
  <2> QED BY <1>4, <1>5, <2>2 DEF RecordSendFailure, RecordWaitFailure
<1>6. CASE RecordConfirmation
  <2>1. challenges' = SetChallengeStatus(challenges, Current.challenge, ChallengeStatus, "claimed")
    BY <1>6 DEF RecordConfirmation
  <2>2. Withers(challenges', challenges)
    BY <1>1, <2>1, SettingWithers
  <2>3. \A c \in DOMAIN challenges' :
          c = Current.challenge => challenges'[c].status # "funding"
    BY <1>1, <2>1 DEF SetChallengeStatus, Challenge
  <2> QED BY <1>4, <1>6, <2>2, <2>3 DEF RecordConfirmation
<1>7. CASE RecordTimeOut \/ FailRecord \/ RecordBroadcast
  <2>1. challenges' = challenges /\ Withers(challenges', challenges)
    BY <1>7 DEF RecordTimeOut, FailRecord, RecordBroadcast, store, Withers
  <2>2. \A k \in Pending(claims) :
          /\ k \in Pending(claims') /\ claims'[k].challenge = claims[k].challenge
          /\ claims'[k].wallet = claims[k].wallet /\ claims'[k].install = claims[k].install
    <3>1. CASE UNCHANGED claims
      BY <3>1
    <3>2. CASE RecordBroadcast
      <4>1. \A k \in DOMAIN claims : claims[k] \in Claim
        BY <1>1
      <4> QED BY <3>2, <4>1 DEF RecordBroadcast, Pending, Claim
    <3> QED BY <1>7, <3>1, <3>2 DEF RecordTimeOut, FailRecord, store
  <2> QED BY <1>2, <2>1, <2>2, WitherStep
<1> QED BY <1>5, <1>6, <1>7 DEF Record

\* Everything else leaves the store alone.
LEMMA ChallengeStep ==
  GrantInv /\ ChallengeInv /\ [Next]_vars => ChallengeInv'
<1> SUFFICES ASSUME GrantInv, ChallengeInv, [Next]_vars PROVE ChallengeInv'
  OBVIOUS
<1>1. CASE UNCHANGED store
  BY <1>1 DEF store, ChallengeInv, WithinRetention, Funded, Distinct
<1>2. SendOutcome \/ WaitOutcome \/ ChainStep \/ Tick \/ Crash \/ UNCHANGED vars
      => UNCHANGED store
  BY DEF SendOutcome, SendTransfer, FailSend, WaitOutcome, SeeReceipt, FailWait, TimeOutWait,
         ChainStep, TopUp, MineTransfer, RevertTransfer, DropTransfer, Settle, Tick, Crash, vars
<1> QED BY <1>1, <1>2, RequestChallenges, EndClaimChallenges, RecordChallenges DEF Next

\* Challenges fit claims in every state.
LEMMA ChallengesFit == Spec => []ChallengeInv
<1>1. Init => ChallengeInv
  BY DEF Init, ChallengeInv, Funded, Distinct
<1> QED BY <1>1, ChallengeStep, GrantInvHolds, PTL DEF Spec

----------------------------------------------------------------------------
\* A challenge is being funded only while its claim is pending: a payout that fails
\* reopens the challenge of its own claim and no other.
THEOREM FundingHasClaim == Spec => []FundingIsPending
<1>1. ChallengeInv => FundingIsPending
  BY DEF ChallengeInv, Funded, FundingIsPending
<1> QED BY <1>1, ChallengesFit, PTL

\* No identity has two challenges that it can still be paid for, although one that a
\* failed payout reopens may be older than one that was issued.
THEOREM OneChallengePerIdentity == Spec => []OneOpenChallenge
<1>1. ChallengeInv => OneOpenChallenge
  BY DEF ChallengeInv, Distinct, OneOpenChallenge, IsOpen
<1> QED BY <1>1, ChallengesFit, PTL

----------------------------------------------------------------------------
\* The limits of the service.  A step adds one challenge, or one claim, or makes none more
\* open and none more troublesome.

LEMMA Multiples ==
  /\ \A a, n \in Nat : a * n \in Nat /\ a * (n + 1) = a * n + a
  /\ \A a, m, n \in Nat : m <= n => a * m <= a * n
OBVIOUS

\* The records of each table are finitely many.
LEMMA FinitelyMany ==
  ASSUME TypeOK
  PROVE  /\ \A s : s \subseteq DOMAIN challenges => IsFiniteSet(s) /\ Cardinality(s) \in Nat
         /\ \A s : s \subseteq DOMAIN claims => IsFiniteSet(s) /\ Cardinality(s) \in Nat
         /\ \A s : s \subseteq DOMAIN transfers => IsFiniteSet(s) /\ Cardinality(s) \in Nat
<1>1. ASSUME NEW n \in Nat, NEW s, s \subseteq 1..n
      PROVE  IsFiniteSet(s) /\ Cardinality(s) \in Nat
  <2>1. IsFiniteSet(1..n)
    BY FS_Interval
  <2>2. IsFiniteSet(s)
    BY <1>1, <2>1, FS_Subset
  <2> QED BY <2>2, FS_CardinalityType
<1>2. nextChallenge - 1 \in Nat /\ nextClaim - 1 \in Nat
  BY LimitsAreNat DEF TypeOK
<1>3. DOMAIN transfers = 1..Len(transfers) /\ Len(transfers) \in Nat
  BY DEF TypeOK
<1>4. \A s : s \subseteq DOMAIN challenges => s \subseteq 1..(nextChallenge - 1)
  BY DEF TypeOK
<1>5. \A s : s \subseteq DOMAIN claims => s \subseteq 1..(nextClaim - 1)
  BY DEF TypeOK
<1> QED BY <1>1, <1>2, <1>3, <1>4, <1>5

\* A set with at most one element more than one that is below a limit.
LEMMA OneMore ==
  ASSUME NEW old, NEW new, NEW x, IsFiniteSet(old), new \subseteq old \cup {x},
         NEW limit \in Nat, Cardinality(old) < limit
  PROVE  Cardinality(new) <= limit
<1>1. IsFiniteSet(old \cup {x}) /\ Cardinality(old \cup {x}) <= Cardinality(old) + 1
  <2>1. Cardinality(old) \in Nat
    BY FS_CardinalityType
  <2> QED BY <2>1, FS_AddElement
<1>2. IsFiniteSet(new) /\ Cardinality(new) <= Cardinality(old \cup {x})
  BY <1>1, FS_Subset
<1> QED BY <1>1, <1>2, FS_CardinalityType

LEMMA NotMore ==
  ASSUME NEW old, NEW new, IsFiniteSet(old), new \subseteq old,
         NEW limit \in Nat, Cardinality(old) <= limit
  PROVE  Cardinality(new) <= limit
<1>1. IsFiniteSet(new) /\ Cardinality(new) <= Cardinality(old)
  BY FS_Subset
<1> QED BY <1>1, FS_CardinalityType

----------------------------------------------------------------------------
\* Open challenges, those being funded included.

OpenOfWallet(w) == {c \in DOMAIN challenges : IsOpen(challenges[c]) /\ challenges[c].wallet = w}
OpenOfInstall(i) == {c \in DOMAIN challenges : IsOpen(challenges[c]) /\ challenges[c].install = i}

OpenInv ==
  WithinRetention =>
    /\ \A w \in Wallets : Cardinality(OpenOfWallet(w)) <= MaxOutstanding
    /\ \A i \in Installs : Cardinality(OpenOfInstall(i)) <= MaxOutstanding

Closes(new, old) ==
  \A c \in DOMAIN new :
    /\ c \in DOMAIN old
    /\ new[c].wallet = old[c].wallet /\ new[c].install = old[c].install
    /\ IsOpen(new[c]) => IsOpen(old[c])

\* Only a request for a challenge opens one.
LEMMA OnlyRequestsOpen ==
  ASSUME GrantInv, [Next]_vars
  PROVE  \/ Closes(challenges', challenges)
         \/ \E now \in seen..clock, w \in Wallets, i \in Installs : IssueChallenge(w, i, now)
<1>1. /\ seen \in Nat /\ challenges \in [DOMAIN challenges -> Challenge]
      /\ \A now \in seen..clock : now \in Nat
  BY DEF GrantInv, TypeOK
<1>2. Withers(challenges, challenges) /\ \A new : Withers(new, challenges) => Closes(new, challenges)
  BY DEF Withers, Closes
<1>3. \A now \in Nat : Withers(PruneChallenges(challenges, now), challenges)
  BY <1>1, PruneWithers
<1>4. Request => \/ Closes(challenges', challenges)
                 \/ \E now \in seen..clock, w \in Wallets, i \in Installs : IssueChallenge(w, i, now)
  BY <1>1, <1>2, <1>3 DEF Request, PruneStore, BeginClaim, store
<1>5. ASSUME NEW w \in Wallets, NEW i \in Installs, NEW r \in Requesters,
             NEW c \in DOMAIN challenges, NEW proof \in BOOLEAN, RejectClaim(w, i, r, c, proof)
      PROVE  Closes(challenges', challenges)
  <2> DEFINE chs == PruneChallenges(challenges, seen)
  <2>1. challenges' = SetChallengeStatus(chs, c, ChallengeStatus \ {"expired"}, "rejected")
    BY <1>5 DEF RejectClaim
  <2>2. chs \in [DOMAIN chs -> Challenge] /\ Withers(chs, challenges)
    BY <1>1, <1>3, PruneChallengesType
  <2> HIDE DEF chs
  <2>3. Withers(challenges', chs)
    BY <2>1, <2>2, SettingWithers
  <2> QED BY <1>2, <2>2, <2>3, WithersTwice
<1>6. ASSUME NEW w \in Wallets, NEW i \in Installs, NEW r \in Requesters,
             NEW c \in DOMAIN challenges, AcceptClaim(w, i, r, c)
      PROVE  Closes(challenges', challenges)
  <2> DEFINE chs == PruneChallenges(challenges, seen)
             funded == [chs EXCEPT ![c].status = "funding"]
  <2>1. /\ challenges' = PruneChallenges(funded, seen)
        /\ c \in DOMAIN chs /\ chs[c].status = "issued"
    BY <1>6 DEF AcceptClaim, IsClaimable
  <2>2. chs \in [DOMAIN chs -> Challenge] /\ Withers(chs, challenges)
    BY <1>1, <1>3, PruneChallengesType
  <2> HIDE DEF chs
  <2>3. /\ funded \in [DOMAIN funded -> Challenge] /\ DOMAIN funded = DOMAIN chs
        /\ \A b \in DOMAIN chs : /\ funded[b].wallet = chs[b].wallet
                                 /\ funded[b].install = chs[b].install
                                 /\ IsOpen(funded[b]) => IsOpen(chs[b])
    BY <2>1, <2>2 DEF Challenge, ChallengeStatus, IsOpen
  <2> HIDE DEF funded
  <2>4. Withers(challenges', funded)
    BY <1>1, <2>1, <2>3, PruneWithers
  <2> QED BY <2>2, <2>3, <2>4 DEF Withers, Closes
<1>7. DenyClaim \/ AbandonClaim => Closes(challenges', challenges)
  BY <1>1, <1>2, <1>3 DEF DenyClaim, AbandonClaim, store
<1>8. Record => Closes(challenges', challenges)
  <2>1. RecordSendFailure \/ RecordWaitFailure =>
          challenges' = Reopen(challenges, Current.challenge, clock)
    BY DEF RecordSendFailure, RecordWaitFailure
  <2>2. RecordConfirmation => challenges' =
          SetChallengeStatus(challenges, Current.challenge, ChallengeStatus, "claimed")
    BY DEF RecordConfirmation
  <2>3. RecordBroadcast \/ RecordTimeOut \/ FailRecord => challenges' = challenges
    BY DEF RecordBroadcast, RecordTimeOut, FailRecord, store
  <2>4. Withers(Reopen(challenges, Current.challenge, clock), challenges)
    BY <1>1, ReopenWithers
  <2>5. Withers(SetChallengeStatus(challenges, Current.challenge, ChallengeStatus, "claimed"),
                challenges)
    BY <1>1, SettingWithers
  <2> QED BY <1>2, <2>1, <2>2, <2>3, <2>4, <2>5 DEF Record
<1>9. SendOutcome \/ WaitOutcome \/ ChainStep \/ Tick \/ Crash \/ UNCHANGED vars
      => challenges' = challenges
  BY DEF SendOutcome, SendTransfer, FailSend, WaitOutcome, SeeReceipt, FailWait, TimeOutWait,
         ChainStep, TopUp, MineTransfer, RevertTransfer, DropTransfer, Settle, Tick, Crash, vars,
         store
<1> QED BY <1>2, <1>4, <1>5, <1>6, <1>7, <1>8, <1>9 DEF Next, EndClaim

\* The number of claim records made only grows.
LEMMA RetentionIsLost ==
  ASSUME GrantInv, [Next]_vars, WithinRetention'
  PROVE  WithinRetention
<1>1. nextClaim \in Nat /\ MaxStoredClaims \in Nat
  BY Numbers DEF GrantInv
<1>2. nextClaim' = nextClaim \/ nextClaim' = nextClaim + 1
  <2>1. Request \/ DenyClaim \/ AbandonClaim \/ UNCHANGED vars => nextClaim' = nextClaim
    BY DEF Request, PruneStore, BeginClaim, IssueChallenge, DenyClaim, AbandonClaim, vars, store
  <2>2. EndClaim => DenyClaim \/ AbandonClaim \/ nextClaim' = nextClaim + 1
    <3>1. ASSUME NEW w \in Wallets, NEW i \in Installs, NEW r \in Requesters,
                 NEW c \in DOMAIN challenges, AcceptClaim(w, i, r, c)
          PROVE  nextClaim' = nextClaim + 1
      BY <3>1 DEF AcceptClaim
    <3>2. ASSUME NEW w \in Wallets, NEW i \in Installs, NEW r \in Requesters,
                 NEW c \in DOMAIN challenges, NEW proof \in BOOLEAN, RejectClaim(w, i, r, c, proof)
          PROVE  nextClaim' = nextClaim + 1
      BY <3>2 DEF RejectClaim
    <3> QED BY <3>1, <3>2 DEF EndClaim
  <2>3. SendOutcome \/ WaitOutcome \/ ChainStep \/ Tick \/ Crash => nextClaim' = nextClaim
    BY DEF SendOutcome, SendTransfer, FailSend, WaitOutcome, SeeReceipt, FailWait, TimeOutWait,
           ChainStep, TopUp, MineTransfer, RevertTransfer, DropTransfer, Settle, Tick, Crash, store
  <2>4. Record => nextClaim' = nextClaim
    BY DEF Record, RecordSendFailure, RecordBroadcast, RecordTimeOut, RecordWaitFailure,
           RecordConfirmation, FailRecord, store
  <2> QED BY <2>1, <2>2, <2>3, <2>4 DEF Next
<1> QED BY <1>1, <1>2 DEF WithinRetention

LEMMA OpenStep ==
  ASSUME GrantInv, GrantInv', ChallengeInv, OpenInv, [Next]_vars
  PROVE  OpenInv'
<1> SUFFICES ASSUME WithinRetention'
             PROVE  /\ \A w \in Wallets : Cardinality(OpenOfWallet(w)') <= MaxOutstanding
                    /\ \A i \in Installs : Cardinality(OpenOfInstall(i)') <= MaxOutstanding
  BY DEF OpenInv
<1>1. WithinRetention /\ MaxOutstanding \in Nat
  BY RetentionIsLost, TableAssumption
<1>2. /\ \A w \in Wallets : IsFiniteSet(OpenOfWallet(w))
                            /\ Cardinality(OpenOfWallet(w)) <= MaxOutstanding
      /\ \A i \in Installs : IsFiniteSet(OpenOfInstall(i))
                             /\ Cardinality(OpenOfInstall(i)) <= MaxOutstanding
  <2>1. /\ \A w \in Wallets : OpenOfWallet(w) \subseteq DOMAIN challenges
        /\ \A i \in Installs : OpenOfInstall(i) \subseteq DOMAIN challenges
    BY DEF OpenOfWallet, OpenOfInstall
  <2> QED BY <1>1, <2>1, FinitelyMany DEF OpenInv, GrantInv
<1>3. CASE Closes(challenges', challenges)
  <2>1. /\ \A w \in Wallets : OpenOfWallet(w)' \subseteq OpenOfWallet(w)
        /\ \A i \in Installs : OpenOfInstall(i)' \subseteq OpenOfInstall(i)
    BY <1>3 DEF Closes, OpenOfWallet, OpenOfInstall
  <2> QED BY <1>1, <1>2, <2>1, NotMore
<1>4. ASSUME NEW now \in seen..clock, NEW w \in Wallets, NEW i \in Installs,
             IssueChallenge(w, i, now)
      PROVE  /\ \A v \in Wallets : Cardinality(OpenOfWallet(v)') <= MaxOutstanding
             /\ \A v \in Installs : Cardinality(OpenOfInstall(v)') <= MaxOutstanding
  <2> DEFINE chs == PruneChallenges(challenges, now)
             new == [wallet |-> w, install |-> i, issuedAt |-> now, status |-> "issued"]
             added == Insert(chs, nextChallenge, new)
             held == OutstandingChallenges(chs, w, i)
  <2>1. now \in Nat /\ challenges \in [DOMAIN challenges -> Challenge]
    BY DEF GrantInv, TypeOK
  <2>2. /\ challenges' = PruneChallenges(added, now) /\ Cardinality(held) < MaxOutstanding
        /\ ~HasExistingClaim(claims, w, i)
    <3>1. PruneClaims(claims) = claims
      BY <1>1, SameClaims DEF GrantInv
    <3> QED BY <1>4, <3>1 DEF IssueChallenge
  <2>3. chs \in [DOMAIN chs -> Challenge] /\ Withers(chs, challenges)
    BY <2>1, PruneWithers, PruneChallengesType
  <2>4. held \subseteq DOMAIN challenges
    BY <2>3 DEF OutstandingChallenges, Withers
  <2>5. new \in Challenge /\ new.wallet = w /\ new.install = i
    BY <2>1 DEF Challenge, ChallengeStatus
  <2> HIDE DEF chs, new
  <2>6. /\ added \in [DOMAIN added -> Challenge] /\ DOMAIN added = DOMAIN chs \cup {nextChallenge}
        /\ added[nextChallenge] = new
        /\ \A c \in DOMAIN chs : c # nextChallenge => added[c] = chs[c]
    BY <2>3, <2>5 DEF Insert
  <2> HIDE DEF added
  <2>7. Withers(challenges', added)
    BY <2>1, <2>2, <2>6, PruneWithers
  <2>8. \A c \in DOMAIN challenges' : IsOpen(challenges'[c]) =>
          \/ c = nextChallenge /\ challenges'[c].wallet = w /\ challenges'[c].install = i
          \/ /\ c \in DOMAIN chs /\ IsOpen(chs[c])
             /\ challenges'[c].wallet = chs[c].wallet /\ challenges'[c].install = chs[c].install
    BY <2>5, <2>6, <2>7 DEF Withers
  <2>9. \A c \in DOMAIN chs :
          /\ c \in DOMAIN challenges
          /\ IsOpen(chs[c]) => IsOpen(challenges[c])
          /\ chs[c].wallet = challenges[c].wallet /\ chs[c].install = challenges[c].install
          /\ chs[c].status = "funding" => challenges[c].status = "funding"
    BY <2>3 DEF Withers
  <2>10. \A c \in DOMAIN chs :
           IsOpen(chs[c]) /\ (chs[c].wallet = w \/ chs[c].install = i) => c \in held
    <3> SUFFICES ASSUME NEW c \in DOMAIN chs, IsOpen(chs[c]), chs[c].wallet = w \/ chs[c].install = i
                 PROVE  chs[c].status = "issued"
      BY DEF OutstandingChallenges
    <3>1. CASE chs[c].status = "funding"
      <4>1. PICK k \in Pending(claims) : claims[k].wallet = w \/ claims[k].install = i
        BY <1>1, <2>9, <3>1 DEF ChallengeInv, Funded
      <4> QED BY <2>2, <4>1 DEF HasExistingClaim, Pending, IsLive
    <3> QED BY <3>1 DEF IsOpen
  <2> HIDE DEF held
  <2>11. IsFiniteSet(held)
    BY <2>4, FinitelyMany DEF GrantInv
  <2>12. ASSUME NEW v \in Wallets PROVE Cardinality(OpenOfWallet(v)') <= MaxOutstanding
    <3>1. CASE v = w
      <4>1. OpenOfWallet(v)' \subseteq held \cup {nextChallenge}
        BY <2>8, <2>10, <3>1 DEF OpenOfWallet
      <4> QED BY <1>1, <2>2, <2>11, <4>1, OneMore
    <3>2. CASE v # w
      <4>1. OpenOfWallet(v)' \subseteq OpenOfWallet(v)
        BY <2>8, <2>9, <3>2 DEF OpenOfWallet
      <4> QED BY <1>1, <1>2, <4>1, NotMore
    <3> QED BY <3>1, <3>2
  <2>13. ASSUME NEW v \in Installs PROVE Cardinality(OpenOfInstall(v)') <= MaxOutstanding
    <3>1. CASE v = i
      <4>1. OpenOfInstall(v)' \subseteq held \cup {nextChallenge}
        BY <2>8, <2>10, <3>1 DEF OpenOfInstall
      <4> QED BY <1>1, <2>2, <2>11, <4>1, OneMore
    <3>2. CASE v # i
      <4>1. OpenOfInstall(v)' \subseteq OpenOfInstall(v)
        BY <2>8, <2>9, <3>2 DEF OpenOfInstall
      <4> QED BY <1>1, <1>2, <4>1, NotMore
    <3> QED BY <3>1, <3>2
  <2> QED BY <2>12, <2>13
<1> QED BY <1>3, <1>4, OnlyRequestsOpen

----------------------------------------------------------------------------
\* Failures.  A pending claim counts as one too, as it may still fail.

Troubled(claim) == claim.status \in {"pending_funding", "rejected", "funding_failed"}
TroubledIn(t) ==
  {k \in DOMAIN claims : Troubled(claims[k]) /\ claims[k].createdAt \in (t - RejectWindow)..t}

FailuresInv ==
  \A t \in Nat :
    /\ \A w \in Wallets : Cardinality({k \in TroubledIn(t) : claims[k].wallet = w}) <= RejectLimit
    /\ \A i \in Installs : Cardinality({k \in TroubledIn(t) : claims[k].install = i}) <= RejectLimit

Calms(new, old) ==
  \A k \in DOMAIN new :
    /\ k \in DOMAIN old
    /\ new[k].wallet = old[k].wallet /\ new[k].install = old[k].install
    /\ new[k].createdAt = old[k].createdAt
    /\ Troubled(new[k]) => Troubled(old[k])

\* The record of a claim that passed the checks is added.
Admits(w, i, r) ==
  /\ IsAdmitted(PruneClaims(claims), w, i, r)
  /\ \E new \in Claim :
       /\ new.wallet = w /\ new.install = i /\ new.createdAt = seen
       /\ Part(claims', Insert(PruneClaims(claims), nextClaim, new))

LEMMA RejectAdmits ==
  ASSUME GrantInv, NEW w \in Wallets, NEW i \in Installs, NEW r \in Requesters,
         NEW c \in DOMAIN challenges, NEW proof \in BOOLEAN, RejectClaim(w, i, r, c, proof)
  PROVE  Admits(w, i, r)
<1> DEFINE new == NewClaim(w, i, r, c, "rejected")
           added == Insert(PruneClaims(claims), nextClaim, new)
<1>1. claims' = added /\ IsAdmitted(PruneClaims(claims), w, i, r)
  BY DEF RejectClaim
<1>2. new \in Claim
  BY Numbers, NewClaimType DEF GrantInv, ClaimStatus
<1>3. new.wallet = w /\ new.install = i /\ new.createdAt = seen
  BY <1>2 DEF NewClaim
<1>4. Part(claims', added)
  BY <1>1 DEF Part
<1> QED BY <1>1, <1>2, <1>3, <1>4 DEF Admits

LEMMA AcceptAdmits ==
  ASSUME GrantInv, NEW w \in Wallets, NEW i \in Installs, NEW r \in Requesters,
         NEW c \in DOMAIN challenges, AcceptClaim(w, i, r, c)
  PROVE  Admits(w, i, r)
<1>0. claims \in [DOMAIN claims -> Claim]
  BY DEF GrantInv, TypeOK
<1> DEFINE new == NewClaim(w, i, r, c, "pending_funding")
           added == Insert(PruneClaims(claims), nextClaim, new)
<1>1. claims' = PruneClaims(added) /\ IsAdmitted(PruneClaims(claims), w, i, r)
  BY DEF AcceptClaim
<1>2. new \in Claim
  BY Numbers, NewClaimType DEF GrantInv, ClaimStatus
<1>3. new.wallet = w /\ new.install = i /\ new.createdAt = seen
  BY <1>2 DEF NewClaim
<1> HIDE DEF new
<1>4. PruneClaims(claims) \in [DOMAIN PruneClaims(claims) -> Claim]
  BY <1>0, PruneClaimsKeeps
<1>5. added \in [DOMAIN added -> Claim]
  BY <1>2, <1>4 DEF Insert
<1>6. Part(claims', added)
  <2> HIDE DEF added
  <2> QED BY <1>1, <1>5, PrunedPart
<1> QED BY <1>1, <1>2, <1>3, <1>6 DEF Admits

LEMMA OnlyClaimsTrouble ==
  ASSUME GrantInv, [Next]_vars
  PROVE  \/ Calms(claims', claims)
         \/ \E w \in Wallets, i \in Installs, r \in Requesters : Admits(w, i, r)
<1>1. claims \in [DOMAIN claims -> Claim] /\ nextClaim \in Nat
  BY DEF GrantInv, TypeOK
<1>2. /\ Calms(claims, claims) /\ Calms(PruneClaims(claims), claims)
  BY <1>1, PrunedPart DEF Part, Calms
<1>3. Request \/ DenyClaim \/ AbandonClaim => Calms(claims', claims)
  BY <1>2 DEF Request, PruneStore, BeginClaim, IssueChallenge, DenyClaim, AbandonClaim, store
<1>4. SendOutcome \/ WaitOutcome \/ ChainStep \/ Tick \/ Crash \/ UNCHANGED vars
      => claims' = claims
  BY DEF SendOutcome, SendTransfer, FailSend, WaitOutcome, SeeReceipt, FailWait, TimeOutWait,
         ChainStep, TopUp, MineTransfer, RevertTransfer, DropTransfer, Settle, Tick, Crash, vars,
         store
<1>5. ASSUME Record
      PROVE  Calms(claims', claims)
  <2>1. ASSUME NEW from, NEW to \in ClaimStatus,
               claims' = SetClaimStatus(claims, Current.claim, from, to)
        PROVE  Calms(claims', claims)
    <3>1. phase # "idle"
      BY <1>5 DEF Record, RecordSendFailure, RecordBroadcast, RecordTimeOut, RecordWaitFailure,
                  RecordConfirmation, FailRecord
    <3>2. 1 \in DOMAIN queue /\ Current = queue[1]
      BY <3>1, InProcessFacts DEF GrantInv, PayoutsMatchRecords, InProcess
    <3>3. Current.claim \in DOMAIN claims => Troubled(claims[Current.claim])
      BY <3>2 DEF GrantInv, PayoutsMatchRecords, JobsArePending, Troubled
    <3>4. DOMAIN claims' = DOMAIN claims
      BY <1>1, <2>1 DEF SetClaimStatus
    <3>5. \A k \in DOMAIN claims :
            /\ claims'[k].wallet = claims[k].wallet /\ claims'[k].install = claims[k].install
            /\ claims'[k].createdAt = claims[k].createdAt
            /\ k # Current.claim => claims'[k] = claims[k]
      BY <1>1, <2>1 DEF SetClaimStatus, Claim
    <3> QED BY <3>3, <3>4, <3>5 DEF Calms
  <2>2. RecordSendFailure \/ RecordWaitFailure \/ RecordConfirmation => Calms(claims', claims)
    BY <2>1 DEF RecordSendFailure, RecordWaitFailure, RecordConfirmation, ClaimStatus
  <2>3. RecordBroadcast => Calms(claims', claims)
    <3> SUFFICES ASSUME RecordBroadcast PROVE Calms(claims', claims)
      OBVIOUS
    <3>1. DOMAIN claims' = DOMAIN claims
      BY <1>1 DEF RecordBroadcast
    <3>2. \A k \in DOMAIN claims :
            /\ claims'[k].wallet = claims[k].wallet /\ claims'[k].install = claims[k].install
            /\ claims'[k].createdAt = claims[k].createdAt /\ claims'[k].status = claims[k].status
      BY <1>1 DEF RecordBroadcast, Claim
    <3> QED BY <3>1, <3>2 DEF Calms, Troubled
  <2>4. RecordTimeOut \/ FailRecord => claims' = claims
    BY DEF RecordTimeOut, FailRecord, store
  <2> QED BY <1>2, <1>5, <2>2, <2>3, <2>4 DEF Record
<1> QED BY <1>2, <1>3, <1>4, <1>5, AcceptAdmits, RejectAdmits DEF Next, EndClaim

LEMMA FailuresStep ==
  ASSUME GrantInv, GrantInv', FailuresInv, [Next]_vars
  PROVE  FailuresInv'
<1> SUFFICES ASSUME NEW t \in Nat
             PROVE  /\ \A w \in Wallets :
                         Cardinality({k \in TroubledIn(t) : claims[k].wallet = w}') <= RejectLimit
                    /\ \A i \in Installs :
                         Cardinality({k \in TroubledIn(t) : claims[k].install = i}') <= RejectLimit
  BY DEF FailuresInv
<1> DEFINE OfWallet(w) == {k \in TroubledIn(t) : claims[k].wallet = w}
           OfInstall(i) == {k \in TroubledIn(t) : claims[k].install = i}
<1>1. RejectLimit \in Nat /\ RejectWindow \in Nat /\ seen \in Nat
  BY TableAssumption DEF GrantInv, TypeOK
<1>2. /\ \A w \in Wallets : IsFiniteSet(OfWallet(w)) /\ Cardinality(OfWallet(w)) <= RejectLimit
      /\ \A i \in Installs : IsFiniteSet(OfInstall(i)) /\ Cardinality(OfInstall(i)) <= RejectLimit
  <2>1. /\ \A w \in Wallets : OfWallet(w) \subseteq DOMAIN claims
        /\ \A i \in Installs : OfInstall(i) \subseteq DOMAIN claims
    BY DEF TroubledIn
  <2> QED BY <2>1, FinitelyMany DEF FailuresInv, GrantInv
<1>3. CASE Calms(claims', claims)
  <2>1. /\ \A w \in Wallets : OfWallet(w)' \subseteq OfWallet(w)
        /\ \A i \in Installs : OfInstall(i)' \subseteq OfInstall(i)
    BY <1>3 DEF Calms, TroubledIn
  <2> HIDE DEF OfWallet, OfInstall
  <2>2. /\ \A w \in Wallets : Cardinality(OfWallet(w)') <= RejectLimit
        /\ \A i \in Installs : Cardinality(OfInstall(i)') <= RejectLimit
    BY <1>1, <1>2, <2>1, NotMore
  <2> QED BY <2>2 DEF OfWallet, OfInstall
<1>4. ASSUME NEW w \in Wallets, NEW i \in Installs, NEW r \in Requesters, Admits(w, i, r)
      PROVE  /\ \A v \in Wallets : Cardinality(OfWallet(v)') <= RejectLimit
             /\ \A v \in Installs : Cardinality(OfInstall(v)') <= RejectLimit
  <2> DEFINE cls == PruneClaims(claims)
             recent == RecentFailures(cls, w, i, r, seen)
  <2>1. PICK new \in Claim :
          /\ new.wallet = w /\ new.install = i /\ new.createdAt = seen
          /\ Part(claims', Insert(cls, nextClaim, new))
    BY <1>4 DEF Admits
  <2>2. ~HasExistingClaim(cls, w, i) /\ Cardinality(recent) < RejectLimit
    <3>1. Cardinality(recent) \in Nat
      <4>1. recent \subseteq DOMAIN claims
        BY PruneClaimsKeeps DEF RecentFailures, GrantInv, TypeOK
      <4> QED BY <4>1, FinitelyMany DEF GrantInv
    <3> QED BY <1>1, <1>4, <3>1 DEF Admits, IsAdmitted, IsLockedOut
  <2>3. Part(cls, claims) /\ cls \in [DOMAIN cls -> Claim]
    BY PrunedPart, PruneClaimsKeeps DEF GrantInv, TypeOK
  <2> HIDE DEF cls
  <2>4. IsFiniteSet(recent)
    <3>1. recent \subseteq DOMAIN claims
      BY <2>3 DEF RecentFailures, Part
    <3> QED BY <3>1, FinitelyMany DEF GrantInv
  <2>5. \A k \in DOMAIN claims' :
          \/ k = nextClaim /\ claims'[k] = new
          \/ k \in DOMAIN cls /\ k \in DOMAIN claims /\ claims'[k] = cls[k] /\ claims'[k] = claims[k]
    BY <2>1, <2>3 DEF Part, Insert
  <2>6. \A k \in DOMAIN cls : Troubled(cls[k]) /\ (cls[k].wallet = w \/ cls[k].install = i)
          /\ cls[k].createdAt >= seen - RejectWindow => k \in recent
    BY <2>2 DEF HasExistingClaim, IsLive, Troubled, RecentFailures, HasFailed
  <2> HIDE DEF recent
  <2>7. ASSUME NEW k \in (TroubledIn(t))', claims'[k] = new, k = nextClaim
        PROVE  seen \in (t - RejectWindow)..t
    BY <2>1, <2>7 DEF TroubledIn
  <2>8. ASSUME NEW k \in (TroubledIn(t))', claims'[k] # new \/ k # nextClaim
        PROVE  /\ k \in TroubledIn(t) /\ k \in DOMAIN cls /\ claims'[k] = claims[k]
               /\ cls[k] = claims[k] /\ Troubled(cls[k])
               /\ cls[k].createdAt >= t - RejectWindow /\ cls[k].createdAt \in Nat
    <3>1. k \in DOMAIN claims'
      BY DEF TroubledIn
    <3>2. k \in DOMAIN cls /\ k \in DOMAIN claims /\ claims'[k] = cls[k] /\ claims'[k] = claims[k]
      BY <2>5, <2>8, <3>1
    <3>3. claims[k].createdAt \in Nat
      BY <3>2 DEF GrantInv, TypeOK, Claim
    <3> QED BY <1>1, <3>2, <3>3 DEF TroubledIn
  <2>9. ASSUME NEW v \in Wallets PROVE Cardinality(OfWallet(v)') <= RejectLimit
    <3>1. CASE v = w /\ seen \in (t - RejectWindow)..t
      <4>1. OfWallet(v)' \subseteq recent \cup {nextClaim}
        BY <1>1, <2>6, <2>8, <3>1
      <4> QED BY <1>1, <2>2, <2>4, <4>1, OneMore
    <3>2. CASE ~(v = w /\ seen \in (t - RejectWindow)..t)
      <4>1. OfWallet(v)' \subseteq OfWallet(v)
        BY <2>1, <2>7, <2>8, <3>2
      <4> QED BY <1>1, <1>2, <4>1, NotMore
    <3> QED BY <3>1, <3>2
  <2>10. ASSUME NEW v \in Installs PROVE Cardinality(OfInstall(v)') <= RejectLimit
    <3>1. CASE v = i /\ seen \in (t - RejectWindow)..t
      <4>1. OfInstall(v)' \subseteq recent \cup {nextClaim}
        BY <1>1, <2>6, <2>8, <3>1
      <4> QED BY <1>1, <2>2, <2>4, <4>1, OneMore
    <3>2. CASE ~(v = i /\ seen \in (t - RejectWindow)..t)
      <4>1. OfInstall(v)' \subseteq OfInstall(v)
        BY <2>1, <2>7, <2>8, <3>2
      <4> QED BY <1>1, <1>2, <4>1, NotMore
    <3> QED BY <3>1, <3>2
  <2> QED BY <2>9, <2>10
<1> QED BY <1>3, <1>4, OnlyClaimsTrouble

----------------------------------------------------------------------------
\* Promised amounts.  What a claim that holds the lock was told of the balance is still
\* there, but for what was paid to pending claims since.

FailuresUnpaid ==
  \A k \in DOMAIN claims : claims[k].status = "funding_failed" => MinedFor(k) = {}

Paid == Pending(claims) \ Unpaid
Spent == {n \in DOMAIN transfers : transfers[n].status \in {"mined", "reverted"}}

AmountsInv ==
  WithinRetention /\ FailuresUnpaid =>
    /\ balance + GasSpent >= Amount * Cardinality(Unpaid)
    /\ reading => balance + GasSpent + Amount * Cardinality(Paid) >= balanceRead

AmountsAreNumbers ==
  /\ Amount \in Nat /\ Gas \in Nat /\ balance \in Nat /\ balanceRead \in Nat
  /\ IsFiniteSet(Pending(claims)) /\ Cardinality(Pending(claims)) \in Nat
  /\ IsFiniteSet(Unpaid) /\ Cardinality(Unpaid) \in Nat
  /\ IsFiniteSet(Paid) /\ Cardinality(Paid) \in Nat
  /\ IsFiniteSet(Spent) /\ Cardinality(Spent) \in Nat
  /\ GasSpent = Gas * Cardinality(Spent) /\ GasSpent \in Nat
  /\ Cardinality(Pending(claims)) = Cardinality(Unpaid) + Cardinality(Paid)

LEMMA AmountNumbers == TypeOK => AmountsAreNumbers
<1> SUFFICES ASSUME TypeOK PROVE AmountsAreNumbers
  OBVIOUS
<1>1. Pending(claims) \subseteq DOMAIN claims /\ Unpaid \subseteq Pending(claims)
      /\ Paid \subseteq Pending(claims) /\ Spent \subseteq DOMAIN transfers
  BY DEF Pending, Unpaid, Paid, Spent
<1>2. /\ IsFiniteSet(Pending(claims)) /\ Cardinality(Pending(claims)) \in Nat
      /\ IsFiniteSet(Unpaid) /\ Cardinality(Unpaid) \in Nat
      /\ IsFiniteSet(Paid) /\ Cardinality(Paid) \in Nat
      /\ IsFiniteSet(Spent) /\ Cardinality(Spent) \in Nat
  BY <1>1, FinitelyMany
<1>3. Amount \in Nat /\ Gas \in Nat /\ balance \in Nat /\ balanceRead \in Nat
  BY TableAssumption DEF TypeOK
<1>4. GasSpent = Gas * Cardinality(Spent)
  BY DEF GasSpent, Spent
<1>5. GasSpent \in Nat
  BY <1>2, <1>3, <1>4, Multiples
<1>6. Cardinality(Pending(claims)) = Cardinality(Unpaid) + Cardinality(Paid)
  <2>1. Unpaid \cup Paid = Pending(claims) /\ Unpaid \cap Paid = {}
    BY <1>1 DEF Paid
  <2>2. Cardinality(Unpaid \cup Paid)
          = Cardinality(Unpaid) + Cardinality(Paid) - Cardinality(Unpaid \cap Paid)
    BY <1>2, FS_Union
  <2>3. Cardinality(Unpaid \cap Paid) = 0
    BY <2>1, FS_EmptySet
  <2>4. Cardinality(Pending(claims)) = Cardinality(Unpaid) + Cardinality(Paid) - 0
    BY <2>1, <2>2, <2>3, Zenon
  <2>5. \A u, p \in Nat : u + p - 0 = u + p
    OBVIOUS
  <2> QED BY <1>2, <2>4, <2>5, Zenon
<1> QED BY <1>2, <1>3, <1>4, <1>5, <1>6 DEF AmountsAreNumbers

LEMMA AmountNumbersNext == TypeOK' => AmountsAreNumbers'
BY AmountNumbers, PTL

\* Once a failed claim was paid, it is so for good.
LEMMA PaidFailureStays ==
  ASSUME GrantInv, GrantInv', [Next]_vars, WithinRetention', FailuresUnpaid'
  PROVE  FailuresUnpaid
<1> SUFFICES ASSUME NEW k \in DOMAIN claims, claims[k].status = "funding_failed",
                    NEW n \in MinedFor(k)
             PROVE  FALSE
  BY DEF FailuresUnpaid
<1>1. k \in DOMAIN claims' /\ claims'[k].status = "funding_failed"
  <2>1. WithinRetention /\ claims \in [DOMAIN claims -> Claim]
    BY RetentionIsLost DEF GrantInv, TypeOK
  <2>2. PruneClaims(claims) = claims
    BY <2>1, SameClaims DEF GrantInv
  <2>3. CASE claims' = claims
    BY <2>3
  <2>4. ASSUME NEW from, NEW to, claims' = SetClaimStatus(claims, Current.claim, from, to), Record
        PROVE  k \in DOMAIN claims' /\ claims'[k].status = "funding_failed"
    <3>1. phase # "idle"
      BY <2>4 DEF Record, RecordSendFailure, RecordBroadcast, RecordTimeOut, RecordWaitFailure,
                  RecordConfirmation, FailRecord
    <3>2. 1 \in DOMAIN queue /\ Current = queue[1]
      BY <3>1, InProcessFacts DEF GrantInv, PayoutsMatchRecords, InProcess
    <3>3. k # Current.claim
      BY <3>2 DEF GrantInv, PayoutsMatchRecords, JobsArePending
    <3> QED BY <2>1, <2>4, <3>3 DEF SetClaimStatus
  <2>5. CASE Record
    <3>1. RecordBroadcast => k \in DOMAIN claims' /\ claims'[k].status = "funding_failed"
      BY <2>1 DEF RecordBroadcast, Claim
    <3> QED BY <2>3, <2>4, <2>5, <3>1
            DEF Record, RecordSendFailure, RecordTimeOut, RecordWaitFailure, RecordConfirmation,
                FailRecord, store
  <2>6. ASSUME NEW w \in Wallets, NEW i \in Installs, NEW r \in Requesters, Admits(w, i, r),
               DOMAIN claims' = 1..nextClaim
        PROVE  k \in DOMAIN claims' /\ claims'[k].status = "funding_failed"
    <3>1. PICK new \in Claim : Part(claims', Insert(claims, nextClaim, new))
      BY <2>2, <2>6 DEF Admits
    <3>2. nextClaim \in Nat /\ nextClaim \notin DOMAIN claims /\ k \in 1..nextClaim
      BY DEF GrantInv, TypeOK
    <3>3. k \in DOMAIN claims'
      BY <2>6, <3>2
    <3> QED BY <3>1, <3>2, <3>3 DEF Part, Insert
  <2>7. CASE EndClaim
    <3>1. ASSUME NEW w \in Wallets, NEW i \in Installs, NEW r \in Requesters,
                 NEW c \in DOMAIN challenges, AcceptClaim(w, i, r, c)
          PROVE  k \in DOMAIN claims' /\ claims'[k].status = "funding_failed"
      <4>1. Admits(w, i, r)
        BY <3>1, AcceptAdmits
      <4>2. nextClaim' = nextClaim + 1 /\ nextClaim \in Nat
        BY <3>1 DEF AcceptClaim, GrantInv, TypeOK
      <4>3. DOMAIN claims' = 1..nextClaim
        BY <4>2 DEF GrantInv, PayoutsMatchRecords, Retained
      <4> QED BY <2>6, <4>1, <4>3
    <3>2. ASSUME NEW w \in Wallets, NEW i \in Installs, NEW r \in Requesters,
                 NEW c \in DOMAIN challenges, NEW proof \in BOOLEAN, RejectClaim(w, i, r, c, proof)
          PROVE  k \in DOMAIN claims' /\ claims'[k].status = "funding_failed"
      <4>1. Admits(w, i, r)
        BY <3>2, RejectAdmits
      <4>2. nextClaim' = nextClaim + 1 /\ nextClaim \in Nat
        BY <3>2 DEF RejectClaim, GrantInv, TypeOK
      <4>3. DOMAIN claims' = 1..nextClaim
        BY <4>2 DEF GrantInv, PayoutsMatchRecords, Retained
      <4> QED BY <2>6, <4>1, <4>3
    <3> QED BY <2>2, <2>3, <2>7, <3>1, <3>2 DEF EndClaim, DenyClaim, AbandonClaim, store
  <2>8. Request \/ SendOutcome \/ WaitOutcome \/ ChainStep \/ Tick \/ Crash \/ UNCHANGED vars
        => claims' = claims
    BY <2>2 DEF Request, PruneStore, BeginClaim, IssueChallenge, SendOutcome, SendTransfer,
         FailSend, WaitOutcome, SeeReceipt, FailWait, TimeOutWait,
         ChainStep, TopUp, MineTransfer, RevertTransfer, DropTransfer, Settle, Tick, Crash, vars,
         store
  <2> QED BY <2>3, <2>5, <2>7, <2>8 DEF Next
<1>2. n \in MinedFor(k)'
  BY TransfersGrow DEF MinedFor, Mined
<1> QED BY <1>1, <1>2 DEF FailuresUnpaid

\* The tables and transfers of a step that neither pays nor admits a claim.
LEMMA SameAmounts ==
  ASSUME \A k \in Pending(claims') : k \in Pending(claims),
         Mined' = Mined, Spent' = Spent,
         \A n \in Mined : transfers'[n].claim = transfers[n].claim
  PROVE  /\ Unpaid' \subseteq Unpaid
         /\ Pending(claims') = Pending(claims) => Unpaid' = Unpaid /\ Paid' = Paid
         /\ GasSpent' = GasSpent
<1>1. \A k : MinedFor(k)' = MinedFor(k)
  BY DEF MinedFor
<1>2. Unpaid' = {k \in Pending(claims') : MinedFor(k) = {}}
  BY <1>1 DEF Unpaid
<1>3. Unpaid' \subseteq Unpaid
  BY <1>2 DEF Unpaid
<1>4. Pending(claims') = Pending(claims) => Unpaid' = Unpaid /\ Paid' = Paid
  BY <1>2 DEF Unpaid, Paid
<1>5. GasSpent' = GasSpent
  BY DEF GasSpent, Spent
<1> QED BY <1>3, <1>4, <1>5

\* Such a step keeps the invariant, as long as it takes nothing from the balance.
LEMMA QuietAmounts ==
  ASSUME GrantInv, GrantInv', [Next]_vars, AmountsInv, balance' \in Nat, balance' >= balance,
         \A k \in Pending(claims') : k \in Pending(claims),
         Mined' = Mined, Spent' = Spent,
         \A n \in Mined : transfers'[n].claim = transfers[n].claim,
         \/ ~reading'
         \/ balanceRead' = balance'
         \/ reading /\ balanceRead' = balanceRead /\ Pending(claims') = Pending(claims)
  PROVE  AmountsInv'
<1> SUFFICES ASSUME WithinRetention', FailuresUnpaid'
             PROVE  /\ balance' + GasSpent' >= Amount * Cardinality(Unpaid')
                    /\ reading' => balance' + GasSpent' + Amount * Cardinality(Paid') >= balanceRead'
  BY DEF AmountsInv
<1>1. WithinRetention /\ FailuresUnpaid
  BY RetentionIsLost, PaidFailureStays
<1>2. /\ balance + GasSpent >= Amount * Cardinality(Unpaid)
      /\ reading => balance + GasSpent + Amount * Cardinality(Paid) >= balanceRead
  BY <1>1 DEF AmountsInv
<1>3. AmountsAreNumbers /\ AmountsAreNumbers'
  BY AmountNumbers, AmountNumbersNext DEF GrantInv
<1>4. /\ Unpaid' \subseteq Unpaid /\ GasSpent' = GasSpent
      /\ Pending(claims') = Pending(claims) => Paid' = Paid
  BY SameAmounts
<1>5. balance' + GasSpent' >= Amount * Cardinality(Unpaid')
  <2>1. Cardinality(Unpaid') <= Cardinality(Unpaid)
    BY <1>3, <1>4, FS_Subset DEF AmountsAreNumbers
  <2>2. /\ Amount * Cardinality(Unpaid') <= Amount * Cardinality(Unpaid)
        /\ Amount * Cardinality(Unpaid') \in Nat /\ Amount * Cardinality(Unpaid) \in Nat
    BY <1>3, <2>1, Multiples DEF AmountsAreNumbers
  <2>3. \A u, v, b, c, g \in Nat : b + g >= u /\ v <= u /\ c >= b => c + g >= v
    OBVIOUS
  <2>4. balance \in Nat /\ GasSpent \in Nat
    BY <1>3 DEF AmountsAreNumbers
  <2>5. balance' + GasSpent >= Amount * Cardinality(Unpaid')
    BY <1>2, <2>2, <2>3, <2>4
  <2> QED BY <1>4, <2>5
<1>6. reading' => balance' + GasSpent' + Amount * Cardinality(Paid') >= balanceRead'
  <2>1. /\ balance \in Nat /\ balanceRead \in Nat /\ GasSpent \in Nat
        /\ Amount * Cardinality(Paid) \in Nat /\ Amount * Cardinality(Paid') \in Nat
    BY <1>3, Multiples DEF AmountsAreNumbers
  <2>2. CASE balanceRead' = balance'
    <3>1. \A b, g, p \in Nat : b + g + p >= b
      OBVIOUS
    <3>2. balance' + GasSpent + Amount * Cardinality(Paid') >= balance'
      BY <2>1, <3>1
    <3> QED BY <1>4, <2>2, <3>2
  <2>3. CASE reading /\ balanceRead' = balanceRead /\ Pending(claims') = Pending(claims)
    <3>1. \A r, b, c, g, p \in Nat : b + g + p >= r /\ c >= b => c + g + p >= r
      OBVIOUS
    <3>2. balance' + GasSpent + Amount * Cardinality(Paid) >= balanceRead
      BY <1>2, <2>1, <2>3, <3>1
    <3> QED BY <1>4, <2>3, <3>2
  <2> QED BY <2>2, <2>3
<1> QED BY <1>5, <1>6

\* A claim is accepted only if what it was told of the balance covers it, after all that is
\* promised to pending claims; what was paid to them since is in the sum already.
LEMMA AcceptAmounts ==
  ASSUME GrantInv, GrantInv', [Next]_vars, AmountsInv, NEW w \in Wallets, NEW i \in Installs,
         NEW r \in Requesters, NEW c \in DOMAIN challenges, AcceptClaim(w, i, r, c)
  PROVE  AmountsInv'
<1> SUFFICES ASSUME WithinRetention', FailuresUnpaid'
             PROVE  balance' + GasSpent' >= Amount * Cardinality(Unpaid')
  BY DEF AmountsInv, AcceptClaim, ReleaseLock
<1>1. WithinRetention /\ FailuresUnpaid
  BY RetentionIsLost, PaidFailureStays
<1>2. /\ reading /\ HasSufficientBalance(balanceRead, PruneClaims(claims))
      /\ UNCHANGED <<transfers, balance>>
  BY DEF AcceptClaim, IsAdmitted, chain
<1>3. balanceRead - Amount * Cardinality(Pending(claims)) >= Amount + Gas
  <2>1. PruneClaims(claims) = claims
    BY <1>1, SameClaims DEF GrantInv
  <2> QED BY <1>2, <2>1 DEF HasSufficientBalance
<1>4. balance + GasSpent + Amount * Cardinality(Paid) >= balanceRead
  BY <1>1, <1>2 DEF AmountsInv
<1>5. AmountsAreNumbers
  BY AmountNumbers DEF GrantInv
<1>6. Unpaid' \subseteq Unpaid \cup {nextClaim}
  <2>1. PICK new \in Claim : Part(claims', Insert(PruneClaims(claims), nextClaim, new))
    BY AcceptAdmits DEF Admits
  <2>2. Part(PruneClaims(claims), claims)
    BY PrunedPart DEF GrantInv, TypeOK
  <2>3. \A k \in DOMAIN claims' : k = nextClaim \/ (k \in DOMAIN claims /\ claims'[k] = claims[k])
    BY <2>1, <2>2 DEF Part, Insert
  <2>4. \A k : MinedFor(k)' = MinedFor(k)
    BY <1>2 DEF MinedFor, Mined
  <2>5. Unpaid' = {k \in Pending(claims') : MinedFor(k) = {}}
    BY <2>4 DEF Unpaid
  <2>6. ASSUME NEW k \in Unpaid', k # nextClaim PROVE k \in Unpaid
    <3>1. k \in Pending(claims') /\ MinedFor(k) = {}
      BY <2>5
    <3>2. k \in Pending(claims)
      BY <2>3, <2>6, <3>1 DEF Pending
    <3> QED BY <3>1, <3>2 DEF Unpaid
  <2> QED BY <2>6
<1>7. Cardinality(Unpaid') <= Cardinality(Unpaid) + 1 /\ Cardinality(Unpaid') \in Nat
  <2>1. IsFiniteSet(Unpaid \cup {nextClaim})
        /\ Cardinality(Unpaid \cup {nextClaim}) <= Cardinality(Unpaid) + 1
    <3>1. IsFiniteSet(Unpaid) /\ Cardinality(Unpaid) \in Nat
      BY <1>5 DEF AmountsAreNumbers
    <3> QED BY <3>1, FS_AddElement
  <2>2. IsFiniteSet(Unpaid') /\ Cardinality(Unpaid') <= Cardinality(Unpaid \cup {nextClaim})
    BY <1>6, <2>1, FS_Subset
  <2> QED BY <1>5, <2>1, <2>2, FS_CardinalityType DEF AmountsAreNumbers
<1>8. /\ Amount * Cardinality(Unpaid') <= Amount * (Cardinality(Unpaid) + 1)
      /\ Amount * (Cardinality(Unpaid) + 1) = Amount * Cardinality(Unpaid) + Amount
      /\ Amount * Cardinality(Unpaid') \in Nat
      /\ Amount * Cardinality(Unpaid) \in Nat /\ Amount * Cardinality(Paid) \in Nat
  <2>1. Cardinality(Unpaid) + 1 \in Nat /\ Amount \in Nat
    BY <1>5 DEF AmountsAreNumbers
  <2> QED BY <1>5, <1>7, <2>1, Multiples DEF AmountsAreNumbers
<1>9. Amount * Cardinality(Pending(claims))
        = Amount * Cardinality(Unpaid) + Amount * Cardinality(Paid)
  <2>1. \A a, m, n \in Nat : a * (m + n) = a * m + a * n
    OBVIOUS
  <2> QED BY <1>5, <2>1 DEF AmountsAreNumbers
<1>10. balance + GasSpent >= Amount * Cardinality(Unpaid) + Amount
  <2>1. \A b, g, p, u, r_, a, x \in Nat :
          r_ - (u + p) >= a + x /\ b + g + p >= r_ => b + g >= u + a
    OBVIOUS
  <2>2. balance \in Nat /\ GasSpent \in Nat /\ balanceRead \in Nat /\ Amount \in Nat /\ Gas \in Nat
    BY <1>5 DEF AmountsAreNumbers
  <2>3. balanceRead - (Amount * Cardinality(Unpaid) + Amount * Cardinality(Paid)) >= Amount + Gas
    BY <1>3, <1>9
  <2> QED BY <1>4, <1>8, <2>1, <2>2, <2>3
<1>11. balance' = balance /\ GasSpent' = GasSpent
  BY <1>2 DEF GasSpent
<1>12. balance + GasSpent >= Amount * Cardinality(Unpaid')
  <2>1. \A s, u, v \in Nat : s >= u /\ v <= u => s >= v
    OBVIOUS
  <2>2. balance + GasSpent \in Nat /\ Amount * Cardinality(Unpaid) + Amount \in Nat
    BY <1>5, <1>8 DEF AmountsAreNumbers
  <2>3. Amount * Cardinality(Unpaid') <= Amount * Cardinality(Unpaid) + Amount
    BY <1>8, Zenon
  <2> QED BY <1>8, <1>10, <2>1, <2>2, <2>3
<1> QED BY <1>11, <1>12

\* A transfer that is mined pays one of the claims that are promised their amount.
LEMMA MineAmounts ==
  ASSUME GrantInv, GrantInv', [Next]_vars, AmountsInv,
         NEW n \in DOMAIN transfers, MineTransfer(n)
  PROVE  AmountsInv'
<1> SUFFICES ASSUME WithinRetention', FailuresUnpaid'
             PROVE  /\ balance' + GasSpent' >= Amount * Cardinality(Unpaid')
                    /\ reading' => balance' + GasSpent' + Amount * Cardinality(Paid') >= balanceRead'
  BY DEF AmountsInv
<1>0. PICK k : k = transfers[n].claim
  OBVIOUS
<1>1. WithinRetention /\ FailuresUnpaid
  BY RetentionIsLost, PaidFailureStays
<1>2. /\ UNCHANGED <<claims, reading, balanceRead>> /\ transfers[n].status = "mempool"
      /\ transfers' = [transfers EXCEPT ![n].status = "mined"]
      /\ balance >= Amount + Gas /\ balance' = balance - (Amount + Gas)
  BY DEF MineTransfer, Settle, store, lock
<1>3. /\ DOMAIN transfers' = DOMAIN transfers
      /\ \A t \in DOMAIN transfers : t # n => transfers'[t] = transfers[t]
      /\ transfers'[n].status = "mined" /\ transfers'[n].claim = k
  <2>1. transfers[n] \in Transfer
    BY Numbers DEF GrantInv
  <2> QED BY <1>0, <1>2, <2>1 DEF Transfer
<1>4. n \notin Mined /\ Mined' = Mined \cup {n} /\ n \notin Spent /\ Spent' = Spent \cup {n}
  BY <1>2, <1>3 DEF Mined, Spent
<1>5. AmountsAreNumbers
  BY AmountNumbers DEF GrantInv
<1>6. k \in Unpaid
  <2>1. k \in DOMAIN claims
    <3>1. transfers[n] \in Transfer /\ k < nextClaim /\ nextClaim \in Nat
      BY <1>0, Numbers DEF GrantInv, PayoutsMatchRecords, TransfersHaveClaims
    <3>2. k \in 1..(nextClaim - 1)
      BY <1>0, <3>1, LimitsAreNat DEF Transfer, ClaimIds
    <3> QED BY <1>1, <3>2 DEF GrantInv, PayoutsMatchRecords, Retained
  <2>2. MinedFor(k) = {}
    BY <1>0, <1>2 DEF MinedFor, Mined, GrantInv, OneTransferPerClaim
  <2>3. claims[k].status # "funding_failed"
    <3>1. n \in MinedFor(k)'
      BY <1>3 DEF MinedFor, Mined
    <3>2. k \in DOMAIN claims' /\ claims'[k] = claims[k]
      BY <1>2, <2>1
    <3>3. \A j \in DOMAIN claims' : claims'[j].status = "funding_failed" =>
            ~\E t \in Mined' : transfers'[t].claim = j
      BY DEF FailuresUnpaid, MinedFor
    <3> QED BY <1>3, <1>4, <3>2, <3>3
  <2>4. claims[k].status # "claimed"
    BY <2>1, <2>2 DEF GrantInv, ClaimedIsPaid
  <2>5. claims[k].status # "rejected"
    BY <1>0, <2>1 DEF GrantInv, PayoutsMatchRecords, TransfersHaveClaims
  <2>6. claims[k].status \in ClaimStatus
    <3>1. claims[k] \in Claim
      BY <2>1 DEF GrantInv, TypeOK
    <3> QED BY <3>1 DEF Claim
  <2> QED BY <2>1, <2>2, <2>3, <2>4, <2>5, <2>6 DEF Unpaid, Pending, ClaimStatus
<1>7. Unpaid' = Unpaid \ {k} /\ Paid' = Paid \cup {k} /\ k \notin Paid
  <2>1. \A j \in DOMAIN claims : j # k => (MinedFor(j)' = {} <=> MinedFor(j) = {})
    BY <1>0, <1>3, <1>4 DEF MinedFor, Mined
  <2>2. MinedFor(k)' # {}
    BY <1>3, <1>4 DEF MinedFor
  <2>3. Pending(claims') = Pending(claims) /\ Pending(claims) \subseteq DOMAIN claims
    BY <1>2 DEF Pending
  <2> QED BY <1>6, <2>1, <2>2, <2>3 DEF Unpaid, Paid
<1>8. /\ Cardinality(Unpaid') + 1 = Cardinality(Unpaid) /\ Cardinality(Unpaid') \in Nat
      /\ Cardinality(Paid') = Cardinality(Paid) + 1
      /\ Cardinality(Spent') = Cardinality(Spent) + 1
  <2>1. IsFiniteSet(Unpaid') /\ Cardinality(Unpaid') = Cardinality(Unpaid) - 1
    BY <1>5, <1>6, <1>7, FS_RemoveElement DEF AmountsAreNumbers
  <2>2. Cardinality(Unpaid') \in Nat
    BY <2>1, FS_CardinalityType
  <2>3. Cardinality(Unpaid') + 1 = Cardinality(Unpaid)
    BY <1>5, <2>1, <2>2 DEF AmountsAreNumbers
  <2>4. Cardinality(Paid') = Cardinality(Paid) + 1
    BY <1>5, <1>7, FS_AddElement DEF AmountsAreNumbers
  <2>5. Cardinality(Spent') = Cardinality(Spent) + 1
    BY <1>4, <1>5, FS_AddElement DEF AmountsAreNumbers
  <2> QED BY <2>2, <2>3, <2>4, <2>5
<1>9. GasSpent' = GasSpent + Gas
  <2>1. GasSpent' = Gas * Cardinality(Spent')
    BY DEF GasSpent, Spent
  <2> QED BY <1>5, <1>8, <2>1, Multiples DEF AmountsAreNumbers
<1>10. /\ Amount * Cardinality(Unpaid) = Amount * Cardinality(Unpaid') + Amount
       /\ Amount * Cardinality(Paid') = Amount * Cardinality(Paid) + Amount
       /\ Amount * Cardinality(Unpaid') \in Nat /\ Amount * Cardinality(Paid) \in Nat
  <2>1. /\ Amount * (Cardinality(Unpaid') + 1) = Amount * Cardinality(Unpaid') + Amount
        /\ Amount * (Cardinality(Paid) + 1) = Amount * Cardinality(Paid) + Amount
        /\ Amount * Cardinality(Unpaid') \in Nat /\ Amount * Cardinality(Paid) \in Nat
    BY <1>5, <1>8, Multiples DEF AmountsAreNumbers
  <2> QED BY <1>8, <2>1, Zenon
<1>11. /\ Amount \in Nat /\ Gas \in Nat /\ balance \in Nat /\ balanceRead \in Nat
       /\ GasSpent \in Nat
  BY <1>5 DEF AmountsAreNumbers
<1>12. balance' + GasSpent' >= Amount * Cardinality(Unpaid')
  <2>1. balance + GasSpent >= Amount * Cardinality(Unpaid') + Amount
    BY <1>1, <1>10, Zenon DEF AmountsInv
  <2>2. \A a, g, b, s, u \in Nat : b >= a + g /\ b + s >= u + a => b - (a + g) + (s + g) >= u
    OBVIOUS
  <2> QED BY <1>2, <1>9, <1>10, <1>11, <2>1, <2>2
<1>13. reading' => balance' + GasSpent' + Amount * Cardinality(Paid') >= balanceRead'
  <2>1. reading => balance + GasSpent + Amount * Cardinality(Paid) >= balanceRead
    BY <1>1 DEF AmountsInv
  <2>2. \A a, g, b, s, p, r \in Nat :
          b >= a + g /\ b + s + p >= r => b - (a + g) + (s + g) + (p + a) >= r
    OBVIOUS
  <2> QED BY <1>2, <1>9, <1>10, <1>11, <2>1, <2>2
<1> QED BY <1>12, <1>13

\* A transfer that is reverted costs its gas.
LEMMA RevertAmounts ==
  ASSUME GrantInv, GrantInv', [Next]_vars, AmountsInv,
         NEW n \in DOMAIN transfers, RevertTransfer(n)
  PROVE  AmountsInv'
<1> SUFFICES ASSUME WithinRetention', FailuresUnpaid'
             PROVE  /\ balance' + GasSpent' >= Amount * Cardinality(Unpaid')
                    /\ reading' => balance' + GasSpent' + Amount * Cardinality(Paid') >= balanceRead'
  BY DEF AmountsInv
<1>1. WithinRetention /\ FailuresUnpaid
  BY RetentionIsLost, PaidFailureStays
<1>2. /\ UNCHANGED <<claims, reading, balanceRead>> /\ transfers[n].status = "mempool"
      /\ transfers' = [transfers EXCEPT ![n].status = "reverted"]
      /\ balance >= Gas /\ balance' = balance - Gas
  BY DEF RevertTransfer, Settle, store, lock
<1>3. /\ DOMAIN transfers' = DOMAIN transfers
      /\ \A t \in DOMAIN transfers : t # n => transfers'[t] = transfers[t]
      /\ transfers'[n].status = "reverted" /\ transfers'[n].claim = transfers[n].claim
  <2>1. transfers[n] \in Transfer
    BY Numbers DEF GrantInv
  <2> QED BY <1>2, <2>1 DEF Transfer
<1>4. Mined' = Mined /\ n \notin Spent /\ Spent' = Spent \cup {n}
  BY <1>2, <1>3 DEF Mined, Spent
<1>5. AmountsAreNumbers
  BY AmountNumbers DEF GrantInv
<1>6. Unpaid' = Unpaid /\ Paid' = Paid
  <2>1. \A j : MinedFor(j)' = MinedFor(j)
    BY <1>3, <1>4 DEF MinedFor, Mined
  <2>2. Pending(claims') = Pending(claims)
    BY <1>2
  <2> QED BY <2>1, <2>2 DEF Unpaid, Paid
<1>7. GasSpent' = GasSpent + Gas
  <2>1. GasSpent' = Gas * Cardinality(Spent')
    BY DEF GasSpent, Spent
  <2>2. Cardinality(Spent') = Cardinality(Spent) + 1
    BY <1>4, <1>5, FS_AddElement DEF AmountsAreNumbers
  <2> QED BY <1>5, <2>1, <2>2, Multiples DEF AmountsAreNumbers
<1>8. /\ Gas \in Nat /\ balance \in Nat /\ GasSpent \in Nat
  BY <1>5 DEF AmountsAreNumbers
<1>9. balance' + GasSpent' = balance + GasSpent
  BY <1>2, <1>7, <1>8
<1> QED BY <1>1, <1>2, <1>6, <1>9 DEF AmountsInv

LEMMA AmountsStep ==
  ASSUME GrantInv, GrantInv', [Next]_vars, AmountsInv
  PROVE  AmountsInv'
<1>1. claims \in [DOMAIN claims -> Claim] /\ TypeOK /\ TypeOK'
  BY DEF GrantInv, TypeOK
<1>2. balance \in Nat /\ balance' \in Nat /\ balanceRead \in Nat
  BY <1>1 DEF TypeOK
<1>3. \A k \in Pending(PruneClaims(claims)) : k \in Pending(claims)
  BY <1>1, PruneClaimsKeeps DEF Pending
<1>4. ASSUME UNCHANGED chain, \A k \in Pending(claims') : k \in Pending(claims),
             \/ ~reading'
             \/ balanceRead' = balance
             \/ reading /\ balanceRead' = balanceRead /\ Pending(claims') = Pending(claims)
      PROVE  AmountsInv'
  <2>1. transfers' = transfers /\ balance' = balance
    BY <1>4 DEF chain
  <2>2. Mined' = Mined /\ Spent' = Spent
    BY <2>1 DEF Mined, Spent
  <2>3. balance' >= balance /\ (balanceRead' = balance => balanceRead' = balance')
    BY <1>2, <2>1
  <2> QED BY <1>2, <1>4, <2>1, <2>2, <2>3, QuietAmounts
<1>5. CASE Request \/ DenyClaim \/ AbandonClaim
  <2>1. /\ UNCHANGED chain
        /\ claims' = claims \/ claims' = PruneClaims(claims)
        /\ ~reading' \/ balanceRead' = balance
    <3>1. CASE Request
      <4>1. PICK now \in seen..clock :
              \/ PruneStore(now)
              \/ BeginClaim(now)
              \/ \E w \in Wallets, i \in Installs : IssueChallenge(w, i, now)
        BY <3>1 DEF Request
      <4>2. ASSUME NEW w \in Wallets, NEW i \in Installs, IssueChallenge(w, i, now)
            PROVE  UNCHANGED chain /\ claims' = PruneClaims(claims) /\ ~reading'
        BY <4>2 DEF IssueChallenge, TakeLock, StoreIsFree
      <4>3. PruneStore(now) => UNCHANGED chain /\ claims' = PruneClaims(claims) /\ ~reading'
        BY DEF PruneStore, TakeLock, StoreIsFree
      <4>4. BeginClaim(now) => UNCHANGED chain /\ claims' = claims /\ balanceRead' = balance
        BY DEF BeginClaim, store
      <4> QED BY <4>1, <4>2, <4>3, <4>4
    <3>2. CASE DenyClaim \/ AbandonClaim
      BY <3>2 DEF DenyClaim, AbandonClaim, ReleaseLock, store
    <3> QED BY <1>5, <3>1, <3>2
  <2> QED BY <1>3, <1>4, <2>1
<1>6. CASE WaitOutcome \/ Tick \/ Crash \/ UNCHANGED vars
  <2>1. UNCHANGED <<chain, claims>> /\ (~reading' \/ (UNCHANGED <<reading, balanceRead>>))
    BY <1>6 DEF WaitOutcome, SeeReceipt, FailWait, TimeOutWait, Tick, Crash, vars, store, lock
  <2>2. Pending(claims') = Pending(claims)
    BY <2>1
  <2> QED BY <1>4, <2>1, <2>2
<1>7. CASE Record
  <2>1. UNCHANGED chain /\ ~reading'
    BY <1>7 DEF Record, RecordSendFailure, RecordBroadcast, RecordTimeOut, RecordWaitFailure,
                RecordConfirmation, FailRecord, StoreIsFree, lock
  <2>2. ASSUME NEW from, NEW to \in {"claimed", "funding_failed"},
               claims' = SetClaimStatus(claims, Current.claim, from, to)
        PROVE  \A k \in Pending(claims') : k \in Pending(claims)
    <3>1. DOMAIN claims' = DOMAIN claims
      BY <1>1, <2>2 DEF SetClaimStatus
    <3>2. \A k \in DOMAIN claims : claims'[k].status \in {claims[k].status, to}
      BY <1>1, <2>2 DEF SetClaimStatus, Claim
    <3> QED BY <3>1, <3>2 DEF Pending
  <2>3. RecordBroadcast => \A k \in Pending(claims') : k \in Pending(claims)
    BY <1>1 DEF RecordBroadcast, Pending, Claim
  <2>4. RecordTimeOut \/ FailRecord => claims' = claims
    BY DEF RecordTimeOut, FailRecord, store
  <2>5. RecordSendFailure \/ RecordWaitFailure \/ RecordConfirmation =>
          \A k \in Pending(claims') : k \in Pending(claims)
    BY <2>2 DEF RecordSendFailure, RecordWaitFailure, RecordConfirmation
  <2>6. \A k \in Pending(claims') : k \in Pending(claims)
    BY <1>7, <2>3, <2>4, <2>5 DEF Record
  <2> QED BY <1>4, <2>1, <2>6
<1>8. ASSUME NEW w \in Wallets, NEW i \in Installs, NEW r \in Requesters,
             NEW c \in DOMAIN challenges, NEW proof \in BOOLEAN, RejectClaim(w, i, r, c, proof)
      PROVE  AmountsInv'
  <2> DEFINE new == NewClaim(w, i, r, c, "rejected")
  <2>1. UNCHANGED chain /\ ~reading' /\ claims' = Insert(PruneClaims(claims), nextClaim, new)
    BY <1>8 DEF RejectClaim, ReleaseLock
  <2>2. new.status = "rejected"
    BY DEF NewClaim
  <2> HIDE DEF new
  <2>3. \A k \in Pending(claims') : k \in Pending(PruneClaims(claims))
    BY <2>1, <2>2 DEF Insert, Pending
  <2> QED BY <1>3, <1>4, <2>1, <2>3
<1>9. CASE EndClaim
  BY <1>5, <1>8, <1>9, AcceptAmounts DEF EndClaim
<1>10. ASSUME UNCHANGED <<claims, reading, balanceRead>>, Mined' = Mined, Spent' = Spent,
              balance' >= balance
       PROVE  AmountsInv'
  <2>1. Pending(claims') = Pending(claims)
    BY <1>10
  <2>2. \A n \in Mined : transfers'[n].claim = transfers[n].claim
    BY TransfersGrow DEF Mined
  <2> QED BY <1>2, <1>10, <2>1, <2>2, QuietAmounts
<1>11. CASE SendOutcome
  <2>1. UNCHANGED <<claims, reading, balanceRead, balance>>
    BY <1>11 DEF SendOutcome, SendTransfer, FailSend, store, lock
  <2>2. balance' >= balance
    BY <1>2, <2>1
  <2>3. Mined' = Mined /\ Spent' = Spent
    BY <1>11, SendingSettlesNothing DEF Mined, Spent
  <2> QED BY <1>10, <2>1, <2>2, <2>3
<1>12. CASE TopUp
  <2>1. UNCHANGED <<claims, reading, balanceRead, transfers>> /\ balance' = balance + Amount + Gas
    BY <1>12 DEF TopUp, store, lock
  <2>2. Mined' = Mined /\ Spent' = Spent
    BY <2>1 DEF Mined, Spent
  <2>3. balance' >= balance
    BY <1>2, <2>1, TableAssumption
  <2> QED BY <1>10, <2>1, <2>2, <2>3
<1>13. ASSUME NEW n \in DOMAIN transfers, DropTransfer(n)
       PROVE  AmountsInv'
  <2>1. /\ UNCHANGED <<claims, reading, balanceRead>> /\ balance' = balance - 0
        /\ transfers[n].status = "mempool"
        /\ transfers' = [transfers EXCEPT ![n].status = "dropped"]
    BY <1>13 DEF DropTransfer, Settle, store, lock
  <2>2. transfers[n] \in Transfer
    BY Numbers DEF GrantInv
  <2>3. /\ DOMAIN transfers' = DOMAIN transfers /\ transfers'[n].status = "dropped"
        /\ \A t \in DOMAIN transfers : t # n => transfers'[t] = transfers[t]
    BY <2>1, <2>2 DEF Transfer
  <2>4. Mined' = Mined /\ Spent' = Spent
    BY <2>1, <2>3 DEF Mined, Spent
  <2>5. balance' >= balance
    BY <1>2, <2>1
  <2> QED BY <1>10, <2>1, <2>4, <2>5
<1>14. CASE ChainStep
  BY <1>12, <1>13, <1>14, MineAmounts, RevertAmounts DEF ChainStep
<1> QED BY <1>5, <1>6, <1>7, <1>9, <1>11, <1>14 DEF Next

LEMMA LimitsInit == Init => OpenInv /\ FailuresInv /\ AmountsInv
<1> SUFFICES ASSUME Init PROVE OpenInv /\ FailuresInv /\ AmountsInv
  OBVIOUS
<1>1. DOMAIN challenges = {} /\ DOMAIN claims = {} /\ ~reading
  BY DEF Init
<1>2. Cardinality({}) = 0
  BY FS_EmptySet
<1>3. OpenInv
  <2>1. \A w : OpenOfWallet(w) = {} /\ OpenOfInstall(w) = {}
    BY <1>1 DEF OpenOfWallet, OpenOfInstall
  <2>2. 0 <= MaxOutstanding
    BY TableAssumption
  <2> QED BY <1>2, <2>1, <2>2 DEF OpenInv
<1>4. FailuresInv
  <2>1. \A t, v : {k \in TroubledIn(t) : claims[k].wallet = v} = {}
                  /\ {k \in TroubledIn(t) : claims[k].install = v} = {}
    BY <1>1 DEF TroubledIn
  <2>2. 0 <= RejectLimit
    BY TableAssumption
  <2> QED BY <1>2, <2>1, <2>2 DEF FailuresInv
<1>5. AmountsInv
  <2>1. Unpaid = {}
    BY <1>1 DEF Unpaid, Pending
  <2>2. AmountsAreNumbers
    BY AmountNumbers, GrantInit DEF GrantInv
  <2>3. balance + GasSpent \in Nat /\ Amount * 0 = 0
    BY <2>2 DEF AmountsAreNumbers
  <2> QED BY <1>1, <1>2, <2>1, <2>3 DEF AmountsInv
<1> QED BY <1>3, <1>4, <1>5

\* The limits of the service hold in every state it can reach: of open challenges, with those
\* that failed payouts reopen; of failures in any window, with those of claims accepted
\* before it; and of the amounts promised, with a balance read before others were paid.
THEOREM LimitsAreKept == Spec => []LimitsHold
<1>1. /\ GrantInv /\ GrantInv' /\ ChallengeInv /\ OpenInv /\ FailuresInv /\ AmountsInv /\ [Next]_vars
      => OpenInv' /\ FailuresInv' /\ AmountsInv'
  BY OpenStep, FailuresStep, AmountsStep
<1>2. GrantInv /\ OpenInv /\ FailuresInv /\ AmountsInv => LimitsHold
  <2> SUFFICES ASSUME GrantInv, OpenInv, FailuresInv, AmountsInv PROVE LimitsHold
    OBVIOUS
  <2>1. /\ MaxOutstanding \in Nat /\ RejectLimit \in Nat
        /\ clock \in Nat
    BY TableAssumption DEF GrantInv, TypeOK
  <2>2. OpenChallengesBounded
    <3> DEFINE Issued == {c \in DOMAIN challenges : challenges[c].status = "issued"}
    <3> SUFFICES ASSUME WithinRetention
                 PROVE  /\ \A w \in Wallets :
                             Cardinality({c \in Issued : challenges[c].wallet = w}) <= MaxOutstanding
                        /\ \A i \in Installs :
                             Cardinality({c \in Issued : challenges[c].install = i}) <= MaxOutstanding
      BY DEF OpenChallengesBounded
    <3>1. /\ \A w : {c \in Issued : challenges[c].wallet = w} \subseteq OpenOfWallet(w)
                    /\ OpenOfWallet(w) \subseteq DOMAIN challenges
          /\ \A i : {c \in Issued : challenges[c].install = i} \subseteq OpenOfInstall(i)
                    /\ OpenOfInstall(i) \subseteq DOMAIN challenges
      BY DEF OpenOfWallet, OpenOfInstall, IsOpen
    <3>2. /\ \A w : IsFiniteSet(OpenOfWallet(w))
          /\ \A i : IsFiniteSet(OpenOfInstall(i))
      BY <3>1, FinitelyMany DEF GrantInv
    <3> HIDE DEF Issued
    <3> QED BY <2>1, <3>1, <3>2, NotMore DEF OpenInv
  <2>3. FailuresBounded
    <3> SUFFICES ASSUME NEW t \in 0..clock
                 PROVE  LET Failed == {k \in DOMAIN claims :
                              HasFailed(claims[k])
                              /\ claims[k].createdAt \in (t - RejectWindow)..t}
                        IN /\ \A w \in Wallets :
                                Cardinality({k \in Failed : claims[k].wallet = w}) <= RejectLimit
                           /\ \A i \in Installs :
                                Cardinality({k \in Failed : claims[k].install = i}) <= RejectLimit
      BY DEF FailuresBounded
    <3> DEFINE Failed == {k \in DOMAIN claims :
                 HasFailed(claims[k]) /\ claims[k].createdAt \in (t - RejectWindow)..t}
    <3>1. Failed \subseteq TroubledIn(t) /\ TroubledIn(t) \subseteq DOMAIN claims
      BY DEF TroubledIn, HasFailed, Troubled
    <3>2. t \in Nat
      BY <2>1
    <3> HIDE DEF Failed
    <3>3. ASSUME NEW w \in Wallets
          PROVE  Cardinality({k \in Failed : claims[k].wallet = w}) <= RejectLimit
      <4>1. /\ {k \in Failed : claims[k].wallet = w} \subseteq {k \in TroubledIn(t) : claims[k].wallet = w}
            /\ {k \in TroubledIn(t) : claims[k].wallet = w} \subseteq DOMAIN claims
        BY <3>1
      <4>2. IsFiniteSet({k \in TroubledIn(t) : claims[k].wallet = w})
        BY <4>1, FinitelyMany DEF GrantInv
      <4>3. Cardinality({k \in TroubledIn(t) : claims[k].wallet = w}) <= RejectLimit
        BY <3>2 DEF FailuresInv
      <4> QED BY <2>1, <4>1, <4>2, <4>3, NotMore
    <3>4. ASSUME NEW i \in Installs
          PROVE  Cardinality({k \in Failed : claims[k].install = i}) <= RejectLimit
      <4>1. /\ {k \in Failed : claims[k].install = i} \subseteq {k \in TroubledIn(t) : claims[k].install = i}
            /\ {k \in TroubledIn(t) : claims[k].install = i} \subseteq DOMAIN claims
        BY <3>1
      <4>2. IsFiniteSet({k \in TroubledIn(t) : claims[k].install = i})
        BY <4>1, FinitelyMany DEF GrantInv
      <4>3. Cardinality({k \in TroubledIn(t) : claims[k].install = i}) <= RejectLimit
        BY <3>2 DEF FailuresInv
      <4> QED BY <2>1, <4>1, <4>2, <4>3, NotMore
    <3> QED BY <3>3, <3>4 DEF Failed
  <2>4. AmountsReserved
    BY DEF AmountsInv, AmountsReserved, FailuresWereFinal, FailuresUnpaid, MinedFor, Mined, Payable
  <2> QED BY <2>2, <2>3, <2>4 DEF LimitsHold
<1> QED BY LimitsInit, <1>1, <1>2, GrantInvHolds, ChallengesFit, PTL DEF Spec
=============================================================================
