---------------------------- MODULE GrantTables ----------------------------
(***************************************************************************)
(* The persisted tables of the starter-grant service and the pure helpers  *)
(* of claims.ts and funder.ts that read and prune them.                    *)
(*                                                                         *)
(* A table is a JSON array that the code only appends to and cuts from the *)
(* front.  It is a function here, whose domain holds the insertion numbers *)
(* of the records still stored: a larger number is a later record.  The    *)
(* numbers stand for the random ids too.                                   *)
(***************************************************************************)
EXTENDS Integers, FiniteSets, Functions

CONSTANTS
  Wallets,             \* wallet addresses
  Installs,            \* install ids
  Requesters,          \* hashed client addresses
  ChallengeTtl,        \* challengeTtlMs
  MaxOutstanding,      \* maxOutstandingChallengesPerIdentity
  RejectLimit,         \* rejectedClaimsPerWindow
  RejectWindow,        \* rejectedClaimWindowMs
  MaxStoredChallenges, \* MAX_STORED_CHALLENGES
  MaxStoredClaims,     \* MAX_STORED_CLAIMS
  Amount,              \* starterAmountWei
  Gas                  \* cost of one native transfer

ASSUME TableAssumption ==
  /\ ChallengeTtl \in Nat \ {0}
  /\ RejectWindow \in Nat
  /\ {MaxOutstanding, RejectLimit} \subseteq Nat \ {0}
  /\ {MaxStoredChallenges, MaxStoredClaims} \subseteq Nat \ {0}
  /\ {Amount, Gas} \subseteq Nat

ChallengeStatus == {"issued", "funding", "claimed", "expired", "rejected"}
ClaimStatus == {"pending_funding", "claimed", "rejected", "funding_failed"}

Challenge ==
  [wallet : Wallets, install : Installs, issuedAt : Nat, status : ChallengeStatus]
Claim ==
  [challenge : Nat, wallet : Wallets, install : Installs, requester : Requesters,
   status : ClaimStatus, createdAt : Nat, txHash : BOOLEAN]

----------------------------------------------------------------------------
\* Inserting a record and keeping the newest ones.

Insert(table, id, record) ==
  [k \in DOMAIN table \cup {id} |-> IF k = id THEN record ELSE table[k]]

Newest(ids, n) == {k \in ids : Cardinality({j \in ids : j > k}) < n}

KeepRecent(table, n) == Restrict(table, Newest(DOMAIN table, n))

\* Challenges still issued are kept in preference to finished ones.
KeepRecentChallenges(chs) ==
  LET all      == DOMAIN chs
      active   == Newest({c \in all : chs[c].status = "issued"}, MaxStoredChallenges)
      inactive == Newest({c \in all : chs[c].status # "issued"},
                         MaxStoredChallenges - Cardinality(active))
  IN Restrict(chs, IF Cardinality(all) <= MaxStoredChallenges
                   THEN all ELSE active \cup inactive)

IsExpired(challenge, now) == challenge.issuedAt + ChallengeTtl <= now

RefreshStatuses(chs, now) ==
  [c \in DOMAIN chs |->
     IF chs[c].status = "issued" /\ IsExpired(chs[c], now)
     THEN [chs[c] EXCEPT !.status = "expired"] ELSE chs[c]]

PruneChallenges(chs, now) == KeepRecentChallenges(RefreshStatuses(chs, now))

PruneClaims(cls) == KeepRecent(cls, MaxStoredClaims)

----------------------------------------------------------------------------
\* The questions the handlers ask of the pruned tables.

IsLive(claim) == claim.status \in {"pending_funding", "claimed"}
HasFailed(claim) == claim.status \in {"rejected", "funding_failed"}

Pending(cls) == {k \in DOMAIN cls : cls[k].status = "pending_funding"}

\* A wallet or install with a claim pending funding, or claimed, gets no other.
HasExistingClaim_IgnoringPending(cls, w, i) ==
  \E k \in DOMAIN cls :
    cls[k].status = "claimed" /\ (cls[k].wallet = w \/ cls[k].install = i)

HasExistingClaim_WalletOnly(cls, w, i) ==
  \E k \in DOMAIN cls : IsLive(cls[k]) /\ cls[k].wallet = w

HasExistingClaim(cls, w, i) ==
  \E k \in DOMAIN cls :
    IsLive(cls[k]) /\ (cls[k].wallet = w \/ cls[k].install = i)

ActiveChallenges(chs, w, i) ==
  {c \in DOMAIN chs : chs[c].status = "issued" /\ chs[c].wallet = w /\ chs[c].install = i}

OutstandingChallenges(chs, w, i) ==
  {c \in DOMAIN chs : /\ chs[c].status = "issued"
                      /\ chs[c].wallet = w \/ chs[c].install = i}

RecentFailures(cls, w, i, r, now) ==
  {k \in DOMAIN cls : /\ HasFailed(cls[k])
                      /\ cls[k].createdAt >= now - RejectWindow
                      /\ cls[k].wallet = w \/ cls[k].install = i \/ cls[k].requester = r}

IsLockedOut(cls, w, i, r, now) ==
  Cardinality(RecentFailures(cls, w, i, r, now)) >= RejectLimit

\* The balance left after the amounts promised to pending claims covers one
\* more amount and the gas of one transfer.
HasSufficientBalance_NoReserve(onChain, cls) == onChain >= Amount + Gas

HasSufficientBalance(onChain, cls) ==
  onChain - Amount * Cardinality(Pending(cls)) >= Amount + Gas

----------------------------------------------------------------------------
\* What the payout queue writes.

SetClaimStatus(cls, k, from, to) ==
  IF k \in DOMAIN cls /\ cls[k].status \in from
  THEN [cls EXCEPT ![k].status = to] ELSE cls

SetChallengeStatus(chs, c, from, to) ==
  IF c \in DOMAIN chs /\ chs[c].status \in from
  THEN [chs EXCEPT ![c].status = to] ELSE chs

\* A challenge whose funding failed can be claimed again until it expires.
Reopen(chs, c, now) ==
  IF c \in DOMAIN chs /\ chs[c].status = "funding"
  THEN [chs EXCEPT ![c].status = IF IsExpired(chs[c], now) THEN "expired" ELSE "issued"]
  ELSE chs
============================================================================
