----------------------------- MODULE RateLimits -----------------------------
(***************************************************************************)
(* The rate limits of the grant service.  A request for a challenge, a     *)
(* status or a claim consumes an entry of its bucket in one transaction on *)
(* the store of StarterGrant before anything else is done with it.         *)
(* Transactions are taken in turn and the clock does not go back, so a     *)
(* request is one step.                                                    *)
(***************************************************************************)
EXTENDS Integers, Sequences, FiniteSets, FiniteSetsExt

CONSTANTS
  Requester,   \* the hashed addresses that requests come from
  Buckets,     \* "challenge", "status" and "claim"
  LimitOf,     \* how many requests of each bucket are allowed in a window
  RateWindow,  \* rateLimitWindowMs, in periods
  MaxEntries,  \* MAX_STORED_RATE_LIMIT_ENTRIES
  MaxCut       \* bound of the model on entries lost in a window

ASSUME RateAssumption ==
  /\ LimitOf \in [Buckets -> Nat \ {0}]
  /\ {RateWindow, MaxEntries} \subseteq Nat \ {0} /\ MaxCut \in Nat

VARIABLES
  entries, \* state.rateLimits
  allowed, \* the requests of the last window that were let through
  cut      \* entries of the last window that the full table has lost

rateVars == <<entries, allowed, cut>>

Entry == [key : Requester, bucket : Buckets, age : 0..RateWindow + 1]

RateInit == entries = <<>> /\ allowed = <<>> /\ cut = <<>>

InWindow_Short(e) == e.age < RateWindow

\* An entry counts until it is older than the window.
InWindow(e) == e.age <= RateWindow

\* The entries that count.  Entries are in the order of their times, so those that do
\* not count come first.
Recent(s) == SubSeq(s, Cardinality({i \in DOMAIN s : ~InWindow(s[i])}) + 1, Len(s))

Used(s, key, bucket) ==
  Cardinality({i \in DOMAIN s : s[i].key = key /\ s[i].bucket = bucket})

\* keepRecent: the newest entries of all buckets and requesters.
Dropped(s) == Max({0, Len(s) - MaxEntries})

Kept_All(s) == s

Kept(s) == SubSeq(s, Dropped(s) + 1, Len(s))

AllowRequest(key, bucket) ==
  LET e == [key |-> key, bucket |-> bucket, age |-> 0]
      all == Append(Recent(entries), e)
  IN /\ Used(Recent(entries), key, bucket) < LimitOf[bucket]
     /\ entries' = Kept(all)
     /\ allowed' = Append(allowed, e)
     /\ cut' = cut \o SubSeq(all, 1, Dropped(all)) /\ Len(cut') <= MaxCut

\* A refused request consumes nothing, but what is out of the window is dropped.
RefuseRequest(key, bucket) ==
  /\ Used(Recent(entries), key, bucket) >= LimitOf[bucket]
  /\ entries' = Recent(entries)
  /\ UNCHANGED <<allowed, cut>>

Older(s) == [i \in DOMAIN s |-> [s[i] EXCEPT !.age = Min({@ + 1, RateWindow + 1})]]

\* What happened in the last window, with the oldest first, whatever the code counts.
LastWindow(s) == SubSeq(s, Cardinality({i \in DOMAIN s : ~(s[i].age <= RateWindow)}) + 1, Len(s))

PassPeriod ==
  /\ entries' = Older(entries)
  /\ allowed' = LastWindow(Older(allowed))
  /\ cut' = LastWindow(Older(cut))

RateNext ==
  \/ \E key \in Requester, bucket \in Buckets :
       AllowRequest(key, bucket) \/ RefuseRequest(key, bucket)
  \/ PassPeriod

RateSpec == RateInit /\ [][RateNext]_rateVars

----------------------------------------------------------------------------
\* Properties.

\* The table is never longer than its limit, with the oldest entry first: to drop the
\* first entries is to filter out all that do not count.
RateTypeOK ==
  /\ entries \in Seq(Entry) /\ Len(entries) <= MaxEntries
  /\ \A i, j \in DOMAIN entries : i < j => entries[i].age >= entries[j].age
  /\ allowed \in Seq(Entry) /\ cut \in Seq(Entry)
  /\ \A s \in {entries, allowed, cut} :
       \A i \in DOMAIN s : InWindow(s[i]) <=> i > Len(s) - Len(Recent(s))

\* In the window that ends now a requester was let through no more often than the
\* bucket allows, but for as many times as other requests drove its entries out of
\* the full table.
WindowLimit ==
  \A key \in Requester, bucket \in Buckets :
    Used(allowed, key, bucket) <= LimitOf[bucket] + Used(cut, key, bucket)
=============================================================================
