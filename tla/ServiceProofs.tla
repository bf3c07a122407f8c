---------------------------- MODULE ServiceProofs ----------------------------
(***************************************************************************)
(* Theorems about what serves the agents: the grant store and the          *)
(* attribution database agree, and the parts of a report add up, for any   *)
(* number of wallets, refs and concurrent requests; the rotation of prompt *)
(* variants keeps its windows and its pauses, for any limits and any       *)
(* number of faults; the rate limits hold, for any window and any size of  *)
(* their table; the files of the bridge by which a person answers for the  *)
(* language model agree with its processes, for any number of each; and    *)
(* the report of the contract's messages is that of the chain, for any     *)
(* chain, batch and number of workers.                                     *)
(***************************************************************************)
EXTENDS MCServices, FiniteSetTheorems, FunctionTheorems, SequenceTheorems, WellFoundedInduction,
        TLAPS

Ops == {"none", "challenge", "claim", "authorized", "click", "usage"}

Request == [op : Ops, at : Labels, wallet : Wallet \cup {None},
            ref : Ref \cup {None}, outreachRef : Ref \cup {None}]

Challenge == [status : {"none", "issued", "funding", "claimed"}, ref : Ref \cup {None}]

\* A wallet that was paid for a ref has claimed, and is attributed to no other ref.
Stores ==
  /\ challenges \in [Wallet -> Challenge] /\ refs \subseteq Ref
  /\ paid \in [Wallet -> Ref \cup {None}] /\ usage \subseteq Wallet \X Ref
  /\ \A w \in Wallet : paid[w] # None => challenges[w].status = "claimed"
  /\ \A w \in DOMAIN byWallet : w \in Wallet /\ byWallet[w] \in Ref /\ byWallet[w] = paid[w]

\* What the handler of a request that is in progress has found is still so.
StillTrue(q) ==
  /\ q \in Request
  /\ q.at # "idle" => q.wallet \in Wallet
  /\ q.at \in {"record", "attempted", "queuedAttempt", "succeeded", "wallet",
               "known", "lookup"} => q.ref \in Ref
  /\ q.at = "payout" => challenges[q.wallet].status = "funding"
  /\ q.at \in {"attempted", "succeeded", "wallet"} => paid[q.wallet] = q.ref
  /\ q.op = "usage" =>
       /\ q.at \in {"known", "lookup", "record"}
       /\ q.at # "known" => q.ref \in refs
       /\ q.at = "record" => paid[q.wallet] = q.ref

\* No two handlers pay the same wallet.
OnePayout ==
  \A h, k \in Handler :
    /\ h # k /\ requests[h].at = "payout" /\ requests[k].at = "payout"
    => requests[h].wallet # requests[k].wallet

AttributionInv ==
  /\ Stores
  /\ DOMAIN requests = Handler /\ \A h \in Handler : StillTrue(requests[h])
  /\ OnePayout
  /\ UsageIsOfGrantee

----------------------------------------------------------------------------
\* A ref is none of the values that stand for nothing.
LEMMA NoneIsNoRef == None \notin Ref /\ None \notin Wallet
BY AttributionAssumption

\* An idle handler has found nothing.
LEMMA IdleHandler == StillTrue(NoRequest) /\ StillTrue(NoRequest)'
BY DEF StillTrue, NoRequest, Request, Ops, Labels

\* Stores that only grow, and of which no payout but that of handler h is taken away,
\* keep what the other handlers have found.
LEMMA OthersKept ==
  ASSUME AttributionInv, NEW h \in Handler, refs \subseteq refs',
         \A w \in Wallet : paid[w] # None => paid'[w] = paid[w],
         \A w \in Wallet : challenges[w].status = "funding" =>
           \/ challenges'[w].status = "funding"
           \/ At(h, "payout") /\ w = requests[h].wallet
  PROVE  \A k \in Handler \ {h} : requests'[k] = requests[k] => StillTrue(requests[k])'
<1> SUFFICES ASSUME NEW k \in Handler, k # h, requests'[k] = requests[k]
    PROVE  StillTrue(requests[k])'
  OBVIOUS
<1> DEFINE q == requests[k]
<1>1. StillTrue(q)
  BY DEF AttributionInv
<1>2. q.at = "payout" => challenges'[q.wallet].status = "funding"
  BY <1>1 DEF AttributionInv, OnePayout, At, StillTrue
<1>3. q.at \in {"attempted", "succeeded", "wallet"} => paid'[q.wallet] = q.ref
  BY <1>1, NoneIsNoRef DEF StillTrue
<1>4. q.op = "usage" /\ q.at = "record" => paid'[q.wallet] = q.ref
  BY <1>1, NoneIsNoRef DEF StillTrue
<1> QED BY <1>1, <1>2, <1>3, <1>4 DEF StillTrue

\* The invariant after a step of handler h that changes no store.
LEMMA StoresUnchanged ==
  ASSUME AttributionInv, NEW h \in Handler, NEW q,
         UNCHANGED <<challenges, paid, usage>>, refs \subseteq refs', refs' \subseteq Ref,
         byWallet' = byWallet, requests' = [requests EXCEPT ![h] = q],
         StillTrue(q)', q.at = "payout" => At(h, "payout") /\ q.wallet = requests[h].wallet
  PROVE  AttributionInv'
<1>1. /\ DOMAIN requests' = Handler /\ requests'[h] = q
      /\ \A k \in Handler \ {h} : requests'[k] = requests[k]
  BY DEF AttributionInv
<1>2. \A k \in Handler \ {h} : StillTrue(requests[k])'
  BY <1>1, OthersKept
<1>3. \A k \in Handler : StillTrue(requests[k])'
  <2>1. StillTrue(requests[h])'
    BY <1>1 DEF StillTrue
  <2> QED BY <1>2, <2>1
<1>4. Stores' /\ UsageIsOfGrantee'
  BY DEF AttributionInv, Stores, UsageIsOfGrantee
<1>5. OnePayout'
  BY <1>1 DEF AttributionInv, OnePayout, At
<1> QED BY <1>1, <1>3, <1>4, <1>5 DEF AttributionInv

----------------------------------------------------------------------------
\* The invariant at each step.

\* Initially nothing is paid and every handler is idle.
LEMMA AttributionStart == AttributionInit => AttributionInv
<1> SUFFICES ASSUME AttributionInit PROVE AttributionInv
  OBVIOUS
<1>1. Stores
  BY DEF AttributionInit, Stores, Challenge, NoChallenge
<1>2. \A h \in Handler : StillTrue(requests[h]) /\ requests[h].at = "idle"
  BY IdleHandler DEF AttributionInit, NoRequest
<1>3. OnePayout /\ UsageIsOfGrantee
  BY <1>2 DEF AttributionInit, OnePayout, UsageIsOfGrantee
<1> QED BY <1>1, <1>2, <1>3 DEF AttributionInv, AttributionInit

\* Steps in which a handler reads, or writes refs or events.
LEMMA ReadingStep ==
  ASSUME AttributionInv, NEW h \in Handler,
         Arrive(h) \/ Persist(h) \/ RefuseChallenge(h) \/ RefuseClaim(h) \/ Pending(h)
         \/ RecordAttempt(h) \/ RecordSuccess(h) \/ CheckRef(h) \/ CheckWallet(h)
  PROVE  AttributionInv'
<1>0. PICK q : q = requests[h]
  OBVIOUS
<1>1. StillTrue(q) /\ UNCHANGED <<challenges, paid, usage>> /\ byWallet' = byWallet
  BY <1>0 DEF AttributionInv, Arrive, Persist, RefuseChallenge, RefuseClaim, Pending,
         RecordAttempt, RecordSuccess, CheckRef, CheckWallet, database, ghosts
<1>2. refs \subseteq refs' /\ refs' \subseteq Ref
  <2>1. refs' # refs => Persist(h)
    BY DEF Arrive, RefuseChallenge, RefuseClaim, Pending,
           RecordAttempt, RecordSuccess, CheckRef, CheckWallet, database
  <2>2. refs \subseteq Ref /\ q.outreachRef \in Ref \cup {None}
    BY <1>1 DEF AttributionInv, Stores, StillTrue, Request
  <2> QED BY <1>0, <2>1, <2>2 DEF Persist
<1>3. CASE Arrive(h)
  <2>1. PICK op \in {"challenge", "claim", "authorized", "click", "usage"},
             w \in Wallet, r \in Ref \cup {None} :
          \E outreachRef \in {None, r} :
            /\ r = None => op \in {"challenge", "claim"}
            /\ requests' = [requests EXCEPT ![h] =
                 [op |-> op, at |-> First(op), wallet |-> w, ref |-> r,
                  outreachRef |-> outreachRef]]
    BY <1>3 DEF Arrive
  <2>2. PICK outreachRef \in {None, r} :
          requests' = [requests EXCEPT ![h] =
            [op |-> op, at |-> First(op), wallet |-> w, ref |-> r,
             outreachRef |-> outreachRef]]
    BY <2>1
  <2> DEFINE new == [op |-> op, at |-> First(op), wallet |-> w, ref |-> r,
                     outreachRef |-> outreachRef]
  <2>3. /\ op = "challenge" => First(op) = "issue"
        /\ op \in {"claim", "authorized"} => First(op) = "persist"
        /\ op \in {"click", "usage"} => First(op) = "known"
    BY DEF First
  <2>4. StillTrue(new)'
    BY <2>1, <2>3 DEF StillTrue, Request, Ops, Labels
  <2>5. new.at # "payout"
    BY <2>3
  <2> HIDE DEF new
  <2> QED BY <1>0, <1>1, <1>2, <2>2, <2>4, <2>5, StoresUnchanged DEF new
<1>4. ASSUME NEW label \in Labels \ {"idle", "payout"},
             requests' = [requests EXCEPT ![h].at = label],
             StillTrue([q EXCEPT !.at = label])'
      PROVE  AttributionInv'
  <2>1. requests' = [requests EXCEPT ![h] = [q EXCEPT !.at = label]]
    BY <1>0, <1>4
  <2>2. [q EXCEPT !.at = label].at # "payout"
    BY <1>1 DEF StillTrue, Request
  <2> QED BY <1>0, <1>1, <1>2, <1>4, <2>1, <2>2, StoresUnchanged
<1>5. ASSUME Answer(h) PROVE AttributionInv'
  BY <1>0, <1>1, <1>2, <1>5, IdleHandler, StoresUnchanged DEF Answer, NoRequest
<1>6. CASE Persist(h)
  <2>1. StillTrue([q EXCEPT !.at = "claim"])' \/ q.op # "claim"
    BY <1>0, <1>1, <1>2, <1>6 DEF StillTrue, Request, Labels, Persist, At
  <2>2. StillTrue([q EXCEPT !.at = "record"])' \/ q.ref = None
    BY <1>0, <1>1, <1>2, <1>6 DEF StillTrue, Request, Labels, Persist, At
  <2> QED BY <1>0, <1>4, <1>5, <1>6, <2>1, <2>2 DEF Persist, Continue, Labels
<1>7. CASE Pending(h)
  <2>1. StillTrue([q EXCEPT !.at = "queuedAttempt"])' \/ q.ref = None
    BY <1>0, <1>1, <1>2, <1>7 DEF StillTrue, Request, Labels, Pending, At
  <2> QED BY <1>0, <1>4, <1>5, <1>7, <2>1 DEF Pending, After, Continue, Labels
<1>8. CASE RecordAttempt(h)
  <2>1. /\ At(h, "attempted") => StillTrue([q EXCEPT !.at = "succeeded"])'
        /\ At(h, "queuedAttempt") => StillTrue([q EXCEPT !.at = "record"])'
    BY <1>0, <1>1, <1>2 DEF StillTrue, Request, Labels, At
  <2> QED BY <1>0, <1>4, <1>8, <2>1 DEF RecordAttempt, Continue, Labels, At
<1>9. CASE RecordSuccess(h)
  <2>1. StillTrue([q EXCEPT !.at = "wallet"])'
    BY <1>0, <1>1, <1>2, <1>9 DEF RecordSuccess, StillTrue, Request, Labels, At
  <2> QED BY <1>0, <1>4, <1>9, <2>1 DEF RecordSuccess, Continue, Labels
<1>10. CASE CheckRef(h)
  <2>1. q.ref \in refs =>
          /\ q.op = "usage" => StillTrue([q EXCEPT !.at = "lookup"])'
          /\ q.op # "usage" => StillTrue([q EXCEPT !.at = "record"])'
    BY <1>0, <1>1, <1>2, <1>10 DEF CheckRef, StillTrue, Request, Labels, At
  <2> QED BY <1>0, <1>4, <1>5, <1>10, <2>1 DEF CheckRef, Continue, Labels
<1>11. CASE CheckWallet(h)
  <2>1. Attributed(q.wallet, q.ref) => paid[q.wallet] = q.ref
    BY <1>0 DEF Attributed, AttributionInv, Stores
  <2>2. paid[q.wallet] = q.ref => StillTrue([q EXCEPT !.at = "record"])'
    BY <1>0, <1>1, <1>2, <1>11 DEF CheckWallet, StillTrue, Request, Labels, At
  <2> QED BY <1>0, <1>4, <1>5, <1>11, <2>1, <2>2 DEF CheckWallet, Continue, Labels
<1> QED BY <1>3, <1>5, <1>6, <1>7, <1>8, <1>9, <1>10, <1>11
        DEF RefuseChallenge, RefuseClaim

\* An event of the SDK is let in for what the wallet is attributed to.
LEMMA RecordStep ==
  ASSUME AttributionInv, NEW h \in Handler, Record(h)
  PROVE  AttributionInv'
<1>0. PICK q : q = requests[h]
  OBVIOUS
<1>1. StillTrue(q) /\ q.at = "record"
  BY <1>0 DEF AttributionInv, Record, At
<1>2. /\ UNCHANGED <<challenges, refs, byWallet, paid>>
      /\ requests' = [requests EXCEPT ![h] = NoRequest]
      /\ \/ usage' = usage
         \/ q.op = "usage" /\ usage' = usage \cup {<<q.wallet, q.ref>>}
  BY <1>0 DEF Record, Answer
<1>3. q.op = "usage" => q.wallet \in Wallet /\ q.ref \in refs /\ paid[q.wallet] = q.ref
  BY <1>1 DEF StillTrue
<1>4. Stores' /\ UsageIsOfGrantee'
  <2>1. refs \subseteq Ref
    BY DEF AttributionInv, Stores
  <2>2. usage' \subseteq Wallet \X Ref
    BY <1>2, <1>3, <2>1 DEF AttributionInv, Stores
  <2>3. \A u \in usage' : paid[u[1]] = u[2] /\ u[2] \in refs
    BY <1>2, <1>3 DEF AttributionInv, UsageIsOfGrantee
  <2> QED BY <1>2, <2>2, <2>3 DEF AttributionInv, Stores, UsageIsOfGrantee
<1>5. /\ DOMAIN requests' = Handler /\ requests'[h] = NoRequest
      /\ \A k \in Handler \ {h} : requests'[k] = requests[k]
  BY <1>2 DEF AttributionInv
<1>6. \A k \in Handler : StillTrue(requests[k])'
  <2>1. \A k \in Handler \ {h} : StillTrue(requests[k])'
    BY <1>2, <1>5, OthersKept
  <2>2. StillTrue(requests[h])'
    BY <1>5, IdleHandler DEF StillTrue, NoRequest
  <2> QED BY <2>1, <2>2
<1>7. OnePayout'
  BY <1>5 DEF AttributionInv, OnePayout, NoRequest
<1> QED BY <1>4, <1>5, <1>6, <1>7 DEF AttributionInv

\* A wallet is attributed to the ref that it was paid for.
LEMMA AttributeStep ==
  ASSUME AttributionInv, NEW h \in Handler, AttributeWallet(h)
  PROVE  AttributionInv'
<1>0. PICK q : q = requests[h]
  OBVIOUS
<1>1. StillTrue(q) /\ q.at = "wallet"
  BY <1>0 DEF AttributionInv, AttributeWallet, At
<1>2. /\ UNCHANGED <<challenges, refs, paid, usage>>
      /\ requests' = [requests EXCEPT ![h] = NoRequest]
      /\ \/ byWallet' = byWallet
         \/ byWallet' = [w \in DOMAIN byWallet \cup {q.wallet} |->
                           IF w = q.wallet THEN q.ref ELSE byWallet[w]]
  BY <1>0 DEF AttributeWallet, Answer, ghosts
<1>3. q.wallet \in Wallet /\ q.ref \in Ref /\ paid[q.wallet] = q.ref
  BY <1>1 DEF StillTrue
<1>4. Stores' /\ UsageIsOfGrantee'
  BY <1>2, <1>3 DEF AttributionInv, Stores, UsageIsOfGrantee
<1>5. /\ DOMAIN requests' = Handler /\ requests'[h] = NoRequest
      /\ \A k \in Handler \ {h} : requests'[k] = requests[k]
  BY <1>2 DEF AttributionInv
<1>6. \A k \in Handler : StillTrue(requests[k])'
  <2>1. \A k \in Handler \ {h} : StillTrue(requests[k])'
    BY <1>2, <1>5, OthersKept
  <2>2. StillTrue(requests[h])'
    BY <1>5, IdleHandler DEF StillTrue, NoRequest
  <2> QED BY <2>1, <2>2
<1>7. OnePayout'
  BY <1>5 DEF AttributionInv, OnePayout, NoRequest
<1> QED BY <1>4, <1>5, <1>6, <1>7 DEF AttributionInv

\* Steps that move a challenge: it is claimed once, paid once, and what was claimed or
\* is being paid is not issued again.
LEMMA ChallengeStep ==
  ASSUME AttributionInv, NEW h \in Handler,
         Issue(h) \/ Claim(h) \/ PayOut(h) \/ FailPayOut(h)
  PROVE  AttributionInv'
<1>0. PICK q : q = requests[h]
  OBVIOUS
<1>1. StillTrue(q) /\ q.at # "idle" /\ q.wallet \in Wallet /\ q \in Request
  BY <1>0 DEF AttributionInv, Issue, Claim, PayOut, FailPayOut, At, StillTrue
<1>2. PICK c \in Challenge : challenges' = [challenges EXCEPT ![q.wallet] = c]
                             /\ c.status = challenges'[q.wallet].status
  <2>1. challenges \in [Wallet -> Challenge]
    BY DEF AttributionInv, Stores
  <2>2. CASE Issue(h)
    <3> DEFINE old == challenges[q.wallet]
               ref == IF old.status = "issued" /\ old.ref # None THEN old.ref ELSE q.ref
    <3>1. [status |-> "issued", ref |-> ref] \in Challenge
      BY <1>1, <2>1 DEF Request, Challenge
    <3> QED BY <1>0, <1>1, <2>1, <2>2, <3>1 DEF Issue
  <2>3. ASSUME NEW s \in {"issued", "funding", "claimed"},
               challenges' = [challenges EXCEPT ![q.wallet].status = s]
        PROVE  \E d \in Challenge : challenges' = [challenges EXCEPT ![q.wallet] = d]
                                    /\ d.status = challenges'[q.wallet].status
    <3>1. [challenges[q.wallet] EXCEPT !.status = s] \in Challenge
      BY <1>1, <2>1 DEF Challenge
    <3> QED BY <1>1, <2>1, <2>3, <3>1
  <2> QED BY <1>0, <2>2, <2>3 DEF Claim, PayOut, FailPayOut
<1>3. /\ challenges' \in [Wallet -> Challenge] /\ challenges'[q.wallet] = c
      /\ \A w \in Wallet \ {q.wallet} : challenges'[w] = challenges[w]
  BY <1>1, <1>2 DEF AttributionInv, Stores
<1>4. UNCHANGED <<refs, byWallet, usage>>
  BY DEF Issue, Claim, PayOut, FailPayOut, database, ghosts
<1>5. PICK new : requests' = [requests EXCEPT ![h] = new]
  BY DEF Issue, Claim, PayOut, FailPayOut, After, Answer, Continue
<1>6. /\ DOMAIN requests' = Handler /\ requests'[h] = new
      /\ \A k \in Handler \ {h} : requests'[k] = requests[k]
  BY <1>5 DEF AttributionInv
<1>7. /\ challenges[q.wallet].status = "funding" => At(h, "payout")
      /\ c.status = "claimed" \/ challenges[q.wallet].status # "claimed"
      /\ At(h, "payout") => challenges[q.wallet].status = "funding"
  <2>1. CASE Issue(h)
    BY <1>0, <2>1 DEF Issue, At
  <2>2. CASE Claim(h)
    BY <1>0, <2>2 DEF Claim, Claimable, At
  <2>3. CASE PayOut(h) \/ FailPayOut(h)
    BY <1>0, <1>1, <2>3 DEF PayOut, FailPayOut, StillTrue, At
  <2> QED BY <2>1, <2>2, <2>3
<1>8. /\ paid' \in [Wallet -> Ref \cup {None}]
      /\ \A w \in Wallet : paid[w] # None => paid'[w] = paid[w]
      /\ \A w \in Wallet : paid'[w] # paid[w] => w = q.wallet /\ PayOut(h)
  <2>1. paid \in [Wallet -> Ref \cup {None}] /\ q.ref \in Ref \cup {None}
    BY <1>1 DEF AttributionInv, Stores, Request
  <2>2. CASE PayOut(h)
    <3>1. paid' = [paid EXCEPT ![q.wallet] = q.ref]
      BY <1>0, <2>2 DEF PayOut
    <3>2. paid[q.wallet] = None
      BY <1>1, <1>7, <2>2 DEF AttributionInv, Stores, PayOut
    <3> QED BY <2>1, <2>2, <3>1, <3>2
  <2>3. CASE paid' = paid
    BY <2>1, <2>3
  <2> QED BY <2>2, <2>3 DEF Issue, Claim, FailPayOut, ghosts
<1>9. PayOut(h) => c.status = "claimed" /\ paid'[q.wallet] = q.ref
  <2>1. paid \in [Wallet -> Ref \cup {None}] /\ challenges \in [Wallet -> Challenge]
    BY DEF AttributionInv, Stores
  <2> QED BY <1>0, <1>1, <1>2, <2>1 DEF PayOut, Challenge
<1>10. Stores'
  <2>1. \A w \in Wallet : paid'[w] # None => challenges'[w].status = "claimed"
    BY <1>3, <1>7, <1>8, <1>9 DEF AttributionInv, Stores
  <2>2. \A w \in DOMAIN byWallet : paid'[w] = paid[w]
    BY <1>8, NoneIsNoRef DEF AttributionInv, Stores
  <2> QED BY <1>3, <1>4, <1>8, <2>1, <2>2 DEF AttributionInv, Stores
<1>11. UsageIsOfGrantee'
  BY <1>4, <1>8, NoneIsNoRef DEF AttributionInv, UsageIsOfGrantee, Stores
<1>12. \A k \in Handler \ {h} : StillTrue(requests[k])'
  <2>1. \A w \in Wallet : challenges[w].status = "funding" =>
          \/ challenges'[w].status = "funding"
          \/ At(h, "payout") /\ w = requests[h].wallet
    BY <1>0, <1>3, <1>7
  <2> QED BY <1>4, <1>6, <1>8, <2>1, OthersKept
<1>13. StillTrue(new)' /\ (new.at = "payout" => Claim(h) /\ new.wallet = q.wallet)
  <2>0. DOMAIN requests = Handler
    BY DEF AttributionInv
  <2>1. CASE Issue(h)
    <3> DEFINE old == challenges[q.wallet]
    <3>1. PICK ref \in Ref \cup {None} : new = [q EXCEPT !.at = "persist", !.ref = ref]
      <4>1. old.ref \in Ref \cup {None} /\ q.ref \in Ref \cup {None}
        BY <1>1 DEF AttributionInv, Stores, Challenge, Request
      <4>2. new = [q EXCEPT !.at = "persist",
                     !.ref = IF old.status = "issued" /\ old.ref # None THEN old.ref
                             ELSE q.ref]
        BY <1>0, <1>6, <2>0, <2>1 DEF Issue
      <4> QED BY <4>1, <4>2
    <3>2. q.op # "usage"
      BY <1>0, <1>1, <2>1 DEF Issue, At, StillTrue
    <3> QED BY <1>1, <3>1, <3>2 DEF StillTrue, Request, Labels
  <2>2. CASE Claim(h)
    <3> DEFINE old == challenges[q.wallet]
    <3>1. PICK ref \in Ref \cup {None} : new = [q EXCEPT !.at = "payout", !.ref = ref]
      <4>1. old.ref \in Ref \cup {None} /\ q.ref \in Ref \cup {None}
        BY <1>1 DEF AttributionInv, Stores, Challenge, Request
      <4>2. new = [q EXCEPT !.at = "payout",
                     !.ref = IF old.ref # None THEN old.ref ELSE q.ref]
        BY <1>0, <1>6, <2>0, <2>2 DEF Claim
      <4> QED BY <4>1, <4>2
    <3>2. q.op # "usage"
      BY <1>0, <1>1, <2>2 DEF Claim, At, StillTrue
    <3>3. challenges'[q.wallet].status = "funding"
      BY <1>0, <1>1, <2>2 DEF Claim, AttributionInv, Stores, Challenge
    <3> QED BY <1>1, <2>2, <3>1, <3>2, <3>3 DEF StillTrue, Request, Labels
  <2>3. CASE PayOut(h) /\ q.ref # None
    <3>1. new = [q EXCEPT !.at = "attempted"]
      BY <1>0, <1>5, <1>6, <2>0, <2>3 DEF PayOut, After, Continue
    <3>2. q.op # "usage"
      BY <1>0, <1>1, <2>3 DEF PayOut, At, StillTrue
    <3> QED BY <1>1, <1>9, <2>3, <3>1, <3>2 DEF StillTrue, Request, Labels
  <2>4. CASE FailPayOut(h) \/ (PayOut(h) /\ q.ref = None)
    <3>1. new = NoRequest
      BY <1>0, <1>5, <1>6, <2>0, <2>4 DEF PayOut, FailPayOut, After, Answer
    <3> QED BY <3>1, IdleHandler DEF NoRequest
  <2> QED BY <2>1, <2>2, <2>3, <2>4
<1>14. \A k \in Handler : StillTrue(requests[k])'
  <2>1. StillTrue(requests[h])'
    BY <1>6, <1>13 DEF StillTrue
  <2> QED BY <1>12, <2>1
<1>15. OnePayout'
  <2>1. ASSUME Claim(h), NEW k \in Handler \ {h}, requests[k].at = "payout"
        PROVE  requests[k].wallet # q.wallet
    <3>1. challenges[q.wallet].status # "funding"
      BY <1>0, <2>1 DEF Claim, Claimable
    <3> QED BY <2>1, <3>1 DEF AttributionInv, StillTrue
  <2> QED BY <1>6, <1>13, <2>1 DEF AttributionInv, OnePayout
<1> QED BY <1>6, <1>10, <1>11, <1>14, <1>15 DEF AttributionInv

\* A challenge that expires was not claimed, the agent adds refs, the dashboard reads,
\* and a service that is started again has no requests.
LEMMA EnvironmentStep ==
  ASSUME AttributionInv,
         \/ \E w \in Wallet : ExpireChallenge(w)
         \/ RegisterRef \/ ReadPart \/ SendReport \/ RestartService
         \/ UNCHANGED attributionVars
  PROVE  AttributionInv'
<1>1. ASSUME NEW w \in Wallet, ExpireChallenge(w) PROVE AttributionInv'
  <2>1. /\ challenges' = [challenges EXCEPT ![w] = NoChallenge]
        /\ challenges[w].status = "issued"
        /\ UNCHANGED <<refs, byWallet, requests, paid, usage>>
    BY <1>1 DEF ExpireChallenge, database, ghosts
  <2>2. /\ challenges' \in [Wallet -> Challenge]
        /\ \A v \in Wallet : challenges[v].status \in {"funding", "claimed"}
                               => challenges'[v] = challenges[v]
    BY <2>1 DEF AttributionInv, Stores, Challenge, NoChallenge
  <2>3. Stores' /\ UsageIsOfGrantee'
    BY <2>1, <2>2 DEF AttributionInv, Stores, UsageIsOfGrantee
  <2>4. ASSUME NEW h \in Handler PROVE StillTrue(requests[h])'
    <3>1. StillTrue(requests[h])
      BY DEF AttributionInv
    <3> QED BY <2>1, <2>2, <3>1 DEF StillTrue
  <2>5. OnePayout'
    BY <2>1 DEF AttributionInv, OnePayout
  <2> QED BY <2>1, <2>3, <2>4, <2>5 DEF AttributionInv
<1>2. ASSUME UNCHANGED <<challenges, byWallet, requests, paid, usage>>,
             refs \subseteq refs', refs' \subseteq Ref
      PROVE  AttributionInv'
  <2>1. Stores' /\ UsageIsOfGrantee'
    BY <1>2 DEF AttributionInv, Stores, UsageIsOfGrantee
  <2>2. ASSUME NEW h \in Handler PROVE StillTrue(requests[h])'
    <3>1. StillTrue(requests[h])
      BY DEF AttributionInv
    <3> QED BY <1>2, <3>1 DEF StillTrue
  <2>3. OnePayout'
    BY <1>2 DEF AttributionInv, OnePayout
  <2> QED BY <1>2, <2>1, <2>2, <2>3 DEF AttributionInv
<1>3. CASE RegisterRef
  BY <1>2, <1>3 DEF RegisterRef, ghosts, AttributionInv, Stores
<1>4. CASE ReadPart \/ SendReport \/ UNCHANGED attributionVars
  BY <1>2, <1>4 DEF ReadPart, SendReport, attributionVars, database, ghosts,
                    AttributionInv, Stores
<1>5. CASE RestartService
  <2>1. /\ requests' = [h \in Handler |-> NoRequest]
        /\ UNCHANGED <<challenges, refs, byWallet, paid, usage>>
    BY <1>5 DEF RestartService, database, ghosts
  <2>2. Stores' /\ UsageIsOfGrantee'
    BY <2>1 DEF AttributionInv, Stores, UsageIsOfGrantee
  <2>3. ASSUME NEW h \in Handler PROVE StillTrue(requests[h])'
    BY <2>1, IdleHandler DEF StillTrue, NoRequest
  <2>4. OnePayout'
    BY <2>1 DEF OnePayout, NoRequest
  <2> QED BY <2>1, <2>2, <2>3, <2>4 DEF AttributionInv
<1> QED BY <1>1, <1>3, <1>4, <1>5

\* The invariant is preserved by every step.
LEMMA AttributionStep ==
  AttributionInv /\ [AttributionNext]_attributionVars => AttributionInv'
<1>1. ASSUME AttributionInv, NEW h \in Handler, Handle(h)
      PROVE  AttributionInv'
  BY <1>1, ReadingStep, RecordStep, AttributeStep, ChallengeStep DEF Handle
<1> QED BY <1>1, EnvironmentStep DEF AttributionNext

\* An event of the SDK is let in only for a wallet that was paid a grant, and for the ref
\* of that grant, although claims, payouts and attribution are separate transactions on
\* two stores that other requests and restarts come between.
THEOREM GranteeCorrect == AttributionSpec => []UsageIsOfGrantee
<1>1. AttributionInv => UsageIsOfGrantee
  BY DEF AttributionInv
<1> QED BY <1>1, AttributionStart, AttributionStep, PTL DEF AttributionSpec

----------------------------------------------------------------------------
\* Sets that are finite.

\* Induction over the subsets of a finite set.
LEMMA SubsetInduction ==
  ASSUME NEW S, IsFiniteSet(S), NEW F,
         \A T \in SUBSET S : (\A U \in SUBSET T : U # T => U \in F) => T \in F
  PROVE  \A T \in SUBSET S : T \in F
<1> DEFINE Out == (SUBSET S) \ F
<1> SUFFICES ASSUME Out # {} PROVE FALSE
  OBVIOUS
<1>1. Out \subseteq FiniteSubsetsOf(S)
  BY FS_FiniteSubsetsOfFinite
<1>2. PICK T \in Out : \A U \in Out : ~(<<U, T>> \in StrictSubsetOrdering(S))
  <2> HIDE DEF Out
  <2> QED BY <1>1, WFMin, FS_StrictSubsetOrderingWellFounded
<1>3. \A U \in SUBSET T : U # T => <<U, T>> \in StrictSubsetOrdering(S)
  BY <1>2 DEF StrictSubsetOrdering
<1>4. \A U \in SUBSET T : U # T => U \in F
  <2> SUFFICES ASSUME NEW U \in SUBSET T, U # T, U \notin F PROVE FALSE
    OBVIOUS
  <2>1. U \in Out
    BY <1>2
  <2> HIDE DEF Out
  <2> QED BY <1>2, <1>3, <2>1
<1> QED BY <1>2, <1>4

----------------------------------------------------------------------------
\* Sums.  The fold that SumFunctionOnSet is takes one element out after the other.
Some(T) == CHOOSE x \in T : TRUE

Sums(g, f, S) ==
  g = [T \in SUBSET S |-> IF T = {} THEN 0 ELSE f[Some(T)] + g[T \ {Some(T)}]]

\* The sum over S is read from a table of the sums over its subsets.
LEMMA SumIsChosen ==
  ASSUME NEW f, NEW S
  PROVE  SumFunctionOnSet(f, S) = (CHOOSE g : Sums(g, f, S))[S]
BY DEF SumFunctionOnSet, FoldFunctionOnSet, MapThenFoldSet, Sums, Some

\* The element that is taken out is one of the set.
LEMMA SomeIs == ASSUME NEW T, T # {} PROVE Some(T) \in T
BY DEF Some

\* Two such tables agree where both are defined.
LEMMA SumsAgree ==
  ASSUME NEW f, NEW S, IsFiniteSet(S), NEW T \in SUBSET S, NEW g, NEW h, Sums(g, f, S), Sums(h, f, T)
  PROVE  \A U \in SUBSET T : g[U] = h[U]
<1> DEFINE F == {U \in SUBSET T : g[U] = h[U]}
<1>1. \A U \in SUBSET T : g[U] = IF U = {} THEN 0 ELSE f[Some(U)] + g[U \ {Some(U)}]
  BY DEF Sums
<1>2. \A U \in SUBSET T : h[U] = IF U = {} THEN 0 ELSE f[Some(U)] + h[U \ {Some(U)}]
  BY DEF Sums
<1>3. ASSUME NEW U \in SUBSET T, \A V \in SUBSET U : V # U => V \in F PROVE U \in F
  <2>1. CASE U = {}
    BY <1>1, <1>2, <2>1
  <2>2. CASE U # {}
    <3>1. U \ {Some(U)} \in F
      BY <1>3, <2>2, SomeIs
    <3> QED BY <1>1, <1>2, <2>2, <3>1
  <2> QED BY <2>1, <2>2
<1>4. IsFiniteSet(T)
  BY FS_Subset
<1>5. \A U \in SUBSET T : U \in F
  <2> HIDE DEF F
  <2> QED BY <1>3, <1>4, SubsetInduction
<1> QED BY <1>5

\* A table of sums over S exists: it is there for every subset if it is for the
\* smaller ones.
LEMMA SumsExist ==
  ASSUME NEW f, NEW S, IsFiniteSet(S)
  PROVE  \E g : Sums(g, f, S)
<1> DEFINE F == {T \in SUBSET S : \E g : Sums(g, f, T)}
<1>1. ASSUME NEW T \in SUBSET S, \A U \in SUBSET T : U # T => U \in F PROVE T \in F
  <2>0. IsFiniteSet(T)
    BY FS_Subset
  <2> DEFINE G(U) == CHOOSE g : Sums(g, f, U)
             V(U) == IF U = T /\ T # {} THEN f[Some(T)] + G(T \ {Some(T)})[T \ {Some(T)}] ELSE G(U)[U]
             g == [U \in SUBSET T |-> IF U = {} THEN 0 ELSE V(U)]
  <2>1. \A U \in SUBSET T : U # T => Sums(G(U), f, U)
    BY <1>1
  <2>2. \A U \in SUBSET T : U # T => \A W \in SUBSET U : G(U)[W] = G(W)[W]
    <3> SUFFICES ASSUME NEW U \in SUBSET T, U # T, NEW W \in SUBSET U PROVE G(U)[W] = G(W)[W]
      OBVIOUS
    <3>1. Sums(G(U), f, U) /\ Sums(G(W), f, W)
      BY <2>1
    <3>2. IsFiniteSet(U)
      BY <2>0, FS_Subset
    <3> HIDE DEF G
    <3> QED BY <3>1, <3>2, SumsAgree
  <2>3. \A U \in SUBSET T : U # {} /\ U # T => G(U)[U] = f[Some(U)] + G(U)[U \ {Some(U)}]
    <3> HIDE DEF G
    <3> QED BY <2>1 DEF Sums
  <2>4. ASSUME NEW U \in SUBSET T, U # {} PROVE g[U] = f[Some(U)] + g[U \ {Some(U)}]
    <3>1. Some(U) \in U
      BY <2>4, SomeIs
    <3>2. U \ {Some(U)} \in SUBSET T /\ U \ {Some(U)} # T /\ U \ {Some(U)} \in SUBSET U
      BY <3>1
    <3>3. g[U \ {Some(U)}] = IF U \ {Some(U)} = {} THEN 0 ELSE G(U \ {Some(U)})[U \ {Some(U)}]
      <4> HIDE DEF G
      <4> QED BY <3>2
    <3>4. g[U \ {Some(U)}] = G(U \ {Some(U)})[U \ {Some(U)}]
      <4>1. CASE U \ {Some(U)} = {}
        <5>1. Sums(G({}), f, {})
          BY <2>1, <3>2, <4>1
        <5>2. G({})[{}] = 0
          <6> HIDE DEF G
          <6> QED BY <5>1 DEF Sums
        <5> HIDE DEF G, g
        <5> QED BY <3>3, <4>1, <5>2
      <4>2. CASE U \ {Some(U)} # {}
        <5> HIDE DEF G, g
        <5> QED BY <3>3, <4>2
      <4> QED BY <4>1, <4>2
    <3>5. CASE U = T
      <4> HIDE DEF G
      <4>1. g[U] = V(U)
        BY <2>4
      <4>2. V(U) = f[Some(T)] + G(T \ {Some(T)})[T \ {Some(T)}]
        BY <3>5, <2>4
      <4> HIDE DEF g, V
      <4> QED BY <3>4, <3>5, <4>1, <4>2
    <3>6. CASE U # T
      <4> HIDE DEF G
      <4>1. g[U] = G(U)[U]
        BY <2>4, <3>6
      <4>2. G(U)[U \ {Some(U)}] = G(U \ {Some(U)})[U \ {Some(U)}]
        BY <2>2, <3>2, <3>6
      <4>3. G(U)[U] = f[Some(U)] + G(U)[U \ {Some(U)}]
        BY <2>3, <2>4, <3>6
      <4> HIDE DEF g, V
      <4> QED BY <3>4, <4>1, <4>2, <4>3
    <3> QED BY <3>5, <3>6
  <2>5. Sums(g, f, T)
    <3>1. g[{}] = 0
      OBVIOUS
    <3>2. \A U \in SUBSET T : g[U] = IF U = {} THEN 0 ELSE f[Some(U)] + g[U \ {Some(U)}]
      <4> HIDE DEF g
      <4> QED BY <2>4, <3>1
    <3>3. g = [U \in SUBSET T |-> g[U]]
      OBVIOUS
    <3> HIDE DEF g
    <3> QED BY <3>2, <3>3 DEF Sums
  <2> HIDE DEF g
  <2> QED BY <2>5
<1>2. \A T \in SUBSET S : T \in F
  <2> HIDE DEF F
  <2> QED BY <1>1, SubsetInduction
<1> QED BY <1>2

\* The sum over no elements, and the sum over a set and over the rest of it.
LEMMA SumEmpty == ASSUME NEW f PROVE SumFunctionOnSet(f, {}) = 0
<1> DEFINE G == CHOOSE g : Sums(g, f, {})
<1>1. IsFiniteSet({})
  BY FS_EmptySet
<1>2. Sums(G, f, {})
  BY <1>1, SumsExist
<1>3. G[{}] = 0
  <2> HIDE DEF G
  <2> QED BY <1>2 DEF Sums
<1> QED BY <1>3, SumIsChosen

LEMMA SumRest ==
  ASSUME NEW f, NEW S, IsFiniteSet(S), S # {}
  PROVE  SumFunctionOnSet(f, S) = f[Some(S)] + SumFunctionOnSet(f, S \ {Some(S)})
<1> DEFINE G(U) == CHOOSE g : Sums(g, f, U)
           R == S \ {Some(S)}
<1>1. IsFiniteSet(R)
  BY FS_Subset
<1>2. Sums(G(S), f, S) /\ Sums(G(R), f, R)
  BY <1>1, SumsExist
<1>3. SumFunctionOnSet(f, S) = G(S)[S] /\ SumFunctionOnSet(f, R) = G(R)[R]
  BY SumIsChosen
<1> HIDE DEF G
<1>4. G(S)[S] = f[Some(S)] + G(S)[R]
  BY <1>2 DEF Sums
<1>5. G(S)[R] = G(R)[R]
  <2>1. R \in SUBSET S /\ R \in SUBSET R
    OBVIOUS
  <2>2. \A U \in SUBSET R : G(S)[U] = G(R)[U]
    <3> HIDE DEF R
    <3> QED BY <1>2, <2>1, SumsAgree
  <2> QED BY <2>1, <2>2
<1> QED BY <1>3, <1>4, <1>5

\* Sums of integers are integers.
LEMMA SumInt ==
  ASSUME NEW S, IsFiniteSet(S), NEW f, \A x \in S : f[x] \in Int
  PROVE  \A T \in SUBSET S : SumFunctionOnSet(f, T) \in Int
<1> DEFINE F == {T \in SUBSET S : SumFunctionOnSet(f, T) \in Int}
<1>1. ASSUME NEW T \in SUBSET S, \A U \in SUBSET T : U # T => U \in F PROVE T \in F
  <2>1. CASE T = {}
    BY <2>1, SumEmpty
  <2>2. CASE T # {}
    <3>1. Some(T) \in T /\ IsFiniteSet(T)
      BY <2>2, SomeIs, FS_Subset
    <3>2. T \ {Some(T)} \in F
      BY <1>1, <3>1
    <3> QED BY <2>2, <3>1, <3>2, SumRest
  <2> QED BY <2>1, <2>2
<1>2. \A T \in SUBSET S : T \in F
  <2> HIDE DEF F
  <2> QED BY <1>1, SubsetInduction
<1> QED BY <1>2

\* It does not matter which element is taken out first.
LEMMA SumWithout ==
  ASSUME NEW S, IsFiniteSet(S), NEW f, \A x \in S : f[x] \in Int
  PROVE  \A T \in SUBSET S : \A x \in T :
           SumFunctionOnSet(f, T) = f[x] + SumFunctionOnSet(f, T \ {x})
<1> DEFINE F == {T \in SUBSET S : \A x \in T :
                   SumFunctionOnSet(f, T) = f[x] + SumFunctionOnSet(f, T \ {x})}
<1>1. ASSUME NEW T \in SUBSET S, \A U \in SUBSET T : U # T => U \in F PROVE T \in F
  <2> SUFFICES ASSUME NEW x \in T
               PROVE  SumFunctionOnSet(f, T) = f[x] + SumFunctionOnSet(f, T \ {x})
    OBVIOUS
  <2> DEFINE y == Some(T)
  <2>1. y \in T /\ IsFiniteSet(T) /\ IsFiniteSet(T \ {y}) /\ IsFiniteSet(T \ {x})
    BY SomeIs, FS_Subset
  <2>2. SumFunctionOnSet(f, T) = f[y] + SumFunctionOnSet(f, T \ {y})
    BY <2>1, SumRest
  <2>3. CASE x = y
    BY <2>2, <2>3
  <2>4. CASE x # y
    <3>1. T \ {y} \in F /\ T \ {x} \in F
      BY <1>1, <2>1
    <3>2. x \in T \ {y} /\ y \in T \ {x} /\ (T \ {y}) \ {x} = (T \ {x}) \ {y}
      BY <2>1, <2>4
    <3>3. SumFunctionOnSet(f, T \ {y}) = f[x] + SumFunctionOnSet(f, (T \ {y}) \ {x})
      BY <3>1, <3>2
    <3>4. SumFunctionOnSet(f, T \ {x}) = f[y] + SumFunctionOnSet(f, (T \ {x}) \ {y})
      BY <3>1, <3>2
    <3>5. (T \ {y}) \ {x} \in SUBSET S /\ x \in S /\ y \in S
      BY <2>1
    <3>6. SumFunctionOnSet(f, (T \ {y}) \ {x}) \in Int /\ f[x] \in Int /\ f[y] \in Int
      BY <3>5, SumInt
    <3>7. PICK n \in Int : n = SumFunctionOnSet(f, (T \ {x}) \ {y}) /\ n = SumFunctionOnSet(f, (T \ {y}) \ {x})
      BY <3>2, <3>6
    <3>8. SumFunctionOnSet(f, T \ {y}) = f[x] + n /\ SumFunctionOnSet(f, T \ {x}) = f[y] + n
      BY <3>3, <3>4, <3>7
    <3> HIDE DEF y, F
    <3> QED BY <2>2, <3>6, <3>8
  <2> QED BY <2>3, <2>4
<1>2. \A T \in SUBSET S : T \in F
  <2> HIDE DEF F
  <2> QED BY <1>1, SubsetInduction
<1> QED BY <1>2

\* The sum over a set is that over a part and that over the rest.
LEMMA SumOfParts ==
  ASSUME NEW S, IsFiniteSet(S), NEW f, \A x \in S : f[x] \in Int, NEW R \in SUBSET S
  PROVE  SumFunctionOnSet(f, S) = SumFunctionOnSet(f, R) + SumFunctionOnSet(f, S \ R)
<1> DEFINE F == {T \in SUBSET (S \ R) : SumFunctionOnSet(f, R \cup T) = SumFunctionOnSet(f, R) + SumFunctionOnSet(f, T)}
<1>0. IsFiniteSet(S \ R)
  BY FS_Subset
<1>1. ASSUME NEW T \in SUBSET (S \ R), \A U \in SUBSET T : U # T => U \in F PROVE T \in F
  <2>1. CASE T = {}
    <3>1. SumFunctionOnSet(f, R) \in Int
      BY SumInt
    <3> QED BY <2>1, <3>1, SumEmpty
  <2>2. CASE T # {}
    <3>1. PICK x \in T : TRUE
      BY <2>2
    <3>2. T \ {x} \in F
      BY <1>1, <3>1
    <3>3. (R \cup T) \ {x} = R \cup (T \ {x}) /\ T \in SUBSET S /\ R \cup T \in SUBSET S /\ x \in R \cup T
          /\ T \ {x} \in SUBSET S
      BY <3>1
    <3>4. SumFunctionOnSet(f, T) = f[x] + SumFunctionOnSet(f, T \ {x})
      BY <3>1, <3>3, SumWithout
    <3>5. SumFunctionOnSet(f, R \cup T) = f[x] + SumFunctionOnSet(f, (R \cup T) \ {x})
      BY <3>3, SumWithout
    <3>6. SumFunctionOnSet(f, R) \in Int /\ SumFunctionOnSet(f, T \ {x}) \in Int /\ f[x] \in Int
      BY <3>1, <3>3, SumInt
    <3>7. SumFunctionOnSet(f, R \cup (T \ {x})) = SumFunctionOnSet(f, R) + SumFunctionOnSet(f, T \ {x})
      BY <3>2
    <3>8. SumFunctionOnSet(f, (R \cup T) \ {x}) = SumFunctionOnSet(f, R) + SumFunctionOnSet(f, T \ {x})
      BY <3>3, <3>7
    <3>9. SumFunctionOnSet(f, R \cup T) = SumFunctionOnSet(f, R) + SumFunctionOnSet(f, T)
      BY <3>4, <3>5, <3>6, <3>8
    <3> QED BY <3>9
  <2> QED BY <2>1, <2>2
<1>2. S \ R \in F
  <2> DEFINE D == S \ R
  <2>1. IsFiniteSet(D) /\ \A T \in SUBSET D : (\A U \in SUBSET T : U # T => U \in F) => T \in F
    BY <1>0, <1>1
  <2>2. \A T \in SUBSET D : T \in F
    <3> HIDE DEF F, D
    <3> QED BY <2>1, SubsetInduction
  <2> HIDE DEF F
  <2> QED BY <2>2
<1>3. R \cup (S \ R) = S
  OBVIOUS
<1> QED BY <1>2, <1>3

\* A part of a set sums up to no more than the set does when its elements have grown.
LEMMA SumGrows ==
  ASSUME NEW S, IsFiniteSet(S), NEW f \in [S -> Nat], NEW g \in [S -> Nat],
         \A x \in S : f[x] <= g[x]
  PROVE  \A T \in SUBSET S : \A R \in SUBSET T :
           /\ SumFunctionOnSet(f, T) \in Nat
           /\ SumFunctionOnSet(f, R) <= SumFunctionOnSet(g, T)
<1> DEFINE F == {T \in SUBSET S : /\ SumFunctionOnSet(f, T) \in Nat
                                  /\ SumFunctionOnSet(g, T) \in Nat
                                  /\ \A R \in SUBSET T : SumFunctionOnSet(f, R) <= SumFunctionOnSet(g, T)}
<1>0. /\ \A T \in SUBSET S : \A x \in T :
           SumFunctionOnSet(f, T) = f[x] + SumFunctionOnSet(f, T \ {x})
      /\ \A T \in SUBSET S : \A x \in T :
           SumFunctionOnSet(g, T) = g[x] + SumFunctionOnSet(g, T \ {x})
  <2>1. (\A x \in S : f[x] \in Int) /\ (\A x \in S : g[x] \in Int)
    OBVIOUS
  <2> QED BY <2>1, SumWithout
<1>1. ASSUME NEW T \in SUBSET S, \A U \in SUBSET T : U # T => U \in F PROVE T \in F
  <2>1. CASE T = {}
    BY <2>1, SumEmpty
  <2>2. CASE T # {}
    <3>1. PICK x \in T : TRUE
      BY <2>2
    <3>2. T \ {x} \in F
      BY <1>1, <3>1
    <3>3. /\ SumFunctionOnSet(f, T) = f[x] + SumFunctionOnSet(f, T \ {x})
          /\ SumFunctionOnSet(g, T) = g[x] + SumFunctionOnSet(g, T \ {x})
          /\ f[x] \in Nat /\ g[x] \in Nat /\ f[x] <= g[x]
      BY <1>0, <3>1
    <3>4. SumFunctionOnSet(f, T) \in Nat /\ SumFunctionOnSet(g, T) \in Nat
      BY <3>2, <3>3
    <3>5. ASSUME NEW R \in SUBSET T PROVE SumFunctionOnSet(f, R) <= SumFunctionOnSet(g, T)
      <4>1. CASE x \notin R
        <5>1. SumFunctionOnSet(f, R) <= SumFunctionOnSet(g, T \ {x})
          BY <3>2, <4>1
        <5>2. R \in F
          BY <1>1, <3>1, <4>1
        <5> QED BY <3>2, <3>3, <5>1, <5>2
      <4>2. CASE x \in R
        <5>1. SumFunctionOnSet(f, R) = f[x] + SumFunctionOnSet(f, R \ {x})
          BY <1>0, <4>2
        <5>2. SumFunctionOnSet(f, R \ {x}) <= SumFunctionOnSet(g, T \ {x})
          BY <3>2
        <5>3. R \ {x} \in F
          BY <1>1, <3>1
        <5> QED BY <3>2, <3>3, <5>1, <5>2, <5>3
      <4> QED BY <4>1, <4>2
    <3> QED BY <3>4, <3>5
  <2> QED BY <2>1, <2>2
<1>2. \A T \in SUBSET S : T \in F
  <2> HIDE DEF F
  <2> QED BY <1>1, SubsetInduction
<1> QED BY <1>2

----------------------------------------------------------------------------
\* The report of the dashboard.

\* The events of registered refs; the others are unresolved.
Resolved == SumFunctionOnSet(events, refs)

\* What a report has counted as resolved is no more than there is by now.
ReportInv ==
  /\ events \in [Ref -> Nat] /\ report \in [read : 0..4, resolved : Nat, listed : SUBSET Ref]
  /\ report.read >= 1 => report.resolved <= Resolved

\* Statements on the database add refs and events, and take none away.
LEMMA DatabaseGrows ==
  ASSUME AttributionInv, ReportInv, [AttributionNext]_attributionVars
  PROVE  /\ refs \subseteq refs' /\ refs' \subseteq Ref
         /\ events' \in [Ref -> Nat] /\ \A r \in Ref : events[r] <= events'[r]
<1>1. refs' \subseteq Ref /\ refs \subseteq Ref
  BY AttributionStep DEF AttributionInv, Stores
<1>2. /\ refs \subseteq refs'
      /\ \/ events' = events
         \/ \E h \in Handler : events' \in Counted(requests[h].ref)
  <2>1. CASE ReadPart
    BY <2>1 DEF ReadPart, database
  <2>2. ASSUME NEW h \in Handler, Handle(h)
        PROVE  refs \subseteq refs' /\ (events' = events \/ events' \in Counted(requests[h].ref))
    BY <2>2 DEF Handle, database, Arrive, Persist, Record, Issue,
         RefuseChallenge, Claim, RefuseClaim, PayOut, Pending, FailPayOut, RecordAttempt, RecordSuccess,
         AttributeWallet, CheckRef, CheckWallet
  <2>3. CASE (\E w \in Wallet : ExpireChallenge(w)) \/ SendReport \/ RestartService \/ UNCHANGED attributionVars
    BY <2>3 DEF ExpireChallenge, SendReport, RestartService, attributionVars, database
  <2>4. CASE RegisterRef
    BY <2>4 DEF RegisterRef
  <2> QED BY <2>1, <2>2, <2>3, <2>4 DEF AttributionNext
<1>4. events' \in [Ref -> Nat] /\ \A r \in Ref : events[r] <= events'[r]
  BY <1>2 DEF Counted, ReportInv
<1> QED BY <1>1, <1>2, <1>4

\* A part lists refs that are registered, and all of them if it has room.
LEMMA ListedAreRegistered ==
  ASSUME AttributionInv, NEW i \in 1..4
  PROVE  /\ \A listed \in Listed(i) : listed \subseteq refs
         /\ Cardinality(refs) <= Room(i) => Listed(i) = {refs}
         /\ i <= 2 => Listed(i) = {refs}
<1>1. Cardinality(refs) \in Nat
  <2>1. IsFiniteSet(Ref) /\ refs \in SUBSET Ref
    BY AttributionAssumption DEF AttributionInv, Stores
  <2> QED BY <2>1, FS_Subset, FS_CardinalityType
<1> QED BY <1>1 DEF Listed, Room, kSubset

\* Each part counts the events of the refs that it lists.
LEMMA CountedIsResolved ==
  ASSUME AttributionInv, ReportInv
  PROVE  /\ Resolved \in Nat
         /\ \A i \in 1..4 : \A listed \in Listed(i) :
              /\ CountedIn(i, listed) = SumFunctionOnSet(events, listed)
              /\ CountedIn(i, listed) \in Nat /\ CountedIn(i, listed) <= Resolved
              /\ CountedIn(i, listed) + SumFunctionOnSet(events, refs \ listed) = Resolved
<1>1. IsFiniteSet(Ref) /\ refs \in SUBSET Ref /\ Ref \ refs \in SUBSET Ref /\ events \in [Ref -> Nat]
      /\ IsFiniteSet(refs)
  BY AttributionAssumption, FS_Subset DEF AttributionInv, Stores, ReportInv
<1>2. (\A x \in Ref : events[x] \in Int) /\ (\A x \in refs : events[x] \in Int)
  BY <1>1
<1>3. /\ Resolved \in Nat
      /\ SumFunctionOnSet(events, Ref \ refs) \in Int
      /\ \A R \in SUBSET refs : SumFunctionOnSet(events, R) \in Nat /\ SumFunctionOnSet(events, R) <= Resolved
  <2>1. \A x \in Ref : events[x] <= events[x]
    BY <1>1
  <2>2. \A T \in SUBSET Ref : \A R \in SUBSET T :
           /\ SumFunctionOnSet(events, T) \in Nat
           /\ SumFunctionOnSet(events, R) <= SumFunctionOnSet(events, T)
    BY <1>1, <2>1, SumGrows
  <2>3. \A R \in SUBSET refs : R \in SUBSET Ref
    BY <1>1
  <2> QED BY <1>1, <1>2, <2>2, <2>3, SumInt DEF Resolved
<1>4. SumFunction(events) = Resolved + SumFunctionOnSet(events, Ref \ refs)
  <2>1. DOMAIN events = Ref
    BY <1>1
  <2> QED BY <1>1, <1>2, <2>1, SumOfParts DEF Resolved, SumFunction
<1>5. ASSUME NEW i \in 1..4, NEW listed \in Listed(i)
      PROVE  /\ CountedIn(i, listed) = SumFunctionOnSet(events, listed)
             /\ listed \in SUBSET refs
  <2>1. listed \in SUBSET refs /\ (i = 1 => listed = refs)
    BY <1>5, ListedAreRegistered
  <2> QED BY <1>3, <1>4, <2>1 DEF CountedIn, Resolved
<1>6. \A R \in SUBSET refs :
        Resolved = SumFunctionOnSet(events, R) + SumFunctionOnSet(events, refs \ R)
  BY <1>1, <1>2, SumOfParts DEF Resolved
<1> QED BY <1>3, <1>5, <1>6

\* Whatever comes between the parts of a report, what it counts as resolved only grows.
LEMMA ReportStep ==
  ASSUME AttributionInv, ReportInv, [AttributionNext]_attributionVars
  PROVE  /\ ReportInv'
         /\ report' # report /\ report'.read > 1 =>
              /\ report'.resolved + SumFunctionOnSet(events, refs \ report'.listed) >= report.resolved
              /\ Cardinality(refs) <= Room(report'.read) => report'.resolved >= report.resolved
<1>1. /\ events' \in [Ref -> Nat] /\ AttributionInv' /\ Resolved <= Resolved' /\ Resolved \in Nat
      /\ report \in [read : 0..4, resolved : Nat, listed : SUBSET Ref]
  <2>1. IsFiniteSet(Ref) /\ events \in [Ref -> Nat] /\ refs \in SUBSET refs' /\ refs' \in SUBSET Ref
        /\ events' \in [Ref -> Nat] /\ \A r \in Ref : events[r] <= events'[r]
    BY DatabaseGrows, AttributionAssumption DEF ReportInv
  <2>2. Resolved <= Resolved'
    BY <2>1, SumGrows DEF Resolved
  <2> QED BY <2>1, <2>2, AttributionStep, CountedIsResolved DEF ReportInv
<1>2. Resolved' \in Nat
  <2>1. IsFiniteSet(Ref) /\ refs' \in SUBSET Ref /\ \A r \in Ref : events'[r] <= events'[r]
    BY <1>1, DatabaseGrows, AttributionAssumption
  <2> QED BY <1>1, <2>1, SumGrows DEF Resolved
<1>3. CASE report' = report
  BY <1>1, <1>2, <1>3 DEF ReportInv
<1>4. CASE SendReport
  BY <1>1, <1>2, <1>4 DEF SendReport, NoReport, ReportInv
<1>5. CASE ReadPart
  <2>1. PICK listed \in Listed(report.read + 1) :
          report' = [read |-> report.read + 1, listed |-> listed,
                     resolved |-> CountedIn(report.read + 1, listed)]
    BY <1>5 DEF ReadPart
  <2>2. report.read + 1 \in 1..4 /\ events' = events /\ refs' = refs
    BY <1>1, <1>5 DEF ReadPart, database
  <2>3. Resolved' = Resolved
    BY <2>2 DEF Resolved
  <2>4. /\ report'.resolved \in Nat /\ report'.resolved <= Resolved
        /\ report'.resolved + SumFunctionOnSet(events, refs \ report'.listed) = Resolved
        /\ report'.read = report.read + 1 /\ report'.listed = listed
    BY <2>1, <2>2, CountedIsResolved
  <2>5. listed \in SUBSET Ref
    BY <2>2, ListedAreRegistered DEF AttributionInv, Stores
  <2>6. ReportInv'
    BY <1>1, <2>1, <2>2, <2>3, <2>4, <2>5 DEF ReportInv
  <2>7. report.read >= 1 => report.resolved <= Resolved
    BY DEF ReportInv
  <2>8. ASSUME Cardinality(refs) <= Room(report'.read) PROVE report'.resolved = Resolved
    <3>1. listed = refs
      BY <2>2, <2>4, <2>8, ListedAreRegistered
    <3> QED BY <2>1, <2>2, <3>1, CountedIsResolved DEF Resolved
  <2> QED BY <1>1, <2>2, <2>4, <2>6, <2>7, <2>8
<1>6. report' = report \/ SendReport \/ ReadPart
  <2>1. ASSUME NEW h \in Handler, Handle(h) PROVE report' = report
    BY <2>1 DEF Handle, Arrive, Persist, Record, Issue,
         RefuseChallenge, Claim, RefuseClaim, PayOut, Pending, FailPayOut, RecordAttempt, RecordSuccess,
         AttributeWallet, CheckRef, CheckWallet
  <2>2. CASE (\E w \in Wallet : ExpireChallenge(w)) \/ RegisterRef \/ RestartService \/ UNCHANGED attributionVars
    BY <2>2 DEF ExpireChallenge, RegisterRef, RestartService, attributionVars
  <2> QED BY <2>1, <2>2 DEF AttributionNext
<1> QED BY <1>3, <1>4, <1>5, <1>6

\* At the start no report is being read.
LEMMA ReportStart == AttributionInit => ReportInv
BY DEF AttributionInit, ReportInv, NoReport

\* What is found by handlers and counted in reports stays true.
LEMMA ReportAlways == AttributionSpec => [](AttributionInv /\ ReportInv)
<1>1. AttributionInit => AttributionInv /\ ReportInv
  BY AttributionStart, ReportStart
<1>2. AttributionInv /\ ReportInv /\ [AttributionNext]_attributionVars => (AttributionInv /\ ReportInv)'
  BY AttributionStep, ReportStep
<1> QED BY <1>1, <1>2, PTL DEF AttributionSpec

\* However many refs and events are added while a report is read, in as many statements
\* as it has parts, and whatever the limits of its lists: a later part accounts for every
\* event that an earlier one counts as resolved, but for those of the refs that a full
\* list leaves out.
THEOREM ReportCorrect == AttributionSpec => ReportAddsUp
<1>1. /\ AttributionInv /\ ReportInv /\ [AttributionNext]_attributionVars
      => [report'.read > 1 =>
            /\ report'.resolved + SumFunctionOnSet(events, refs \ report'.listed) >= report.resolved
            /\ Cardinality(refs) <= Room(report'.read) => report'.resolved >= report.resolved]_report
  BY ReportStep
<1> QED BY <1>1, ReportAlways, PTL DEF AttributionSpec, ReportAddsUp

\* The tables, the challenges and the requests stay well formed, for any refs, wallets and
\* concurrent requests.
THEOREM AttributionTypeCorrect == AttributionSpec => []AttributionTypeOK
<1>1. AttributionInv /\ ReportInv => AttributionTypeOK
  <2> SUFFICES ASSUME AttributionInv, ReportInv PROVE AttributionTypeOK
    OBVIOUS
  <2>1. Range(byWallet) \subseteq Ref /\ DOMAIN byWallet \subseteq Wallet
    BY DEF Range, AttributionInv, Stores
  <2>2. \A h \in Handler :
       /\ requests[h].at \in Labels /\ requests[h].outreachRef \in Ref \cup {None}
       /\ requests[h].at \in {"record", "attempted", "queuedAttempt", "succeeded", "wallet"}
            => requests[h].ref \in Ref
    BY DEF AttributionInv, StillTrue, Request
  <2> QED BY <2>1, <2>2 DEF AttributionTypeOK, AttributionInv, Stores, ReportInv, Challenge
<1> QED BY <1>1, ReportAlways, PTL

----------------------------------------------------------------------------
\* The rotation of prompt variants.

\* The jobs of a scope whose writes may still be published and counted.
Due(s, x) == {w \in DOMAIN s.jobs \ (s.running \ s.pending) : ScopeOf(w) = x}

\* What the next save keeps, and the writes that were counted since the last one.
Saving == IF step = "idle" THEN state ELSE copy
Tallied == IF step \in {"published", "reconcile"} THEN on ELSE {}
Uncounted(x) == Due(Saving, x) \ Tallied

CountLimit == Max(Windows) + MaxQueue * (1 + faults)

\* A bucket has room for all that is still to be counted.
CountInv ==
  \A x \in DOMAIN buckets : buckets[x].count + Cardinality(Uncounted(x)) < CountLimit

BucketsInv ==
  /\ DOMAIN buckets \subseteq Scope /\ \A x \in DOMAIN buckets : BucketOK(buckets[x])
  /\ IF last = "none" THEN DOMAIN buckets = {} ELSE last \in DOMAIN buckets

\* A pending write runs as long as its job is there, and it is there if the write is
\* among those that are out.  The artifacts with an id of Moltbook have no variant.
AgentInv(s, scopes, out) ==
  /\ AgentOK(s) /\ IsFiniteSet(DOMAIN s.jobs)
  /\ \A w \in DOMAIN s.jobs : ScopeOf(w) \in scopes
  /\ s.pending \cap DOMAIN s.jobs \subseteq s.running
  /\ s.pending \cap out \subseteq DOMAIN s.jobs
  /\ \A a \in s.artifacts : \A p \in Post : a.id = Remote(p) => a.variant = NoVariant

\* What a run works on, in each of its steps.
StepInv ==
  /\ step \in {"idle", "publish", "answer", "published", "failed", "health", "reconcile",
               "plan", "select", "draft"}
  /\ DOMAIN copy.jobs \subseteq DOMAIN state.jobs
  /\ step \in {"idle", "health", "plan"} => on = {}
  /\ step \in {"publish", "answer", "published"} =>
       copy = state /\ (\E w \in Write : on = {w}) /\ on \subseteq copy.running \cap copy.pending
  /\ step = "failed" =>
       (\E w \in Write : on = {w}) /\ on \cap DOMAIN copy.jobs \subseteq copy.pending
  /\ step = "reconcile" => on \subseteq copy.pending \cap live
  /\ step \in {"plan", "select", "draft"} => copy = state /\ copy.pending \cap live = {}
  /\ step \in {"select", "draft"} => \E w \in Write \ copy.pending : on = {w}
  /\ step = "draft" =>
       /\ chosen.variant \in Variant
       /\ \A w \in on : /\ ScopeOf(w) \in DOMAIN buckets
                        /\ buckets[ScopeOf(w)].count < Max(Windows)

\* The pause of the agent is not shorter than what the flags it has saved call for, and
\* a post is on its way only without one.
PauseInv ==
  /\ owed \in Nat /\ found \in Nat /\ owed <= state.pause
  /\ step # "idle" => owed <= copy.pause
  /\ IF step = "health" THEN found <= copy.pause ELSE found = 0
  /\ step \in {"select", "draft"} /\ on \cap Post # {} => copy.pause = 0

RotationTyped ==
  /\ chosen \in Choice /\ on \subseteq Write /\ live \subseteq Write /\ flagged \subseteq live \cap Post
  /\ faults \in 0..MaxFaults

RotationInv ==
  /\ RotationTyped /\ BucketsInv
  /\ AgentInv(state, DOMAIN buckets, live) /\ AgentInv(copy, DOMAIN buckets, live)
  /\ StepInv /\ PauseInv /\ CountInv

\* RotationLimits are numbers, and a fault makes room for a full queue.
LEMMA RotationLimits ==
  /\ Max(Windows) \in Windows /\ Max(Windows) \in Nat \ {0}
  /\ \A n \in Windows : n \in Nat \ {0} /\ n <= Max(Windows)
  /\ MaxQueue \in Nat \ {0} /\ MaxAge \in Nat \ {0} /\ MaxFaults \in Nat
  /\ SpamPause \in Nat \ {0} /\ FailedPause \in Nat \ {0}
<1>1. PICK widest \in Windows : \A n \in Windows : n <= widest
  BY RotationAssumption
<1>2. \A n \in Windows : n \in Nat \ {0}
  BY RotationAssumption
<1>3. Max(Windows) \in Windows /\ \A n \in Windows : Max(Windows) >= n
  BY <1>1, <1>2 DEF Max
<1> QED BY <1>2, <1>3, RotationAssumption

LEMMA CountLimits ==
  ASSUME faults \in Nat
  PROVE  /\ CountLimit \in Nat /\ CountLimit >= Max(Windows) + MaxQueue
         /\ faults' = faults + 1 => CountLimit' = CountLimit + MaxQueue
         /\ faults' = faults => CountLimit' = CountLimit
<1>1. Max(Windows) \in Nat /\ MaxQueue \in Nat
  BY RotationLimits
<1>2. ASSUME NEW f \in Nat PROVE MaxQueue * (1 + f) \in Nat /\ MaxQueue * (1 + f) = MaxQueue + MaxQueue * f /\ MaxQueue * f \in Nat
  BY <1>1
<1>3. ASSUME NEW f \in Nat PROVE MaxQueue * (1 + (f + 1)) = MaxQueue * (1 + f) + MaxQueue
  BY <1>1
<1>4. CountLimit \in Nat /\ CountLimit >= Max(Windows) + MaxQueue
  <2>1. CountLimit = Max(Windows) + (MaxQueue + MaxQueue * faults)
    BY <1>2 DEF CountLimit
  <2>2. MaxQueue * faults \in Nat
    BY <1>2
  <2> DEFINE m == MaxQueue * faults
  <2>3. m \in Nat /\ CountLimit = Max(Windows) + (MaxQueue + m)
    BY <2>1, <2>2
  <2> HIDE DEF m
  <2> QED BY <1>1, <2>3
<1>5. ASSUME faults' = faults + 1 PROVE CountLimit' = CountLimit + MaxQueue
  <2>1. CountLimit' = Max(Windows) + MaxQueue * (1 + (faults + 1))
    BY <1>5 DEF CountLimit
  <2>2. CountLimit = Max(Windows) + MaxQueue * (1 + faults)
    BY DEF CountLimit
  <2>3. PICK m \in Nat : m = MaxQueue * (1 + faults)
    BY <1>2
  <2>4. CountLimit' = Max(Windows) + (m + MaxQueue)
    BY <1>3, <2>1, <2>3
  <2>5. CountLimit = Max(Windows) + m
    BY <2>2, <2>3
  <2> QED BY <1>1, <2>4, <2>5
<1>6. faults' = faults => CountLimit' = CountLimit
  BY DEF CountLimit
<1> QED BY <1>4, <1>5, <1>6

\* The greater of two numbers.
LEMMA Greater ==
  ASSUME NEW a \in Int, NEW b \in Int
  PROVE  Max({a, b}) \in {a, b} /\ Max({a, b}) >= a /\ Max({a, b}) >= b
<1>1. \E x \in {a, b} : \A y \in {a, b} : x >= y
  <2>1. CASE a >= b
    BY <2>1
  <2>2. CASE b >= a
    BY <2>2
  <2> QED BY <2>1, <2>2
<1> QED BY <1>1 DEF Max

LEMMA Lesser ==
  ASSUME NEW a \in Int, NEW b \in Int
  PROVE  Min({a, b}) \in {a, b} /\ Min({a, b}) <= a /\ Min({a, b}) <= b
<1>1. \E x \in {a, b} : \A y \in {a, b} : x <= y
  <2>1. CASE a <= b
    BY <2>1
  <2>2. CASE b <= a
    BY <2>2
  <2> QED BY <2>1, <2>2
<1> QED BY <1>1 DEF Min

\* An agent whose jobs are some of those of another one is sound if its pending writes
\* and its artifacts are.
LEMMA FewerJobs ==
  ASSUME NEW s, NEW scopes, NEW out, AgentInv(s, scopes, out), NEW t,
         t = [jobs |-> t.jobs, running |-> t.running, pending |-> t.pending,
              artifacts |-> t.artifacts, processed |-> t.processed, pause |-> t.pause],
         DOMAIN t.jobs \subseteq DOMAIN s.jobs,
         \A w \in DOMAIN t.jobs : t.jobs[w] = s.jobs[w],
         t.running \subseteq DOMAIN t.jobs, t.pending \subseteq Write,
         t.pending \cap DOMAIN t.jobs \subseteq t.running,
         t.pending \cap out \subseteq DOMAIN t.jobs,
         \A a \in t.artifacts : \A p \in Post : a.id = Remote(p) => a.variant = NoVariant,
         t.processed \subseteq Post, t.pause \in 0..SpamPause \cup 0..FailedPause
  PROVE  AgentInv(t, scopes, out)
<1>1. /\ IsFiniteSet(DOMAIN s.jobs) /\ Cardinality(DOMAIN s.jobs) <= MaxQueue
      /\ DOMAIN s.jobs \subseteq Write
      /\ \A w \in DOMAIN s.jobs : s.jobs[w] \in Choice /\ s.jobs[w].variant \in Variant
                                  /\ ScopeOf(w) \in scopes
  BY DEF AgentInv, AgentOK
<1>2. IsFiniteSet(DOMAIN t.jobs) /\ Cardinality(DOMAIN t.jobs) <= Cardinality(DOMAIN s.jobs)
  BY <1>1, FS_Subset
<1>3. Cardinality(DOMAIN t.jobs) <= MaxQueue
  BY <1>1, <1>2, RotationLimits, FS_CardinalityType
<1>4. AgentOK(t)
  BY <1>1, <1>3 DEF AgentOK
<1> QED BY <1>1, <1>2, <1>4 DEF AgentInv

\* What is known of the scopes may grow.
LEMMA MoreScopes ==
  ASSUME NEW s, NEW scopes, NEW more, NEW out, AgentInv(s, scopes, out), scopes \subseteq more
  PROVE  AgentInv(s, more, out)
BY DEF AgentInv

LEMMA NoAgent == \A scopes, out : AgentInv(EmptyState, scopes, out)
<1>1. DOMAIN EmptyState.jobs = {} /\ IsFiniteSet({}) /\ Cardinality({}) = 0
  BY FS_EmptySet DEF EmptyState
<1>2. AgentOK(EmptyState)
  BY <1>1, RotationLimits DEF AgentOK, EmptyState
<1> QED BY <1>1, <1>2 DEF AgentInv, EmptyState

\* What is due is not more than the queue holds.
LEMMA DueIsBounded ==
  ASSUME NEW s, NEW scopes, NEW out, AgentInv(s, scopes, out), NEW x,
         NEW S \in SUBSET Due(s, x)
  PROVE  IsFiniteSet(S) /\ Cardinality(S) \in 0..MaxQueue
<1>1. IsFiniteSet(DOMAIN s.jobs) /\ Cardinality(DOMAIN s.jobs) <= MaxQueue
  BY DEF AgentInv, AgentOK
<1>2. S \in SUBSET DOMAIN s.jobs
  BY DEF Due
<1>3. IsFiniteSet(S) /\ Cardinality(S) <= Cardinality(DOMAIN s.jobs)
  BY <1>1, <1>2, FS_Subset
<1>4. Cardinality(S) \in Nat /\ Cardinality(DOMAIN s.jobs) \in Nat
  BY <1>1, <1>3, FS_CardinalityType
<1> QED BY <1>1, <1>3, <1>4, RotationLimits

\* What a recorded action makes of the bucket of its scope.
LEMMA RecordActionBuckets ==
  ASSUME BucketsInv, NEW x \in DOMAIN buckets, NEW c \in Choice, c.variant \in Variant,
         NEW counts \in BOOLEAN, RecordAction(x, c, counts)
  PROVE  /\ BucketsInv' /\ DOMAIN buckets' = DOMAIN buckets
         /\ \A y \in DOMAIN buckets : y # x => buckets'[y] = buckets[y]
         /\ buckets'[x].count \in IF counts THEN {1, buckets[x].count + 1} ELSE {buckets[x].count}
<1> DEFINE b == buckets[x]
           new == Told(b, c, counts)
<1>1. BucketOK(b) /\ Bucket(x) = b
  BY DEF BucketsInv, Bucket
<1>2. /\ b \in [variant : Variant, count : Nat, window : Windows, acted : BOOLEAN, age : 0..MaxAge]
      /\ c.window \in Windows \cup {NoWindow}
  BY <1>1 DEF BucketOK, Choice
<1> DEFINE fresh == c.variant # b.variant \/ (c.window # NoWindow /\ ~c.reused)
           count == IF ~counts THEN b.count ELSE IF fresh THEN 1 ELSE b.count + 1
           window == IF c.window # NoWindow THEN c.window ELSE b.window
<1>3. new = [b EXCEPT !.variant = c.variant, !.count = count, !.window = window,
                      !.acted = TRUE, !.age = 0]
  BY DEF Told
<1>4. count \in Nat /\ window \in Windows
      /\ count \in IF counts THEN {1, b.count + 1} ELSE {b.count}
  BY <1>2
<1> HIDE DEF new, fresh, count, window
<1>5. new.count = count /\ BucketOK(new)
  <2>1. PICK v : v = b
    OBVIOUS
  <2>2. new = [v EXCEPT !.variant = c.variant, !.count = count, !.window = window,
                        !.acted = TRUE, !.age = 0]
    BY <1>3, <2>1
  <2>3. v \in [variant : Variant, count : Nat, window : Windows, acted : BOOLEAN, age : 0..MaxAge]
    BY <1>2, <2>1
  <2>4. new = [variant |-> c.variant, count |-> count, window |-> window, acted |-> TRUE,
               age |-> 0]
    BY <2>2, <2>3
  <2> QED BY <1>4, <2>4, RotationLimits DEF BucketOK
<1>6. /\ buckets' = [y \in DOMAIN buckets \cup {x} |-> IF y = x THEN new ELSE buckets[y]]
      /\ last' = x
  BY <1>1 DEF RecordAction, StoreBucket, new
<1>7. DOMAIN buckets' = DOMAIN buckets
  BY <1>6
<1>8. \A y \in DOMAIN buckets : buckets'[y] = IF y = x THEN new ELSE buckets[y]
  BY <1>6
<1>9. last # "none"
  BY DEF BucketsInv
<1>10. "none" \notin Scope
  BY DEF Scope
<1>11. BucketsInv'
  BY <1>5, <1>6, <1>7, <1>8, <1>10 DEF BucketsInv
<1> QED BY <1>4, <1>5, <1>7, <1>8, <1>11

\* The counts and what is still to be counted, before a step.
LEMMA Tally ==
  ASSUME RotationInv
  PROVE  /\ faults \in Nat
         /\ \A x \in DOMAIN buckets :
              /\ buckets[x].count \in Nat /\ buckets[x].window <= Max(Windows)
              /\ IsFiniteSet(Uncounted(x)) /\ Cardinality(Uncounted(x)) \in 0..MaxQueue
              /\ buckets[x].count + Cardinality(Uncounted(x)) < CountLimit
<1>1. faults \in Nat
  BY RotationLimits DEF RotationInv, RotationTyped
<1>2. ASSUME NEW x \in DOMAIN buckets
      PROVE  buckets[x].count \in Nat /\ buckets[x].window <= Max(Windows)
  BY <1>2, RotationLimits DEF RotationInv, BucketsInv, BucketOK
<1>3. AgentInv(Saving, DOMAIN buckets, live)
  BY DEF RotationInv, Saving
<1>4. \A x : Uncounted(x) \in SUBSET Due(Saving, x)
  BY DEF Uncounted
<1>5. \A x : IsFiniteSet(Uncounted(x)) /\ Cardinality(Uncounted(x)) \in 0..MaxQueue
  BY <1>3, <1>4, DueIsBounded
<1> QED BY <1>1, <1>2, <1>5 DEF RotationInv, CountInv

\* Nothing is counted, and nothing else will be.
LEMMA CountKept ==
  ASSUME RotationInv, faults' = faults, DOMAIN buckets' = DOMAIN buckets,
         \A x \in DOMAIN buckets : /\ buckets'[x].count = buckets[x].count
                                   /\ Uncounted(x)' \subseteq Uncounted(x)
  PROVE  CountInv'
<1> SUFFICES ASSUME NEW x \in DOMAIN buckets
             PROVE  buckets[x].count + Cardinality(Uncounted(x)') < CountLimit'
  BY DEF CountInv
<1>1. CountLimit' = CountLimit /\ CountLimit \in Nat
  BY Tally, CountLimits
<1>2. /\ buckets[x].count \in Nat /\ IsFiniteSet(Uncounted(x))
      /\ Cardinality(Uncounted(x)) \in 0..MaxQueue
      /\ buckets[x].count + Cardinality(Uncounted(x)) < CountLimit
  BY Tally
<1>3. IsFiniteSet(Uncounted(x)') /\ Cardinality(Uncounted(x)') <= Cardinality(Uncounted(x))
  BY <1>2, FS_Subset
<1>4. Cardinality(Uncounted(x)') \in Nat
  BY <1>3, FS_CardinalityType
<1> QED BY <1>1, <1>2, <1>3, <1>4, RotationLimits

\* A write is counted once, and not again.
LEMMA CountTold ==
  ASSUME RotationInv, faults' = faults, DOMAIN buckets' = DOMAIN buckets,
         NEW w, NEW x \in DOMAIN buckets, w \in Uncounted(x),
         buckets'[x].count \in {1, buckets[x].count + 1},
         \A y \in DOMAIN buckets : /\ y # x => buckets'[y].count = buckets[y].count
                                   /\ Uncounted(y)' \subseteq Uncounted(y) \ {w}
  PROVE  CountInv'
<1> SUFFICES ASSUME NEW y \in DOMAIN buckets
             PROVE  buckets'[y].count + Cardinality(Uncounted(y)') < CountLimit'
  BY DEF CountInv
<1>1. CountLimit' = CountLimit /\ CountLimit \in Nat /\ CountLimit >= Max(Windows) + MaxQueue
  BY Tally, CountLimits
<1>2. /\ buckets[y].count \in Nat /\ IsFiniteSet(Uncounted(y))
      /\ Cardinality(Uncounted(y)) \in 0..MaxQueue
      /\ buckets[y].count + Cardinality(Uncounted(y)) < CountLimit
  BY Tally
<1>3. /\ IsFiniteSet(Uncounted(y) \ {w})
      /\ Cardinality(Uncounted(y) \ {w}) =
           IF w \in Uncounted(y) THEN Cardinality(Uncounted(y)) - 1 ELSE Cardinality(Uncounted(y))
  BY <1>2, FS_RemoveElement
<1>4. Uncounted(y)' \in SUBSET (Uncounted(y) \ {w})
  OBVIOUS
<1>5. IsFiniteSet(Uncounted(y)') /\ Cardinality(Uncounted(y)') <= Cardinality(Uncounted(y) \ {w})
  BY <1>3, <1>4, FS_Subset
<1>6. Cardinality(Uncounted(y)') \in Nat
  BY <1>5, FS_CardinalityType
<1>7. CASE y = x
  <2>1. Cardinality(Uncounted(y)') <= Cardinality(Uncounted(y)) - 1
    BY <1>3, <1>5, <1>7
  <2>2. buckets'[y].count \in {1, buckets[y].count + 1}
    BY <1>7
  <2> QED BY <1>1, <1>2, <1>6, <2>1, <2>2, RotationLimits
<1>8. CASE y # x
  <2>1. Cardinality(Uncounted(y)') <= Cardinality(Uncounted(y))
    BY <1>2, <1>3, <1>5, <1>6, RotationLimits
  <2>2. buckets'[y].count = buckets[y].count
    BY <1>8
  <2> QED BY <1>1, <1>2, <1>6, <2>1, <2>2, RotationLimits
<1> QED BY <1>7, <1>8

\* After a fault a full queue may be counted once more.
LEMMA CountFault ==
  ASSUME RotationInv, faults' = faults + 1, DOMAIN buckets' = DOMAIN buckets,
         \A x \in DOMAIN buckets : /\ buckets'[x].count = buckets[x].count
                                   /\ Cardinality(Uncounted(x)') \in 0..MaxQueue
  PROVE  CountInv'
<1> SUFFICES ASSUME NEW x \in DOMAIN buckets
             PROVE  buckets[x].count + Cardinality(Uncounted(x)') < CountLimit'
  BY DEF CountInv
<1>1. CountLimit' = CountLimit + MaxQueue /\ CountLimit \in Nat
  BY Tally, CountLimits
<1>2. /\ buckets[x].count \in Nat /\ Cardinality(Uncounted(x)) \in 0..MaxQueue
      /\ buckets[x].count + Cardinality(Uncounted(x)) < CountLimit
  BY Tally
<1> QED BY <1>1, <1>2, RotationLimits

\* What a saved copy makes of the jobs that were worked on.
LEMMA RecoveredFields ==
  ASSUME NEW s, AgentOK(s), NEW S
  PROVE  Recovered(s, S) =
           [jobs |-> s.jobs, running |-> s.running, pending |-> s.pending \ S,
            artifacts |-> s.artifacts \cup {Artifact(Own(w), s.jobs[w].variant) : w \in S},
            processed |-> s.processed, pause |-> s.pause]
<1>1. s = [jobs |-> s.jobs, running |-> s.running, pending |-> s.pending,
           artifacts |-> s.artifacts, processed |-> s.processed, pause |-> s.pause]
  BY DEF AgentOK
<1>2. PICK A : A = {Artifact(Own(w), s.jobs[w].variant) : w \in S}
  OBVIOUS
<1>3. Recovered(s, S) = [s EXCEPT !.artifacts = @ \cup A, !.pending = @ \ S]
  BY <1>2 DEF Recovered
<1> QED BY <1>1, <1>2, <1>3

LEMMA SettledFields ==
  ASSUME AgentOK(copy)
  PROVE  Settled(copy) =
           [jobs |-> Restrict(copy.jobs, DOMAIN copy.jobs \ on), running |-> copy.running \ on,
            pending |-> copy.pending \ on,
            artifacts |-> copy.artifacts \cup {Artifact(Own(w), copy.jobs[w].variant) : w \in on},
            processed |-> copy.processed, pause |-> copy.pause]
<1>1. PICK r : r = Recovered(copy, on)
  OBVIOUS
<1>2. PICK A : A = copy.artifacts \cup {Artifact(Own(w), copy.jobs[w].variant) : w \in on}
  OBVIOUS
<1>3. r = [jobs |-> copy.jobs, running |-> copy.running, pending |-> copy.pending \ on,
           artifacts |-> A, processed |-> copy.processed, pause |-> copy.pause]
  BY <1>1, <1>2, RecoveredFields
<1>4. Settled(copy) = [r EXCEPT !.jobs = Restrict(copy.jobs, DOMAIN copy.jobs \ on),
                                !.running = @ \ on]
  BY <1>1, <1>3 DEF Settled
<1> QED BY <1>2, <1>3, <1>4

\* An artifact of our own has no id of Moltbook.
LEMMA OwnIsNotRemote == \A w, v, p : Artifact(Own(w), v).id # Remote(p)
<1> TAKE w, v, p
<1>1. Artifact(Own(w), v).id = <<"own", w>>
  BY DEF Artifact, Own
<1>2. <<"own", w>> # <<"remote", p>>
  OBVIOUS
<1> QED BY <1>1, <1>2 DEF Remote

\* A copy whose work is settled is sound, with fewer due.
LEMMA SettledCopy ==
  ASSUME RotationInv, step = "published"
  PROVE  /\ AgentInv(Settled(copy), DOMAIN buckets, live)
         /\ DOMAIN Settled(copy).jobs = DOMAIN copy.jobs \ on
         /\ Settled(copy).pending = copy.pending \ on
         /\ Settled(copy).pause = copy.pause
         /\ \A x : Due(Settled(copy), x) \subseteq Due(copy, x) \ on
<1>1. AgentInv(copy, DOMAIN buckets, live) /\ on \subseteq copy.running \cap copy.pending
  BY DEF RotationInv, StepInv
<1>2. AgentOK(copy)
  BY <1>1 DEF AgentInv
<1>3. PICK A : A = copy.artifacts \cup {Artifact(Own(w), copy.jobs[w].variant) : w \in on}
  OBVIOUS
<1>4. PICK t : t = Settled(copy)
  OBVIOUS
<1>5. t = [jobs |-> Restrict(copy.jobs, DOMAIN copy.jobs \ on), running |-> copy.running \ on,
           pending |-> copy.pending \ on, artifacts |-> A, processed |-> copy.processed,
           pause |-> copy.pause]
  BY <1>2, <1>3, <1>4, SettledFields
<1>6. /\ DOMAIN t.jobs = DOMAIN copy.jobs \ on
      /\ \A w \in DOMAIN t.jobs : t.jobs[w] = copy.jobs[w]
      /\ t.running = copy.running \ on /\ t.pending = copy.pending \ on
      /\ t.artifacts = A /\ t.processed = copy.processed /\ t.pause = copy.pause
  BY <1>5 DEF Restrict
<1>7. \A a \in A : \A p \in Post : a.id = Remote(p) => a.variant = NoVariant
  <2>1. \A a \in copy.artifacts : \A p \in Post : a.id = Remote(p) => a.variant = NoVariant
    BY <1>1 DEF AgentInv
  <2>2. ASSUME NEW w \in on, NEW p \in Post
        PROVE  Artifact(Own(w), copy.jobs[w].variant).id # Remote(p)
    BY OwnIsNotRemote
  <2> QED BY <1>3, <2>1, <2>2
<1>8. AgentInv(t, DOMAIN buckets, live)
  <2>1. t = [jobs |-> t.jobs, running |-> t.running, pending |-> t.pending,
             artifacts |-> t.artifacts, processed |-> t.processed, pause |-> t.pause]
    BY <1>5, <1>6
  <2>2. /\ DOMAIN t.jobs \subseteq DOMAIN copy.jobs
        /\ t.running \subseteq DOMAIN t.jobs /\ t.pending \subseteq Write
        /\ t.pending \cap DOMAIN t.jobs \subseteq t.running
        /\ t.pending \cap live \subseteq DOMAIN t.jobs
        /\ t.processed \subseteq Post /\ t.pause \in 0..SpamPause \cup 0..FailedPause
    BY <1>1, <1>2, <1>6 DEF AgentInv, AgentOK
  <2> QED BY <1>1, <1>6, <1>7, <2>1, <2>2, FewerJobs
<1>9. \A x : Due(t, x) \subseteq Due(copy, x) \ on
  BY <1>6 DEF Due
<1> QED BY <1>4, <1>6, <1>8, <1>9

----------------------------------------------------------------------------
\* The steps of an executor run.

\* A job that runs is pending, and the jobs that are swept are not due.
LEMMA PickJobInv == RotationInv /\ PickJob => RotationInv'
<1> SUFFICES ASSUME RotationInv, PickJob PROVE RotationInv'
  OBVIOUS
<1> DEFINE s == SweepJobs(state)
<1>1. PICK w \in DOMAIN s.jobs \ s.running :
        state' = [s EXCEPT !.running = @ \cup {w}, !.pending = @ \cup {w}] /\ on' = {w}
  BY DEF PickJob
<1>2. /\ step = "idle" /\ step' = "publish" /\ copy' = state'
      /\ UNCHANGED <<buckets, last, chosen, live, flagged, owed, found, faults>>
  BY DEF PickJob, Then, store, moltbook
<1>3. AgentInv(state, DOMAIN buckets, live) /\ AgentOK(state)
  BY DEF RotationInv, AgentInv
<1>4. s = [jobs |-> Restrict(state.jobs, DOMAIN state.jobs \ (state.running \ state.pending)),
           running |-> state.running \cap state.pending, pending |-> state.pending,
           artifacts |-> state.artifacts, processed |-> state.processed, pause |-> state.pause]
  <2>1. PICK r : r = state
    OBVIOUS
  <2>2. r = [jobs |-> r.jobs, running |-> r.running, pending |-> r.pending,
             artifacts |-> r.artifacts, processed |-> r.processed, pause |-> r.pause]
    BY <1>3, <2>1 DEF AgentOK
  <2>3. s = [r EXCEPT !.jobs = Restrict(@, DOMAIN @ \ (r.running \ r.pending)),
                      !.running = @ \cap r.pending]
    BY <2>1 DEF SweepJobs
  <2> QED BY <2>1, <2>2, <2>3
<1> HIDE DEF s
<1>5. PICK t : t = state'
  OBVIOUS
<1>6. t = [jobs |-> Restrict(state.jobs, DOMAIN state.jobs \ (state.running \ state.pending)),
           running |-> (state.running \cap state.pending) \cup {w},
           pending |-> state.pending \cup {w},
           artifacts |-> state.artifacts, processed |-> state.processed, pause |-> state.pause]
  BY <1>1, <1>4, <1>5
<1>7. /\ DOMAIN t.jobs = DOMAIN state.jobs \ (state.running \ state.pending)
      /\ \A v \in DOMAIN t.jobs : t.jobs[v] = state.jobs[v]
      /\ t.running = (state.running \cap state.pending) \cup {w}
      /\ t.pending = state.pending \cup {w}
      /\ t.artifacts = state.artifacts /\ t.processed = state.processed /\ t.pause = state.pause
  BY <1>6 DEF Restrict
<1>8. w \in DOMAIN t.jobs /\ w \in Write
  BY <1>3, <1>4, <1>7 DEF Restrict, AgentOK
<1>9. AgentInv(t, DOMAIN buckets, live)
  <2>1. t = [jobs |-> t.jobs, running |-> t.running, pending |-> t.pending,
             artifacts |-> t.artifacts, processed |-> t.processed, pause |-> t.pause]
    BY <1>6, <1>7
  <2>2. /\ DOMAIN t.jobs \subseteq DOMAIN state.jobs
        /\ t.running \subseteq DOMAIN t.jobs /\ t.pending \subseteq Write
        /\ t.pending \cap DOMAIN t.jobs \subseteq t.running
        /\ t.pending \cap live \subseteq DOMAIN t.jobs
        /\ t.processed \subseteq Post /\ t.pause \in 0..SpamPause \cup 0..FailedPause
    BY <1>3, <1>7, <1>8 DEF AgentInv, AgentOK
  <2>3. \A a \in t.artifacts : \A p \in Post : a.id = Remote(p) => a.variant = NoVariant
    BY <1>3, <1>7 DEF AgentInv
  <2> QED BY <1>3, <1>7, <2>1, <2>2, <2>3, FewerJobs
<1>10. RotationTyped' /\ BucketsInv'
  BY <1>1, <1>2, <1>8 DEF RotationInv, RotationTyped, BucketsInv
<1>11. StepInv'
  BY <1>1, <1>2, <1>5, <1>7, <1>8 DEF StepInv
<1>12. PauseInv'
  BY <1>2, <1>5, <1>7 DEF RotationInv, PauseInv
<1>13. \A x : Uncounted(x)' = Due(t, x) /\ Uncounted(x) = Due(state, x)
  BY <1>2, <1>5 DEF Uncounted, Saving, Tallied, Due
<1>14. \A x : Due(t, x) \subseteq Due(state, x)
  BY <1>7 DEF Due
<1>15. CountInv'
  BY <1>2, <1>13, <1>14, CountKept
<1> QED BY <1>2, <1>5, <1>9, <1>10, <1>11, <1>12, <1>15 DEF RotationInv

\* What is published is a job that runs.
LEMMA PublishJobInv == RotationInv /\ PublishJob => RotationInv'
<1> SUFFICES ASSUME RotationInv, PublishJob PROVE RotationInv'
  OBVIOUS
<1>1. /\ step = "publish" /\ step' = "answer" /\ live' = live \cup on
      /\ UNCHANGED <<buckets, last, state, copy, on, chosen, flagged, owed, found, faults>>
  BY DEF PublishJob, Then, store
<1>2. copy = state /\ on \subseteq copy.running \cap copy.pending /\ on \subseteq Write
  BY <1>1 DEF RotationInv, StepInv, RotationTyped
<1>3. AgentInv(copy, DOMAIN buckets, live \cup on)
  BY <1>2 DEF RotationInv, AgentInv, AgentOK
<1>4. RotationTyped' /\ BucketsInv'
  BY <1>1, <1>2 DEF RotationInv, RotationTyped, BucketsInv
<1>5. StepInv' /\ PauseInv'
  BY <1>1, <1>2 DEF RotationInv, StepInv, PauseInv
<1>6. \A x : Uncounted(x)' = Uncounted(x)
  BY <1>1 DEF Uncounted, Saving, Tallied, Due
<1>7. CountInv'
  BY <1>1, <1>6, CountKept
<1> QED BY <1>1, <1>2, <1>3, <1>4, <1>5, <1>7 DEF RotationInv

\* The choice that a job was drafted with can be told to the bucket of its scope.
LEMMA ChoiceOfJob ==
  ASSUME RotationInv, NEW w \in DOMAIN copy.jobs
  PROVE  /\ copy.jobs[w] \in Choice /\ copy.jobs[w].variant \in Variant
         /\ ScopeOf(w) \in DOMAIN buckets /\ w \in Write
BY DEF RotationInv, AgentInv, AgentOK

\* The published write is counted, and no longer due.
LEMMA RecordPublishedInv == RotationInv /\ RecordPublished => RotationInv'
<1> SUFFICES ASSUME RotationInv, RecordPublished PROVE RotationInv'
  OBVIOUS
<1>1. /\ step = "answer" /\ step' = "published"
      /\ UNCHANGED <<state, copy, on, chosen, live, flagged, owed, found, faults>>
  BY DEF RecordPublished, Then, moltbook
<1>2. PICK w \in on : RecordAction(ScopeOf(w), copy.jobs[w], TRUE)
  BY DEF RecordPublished
<1>3. /\ copy = state /\ on = {w} /\ w \in copy.running /\ w \in copy.pending
      /\ w \in DOMAIN copy.jobs
  BY <1>1, <1>2 DEF RotationInv, StepInv, AgentInv, AgentOK
<1>4. PICK c \in Choice : c = copy.jobs[w] /\ c.variant \in Variant
  BY <1>3, ChoiceOfJob
<1>5. PICK x \in DOMAIN buckets : x = ScopeOf(w)
  BY <1>3, ChoiceOfJob
<1>6. /\ BucketsInv' /\ DOMAIN buckets' = DOMAIN buckets
      /\ \A y \in DOMAIN buckets : y # x => buckets'[y] = buckets[y]
      /\ buckets'[x].count \in {1, buckets[x].count + 1}
  BY <1>2, <1>4, <1>5, RecordActionBuckets DEF RotationInv
<1>7. RotationTyped' /\ StepInv' /\ PauseInv'
  BY <1>1 DEF RotationInv, RotationTyped, StepInv, PauseInv
<1>8. \A y : Uncounted(y)' = Uncounted(y) \ {w}
  BY <1>1, <1>3 DEF Uncounted, Saving, Tallied, Due
<1>9. w \in Uncounted(x)
  BY <1>1, <1>3, <1>5 DEF Uncounted, Saving, Tallied, Due
<1>10. CountInv'
  BY <1>1, <1>6, <1>8, <1>9, CountTold
<1> QED BY <1>1, <1>6, <1>7, <1>10 DEF RotationInv

\* The saved copy has neither the job nor the pending write.
LEMMA SavePublishedInv == RotationInv /\ SavePublished => RotationInv'
<1> SUFFICES ASSUME RotationInv, SavePublished PROVE RotationInv'
  OBVIOUS
<1>1. /\ step = "published" /\ step' = "idle" /\ state' = Settled(copy)
      /\ copy' = EmptyState /\ on' = {}
      /\ UNCHANGED <<buckets, last, chosen, live, flagged, owed, found, faults>>
  BY DEF SavePublished, Then, store, moltbook
<1>2. AgentInv(state', DOMAIN buckets, live) /\ state'.pause = copy.pause
      /\ \A x : Due(state', x) \subseteq Due(copy, x) \ on
  BY <1>1, SettledCopy
<1>3. AgentInv(copy', DOMAIN buckets, live) /\ DOMAIN copy'.jobs = {}
  BY <1>1, NoAgent DEF EmptyState
<1>4. RotationTyped' /\ BucketsInv'
  BY <1>1 DEF RotationInv, RotationTyped, BucketsInv
<1>5. StepInv' /\ PauseInv'
  BY <1>1, <1>2, <1>3 DEF RotationInv, StepInv, PauseInv
<1>6. \A x : Uncounted(x)' = Due(state', x) /\ Uncounted(x) = Due(copy, x) \ on
  BY <1>1 DEF Uncounted, Saving, Tallied, Due
<1>7. CountInv'
  BY <1>1, <1>2, <1>6, CountKept
<1> QED BY <1>1, <1>2, <1>3, <1>4, <1>5, <1>7 DEF RotationInv

\* The record of a failure changes no count.
LEMMA RecordFailureBuckets ==
  ASSUME RotationInv, RecordFailure, on \subseteq DOMAIN copy.jobs
  PROVE  /\ BucketsInv' /\ DOMAIN buckets' = DOMAIN buckets
         /\ \A y \in DOMAIN buckets : buckets'[y].count = buckets[y].count
         /\ step' = "failed" /\ UNCHANGED <<state, on, chosen, live, flagged, owed, found>>
<1>1. step' = "failed" /\ UNCHANGED <<state, on, chosen, live, flagged, owed, found>>
  BY DEF RecordFailure, Then, moltbook
<1>2. CASE UNCHANGED store
  BY <1>1, <1>2 DEF RotationInv, BucketsInv, store
<1>3. CASE \E w \in on : RecordAction(ScopeOf(w), copy.jobs[w], FALSE)
  <2>1. PICK w \in on : RecordAction(ScopeOf(w), copy.jobs[w], FALSE)
    BY <1>3
  <2>2. PICK c \in Choice : c = copy.jobs[w] /\ c.variant \in Variant
    BY ChoiceOfJob
  <2>3. PICK x \in DOMAIN buckets : x = ScopeOf(w)
    BY ChoiceOfJob
  <2>4. /\ BucketsInv' /\ DOMAIN buckets' = DOMAIN buckets
        /\ \A y \in DOMAIN buckets : y # x => buckets'[y] = buckets[y]
        /\ buckets'[x].count \in {buckets[x].count}
    BY <2>1, <2>2, <2>3, RecordActionBuckets DEF RotationInv
  <2> QED BY <1>1, <2>4
<1> QED BY <1>2, <1>3 DEF RecordFailure

\* A failure leaves the job due.
LEMMA RecordFailedInv == RotationInv /\ RecordFailed => RotationInv'
<1> SUFFICES ASSUME RotationInv, RecordFailed PROVE RotationInv'
  OBVIOUS
<1>1. step \in {"publish", "answer"} /\ RecordFailure /\ UNCHANGED <<copy, faults>>
  BY DEF RecordFailed
<1>2. /\ copy = state /\ (\E w \in Write : on = {w}) /\ on \subseteq copy.running \cap copy.pending
      /\ on \subseteq DOMAIN copy.jobs
  BY <1>1 DEF RotationInv, StepInv, AgentInv, AgentOK
<1>3. /\ BucketsInv' /\ DOMAIN buckets' = DOMAIN buckets
      /\ \A y \in DOMAIN buckets : buckets'[y].count = buckets[y].count
      /\ step' = "failed" /\ UNCHANGED <<state, on, chosen, live, flagged, owed, found>>
  BY <1>1, <1>2, RecordFailureBuckets
<1>4. RotationTyped' /\ StepInv' /\ PauseInv'
  BY <1>1, <1>2, <1>3 DEF RotationInv, RotationTyped, StepInv, PauseInv
<1>5. \A x : Uncounted(x)' = Uncounted(x)
  BY <1>1, <1>3 DEF Uncounted, Saving, Tallied, Due
<1>6. CountInv'
  BY <1>1, <1>3, <1>5, CountKept
<1> QED BY <1>1, <1>3, <1>4, <1>6 DEF RotationInv

\* A fault after the record may count the write again.
LEMMA FailAfterRecordInv == RotationInv /\ FailAfterRecord => RotationInv'
<1> SUFFICES ASSUME RotationInv, FailAfterRecord PROVE RotationInv'
  OBVIOUS
<1>1. /\ step = "published" /\ faults < MaxFaults /\ faults' = faults + 1
      /\ copy' \in {copy, Settled(copy)} /\ RecordFailure
  BY DEF FailAfterRecord
<1>2. /\ copy = state /\ (\E w \in Write : on = {w}) /\ on \subseteq copy.running \cap copy.pending
      /\ on \subseteq DOMAIN copy.jobs
  BY <1>1 DEF RotationInv, StepInv, AgentInv, AgentOK
<1>3. /\ BucketsInv' /\ DOMAIN buckets' = DOMAIN buckets
      /\ \A y \in DOMAIN buckets : buckets'[y].count = buckets[y].count
      /\ step' = "failed" /\ UNCHANGED <<state, on, chosen, live, flagged, owed, found>>
  BY <1>1, <1>2, RecordFailureBuckets
<1>4. /\ AgentInv(copy', DOMAIN buckets, live) /\ copy'.pause = copy.pause
      /\ DOMAIN copy'.jobs \subseteq DOMAIN copy.jobs
      /\ on \cap DOMAIN copy'.jobs \subseteq copy'.pending
  <2>1. CASE copy' = copy
    BY <1>2, <2>1 DEF RotationInv
  <2>2. CASE copy' = Settled(copy)
    BY <1>1, <2>2, SettledCopy
  <2> QED BY <1>1, <2>1, <2>2
<1>5. RotationTyped'
  BY <1>1, <1>3, RotationLimits DEF RotationInv, RotationTyped
<1>6. StepInv' /\ PauseInv'
  BY <1>1, <1>2, <1>3, <1>4 DEF RotationInv, StepInv, PauseInv
<1>7. \A x : Uncounted(x)' = Due(copy', x)
  BY <1>3 DEF Uncounted, Saving, Tallied, Due
<1>8. \A x : Cardinality(Uncounted(x)') \in 0..MaxQueue
  <2>1. PICK t : t = copy'
    OBVIOUS
  <2>2. \A x : Due(t, x) \in SUBSET Due(t, x)
    OBVIOUS
  <2>3. \A x : Cardinality(Due(t, x)) \in 0..MaxQueue
    BY <1>4, <2>1, <2>2, DueIsBounded
  <2> QED BY <1>7, <2>1, <2>3
<1>9. CountInv'
  BY <1>1, <1>3, <1>8, CountFault
<1> QED BY <1>3, <1>4, <1>5, <1>6, <1>9 DEF RotationInv

\* The job waits for another attempt, or is gone.
LEMMA SaveFailedInv == RotationInv /\ SaveFailed => RotationInv'
<1> SUFFICES ASSUME RotationInv, SaveFailed PROVE RotationInv'
  OBVIOUS
<1>1. PICK left \in {DOMAIN copy.jobs, DOMAIN copy.jobs \ on} :
        state' = [copy EXCEPT !.jobs = Restrict(@, left), !.running = @ \ on, !.pending = @ \ on]
  BY DEF SaveFailed
<1>2. /\ step = "failed" /\ step' = "idle" /\ copy' = EmptyState /\ on' = {}
      /\ UNCHANGED <<buckets, last, chosen, live, flagged, owed, found, faults>>
  BY DEF SaveFailed, Then, store, moltbook
<1>3. AgentInv(copy, DOMAIN buckets, live) /\ AgentOK(copy)
      /\ on \cap DOMAIN copy.jobs \subseteq copy.pending
  BY <1>2 DEF RotationInv, AgentInv, StepInv
<1>4. PICK t : t = state'
  OBVIOUS
<1>5. t = [jobs |-> Restrict(copy.jobs, left), running |-> copy.running \ on,
           pending |-> copy.pending \ on, artifacts |-> copy.artifacts,
           processed |-> copy.processed, pause |-> copy.pause]
  <2>1. PICK r : r = copy
    OBVIOUS
  <2>2. r = [jobs |-> r.jobs, running |-> r.running, pending |-> r.pending,
             artifacts |-> r.artifacts, processed |-> r.processed, pause |-> r.pause]
    BY <1>3, <2>1 DEF AgentOK
  <2>3. t = [r EXCEPT !.jobs = Restrict(@, left), !.running = @ \ on, !.pending = @ \ on]
    BY <1>1, <1>4, <2>1
  <2> QED BY <2>1, <2>2, <2>3
<1>6. /\ DOMAIN t.jobs = left /\ \A w \in left : t.jobs[w] = copy.jobs[w]
      /\ t.running = copy.running \ on /\ t.pending = copy.pending \ on
      /\ t.artifacts = copy.artifacts /\ t.processed = copy.processed /\ t.pause = copy.pause
  BY <1>5 DEF Restrict
<1>7. AgentInv(t, DOMAIN buckets, live)
  <2>1. t = [jobs |-> t.jobs, running |-> t.running, pending |-> t.pending,
             artifacts |-> t.artifacts, processed |-> t.processed, pause |-> t.pause]
    BY <1>5, <1>6
  <2>2. /\ DOMAIN t.jobs \subseteq DOMAIN copy.jobs
        /\ \A w \in DOMAIN t.jobs : t.jobs[w] = copy.jobs[w]
        /\ t.running \subseteq DOMAIN t.jobs /\ t.pending \subseteq Write
        /\ t.pending \cap DOMAIN t.jobs \subseteq t.running
        /\ t.pending \cap live \subseteq DOMAIN t.jobs
        /\ t.processed \subseteq Post /\ t.pause \in 0..SpamPause \cup 0..FailedPause
    BY <1>3, <1>6 DEF AgentInv, AgentOK
  <2>3. \A a \in t.artifacts : \A p \in Post : a.id = Remote(p) => a.variant = NoVariant
    BY <1>3, <1>6 DEF AgentInv
  <2> QED BY <1>3, <2>1, <2>2, <2>3, FewerJobs
<1>8. AgentInv(copy', DOMAIN buckets, live) /\ DOMAIN copy'.jobs = {}
  BY <1>2, NoAgent DEF EmptyState
<1>9. RotationTyped' /\ BucketsInv'
  BY <1>2 DEF RotationInv, RotationTyped, BucketsInv
<1>10. StepInv' /\ PauseInv'
  BY <1>2, <1>4, <1>6, <1>8 DEF RotationInv, StepInv, PauseInv
<1>11. \A x : Uncounted(x)' = Due(t, x) /\ Uncounted(x) = Due(copy, x)
  BY <1>2, <1>4 DEF Uncounted, Saving, Tallied, Due
<1>12. \A x : Due(t, x) \subseteq Due(copy, x)
  BY <1>3, <1>6 DEF Due
<1>13. CountInv'
  BY <1>2, <1>11, <1>12, CountKept
<1> QED BY <1>2, <1>4, <1>7, <1>8, <1>9, <1>10, <1>13 DEF RotationInv


----------------------------------------------------------------------------
\* The steps of a heartbeat.

\* Posts that are filled in have no variant.
LEMMA BackfillInv == RotationInv /\ Backfill => RotationInv'
<1> SUFFICES ASSUME RotationInv, Backfill PROVE RotationInv'
  OBVIOUS
<1>1. /\ step = "idle" /\ step' = "health"
      /\ UNCHANGED <<buckets, last, state, on, chosen, live, flagged, owed, found, faults>>
  BY DEF Backfill, Then, store, moltbook
<1>2. PICK M : copy' = [state EXCEPT !.artifacts =
                          @ \cup {Artifact(Remote(p), NoVariant) : p \in M}]
  BY DEF Backfill
<1>3. AgentInv(state, DOMAIN buckets, live) /\ AgentOK(state)
  BY DEF RotationInv, AgentInv
<1>4. PICK A : A = state.artifacts \cup {Artifact(Remote(p), NoVariant) : p \in M}
  OBVIOUS
<1>5. PICK t : t = copy'
  OBVIOUS
<1>6. t = [jobs |-> state.jobs, running |-> state.running, pending |-> state.pending,
           artifacts |-> A, processed |-> state.processed, pause |-> state.pause]
  <2>1. PICK r : r = state
    OBVIOUS
  <2>2. r = [jobs |-> r.jobs, running |-> r.running, pending |-> r.pending,
             artifacts |-> r.artifacts, processed |-> r.processed, pause |-> r.pause]
    BY <1>3, <2>1 DEF AgentOK
  <2>3. t = [r EXCEPT !.artifacts = A]
    BY <1>2, <1>4, <1>5, <2>1
  <2> QED BY <2>1, <2>2, <2>3
<1>7. \A a \in A : \A p \in Post : a.id = Remote(p) => a.variant = NoVariant
  <2>1. \A a \in state.artifacts : \A p \in Post : a.id = Remote(p) => a.variant = NoVariant
    BY <1>3 DEF AgentInv
  <2>2. \A p \in M : Artifact(Remote(p), NoVariant).variant = NoVariant
    BY DEF Artifact
  <2> QED BY <1>4, <2>1, <2>2
<1>8. AgentInv(t, DOMAIN buckets, live)
  <2>1. /\ t = [jobs |-> t.jobs, running |-> t.running, pending |-> t.pending,
                artifacts |-> t.artifacts, processed |-> t.processed, pause |-> t.pause]
        /\ t.artifacts = A
    BY <1>6
  <2>2. /\ DOMAIN t.jobs \subseteq DOMAIN state.jobs
        /\ \A w \in DOMAIN t.jobs : t.jobs[w] = state.jobs[w]
        /\ t.running \subseteq DOMAIN t.jobs /\ t.pending \subseteq Write
        /\ t.pending \cap DOMAIN t.jobs \subseteq t.running
        /\ t.pending \cap live \subseteq DOMAIN t.jobs
        /\ t.processed \subseteq Post /\ t.pause \in 0..SpamPause \cup 0..FailedPause
    BY <1>3, <1>6 DEF AgentInv, AgentOK
  <2> QED BY <1>3, <1>7, <2>1, <2>2, FewerJobs
<1>9. RotationTyped' /\ BucketsInv'
  BY <1>1 DEF RotationInv, RotationTyped, BucketsInv
<1>10. StepInv' /\ PauseInv'
  <2>1. /\ t.jobs = state.jobs /\ t.running = state.running /\ t.pending = state.pending
        /\ t.pause = state.pause
    BY <1>6
  <2>2. state.pause \in 0..SpamPause \cup 0..FailedPause
    BY <1>3 DEF AgentOK
  <2>3. StepInv'
    BY <1>1, <1>5, <2>1 DEF RotationInv, StepInv
  <2>4. PauseInv'
    BY <1>1, <1>5, <2>1, <2>2, RotationLimits DEF RotationInv, PauseInv
  <2> QED BY <2>3, <2>4
<1>11. \A x : Uncounted(x)' = Due(t, x) /\ Uncounted(x) = Due(state, x)
  BY <1>1, <1>5 DEF Uncounted, Saving, Tallied, Due
<1>12. \A x : Due(t, x) = Due(state, x)
  BY <1>6 DEF Due
<1>13. CountInv'
  BY <1>1, <1>11, <1>12, CountKept
<1> QED BY <1>1, <1>3, <1>5, <1>8, <1>9, <1>10, <1>13 DEF RotationInv

LEMMA SkipHealthInv == RotationInv /\ SkipHealth => RotationInv'
<1> SUFFICES ASSUME RotationInv, SkipHealth PROVE RotationInv'
  OBVIOUS
<1>1. /\ step = "idle" /\ step' = "reconcile" /\ copy' = state
      /\ UNCHANGED <<buckets, last, state, on, chosen, live, flagged, owed, found, faults>>
  BY DEF SkipHealth, Then, store, moltbook
<1>2. AgentInv(state, DOMAIN buckets, live) /\ on = {}
  BY <1>1 DEF RotationInv, StepInv
<1>3. RotationTyped' /\ BucketsInv' /\ StepInv' /\ PauseInv'
  BY <1>1, <1>2 DEF RotationInv, RotationTyped, BucketsInv, StepInv, PauseInv
<1>4. \A x : Uncounted(x)' = Uncounted(x)
  BY <1>1, <1>2 DEF Uncounted, Saving, Tallied, Due
<1>5. CountInv'
  BY <1>1, <1>4, CountKept
<1> QED BY <1>1, <1>2, <1>3, <1>5 DEF RotationInv

\* No artifact has both the id of a post and a variant: a flag changes no bucket.  The
\* pause is not shorter than what the flag calls for, nor than it was.
LEMMA CheckPostInv == RotationInv /\ CheckPost => RotationInv'
<1> SUFFICES ASSUME RotationInv, CheckPost PROVE RotationInv'
  OBVIOUS
<1>1. PICK p \in (live \cap flagged) \ copy.processed, flag \in {"spam", "failed"} :
        /\ copy' = [copy EXCEPT !.processed = @ \cup {p},
                              !.pause = ExtendPause(@, PauseFor(flag))]
        /\ found' = Max({found, PauseFor(flag)})
        /\ RecordModeration(p)
  BY DEF CheckPost
<1>2. step = "health" /\ UNCHANGED <<state, step, on, chosen, live, flagged, owed, faults>>
  BY DEF CheckPost, moltbook
<1>3. /\ AgentInv(copy, DOMAIN buckets, live) /\ AgentOK(copy) /\ on = {}
      /\ owed \in Nat /\ found \in Nat /\ owed <= copy.pause /\ found <= copy.pause
      /\ copy.pause \in 0..SpamPause \cup 0..FailedPause
  BY <1>2 DEF RotationInv, AgentInv, AgentOK, StepInv, PauseInv
<1>4. PICK n : n = PauseFor(flag) /\ n \in {SpamPause, FailedPause}
  BY DEF PauseFor
<1>5. PICK pause : /\ pause = ExtendPause(copy.pause, n)
                   /\ pause \in 0..SpamPause \cup 0..FailedPause
                   /\ pause >= n /\ pause >= copy.pause
  <2>1. SpamPause \in Nat /\ FailedPause \in Nat
    BY RotationLimits
  <2> QED BY <1>3, <1>4, <2>1 DEF ExtendPause
<1>6. PICK t : t = copy'
  OBVIOUS
<1>7. t = [jobs |-> copy.jobs, running |-> copy.running, pending |-> copy.pending,
           artifacts |-> copy.artifacts, processed |-> copy.processed \cup {p}, pause |-> pause]
  <2>1. PICK r : r = copy
    OBVIOUS
  <2>2. r = [jobs |-> r.jobs, running |-> r.running, pending |-> r.pending,
             artifacts |-> r.artifacts, processed |-> r.processed, pause |-> r.pause]
    BY <1>3, <2>1 DEF AgentOK
  <2>3. t = [r EXCEPT !.processed = @ \cup {p}, !.pause = pause]
    BY <1>1, <1>4, <1>5, <1>6, <2>1
  <2> QED BY <2>1, <2>2, <2>3
<1>8. /\ t.jobs = copy.jobs /\ t.running = copy.running /\ t.pending = copy.pending
      /\ t.artifacts = copy.artifacts /\ t.processed = copy.processed \cup {p} /\ t.pause = pause
  BY <1>7
<1>9. AgentInv(t, DOMAIN buckets, live)
  <2>1. t = [jobs |-> t.jobs, running |-> t.running, pending |-> t.pending,
             artifacts |-> t.artifacts, processed |-> t.processed, pause |-> t.pause]
    BY <1>7, <1>8
  <2>2. p \in Post
    BY DEF RotationInv, RotationTyped
  <2>3. /\ DOMAIN t.jobs \subseteq DOMAIN copy.jobs
        /\ \A w \in DOMAIN t.jobs : t.jobs[w] = copy.jobs[w]
        /\ t.running \subseteq DOMAIN t.jobs /\ t.pending \subseteq Write
        /\ t.pending \cap DOMAIN t.jobs \subseteq t.running
        /\ t.pending \cap live \subseteq DOMAIN t.jobs
        /\ t.processed \subseteq Post
    BY <1>3, <1>8, <2>2 DEF AgentInv, AgentOK
  <2>4. \A a \in t.artifacts : \A q \in Post : a.id = Remote(q) => a.variant = NoVariant
    BY <1>3, <1>8 DEF AgentInv
  <2> QED BY <1>3, <1>5, <1>8, <2>1, <2>3, <2>4, FewerJobs
<1>10. UNCHANGED <<buckets, last>>
  <2>1. p \in Post
    BY DEF RotationInv, RotationTyped
  <2>2. {a \in copy.artifacts : a.id = Remote(p) /\ a.variant # NoVariant} = {}
    BY <1>3, <2>1 DEF AgentInv
  <2> QED BY <1>1, <2>2 DEF RecordModeration, store
<1>11. RotationTyped' /\ BucketsInv'
  BY <1>2, <1>10 DEF RotationInv, RotationTyped, BucketsInv
<1>12. StepInv'
  BY <1>2, <1>3, <1>6, <1>8, <1>10 DEF RotationInv, StepInv
<1>13. PauseInv'
  <2>1. n \in Nat
    BY <1>4, RotationLimits
  <2>2. found' = Max({found, n})
    BY <1>1, <1>4
  <2>3. found \in Int /\ n \in Int
    BY <1>3, <2>1
  <2>4. found' \in {found, n}
    BY <2>2, <2>3, Greater
  <2>5. SpamPause \in Nat /\ FailedPause \in Nat
    BY RotationLimits
  <2>6. found' \in Nat /\ found' <= pause /\ owed <= pause
    BY <1>3, <1>5, <2>1, <2>4, <2>5
  <2> QED BY <1>2, <1>6, <1>8, <2>6 DEF RotationInv, PauseInv
<1>14. \A x : Uncounted(x)' = Uncounted(x)
  BY <1>2, <1>6, <1>8 DEF Uncounted, Saving, Tallied, Due
<1>15. CountInv'
  BY <1>2, <1>10, <1>14, CountKept
<1> QED BY <1>2, <1>6, <1>9, <1>10, <1>11, <1>12, <1>13, <1>15 DEF RotationInv

LEMMA SaveHealthInv == RotationInv /\ SaveHealth => RotationInv'
<1> SUFFICES ASSUME RotationInv, SaveHealth PROVE RotationInv'
  OBVIOUS
<1>1. /\ step = "health" /\ step' = "reconcile" /\ state' = copy
      /\ owed' = Max({owed, found}) /\ found' = 0
      /\ UNCHANGED <<buckets, last, copy, on, chosen, live, flagged, faults>>
  BY DEF SaveHealth, Then, store, moltbook
<1>2. AgentInv(copy, DOMAIN buckets, live) /\ on = {}
  BY <1>1 DEF RotationInv, StepInv
<1>3. RotationTyped' /\ BucketsInv' /\ StepInv'
  BY <1>1, <1>2 DEF RotationInv, RotationTyped, BucketsInv, StepInv
<1>4. PauseInv'
  <2>1. owed \in Nat /\ found \in Nat /\ owed <= copy.pause /\ found <= copy.pause
    BY <1>1 DEF RotationInv, PauseInv
  <2>2. owed' \in {owed, found}
    BY <1>1, <2>1, Greater
  <2> QED BY <1>1, <2>1, <2>2 DEF PauseInv
<1>5. \A x : Uncounted(x)' = Uncounted(x)
  BY <1>1, <1>2 DEF Uncounted, Saving, Tallied, Due
<1>6. CountInv'
  BY <1>1, <1>5, CountKept
<1> QED BY <1>1, <1>2, <1>3, <1>4, <1>6 DEF RotationInv

\* A pending write that was published still has its job: it is counted once.
LEMMA RecordRecoveredInv == RotationInv /\ RecordRecovered => RotationInv'
<1> SUFFICES ASSUME RotationInv, RecordRecovered PROVE RotationInv'
  OBVIOUS
<1>1. PICK w \in (copy.pending \cap live) \ on :
        /\ RecordAction(ScopeOf(w), [copy.jobs[w] EXCEPT !.window = NoWindow], TRUE)
        /\ on' = on \cup {w}
  BY DEF RecordRecovered
<1>2. /\ step = "reconcile"
      /\ UNCHANGED <<state, copy, step, chosen, live, flagged, owed, found, faults>>
  BY DEF RecordRecovered, moltbook
<1>3. w \in DOMAIN copy.jobs /\ w \in copy.running
  BY DEF RotationInv, AgentInv
<1>4. PICK r \in Choice : r = copy.jobs[w] /\ r.variant \in Variant
  BY <1>3, ChoiceOfJob
<1>5. PICK c \in Choice : c = [copy.jobs[w] EXCEPT !.window = NoWindow] /\ c.variant \in Variant
  <2>1. [r EXCEPT !.window = NoWindow] \in Choice
    BY DEF Choice
  <2>2. [r EXCEPT !.window = NoWindow].variant = r.variant
    BY DEF Choice
  <2> QED BY <1>4, <2>1, <2>2
<1>6. PICK x \in DOMAIN buckets : x = ScopeOf(w)
  BY <1>3, ChoiceOfJob
<1>7. /\ BucketsInv' /\ DOMAIN buckets' = DOMAIN buckets
      /\ \A y \in DOMAIN buckets : y # x => buckets'[y] = buckets[y]
      /\ buckets'[x].count \in {1, buckets[x].count + 1}
  BY <1>1, <1>5, <1>6, RecordActionBuckets DEF RotationInv
<1>8. w \in Write
  BY <1>3, ChoiceOfJob
<1>9. RotationTyped' /\ StepInv' /\ PauseInv'
  BY <1>1, <1>2, <1>8 DEF RotationInv, RotationTyped, StepInv, PauseInv
<1>10. \A y : Uncounted(y)' = Uncounted(y) \ {w}
  BY <1>1, <1>2 DEF Uncounted, Saving, Tallied, Due
<1>11. w \in Uncounted(x)
  BY <1>1, <1>2, <1>3, <1>6 DEF Uncounted, Saving, Tallied, Due
<1>12. CountInv'
  BY <1>2, <1>7, <1>10, <1>11, CountTold
<1> QED BY <1>2, <1>7, <1>9, <1>12 DEF RotationInv

\* What was counted is no longer pending, and nothing that was published is.
LEMMA SaveReconciledInv == RotationInv /\ SaveReconciled => RotationInv'
<1> SUFFICES ASSUME RotationInv, SaveReconciled PROVE RotationInv'
  OBVIOUS
<1>1. PICK expired \in SUBSET (copy.pending \ live) :
        copy' = [Recovered(copy, on) EXCEPT !.pending = @ \ expired]
  BY DEF SaveReconciled
<1>2. /\ step = "reconcile" /\ step' = "plan" /\ copy.pending \cap live \subseteq on
      /\ state' = copy' /\ on' = {}
      /\ UNCHANGED <<buckets, last, chosen, live, flagged, owed, found, faults>>
  BY DEF SaveReconciled, Then, store, moltbook
<1>3. AgentInv(copy, DOMAIN buckets, live) /\ AgentOK(copy) /\ on \subseteq copy.pending
  BY <1>2 DEF RotationInv, AgentInv, StepInv
<1>4. PICK A : A = copy.artifacts \cup {Artifact(Own(w), copy.jobs[w].variant) : w \in on}
  OBVIOUS
<1>5. PICK t : t = copy'
  OBVIOUS
<1>6. t = [jobs |-> copy.jobs, running |-> copy.running,
           pending |-> (copy.pending \ on) \ expired, artifacts |-> A,
           processed |-> copy.processed, pause |-> copy.pause]
  <2>1. PICK r : r = Recovered(copy, on)
    OBVIOUS
  <2>2. r = [jobs |-> copy.jobs, running |-> copy.running, pending |-> copy.pending \ on,
             artifacts |-> A, processed |-> copy.processed, pause |-> copy.pause]
    BY <1>3, <1>4, <2>1, RecoveredFields
  <2>3. t = [r EXCEPT !.pending = @ \ expired]
    BY <1>1, <1>5, <2>1
  <2> QED BY <2>2, <2>3
<1>7. /\ t.jobs = copy.jobs /\ t.running = copy.running
      /\ t.pending = (copy.pending \ on) \ expired
      /\ t.artifacts = A /\ t.processed = copy.processed /\ t.pause = copy.pause
  BY <1>6
<1>8. \A a \in A : \A p \in Post : a.id = Remote(p) => a.variant = NoVariant
  <2>1. \A a \in copy.artifacts : \A p \in Post : a.id = Remote(p) => a.variant = NoVariant
    BY <1>3 DEF AgentInv
  <2>2. ASSUME NEW w \in on, NEW p \in Post
        PROVE  Artifact(Own(w), copy.jobs[w].variant).id # Remote(p)
    BY OwnIsNotRemote
  <2> QED BY <1>4, <2>1, <2>2
<1>9. AgentInv(t, DOMAIN buckets, live)
  <2>1. t = [jobs |-> t.jobs, running |-> t.running, pending |-> t.pending,
             artifacts |-> t.artifacts, processed |-> t.processed, pause |-> t.pause]
    BY <1>6, <1>7
  <2>2. /\ DOMAIN t.jobs \subseteq DOMAIN copy.jobs
        /\ \A w \in DOMAIN t.jobs : t.jobs[w] = copy.jobs[w]
        /\ t.running \subseteq DOMAIN t.jobs /\ t.pending \subseteq Write
        /\ t.pending \cap DOMAIN t.jobs \subseteq t.running
        /\ t.pending \cap live \subseteq DOMAIN t.jobs
        /\ t.processed \subseteq Post /\ t.pause \in 0..SpamPause \cup 0..FailedPause
    BY <1>3, <1>7 DEF AgentInv, AgentOK
  <2> QED BY <1>3, <1>7, <1>8, <2>1, <2>2, FewerJobs
<1>10. RotationTyped' /\ BucketsInv'
  BY <1>2 DEF RotationInv, RotationTyped, BucketsInv
<1>11. StepInv' /\ PauseInv'
  BY <1>2, <1>5, <1>7 DEF RotationInv, StepInv, PauseInv
<1>12. \A x : Uncounted(x)' = Due(t, x) /\ Uncounted(x) = Due(copy, x) \ on
  BY <1>2, <1>5 DEF Uncounted, Saving, Tallied, Due
<1>13. \A x : Due(t, x) \subseteq Due(copy, x) \ on
  BY <1>3, <1>7 DEF Due, AgentInv
<1>14. CountInv'
  BY <1>2, <1>12, <1>13, CountKept
<1> QED BY <1>2, <1>5, <1>9, <1>10, <1>11, <1>14 DEF RotationInv

\* A write that is planned is not pending, and a post is planned without a pause.
LEMMA PlanWriteInv == RotationInv /\ PlanWrite => RotationInv'
<1> SUFFICES ASSUME RotationInv, PlanWrite PROVE RotationInv'
  OBVIOUS
<1>1. PICK w \in Unwritten(copy) : (w \in Post => PostReady(copy)) /\ on' = {w}
  BY DEF PlanWrite
<1>2. /\ step = "plan" /\ step' = "select"
      /\ UNCHANGED <<buckets, last, state, copy, chosen, live, flagged, owed, found, faults>>
  BY DEF PlanWrite, Then, store, moltbook
<1>3. w \in Write \ copy.pending /\ (w \in Post => copy.pause = 0)
  BY <1>1 DEF Unwritten, PostReady
<1>4. RotationTyped' /\ BucketsInv'
  BY <1>1, <1>2, <1>3 DEF RotationInv, RotationTyped, BucketsInv
<1>5. StepInv' /\ PauseInv'
  BY <1>1, <1>2, <1>3 DEF RotationInv, StepInv, PauseInv
<1>6. \A x : Uncounted(x)' = Uncounted(x)
  BY <1>2 DEF Uncounted, Saving, Tallied, Due
<1>7. CountInv'
  BY <1>2, <1>6, CountKept
<1> QED BY <1>2, <1>4, <1>5, <1>7 DEF RotationInv

\* A run that ends early leaves what was saved.
LEMMA EndedRun ==
  ASSUME RotationInv, step \in {"plan", "draft"}, step' = "idle", copy' = EmptyState,
         on' = {}, chosen' \in Choice,
         UNCHANGED <<buckets, last, state, live, flagged, owed, found, faults>>
  PROVE  RotationInv'
<1>1. copy = state
  BY DEF RotationInv, StepInv
<1>2. AgentInv(copy', DOMAIN buckets, live) /\ DOMAIN copy'.jobs = {}
  BY NoAgent DEF EmptyState
<1>3. RotationTyped' /\ BucketsInv'
  BY DEF RotationInv, RotationTyped, BucketsInv
<1>4. StepInv' /\ PauseInv'
  BY <1>2 DEF RotationInv, StepInv, PauseInv
<1>5. \A x : Uncounted(x)' = Uncounted(x)
  BY <1>1 DEF Uncounted, Saving, Tallied, Due
<1>6. CountInv'
  BY <1>5, CountKept
<1> QED BY <1>2, <1>3, <1>4, <1>6 DEF RotationInv

LEMMA PlanNothingInv == RotationInv /\ PlanNothing => RotationInv'
<1> SUFFICES ASSUME RotationInv, PlanNothing PROVE RotationInv'
  OBVIOUS
<1>1. /\ step = "plan" /\ step' = "idle" /\ copy' = EmptyState
      /\ UNCHANGED <<buckets, last, state, on, chosen, live, flagged, owed, found, faults>>
  BY DEF PlanNothing, Then, store, moltbook
<1>2. on' = {} /\ chosen' \in Choice
  BY <1>1 DEF RotationInv, StepInv, RotationTyped
<1> QED BY <1>1, <1>2, EndedRun

LEMMA NoChoiceIsChoice == NoChoice \in Choice
BY DEF NoChoice, Choice

LEMMA DropDraftInv == RotationInv /\ DropDraft => RotationInv'
<1> SUFFICES ASSUME RotationInv, DropDraft PROVE RotationInv'
  OBVIOUS
<1>1. /\ step = "draft" /\ step' = "idle" /\ copy' = EmptyState /\ on' = {}
      /\ chosen' = NoChoice
      /\ UNCHANGED <<buckets, last, state, live, flagged, owed, found, faults>>
  BY DEF DropDraft, EndRun, Then, store, moltbook
<1> QED BY <1>1, NoChoiceIsChoice, EndedRun

\* Some window is the narrowest.
LEMMA LeastWindow == \E least \in Windows : \A m \in Windows : least <= m
<1>1. Windows # {} /\ Windows \subseteq Nat
  BY RotationLimits
<1>2. PICK least \in Windows : \A m \in Windows : ~ (<<m, least>> \in OpToRel(<, Nat))
  BY <1>1, WFMin, NatLessThanWellFounded
<1>3. \A m \in Windows : least <= m
  <2> SUFFICES ASSUME NEW m \in Windows, m < least PROVE FALSE
    BY <1>1
  <2>1. m \in Nat /\ least \in Nat
    BY <1>1
  <2>2. <<m, least>> \in OpToRel(<, Nat)
    BY <2>1, Zenon DEF OpToRel
  <2> QED BY <1>2, <2>2
<1> QED BY <1>3

LEMMA RotatedBucket ==
  ASSUME NEW b, NEW new \in Rotated(b)
  PROVE  \E v \in Variant, m \in Windows : new = RotatedTo(b, v, m)
BY DEF Rotated

LEMMA RotatedFields ==
  ASSUME NEW b, NEW v, NEW m, NEW age,
         Selected(b) = [variant |-> b.variant, count |-> b.count, window |-> b.window,
                        acted |-> b.acted, age |-> age]
  PROVE  RotatedTo(b, v, m) = [variant |-> v, count |-> 0, window |-> m, acted |-> b.acted,
                               age |-> age]
<1>1. PICK q : q = Selected(b)
  OBVIOUS
<1>2. PICK new : new = RotatedTo(b, v, m)
  OBVIOUS
<1>3. new = [q EXCEPT !.variant = v, !.count = 0, !.window = m]
  BY <1>1, <1>2 DEF RotatedTo
<1>4. q = [variant |-> b.variant, count |-> b.count, window |-> b.window, acted |-> b.acted,
           age |-> age]
  BY <1>1
<1>5. new = [variant |-> v, count |-> 0, window |-> m, acted |-> b.acted, age |-> age]
  BY ONLY <1>3, <1>4
<1> QED BY <1>2, <1>5

\* The bucket that a selection leaves is well formed, and its variant has room.
LEMMA SelectedBucket ==
  ASSUME BucketsInv, NEW x \in Scope, NEW b, b = Bucket(x),
         NEW n \in IF ShouldRotate(b) THEN Rotated(b) ELSE {Selected(b)}
  PROVE  BucketOK(n) /\ n.count < Max(Windows)
<1>1. PICK r : r = b
  OBVIOUS
<1>2. /\ r \in [variant : Variant \cup {NoVariant}, count : Nat, window : Nat,
                acted : BOOLEAN, age : 0..MaxAge]
      /\ r.variant # NoVariant => r.variant \in Variant /\ r.window \in Windows
  <2>1. CASE b = NewBucket
    <3>1. Min(Windows) \in Nat
      BY LeastWindow, RotationLimits DEF Min
    <3> QED BY <1>1, <2>1, <3>1, RotationLimits DEF NewBucket
  <2>2. CASE \E y \in DOMAIN buckets : b = buckets[y]
    BY <1>1, <2>2, RotationLimits DEF BucketsInv, BucketOK
  <2>3. b = NewBucket \/ \E y \in DOMAIN buckets : b = buckets[y]
    BY DEF Bucket, BucketsInv
  <2> QED BY <2>1, <2>2, <2>3
<1>3. PICK age \in 0..MaxAge : Selected(r) = [r EXCEPT !.age = age]
  BY <1>2, RotationLimits DEF Selected
<1>4. Selected(r) = [variant |-> r.variant, count |-> r.count, window |-> r.window,
                     acted |-> r.acted, age |-> age]
  BY <1>2, <1>3
<1>5. CASE ShouldRotate(b)
  <2>1. PICK v \in Variant, m \in Windows : n = RotatedTo(r, v, m)
    BY <1>1, <1>5, RotatedBucket
  <2>2. n = [variant |-> v, count |-> 0, window |-> m, acted |-> r.acted, age |-> age]
    BY <1>4, <2>1, RotatedFields
  <2> QED BY <1>2, <2>2, RotationLimits DEF BucketOK
<1>6. CASE ~ShouldRotate(b)
  <2>1. n = Selected(r) /\ r.variant # NoVariant /\ ~(r.count >= r.window)
    BY <1>1, <1>6 DEF ShouldRotate
  <2>2. r.window \in Windows /\ r.count < r.window /\ r.count < Max(Windows)
    BY <1>2, <2>1, RotationLimits
  <2> QED BY <1>2, <1>4, <2>1, <2>2 DEF BucketOK
<1> QED BY <1>5, <1>6

\* A bucket that was just selected has room for a full queue.
LEMMA SelectVariantInv == RotationInv /\ SelectVariant => RotationInv'
<1> SUFFICES ASSUME RotationInv, SelectVariant PROVE RotationInv'
  OBVIOUS
<1>1. /\ step = "select" /\ step' = "draft"
      /\ UNCHANGED <<state, copy, on, live, flagged, owed, found, faults>>
  BY DEF SelectVariant, Then, moltbook
<1>2. PICK w \in on :
        \E n \in IF ShouldRotate(Bucket(ScopeOf(w))) THEN Rotated(Bucket(ScopeOf(w)))
                 ELSE {Selected(Bucket(ScopeOf(w)))} :
          /\ StoreBucket(ScopeOf(w), n)
          /\ chosen' = [variant |-> n.variant, window |-> n.window,
                        reused |-> ~ShouldRotate(Bucket(ScopeOf(w)))]
  BY DEF SelectVariant
<1>3. PICK x \in Scope : x = ScopeOf(w)
  BY DEF ScopeOf, Scope
<1>4. PICK b : b = Bucket(x)
  OBVIOUS
<1>5. PICK n \in IF ShouldRotate(b) THEN Rotated(b) ELSE {Selected(b)} :
        /\ StoreBucket(x, n)
        /\ chosen' = [variant |-> n.variant, window |-> n.window, reused |-> ~ShouldRotate(b)]
  BY <1>2, <1>3, <1>4
<1>6. BucketOK(n) /\ n.count < Max(Windows)
  BY <1>4, <1>5, SelectedBucket DEF RotationInv
<1>7. /\ n.variant \in Variant /\ n.window \in Windows /\ n.count \in Nat
      /\ chosen' \in Choice /\ chosen'.variant \in Variant
  <2>1. n.variant \in Variant /\ n.window \in Windows /\ n.count \in Nat
    BY <1>6 DEF BucketOK
  <2>2. PICK reused \in BOOLEAN : chosen' = [variant |-> n.variant, window |-> n.window,
                                             reused |-> reused]
    BY <1>5
  <2> QED BY <2>1, <2>2 DEF Choice
<1>8. /\ DOMAIN buckets' = DOMAIN buckets \cup {x} /\ last' = x
      /\ buckets'[x] = n /\ \A y \in DOMAIN buckets : y # x => buckets'[y] = buckets[y]
  BY <1>5 DEF StoreBucket
<1>9. BucketsInv'
  <2>1. x # "none"
    BY DEF Scope
  <2> QED BY <1>3, <1>6, <1>8, <2>1 DEF RotationInv, BucketsInv
<1>10. on = {w} /\ w \in Write \ copy.pending /\ copy = state /\ copy.pending \cap live = {}
  BY <1>1, <1>2 DEF RotationInv, StepInv
<1>11. RotationTyped'
  BY <1>1, <1>7 DEF RotationInv, RotationTyped
<1>12. StepInv'
  BY <1>1, <1>3, <1>6, <1>7, <1>8, <1>10 DEF RotationInv, StepInv
<1>13. PauseInv'
  BY <1>1 DEF RotationInv, PauseInv
<1>14. /\ AgentInv(state, DOMAIN buckets', live) /\ AgentInv(copy, DOMAIN buckets', live)
  BY <1>8, MoreScopes DEF RotationInv
<1>15. CountInv'
  <2> SUFFICES ASSUME NEW y \in DOMAIN buckets'
               PROVE  buckets'[y].count + Cardinality(Uncounted(y)') < CountLimit'
    BY DEF CountInv
  <2>1. CountLimit' = CountLimit /\ CountLimit \in Nat /\ CountLimit >= Max(Windows) + MaxQueue
    BY <1>1, Tally, CountLimits
  <2>2. Uncounted(y)' = Uncounted(y)
    BY <1>1 DEF Uncounted, Saving, Tallied, Due
  <2>3. Uncounted(y) \in SUBSET Due(copy, y)
    BY <1>1 DEF Uncounted, Saving
  <2>4. Cardinality(Uncounted(y)) \in 0..MaxQueue
    BY <2>3, DueIsBounded DEF RotationInv
  <2>5. CASE y = x
    BY <1>6, <1>7, <1>8, <2>1, <2>2, <2>4, <2>5, RotationLimits
  <2>6. CASE y # x
    <3>1. y \in DOMAIN buckets /\ buckets'[y] = buckets[y]
      BY <1>8, <2>6
    <3>2. buckets[y].count + Cardinality(Uncounted(y)) < CountLimit
      BY <3>1, Tally
    <3> QED BY <2>1, <2>2, <3>1, <3>2
  <2> QED BY <2>5, <2>6
<1> QED BY <1>1, <1>9, <1>11, <1>12, <1>13, <1>14, <1>15 DEF RotationInv

\* The bucket of the new job has room for a full queue, and the other has no more to
\* count than before.
LEMMA QueueDraftInv == RotationInv /\ QueueDraft => RotationInv'
<1> SUFFICES ASSUME RotationInv, QueueDraft PROVE RotationInv'
  OBVIOUS
<1>1. PICK jobs : jobs = [w \in DOMAIN copy.jobs \cup on |->
                            IF w \in on THEN chosen ELSE copy.jobs[w]]
  OBVIOUS
<1>2. PICK left \in kSubset(Min({Cardinality(DOMAIN jobs), MaxQueue}), DOMAIN jobs) :
        state' = [copy EXCEPT !.jobs = Restrict(jobs, left), !.running = @ \cap left]
  BY <1>1 DEF QueueDraft
<1>3. /\ step = "draft" /\ step' = "idle" /\ copy' = EmptyState /\ on' = {}
      /\ chosen' = NoChoice
      /\ UNCHANGED <<buckets, last, live, flagged, owed, found, faults>>
  BY DEF QueueDraft, EndRun, Then, store, moltbook
<1>4. PICK w \in Write \ copy.pending : on = {w}
  BY <1>3 DEF RotationInv, StepInv
<1>5. PICK x \in DOMAIN buckets : x = ScopeOf(w) /\ buckets[x].count < Max(Windows)
  BY <1>3, <1>4 DEF RotationInv, StepInv
<1>6. /\ AgentInv(copy, DOMAIN buckets, live) /\ AgentOK(copy) /\ copy.pending \cap live = {}
      /\ chosen \in Choice /\ chosen.variant \in Variant
  BY <1>3 DEF RotationInv, AgentInv, StepInv, RotationTyped
<1>7. DOMAIN jobs = DOMAIN copy.jobs \cup {w} /\ jobs[w] = chosen
      /\ \A v \in DOMAIN copy.jobs : v # w => jobs[v] = copy.jobs[v]
  BY <1>1, <1>4
<1>8. left \subseteq DOMAIN jobs /\ IsFiniteSet(left) /\ Cardinality(left) <= MaxQueue
  <2>1. IsFiniteSet(DOMAIN jobs)
    BY <1>6, <1>7, FS_AddElement DEF AgentInv
  <2>2. left \in SUBSET DOMAIN jobs
        /\ Cardinality(left) = Min({Cardinality(DOMAIN jobs), MaxQueue})
    BY <1>2 DEF kSubset
  <2>3. Cardinality(DOMAIN jobs) \in Int /\ MaxQueue \in Int
    BY <2>1, FS_CardinalityType, RotationLimits
  <2>4. Min({Cardinality(DOMAIN jobs), MaxQueue}) <= MaxQueue
    BY <2>3, Lesser
  <2>5. IsFiniteSet(left)
    BY <2>1, <2>2, FS_Subset
  <2> QED BY <2>2, <2>4, <2>5
<1>9. PICK t : t = state'
  OBVIOUS
<1>10. t = [jobs |-> Restrict(jobs, left), running |-> copy.running \cap left,
            pending |-> copy.pending, artifacts |-> copy.artifacts,
            processed |-> copy.processed, pause |-> copy.pause]
  <2>1. PICK r : r = copy
    OBVIOUS
  <2>2. r = [jobs |-> r.jobs, running |-> r.running, pending |-> r.pending,
             artifacts |-> r.artifacts, processed |-> r.processed, pause |-> r.pause]
    BY <1>6, <2>1 DEF AgentOK
  <2>3. t = [r EXCEPT !.jobs = Restrict(jobs, left), !.running = @ \cap left]
    BY <1>2, <1>9, <2>1
  <2> QED BY <2>1, <2>2, <2>3
<1>11. /\ DOMAIN t.jobs = left /\ \A v \in left : t.jobs[v] = jobs[v]
       /\ t.running = copy.running \cap left /\ t.pending = copy.pending
       /\ t.artifacts = copy.artifacts /\ t.processed = copy.processed /\ t.pause = copy.pause
  BY <1>10 DEF Restrict
<1>12. \A v \in left : /\ v \in Write /\ ScopeOf(v) \in DOMAIN buckets
                       /\ t.jobs[v] \in Choice /\ t.jobs[v].variant \in Variant
  <2> SUFFICES ASSUME NEW v \in left
               PROVE  /\ v \in Write /\ ScopeOf(v) \in DOMAIN buckets
                      /\ t.jobs[v] \in Choice /\ t.jobs[v].variant \in Variant
    OBVIOUS
  <2>1. CASE v = w
    BY <1>4, <1>5, <1>6, <1>7, <1>11, <2>1
  <2>2. CASE v # w
    <3>1. v \in DOMAIN copy.jobs /\ t.jobs[v] = copy.jobs[v]
      BY <1>7, <1>8, <1>11, <2>2
    <3> QED BY <3>1, ChoiceOfJob
  <2> QED BY <2>1, <2>2
<1>13. AgentInv(t, DOMAIN buckets, live)
  <2>1. t = [jobs |-> t.jobs, running |-> t.running, pending |-> t.pending,
             artifacts |-> t.artifacts, processed |-> t.processed, pause |-> t.pause]
    BY <1>10, <1>11
  <2>2. /\ t.running \subseteq DOMAIN t.jobs /\ t.pending \subseteq Write
        /\ t.processed \subseteq Post /\ t.pause \in 0..SpamPause \cup 0..FailedPause
    BY <1>6, <1>11 DEF AgentOK
  <2>3. t.pending \cap DOMAIN t.jobs \subseteq t.running
    BY <1>4, <1>6, <1>7, <1>8, <1>11 DEF AgentInv
  <2>4. t.pending \cap live \subseteq DOMAIN t.jobs
    BY <1>6, <1>11
  <2>5. \A a \in t.artifacts : \A p \in Post : a.id = Remote(p) => a.variant = NoVariant
    BY <1>6, <1>11 DEF AgentInv
  <2> HIDE DEF AgentOK
  <2>6. AgentOK(t)
    BY <1>8, <1>11, <1>12, <2>1, <2>2 DEF AgentOK
  <2> QED BY <1>8, <1>11, <1>12, <2>3, <2>4, <2>5, <2>6 DEF AgentInv
<1>14. AgentInv(copy', DOMAIN buckets, live) /\ DOMAIN copy'.jobs = {}
  BY <1>3, NoAgent DEF EmptyState
<1>15. RotationTyped' /\ BucketsInv'
  BY <1>3, NoChoiceIsChoice DEF RotationInv, RotationTyped, BucketsInv
<1>16. StepInv' /\ PauseInv'
  BY <1>3, <1>9, <1>11, <1>14 DEF RotationInv, StepInv, PauseInv
<1>17. CountInv'
  <2> SUFFICES ASSUME NEW y \in DOMAIN buckets
               PROVE  buckets[y].count + Cardinality(Uncounted(y)') < CountLimit'
    BY <1>3 DEF CountInv
  <2>1. CountLimit' = CountLimit /\ CountLimit \in Nat /\ CountLimit >= Max(Windows) + MaxQueue
    BY <1>3, Tally, CountLimits
  <2>2. Uncounted(y)' = Due(t, y) /\ Uncounted(y) = Due(copy, y)
    BY <1>3, <1>9 DEF Uncounted, Saving, Tallied, Due
  <2>3. IsFiniteSet(Due(t, y)) /\ Cardinality(Due(t, y)) \in 0..MaxQueue
    <3>1. Due(t, y) \in SUBSET Due(t, y)
      OBVIOUS
    <3> QED BY <1>13, <3>1, DueIsBounded
  <2>4. CASE y = x
    BY <1>5, <2>1, <2>2, <2>3, <2>4, Tally, RotationLimits
  <2>5. CASE y # x
    <3>1. Due(t, y) \subseteq Due(copy, y)
      BY <1>4, <1>5, <1>7, <1>8, <1>11, <2>5 DEF Due
    <3>2. /\ buckets[y].count \in Nat /\ IsFiniteSet(Due(copy, y))
          /\ Cardinality(Due(copy, y)) \in 0..MaxQueue
          /\ buckets[y].count + Cardinality(Due(copy, y)) < CountLimit
      BY <2>2, Tally
    <3>3. Cardinality(Due(t, y)) <= Cardinality(Due(copy, y))
      BY <3>1, <3>2, FS_Subset
    <3> QED BY <2>1, <2>2, <2>3, <3>2, <3>3, RotationLimits
  <2> QED BY <2>4, <2>5
<1> QED BY <1>3, <1>9, <1>13, <1>14, <1>15, <1>16, <1>17 DEF RotationInv

----------------------------------------------------------------------------
\* The environment's steps, and the theorems.

LEMMA FlagPostInv == RotationInv /\ FlagPost => RotationInv'
<1> SUFFICES ASSUME RotationInv, FlagPost PROVE RotationInv'
  OBVIOUS
<1>1. PICK p \in (live \cap Post) \ flagged : flagged' = flagged \cup {p}
  BY DEF FlagPost
<1>2. UNCHANGED <<buckets, last, state, copy, step, on, chosen, live, owed, found, faults>>
  BY DEF FlagPost, store
<1>3. RotationTyped' /\ BucketsInv' /\ StepInv' /\ PauseInv'
  BY <1>1, <1>2 DEF RotationInv, RotationTyped, BucketsInv, StepInv, PauseInv
<1>4. \A x : Uncounted(x)' = Uncounted(x)
  BY <1>2 DEF Uncounted, Saving, Tallied, Due
<1>5. CountInv'
  BY <1>2, <1>4, CountKept
<1> QED BY <1>2, <1>3, <1>5 DEF RotationInv

\* What a killed run had counted and not saved may be counted again.
LEMMA KillRunInv == RotationInv /\ KillRun => RotationInv'
<1> SUFFICES ASSUME RotationInv, KillRun PROVE RotationInv'
  OBVIOUS
<1>1. /\ step' = "idle" /\ copy' = EmptyState /\ on' = {} /\ chosen' = NoChoice
      /\ faults < MaxFaults /\ faults' = faults + 1 /\ found' = 0
      /\ UNCHANGED <<buckets, last, state, live, flagged, owed>>
  BY DEF KillRun, EndRun, Then, store, moltbook
<1>2. AgentInv(copy', DOMAIN buckets, live) /\ DOMAIN copy'.jobs = {}
  BY <1>1, NoAgent DEF EmptyState
<1>3. RotationTyped' /\ BucketsInv'
  BY <1>1, NoChoiceIsChoice, RotationLimits DEF RotationInv, RotationTyped, BucketsInv
<1>4. StepInv' /\ PauseInv'
  BY <1>1, <1>2 DEF RotationInv, StepInv, PauseInv
<1>5. \A x : Uncounted(x)' = Due(state, x)
  BY <1>1 DEF Uncounted, Saving, Tallied, Due
<1>6. \A x : Cardinality(Uncounted(x)') \in 0..MaxQueue
  <2>1. \A x : Due(state, x) \in SUBSET Due(state, x)
    OBVIOUS
  <2>2. \A x : Cardinality(Due(state, x)) \in 0..MaxQueue
    BY <2>1, DueIsBounded DEF RotationInv
  <2> QED BY <1>5, <2>2
<1>7. CountInv'
  BY <1>1, <1>6, CountFault
<1> QED BY <1>1, <1>2, <1>3, <1>4, <1>7 DEF RotationInv

LEMMA LessIs ==
  ASSUME NEW n \in Nat
  PROVE  Less(n) \in Nat /\ Less(n) <= n /\ Less(n) >= n - 1 /\ (n > 0 => Less(n) = n - 1)
<1>1. Less(n) \in {n - 1, 0} /\ Less(n) >= n - 1 /\ Less(n) >= 0
  BY Greater DEF Less
<1> QED BY <1>1

\* Time shortens both the pause and what calls for it.
LEMMA PassTimeInv == RotationInv /\ PassTime => RotationInv'
<1> SUFFICES ASSUME RotationInv, PassTime PROVE RotationInv'
  OBVIOUS
<1>1. /\ step = "idle" /\ state' = [state EXCEPT !.pause = Less(@)] /\ owed' = Less(owed)
      /\ buckets' = [x \in DOMAIN buckets |->
                       [buckets[x] EXCEPT !.age = Min({@ + 1, MaxAge})]]
      /\ UNCHANGED <<last, copy, step, on, chosen, live, flagged, found, faults>>
  BY DEF PassTime, moltbook
<1>2. AgentInv(state, DOMAIN buckets, live) /\ AgentOK(state)
  BY DEF RotationInv, AgentInv
<1>3. PICK t : t = state'
  OBVIOUS
<1>4. t = [jobs |-> state.jobs, running |-> state.running, pending |-> state.pending,
           artifacts |-> state.artifacts, processed |-> state.processed,
           pause |-> Less(state.pause)]
  <2>1. PICK r : r = state
    OBVIOUS
  <2>2. r = [jobs |-> r.jobs, running |-> r.running, pending |-> r.pending,
             artifacts |-> r.artifacts, processed |-> r.processed, pause |-> r.pause]
    BY <1>2, <2>1 DEF AgentOK
  <2>3. t = [r EXCEPT !.pause = Less(r.pause)]
    BY <1>1, <1>3, <2>1
  <2> QED BY <2>1, <2>2, <2>3
<1>5. /\ t.jobs = state.jobs /\ t.running = state.running /\ t.pending = state.pending
      /\ t.artifacts = state.artifacts /\ t.processed = state.processed
      /\ t.pause = Less(state.pause)
  BY <1>4
<1>6. SpamPause \in Nat /\ FailedPause \in Nat
  BY RotationLimits
<1>7. state.pause \in 0..SpamPause \cup 0..FailedPause /\ state.pause \in Nat
  BY <1>2, <1>6 DEF AgentOK
<1>8. t.pause \in 0..SpamPause \cup 0..FailedPause
  <2>1. Less(state.pause) \in Nat /\ Less(state.pause) <= state.pause
    BY <1>7, LessIs
  <2> QED BY <1>5, <1>6, <1>7, <2>1
<1>9. AgentInv(t, DOMAIN buckets, live)
  <2>1. t = [jobs |-> t.jobs, running |-> t.running, pending |-> t.pending,
             artifacts |-> t.artifacts, processed |-> t.processed, pause |-> t.pause]
    BY <1>4, <1>5
  <2>2. /\ DOMAIN t.jobs \subseteq DOMAIN state.jobs
        /\ \A w \in DOMAIN t.jobs : t.jobs[w] = state.jobs[w]
        /\ t.running \subseteq DOMAIN t.jobs /\ t.pending \subseteq Write
        /\ t.pending \cap DOMAIN t.jobs \subseteq t.running
        /\ t.pending \cap live \subseteq DOMAIN t.jobs
        /\ t.processed \subseteq Post
        /\ \A a \in t.artifacts : \A p \in Post : a.id = Remote(p) => a.variant = NoVariant
    BY <1>2, <1>5 DEF AgentInv, AgentOK
  <2> QED BY <1>2, <1>8, <2>1, <2>2, FewerJobs
<1>10. DOMAIN buckets' = DOMAIN buckets
  BY <1>1
<1>11. \A x \in DOMAIN buckets : BucketOK(buckets'[x]) /\ buckets'[x].count = buckets[x].count
  <2> SUFFICES ASSUME NEW x \in DOMAIN buckets
               PROVE  BucketOK(buckets'[x]) /\ buckets'[x].count = buckets[x].count
    OBVIOUS
  <2>1. PICK b : b = buckets[x]
    OBVIOUS
  <2>2. b \in [variant : Variant, count : Nat, window : Windows, acted : BOOLEAN, age : 0..MaxAge]
    BY <2>1 DEF RotationInv, BucketsInv, BucketOK
  <2>3. PICK age \in 0..MaxAge : age = Min({b.age + 1, MaxAge})
    <3>1. b.age + 1 \in Nat /\ MaxAge \in Nat
      BY <2>2, RotationLimits
    <3>2. PICK n \in Nat : n = b.age + 1
      BY <3>1
    <3>3. Min({n, MaxAge}) \in {n, MaxAge} /\ Min({n, MaxAge}) <= MaxAge
      <4>1. n \in Int /\ MaxAge \in Int
        BY <3>1
      <4> QED BY ONLY <4>1, Lesser
    <3> QED BY <3>1, <3>2, <3>3
  <2>4. buckets'[x] = [b EXCEPT !.age = age]
    BY <1>1, <2>1, <2>3
  <2> QED BY <2>1, <2>2, <2>4 DEF BucketOK
<1>12. RotationTyped' /\ BucketsInv'
  BY <1>1, <1>10, <1>11 DEF RotationInv, RotationTyped, BucketsInv
<1>13. StepInv'
  BY <1>1, <1>3, <1>5, <1>10 DEF RotationInv, StepInv
<1>14. PauseInv'
  <2>1. owed \in Nat /\ owed <= state.pause
    BY DEF RotationInv, PauseInv
  <2>2. Less(owed) \in Nat /\ Less(owed) <= owed /\ (owed > 0 => Less(owed) = owed - 1)
    BY <2>1, LessIs
  <2>3. Less(state.pause) \in Nat /\ Less(state.pause) >= state.pause - 1
    BY <1>7, LessIs
  <2>4. Less(owed) <= Less(state.pause)
    BY <1>7, <2>1, <2>2, <2>3
  <2> QED BY <1>1, <1>3, <1>5, <2>2, <2>4 DEF RotationInv, PauseInv
<1>15. \A x : Uncounted(x)' = Due(t, x) /\ Uncounted(x) = Due(state, x)
  BY <1>1, <1>3 DEF Uncounted, Saving, Tallied, Due
<1>16. \A x : Due(t, x) = Due(state, x)
  BY <1>5 DEF Due
<1>17. CountInv'
  BY <1>1, <1>10, <1>11, <1>15, <1>16, CountKept
<1>18. AgentInv(copy, DOMAIN buckets, live)
  BY DEF RotationInv
<1> QED BY <1>1, <1>3, <1>9, <1>10, <1>12, <1>13, <1>14, <1>17, <1>18 DEF RotationInv

LEMMA RotationInitial == RotationInit => RotationInv
<1> SUFFICES ASSUME RotationInit PROVE RotationInv
  OBVIOUS
<1>1. /\ DOMAIN buckets = {} /\ last = "none" /\ state = EmptyState /\ copy = EmptyState
      /\ step = "idle" /\ on = {} /\ chosen = NoChoice /\ live = {} /\ flagged = {}
      /\ owed = 0 /\ found = 0 /\ faults = 0
  BY DEF RotationInit
<1>2. AgentInv(state, DOMAIN buckets, live) /\ AgentInv(copy, DOMAIN buckets, live)
  BY <1>1, NoAgent
<1>3. RotationTyped /\ BucketsInv /\ StepInv /\ CountInv
  BY <1>1, NoChoiceIsChoice, RotationLimits DEF RotationTyped, BucketsInv, StepInv, CountInv
<1>4. PauseInv
  BY <1>1 DEF PauseInv, EmptyState
<1> QED BY <1>2, <1>3, <1>4 DEF RotationInv

LEMMA RotationStep == RotationInv /\ [RotationNext]_rotationVars => RotationInv'
<1> SUFFICES ASSUME RotationInv, [RotationNext]_rotationVars PROVE RotationInv'
  OBVIOUS
<1>1. CASE UNCHANGED rotationVars
  <2>1. UNCHANGED <<buckets, last, state, copy, step, on, chosen, live, flagged, owed, found,
                    faults>>
    BY <1>1 DEF rotationVars, store, moltbook
  <2>2. \A x : Uncounted(x)' = Uncounted(x)
    BY <2>1 DEF Uncounted, Saving, Tallied, Due
  <2>3. CountInv'
    BY <2>1, <2>2, CountKept
  <2> QED BY <2>1, <2>3
           DEF RotationInv, RotationTyped, BucketsInv, StepInv, PauseInv
<1>2. CASE RotationNext
  BY <1>2, PickJobInv, PublishJobInv, RecordPublishedInv, SavePublishedInv, RecordFailedInv,
     FailAfterRecordInv, SaveFailedInv, BackfillInv, SkipHealthInv, CheckPostInv,
     SaveHealthInv, RecordRecoveredInv, SaveReconciledInv, PlanWriteInv, PlanNothingInv,
     SelectVariantInv, DropDraftInv, QueueDraftInv, FlagPostInv, KillRunInv, PassTimeInv
     DEF RotationNext
<1> QED BY <1>1, <1>2

LEMMA RotationInvariant == RotationSpec => []RotationInv
BY RotationInitial, RotationStep, PTL DEF RotationSpec

\* prompt-rotation.json and the copies of the state stay well formed, and the queue
\* within its limit, whatever the number of runs, faults and writes.
THEOREM RotationTypeCorrect == RotationSpec => []RotationTypeOK
<1>1. RotationInv => RotationTypeOK
  BY DEF RotationInv, RotationTyped, BucketsInv, AgentInv, RotationTypeOK
<1> QED BY <1>1, RotationInvariant, PTL

\* Only a draft puts a post into the queue, and it does so without a pause.
LEMMA NewPost ==
  ASSUME RotationInv, [RotationNext]_rotationVars,
         (DOMAIN state'.jobs \ DOMAIN state.jobs) \cap Post # {}
  PROVE  owed = 0
<1>1. DOMAIN copy.jobs \subseteq DOMAIN state.jobs /\ AgentOK(state) /\ AgentOK(copy)
  BY DEF RotationInv, StepInv, AgentInv
<1>2. \A s, S : AgentOK(s) => Recovered(s, S).jobs = s.jobs
  BY RecoveredFields
<1>3. CASE QueueDraft
  <2>1. step = "draft" /\ owed \in Nat /\ owed <= copy.pause /\ on \subseteq Write /\ copy = state
    BY <1>3 DEF QueueDraft, RotationInv, PauseInv, StepInv, RotationTyped
  <2>2. DOMAIN state'.jobs \subseteq DOMAIN copy.jobs \cup on
    <3>1. PICK jobs : jobs = [w \in DOMAIN copy.jobs \cup on |->
                                IF w \in on THEN chosen ELSE copy.jobs[w]]
      OBVIOUS
    <3>2. PICK left \in kSubset(Min({Cardinality(DOMAIN jobs), MaxQueue}), DOMAIN jobs) :
            state' = [copy EXCEPT !.jobs = Restrict(jobs, left), !.running = @ \cap left]
      BY <1>3, <3>1 DEF QueueDraft
    <3>3. state'.jobs = Restrict(jobs, left)
      <4>1. PICK r : r = copy
        OBVIOUS
      <4>2. r = [jobs |-> r.jobs, running |-> r.running, pending |-> r.pending,
                 artifacts |-> r.artifacts, processed |-> r.processed, pause |-> r.pause]
        BY <1>1, <4>1 DEF AgentOK
      <4>3. state' = [r EXCEPT !.jobs = Restrict(jobs, left), !.running = @ \cap left]
        BY <3>2, <4>1
      <4> QED BY <4>2, <4>3
    <3>4. left \subseteq DOMAIN jobs
      BY DEF kSubset
    <3> QED BY <3>1, <3>3, <3>4 DEF Restrict
  <2>3. on \cap Post # {}
    BY <2>1, <2>2
  <2> QED BY <2>1, <2>3 DEF RotationInv, PauseInv
<1>4. CASE PickJob
  <2>1. \A s : AgentOK(s) => DOMAIN SweepJobs(s).jobs \subseteq DOMAIN s.jobs
    BY DEF SweepJobs, Restrict, AgentOK
  <2>2. \A s, S, P : AgentOK(s) =>
          [SweepJobs(s) EXCEPT !.running = S, !.pending = P].jobs = SweepJobs(s).jobs
    BY DEF SweepJobs, AgentOK
  <2>3. DOMAIN state'.jobs \subseteq DOMAIN state.jobs
    BY <1>1, <1>4, <2>1, <2>2 DEF PickJob
  <2> QED BY <2>3
<1>5. CASE SavePublished
  <2>1. DOMAIN state'.jobs \subseteq DOMAIN copy.jobs
    BY <1>1, <1>5, SettledFields DEF SavePublished, Restrict
  <2> QED BY <1>1, <2>1
<1>6. CASE SaveFailed
  <2>1. PICK left \in {DOMAIN copy.jobs, DOMAIN copy.jobs \ on} :
          state' = [copy EXCEPT !.jobs = Restrict(@, left), !.running = @ \ on, !.pending = @ \ on]
    BY <1>6 DEF SaveFailed
  <2>2. state'.jobs = Restrict(copy.jobs, left)
    BY <1>1, <2>1 DEF AgentOK
  <2> QED BY <1>1, <2>2 DEF Restrict
<1>7. CASE SaveHealth
  BY <1>1, <1>7 DEF SaveHealth
<1>8. CASE SaveReconciled
  <2>1. PICK expired : copy' = [Recovered(copy, on) EXCEPT !.pending = @ \ expired]
    BY <1>8 DEF SaveReconciled
  <2>2. PICK r : r = Recovered(copy, on)
    OBVIOUS
  <2>3. r.jobs = copy.jobs /\ copy' = [r EXCEPT !.pending = @ \ expired] /\ state' = copy'
    BY <1>1, <1>2, <1>8, <2>1, <2>2 DEF SaveReconciled
  <2>4. copy'.jobs = r.jobs
    BY <1>1, <2>2, <2>3, RecoveredFields
  <2> QED BY <1>1, <2>3, <2>4
<1>9. CASE PassTime
  <2>1. state'.jobs = state.jobs
    BY <1>1, <1>9 DEF PassTime, AgentOK
  <2> QED BY <2>1
<1>10. CASE UNCHANGED state
  BY <1>10
<1> QED BY <1>3, <1>4, <1>5, <1>6, <1>7, <1>8, <1>9, <1>10
        DEF RotationNext, rotationVars, PublishJob, RecordPublished, RecordFailed,
            RecordFailure, FailAfterRecord, Backfill, SkipHealth, CheckPost, RecordRecovered,
            PlanWrite, PlanNothing, SelectVariant, DropDraft, FlagPost, KillRun

\* A variant is used for no more writes than its window, a full queue, and a full queue
\* for each fault; and no post is queued while a known flag calls for a pause: for any
\* limits, windows and pauses, any number of writes, and any order of executor runs,
\* heartbeats, kills and faults.
THEOREM RotationCorrect == RotationSpec => RotationIsSound
<1>1. RotationInv => WindowIsKept
  <2> SUFFICES ASSUME RotationInv, NEW x \in DOMAIN buckets
               PROVE  buckets[x].count < Max(Windows) + MaxQueue * (1 + faults)
    BY DEF WindowIsKept
  <2>1. /\ buckets[x].count \in Nat /\ Cardinality(Uncounted(x)) \in 0..MaxQueue
        /\ buckets[x].count + Cardinality(Uncounted(x)) < CountLimit
        /\ faults \in Nat
    BY Tally
  <2>2. CountLimit \in Nat
    BY <2>1, CountLimits
  <2>3. buckets[x].count < CountLimit
    BY <2>1, <2>2, RotationLimits
  <2> QED BY <2>3 DEF CountLimit
<1>2. RotationInv /\ [RotationNext]_rotationVars
      => [(DOMAIN state'.jobs \ DOMAIN state.jobs) \cap Post # {} => owed = 0]_rotationVars
  BY NewPost
<1> QED BY <1>1, <1>2, RotationInvariant, PTL DEF RotationSpec, RotationIsSound, NoPostInPause
----------------------------------------------------------------------------
\* Rate limits: what was let through in a window is what the table has lost of it,
\* followed by what it holds.

LEMMA RateLimitsAre ==
  /\ RateWindow \in Nat /\ RateWindow > 0 /\ MaxEntries \in Nat /\ MaxEntries > 0 /\ MaxCut \in Nat
  /\ \A bucket \in Buckets : LimitOf[bucket] \in Nat
BY RateAssumption

\* What an entry is made of.
LEMMA EntryIs ==
  ASSUME NEW s \in Seq(Entry), NEW i \in 1 .. Len(s)
  PROVE  /\ s[i] \in Entry /\ s[i].age \in 0 .. RateWindow + 1 /\ s[i].age \in Nat
         /\ s[i].key \in Requester /\ s[i].bucket \in Buckets
<1>1. PICK e \in Entry : e = s[i]
  OBVIOUS
<1>2. e.age \in 0 .. RateWindow + 1 /\ e.key \in Requester /\ e.bucket \in Buckets
  BY DEF Entry
<1>3. e.age \in Nat
  BY <1>2, RateLimitsAre
<1> QED BY <1>1, <1>2, <1>3

\* One table after another.
LEMMA Joined ==
  ASSUME NEW s \in Seq(Entry), NEW t \in Seq(Entry), NEW a \in Nat, NEW b \in Nat,
         a = Len(s), b = Len(t)
  PROVE  /\ s \o t \in Seq(Entry) /\ Len(s \o t) = a + b /\ DOMAIN (s \o t) = 1 .. a + b
         /\ \A i \in 1 .. a : (s \o t)[i] = s[i]
         /\ \A i \in 1 .. b : (s \o t)[a + i] = t[i]
<1>1. PICK u : u = s \o t
  OBVIOUS
<1>2. /\ u \in Seq(Entry) /\ Len(u) = a + b
      /\ \A i \in 1 .. Len(s) + Len(t) : u[i] = IF i <= Len(s) THEN s[i] ELSE t[i - Len(s)]
  BY <1>1, ConcatProperties
<1>3. \A i \in 1 .. a + b : u[i] = IF i <= a THEN s[i] ELSE t[i - a]
  BY <1>2
<1>4. ASSUME NEW i \in 1 .. a PROVE u[i] = s[i]
  BY <1>3
<1>5. ASSUME NEW i \in 1 .. b PROVE u[a + i] = t[i]
  <2>1. a + i \in 1 .. a + b /\ ~(a + i <= a) /\ a + i - a = i
    OBVIOUS
  <2> QED BY <1>3, <2>1
<1> QED BY <1>1, <1>2, <1>4, <1>5

LEMMA TwoParts ==
  ASSUME NEW a \in Nat, NEW b \in Nat, NEW i \in 1 .. a + b
  PROVE  i \in 1 .. a \/ \E k \in 1 .. b : i = a + k
<1>1. CASE i <= a
  BY <1>1
<1>2. CASE ~(i <= a)
  <2>1. i - a \in 1 .. b /\ i = a + (i - a)
    BY <1>2
  <2> QED BY <2>1
<1> QED BY <1>1, <1>2

Ordered(s) == \A i, j \in DOMAIN s : i < j => s[i].age >= s[j].age

\* The entries up to place n are too old, and no others.
StaleUpTo(s, n) == n \in 0 .. Len(s) /\ \A i \in 1 .. Len(s) : InWindow(s[i]) <=> i > n

LEMMA RecentIs ==
  ASSUME NEW s \in Seq(Entry), NEW n, StaleUpTo(s, n)
  PROVE  Recent(s) = SubSeq(s, n + 1, Len(s))
<1>1. n \in Nat /\ n \in 0 .. Len(s) /\ Len(s) \in Nat /\ DOMAIN s = 1 .. Len(s)
  BY DEF StaleUpTo
<1>2. {i \in DOMAIN s : ~InWindow(s[i])} = 1 .. n
  BY <1>1 DEF StaleUpTo
<1>3. Cardinality(1 .. n) = n
  BY <1>1, FS_Interval
<1> QED BY <1>2, <1>3 DEF Recent

LEMMA LastWindowIs ==
  ASSUME NEW s
  PROVE  LastWindow(s) = Recent(s)
BY DEF LastWindow, Recent, InWindow

\* In a table that is ordered the old entries come first.
LEMMA StaleFirst ==
  ASSUME NEW s \in Seq(Entry), Ordered(s)
  PROVE  \E n : StaleUpTo(s, n)
<1>1. PICK c \in Nat : c = Len(s) /\ DOMAIN s = 1 .. c
  OBVIOUS
<1>2. \A i \in 1 .. c : s[i].age \in Nat
  BY <1>1, EntryIs
<1> DEFINE D == {k \in Nat : k > 0 /\ (k > c \/ InWindow(s[k]))}
<1>3. c + 1 \in D
  BY <1>1
<1>4. PICK m \in D : \A k \in D : ~(<<k, m>> \in OpToRel(<, Nat))
  <2>1. D \subseteq Nat /\ D # {}
    BY <1>3
  <2> HIDE DEF D
  <2> QED BY <2>1, WFMin, NatLessThanWellFounded
<1>5. \A k \in D : m <= k
  <2> SUFFICES ASSUME NEW k \in D, k < m PROVE FALSE
    BY DEF D
  <2>1. <<k, m>> \in OpToRel(<, Nat)
    BY Zenon DEF OpToRel, D
  <2> QED BY <2>1, <1>4
<1>6. m \in Nat /\ m > 0 /\ (m > c \/ InWindow(s[m])) /\ m <= c + 1
  BY <1>3, <1>5
<1>7. ASSUME NEW i \in 1 .. c PROVE InWindow(s[i]) <=> i > m - 1
  <2>1. CASE i < m
    <3>1. i \notin D
      BY <1>5, <1>6, <2>1
    <3> QED BY <1>6, <2>1, <3>1
  <2>2. CASE i = m
    BY <1>6, <2>2
  <2>3. CASE i > m
    <3>1. m \in 1 .. c /\ InWindow(s[m])
      BY <1>6, <2>3
    <3>2. s[m].age >= s[i].age
      BY <1>1, <2>3, <3>1 DEF Ordered
    <3>3. s[m].age \in Nat /\ s[i].age \in Nat
      BY <1>2, <3>1
    <3> QED BY <1>6, <2>3, <3>1, <3>2, <3>3, RateLimitsAre DEF InWindow
  <2> QED BY <1>6, <2>1, <2>2, <2>3
<1>8. m - 1 \in 0 .. c
  BY <1>6
<1> HIDE DEF D
<1>9. StaleUpTo(s, m - 1)
  BY <1>1, <1>7, <1>8 DEF StaleUpTo
<1> QED BY <1>9

\* The end of a table.
LEMMA EndOf ==
  ASSUME NEW s \in Seq(Entry), NEW n \in 0 .. Len(s)
  PROVE  /\ SubSeq(s, n + 1, Len(s)) \in Seq(Entry) /\ Len(SubSeq(s, n + 1, Len(s))) = Len(s) - n
         /\ \A i \in 1 .. Len(s) - n : SubSeq(s, n + 1, Len(s))[i] = s[n + i]
         /\ SubSeq(s, 1, n) \in Seq(Entry) /\ Len(SubSeq(s, 1, n)) = n
         /\ \A i \in 1 .. n : SubSeq(s, 1, n)[i] = s[i]
         /\ SubSeq(s, 1, n) \o SubSeq(s, n + 1, Len(s)) = s
         /\ Ordered(s) => Ordered(SubSeq(s, n + 1, Len(s)))
<1>1. PICK c \in Nat : c = Len(s) /\ DOMAIN s = 1 .. c
  OBVIOUS
<1>2. n \in Int /\ n + 1 \in Int /\ n \in 0 .. c
  BY <1>1
<1>3. \A i \in n + 1 .. c : s[i] \in Entry
  BY <1>1, <1>2
<1>4. \A i \in 1 .. n : s[i] \in Entry
  BY <1>1, <1>2
<1>5. PICK t : t = SubSeq(s, n + 1, c)
  OBVIOUS
<1>6. PICK h : h = SubSeq(s, 1, n)
  OBVIOUS
<1>7. /\ t \in Seq(Entry) /\ Len(t) = IF n + 1 <= c THEN c - (n + 1) + 1 ELSE 0
      /\ \A i \in 1 .. c - (n + 1) + 1 : t[i] = s[n + 1 + i - 1]
  BY <1>2, <1>3, <1>5, SubSeqProperties
<1>8. Len(t) = c - n /\ \A i \in 1 .. c - n : t[i] = s[n + i]
  <2>1. Len(t) = c - n
    BY <1>2, <1>7
  <2>2. ASSUME NEW i \in 1 .. c - n PROVE t[i] = s[n + i]
    <3>1. i \in 1 .. c - (n + 1) + 1 /\ n + 1 + i - 1 = n + i
      BY <1>2
    <3> QED BY <1>7, <3>1
  <2> QED BY <2>1, <2>2
<1>9. /\ h \in Seq(Entry) /\ Len(h) = IF 1 <= n THEN n - 1 + 1 ELSE 0
      /\ \A i \in 1 .. n - 1 + 1 : h[i] = s[1 + i - 1]
  BY <1>2, <1>4, <1>6, SubSeqProperties
<1>10. Len(h) = n /\ \A i \in 1 .. n : h[i] = s[i]
  BY <1>2, <1>9
<1>11. h \o t = s
  <2> DEFINE b == c - n
  <2>1. b \in Nat /\ n \in Nat /\ n + b = c
    BY <1>2
  <2>2. b = Len(t) /\ n = Len(h)
    BY <1>8, <1>10
  <2> HIDE DEF b
  <2>3. PICK u : u = h \o t
    OBVIOUS
  <2>4. /\ u \in Seq(Entry) /\ Len(u) = c
        /\ (\A i \in 1 .. n : u[i] = h[i]) /\ \A i \in 1 .. b : u[n + i] = t[i]
    <3>1. h \in Seq(Entry) /\ t \in Seq(Entry) /\ n = Len(h) /\ b = Len(t) /\ n \in Nat /\ b \in Nat
      BY <1>7, <1>9, <2>1, <2>2
    <3>2. /\ h \o t \in Seq(Entry) /\ Len(h \o t) = n + b
          /\ (\A i \in 1 .. n : (h \o t)[i] = h[i]) /\ \A i \in 1 .. b : (h \o t)[n + i] = t[i]
      <4>1. h \in Seq(Entry) /\ t \in Seq(Entry) /\ n \in Nat /\ b \in Nat
        BY <3>1
      <4>2. n = Len(h)
        BY <3>1
      <4>3. b = Len(t)
        BY <3>1
      <4> QED BY ONLY <4>1, <4>2, <4>3, Joined
    <3> QED BY <2>1, <2>3, <3>2
  <2>5. ASSUME NEW i \in 1 .. c PROVE u[i] = s[i]
    <3>1. i \in 1 .. n \/ \E k \in 1 .. b : i = n + k
      BY <2>1, TwoParts
    <3>2. \A k \in 1 .. b : t[k] = s[n + k]
      BY <1>8, <2>2
    <3> QED BY <1>10, <2>4, <3>1, <3>2
  <2> QED BY <1>1, <2>3, <2>4, <2>5, SeqEqual
<1>12. Ordered(s) => Ordered(t)
  <2> SUFFICES ASSUME Ordered(s), NEW i \in 1 .. c - n, NEW j \in 1 .. c - n, i < j
               PROVE  t[i].age >= t[j].age
    BY <1>7, <1>8 DEF Ordered
  <2>1. n + i \in 1 .. c /\ n + j \in 1 .. c /\ n + i < n + j
    BY <1>2
  <2> QED BY <1>1, <1>8, <2>1 DEF Ordered
<1> QED BY <1>1, <1>5, <1>6, <1>7, <1>8, <1>9, <1>10, <1>11, <1>12

LEMMA RecentOK ==
  ASSUME NEW s \in Seq(Entry), Ordered(s)
  PROVE  /\ Recent(s) \in Seq(Entry) /\ Len(Recent(s)) <= Len(s) /\ Ordered(Recent(s))
         /\ \A i \in 1 .. Len(Recent(s)) : InWindow(Recent(s)[i])
         /\ \E old \in Seq(Entry) :
              /\ s = old \o Recent(s) /\ \A i \in 1 .. Len(old) : ~InWindow(old[i])
<1>1. PICK n : StaleUpTo(s, n)
  BY StaleFirst
<1>2. n \in 0 .. Len(s) /\ Len(s) \in Nat
  BY <1>1 DEF StaleUpTo
<1>3. PICK r : r = SubSeq(s, n + 1, Len(s))
  OBVIOUS
<1>4. PICK old : old = SubSeq(s, 1, n)
  OBVIOUS
<1>5. /\ r \in Seq(Entry) /\ Len(r) = Len(s) - n /\ \A i \in 1 .. Len(s) - n : r[i] = s[n + i]
      /\ old \in Seq(Entry) /\ Len(old) = n /\ \A i \in 1 .. n : old[i] = s[i]
      /\ old \o r = s /\ Ordered(r)
  BY <1>2, <1>3, <1>4, EndOf
<1>6. Recent(s) = r
  BY <1>1, <1>3, RecentIs
<1>7. ASSUME NEW i \in 1 .. Len(r) PROVE InWindow(r[i])
  <2>1. n + i \in 1 .. Len(s) /\ n + i > n /\ r[i] = s[n + i]
    BY <1>2, <1>5
  <2> QED BY <1>1, <2>1 DEF StaleUpTo
<1>8. ASSUME NEW i \in 1 .. Len(old) PROVE ~InWindow(old[i])
  <2>1. i \in 1 .. Len(s) /\ ~(i > n) /\ old[i] = s[i]
    BY <1>2, <1>5
  <2> QED BY <1>1, <2>1 DEF StaleUpTo
<1>9. Len(r) <= Len(s)
  BY <1>2, <1>5
<1> QED BY <1>5, <1>6, <1>7, <1>8, <1>9

\* All of a table that is in the window is recent, and nothing of one that is not.
LEMMA AllRecent ==
  ASSUME NEW s \in Seq(Entry), \A i \in 1 .. Len(s) : InWindow(s[i])
  PROVE  Recent(s) = s
<1>1. StaleUpTo(s, 0)
  BY DEF StaleUpTo
<1>2. Recent(s) = SubSeq(s, 0 + 1, Len(s))
  BY <1>1, RecentIs
<1>3. SubSeq(s, 1, Len(s)) = s
  BY SubSeqFull
<1> QED BY <1>2, <1>3

LEMMA NoneRecent ==
  ASSUME NEW s \in Seq(Entry), \A i \in 1 .. Len(s) : ~InWindow(s[i])
  PROVE  Recent(s) = <<>>
<1>1. Len(s) \in Nat /\ StaleUpTo(s, Len(s))
  BY DEF StaleUpTo
<1>2. Recent(s) = SubSeq(s, Len(s) + 1, Len(s))
  BY <1>1, RecentIs
<1>3. Len(s) + 1 \in Int /\ Len(s) \in Int /\ Len(s) < Len(s) + 1
  BY <1>1
<1> QED BY <1>2, <1>3, SubSeqEmpty

\* What follows as many entries as are too old is what is recent.
LEMMA EndIs ==
  ASSUME NEW h \in Seq(Entry), NEW r \in Seq(Entry), NEW u \in Seq(Entry), u = h \o r,
         StaleUpTo(u, Len(h))
  PROVE  Recent(u) = r
<1>1. PICK n \in Nat, m \in Nat : n = Len(h) /\ m = Len(r)
  OBVIOUS
<1>2. Len(u) = n + m /\ \A i \in 1 .. m : u[n + i] = r[i]
  BY <1>1, Joined
<1>3. n \in 0 .. Len(u) /\ n + m - n = m
  BY <1>1, <1>2
<1>4. PICK t : t = SubSeq(u, n + 1, Len(u))
  OBVIOUS
<1>5. t \in Seq(Entry) /\ Len(t) = Len(u) - n /\ \A i \in 1 .. Len(u) - n : t[i] = u[n + i]
  BY <1>3, <1>4, EndOf
<1>6. Len(u) - n = m
  BY <1>2
<1>7. Len(t) = m /\ \A i \in 1 .. m : t[i] = r[i]
  BY <1>2, <1>5, <1>6
<1>8. t = r
  BY <1>1, <1>5, <1>7, SeqEqual
<1>9. Recent(u) = SubSeq(u, n + 1, Len(u))
  BY <1>1, RecentIs
<1> QED BY <1>4, <1>8, <1>9

\* What is recent of one table after another one.
LEMMA RecentConcat ==
  ASSUME NEW s \in Seq(Entry), NEW t \in Seq(Entry), Ordered(s \o t)
  PROVE  Recent(s \o t) = Recent(s) \o Recent(t)
<1>1. PICK a \in Nat, b \in Nat : a = Len(s) /\ b = Len(t)
  OBVIOUS
<1>2. PICK u : u = s \o t
  OBVIOUS
<1>3. /\ u \in Seq(Entry) /\ Len(u) = a + b
      /\ (\A i \in 1 .. a : u[i] = s[i]) /\ \A i \in 1 .. b : u[a + i] = t[i]
  BY <1>1, <1>2, Joined
<1>4. PICK n : StaleUpTo(u, n)
  BY <1>2, <1>3, StaleFirst
<1>5. n \in 0 .. a + b /\ \A i \in 1 .. a + b : InWindow(u[i]) <=> i > n
  <2>1. Len(u) = a + b
    BY <1>3
  <2> QED BY <1>4, <2>1 DEF StaleUpTo
<1>6. \A i \in 1 .. a : u[i] = s[i]
  BY <1>3
<1>7. ASSUME NEW i \in 1 .. b PROVE u[a + i] = t[i] /\ a + i \in 1 .. a + b
  BY <1>3
<1>8. CASE n <= a
  <2>1. StaleUpTo(s, n)
    BY <1>1, <1>5, <1>6, <1>8 DEF StaleUpTo
  <2>2. \A i \in 1 .. b : InWindow(t[i])
    <3> TAKE i \in 1 .. b
    <3>1. a + i > n
      BY <1>5, <1>8
    <3> QED BY <1>5, <1>7, <3>1
  <2>3. Recent(t) = t
    BY <1>1, <2>2, AllRecent
  <2>4. PICK r : r = SubSeq(s, n + 1, a)
    OBVIOUS
  <2>5. PICK h : h = SubSeq(s, 1, n)
    OBVIOUS
  <2>6. r \in Seq(Entry) /\ h \in Seq(Entry) /\ Len(h) = n /\ h \o r = s
    <3>1. n \in 0 .. a
      BY <1>5, <1>8
    <3> QED BY <1>1, <2>4, <2>5, <3>1, EndOf
  <2>11. r \in Seq(Entry) /\ h \in Seq(Entry)
    BY <2>6
  <2>7. Recent(s) = r
    BY <1>1, <2>1, <2>4, RecentIs
  <2>8. u = h \o (r \o t)
    <3>1. (h \o r) \o t = h \o (r \o t)
      BY <2>11, ConcatAssociative
    <3> QED BY <1>2, <2>6, <3>1
  <2>9. r \o t \in Seq(Entry)
    BY <2>6, ConcatProperties
  <2>10. Recent(u) = r \o t
    BY <1>3, <1>4, <2>6, <2>8, <2>9, EndIs
  <2> QED BY <1>2, <2>3, <2>7, <2>10
<1>9. CASE n > a
  <2>1. \A i \in 1 .. a : ~InWindow(s[i])
    <3> TAKE i \in 1 .. a
    <3>1. i \in 1 .. a + b /\ ~(i > n)
      BY <1>5, <1>9
    <3> QED BY <1>5, <1>6, <3>1
  <2>2. Recent(s) = <<>>
    BY <1>1, <2>1, NoneRecent
  <2>3. PICK k \in 0 .. b : n = a + k
    <3>1. n - a \in 0 .. b /\ n = a + (n - a)
      BY <1>5, <1>9
    <3> QED BY <3>1
  <2>4. StaleUpTo(t, k)
    <3>1. ASSUME NEW i \in 1 .. b PROVE InWindow(t[i]) <=> i > k
      <4>1. a + i > n <=> i > k
        BY <2>3
      <4> QED BY <1>5, <1>7, <4>1
    <3> QED BY <1>1, <3>1 DEF StaleUpTo
  <2>5. PICK r : r = SubSeq(t, k + 1, b)
    OBVIOUS
  <2>6. PICK h : h = SubSeq(t, 1, k)
    OBVIOUS
  <2>7. r \in Seq(Entry) /\ h \in Seq(Entry) /\ Len(h) = k /\ h \o r = t
    BY <1>1, <2>5, <2>6, EndOf
  <2>13. r \in Seq(Entry) /\ h \in Seq(Entry)
    BY <2>7
  <2>8. Recent(t) = r
    BY <1>1, <2>4, <2>5, RecentIs
  <2>9. u = (s \o h) \o r
    <3>1. (s \o h) \o r = s \o (h \o r)
      BY <2>13, ConcatAssociative
    <3> QED BY <1>2, <2>7, <3>1
  <2>10. s \o h \in Seq(Entry) /\ Len(s \o h) = n
    BY <1>1, <2>3, <2>7, ConcatProperties
  <2>11. Recent(u) = r
    BY <1>3, <1>4, <2>7, <2>9, <2>10, EndIs
  <2>12. <<>> \o r = r
    BY <2>7, ConcatEmptySeq
  <2> QED BY <1>2, <2>2, <2>8, <2>11, <2>12
<1>10. n <= a \/ n > a
  BY <1>5
<1> QED BY <1>8, <1>9, <1>10

\* A period makes every entry older, and changes nothing else.
LEMMA OlderIs ==
  ASSUME NEW s \in Seq(Entry)
  PROVE  /\ Older(s) \in Seq(Entry) /\ Len(Older(s)) = Len(s)
         /\ \A i \in 1 .. Len(s) :
              /\ Older(s)[i].key = s[i].key /\ Older(s)[i].bucket = s[i].bucket
              /\ Older(s)[i].age = IF s[i].age <= RateWindow THEN s[i].age + 1 ELSE RateWindow + 1
         /\ Ordered(s) => Ordered(Older(s))
<1>1. PICK c \in Nat : c = Len(s) /\ DOMAIN s = 1 .. c
  OBVIOUS
<1>2. RateWindow \in Nat
  BY RateLimitsAre
<1>3. ASSUME NEW a \in 0 .. RateWindow + 1
      PROVE  Min({a + 1, RateWindow + 1}) = IF a <= RateWindow THEN a + 1 ELSE RateWindow + 1
  <2>1. PICK x \in {a + 1, RateWindow + 1} : \A y \in {a + 1, RateWindow + 1} : x <= y
    BY <1>2
  <2>2. Min({a + 1, RateWindow + 1}) \in {a + 1, RateWindow + 1}
        /\ \A y \in {a + 1, RateWindow + 1} : Min({a + 1, RateWindow + 1}) <= y
    BY <2>1 DEF Min
  <2> QED BY <1>2, <2>2
<1>4. Older(s) = [i \in 1 .. c |-> [s[i] EXCEPT !.age = Min({s[i].age + 1, RateWindow + 1})]]
  BY <1>1 DEF Older
<1>5. ASSUME NEW i \in 1 .. c
      PROVE  /\ Older(s)[i] \in Entry
             /\ Older(s)[i].key = s[i].key /\ Older(s)[i].bucket = s[i].bucket
             /\ Older(s)[i].age = IF s[i].age <= RateWindow THEN s[i].age + 1 ELSE RateWindow + 1
  <2>1. PICK e \in Entry : e = s[i]
    BY <1>1
  <2>2. e \in [key : Requester, bucket : Buckets, age : 0 .. RateWindow + 1]
        /\ e.age \in 0 .. RateWindow + 1 /\ e.key \in Requester /\ e.bucket \in Buckets
    BY DEF Entry
  <2>3. PICK a : a = Min({e.age + 1, RateWindow + 1})
    OBVIOUS
  <2>4. a = IF e.age <= RateWindow THEN e.age + 1 ELSE RateWindow + 1
    BY <1>3, <2>2, <2>3
  <2>7. a \in 0 .. RateWindow + 1
    BY <1>2, <2>2, <2>4
  <2>5. Older(s)[i] = [e EXCEPT !.age = a]
    BY <1>4, <2>1, <2>3
  <2>6. [e EXCEPT !.age = a] = [key |-> e.key, bucket |-> e.bucket, age |-> a]
    BY <2>2
  <2>8. PICK x : x = Older(s)[i]
    OBVIOUS
  <2>9. x = [key |-> e.key, bucket |-> e.bucket, age |-> a]
    BY <2>5, <2>6, <2>8
  <2>10. x \in Entry /\ x.key = e.key /\ x.bucket = e.bucket /\ x.age = a
    BY <2>2, <2>7, <2>9 DEF Entry
  <2> QED BY <2>1, <2>4, <2>8, <2>10
<1>6. Older(s) \in Seq(Entry) /\ Len(Older(s)) = c /\ DOMAIN Older(s) = 1 .. c
  <2>1. DOMAIN Older(s) = 1 .. c
    BY <1>4
  <2>2. Older(s) \in [1 .. c -> Entry]
    <3>1. Older(s) = [i \in 1 .. c |-> Older(s)[i]]
      BY <1>4
    <3> QED BY <1>5, <3>1
  <2> QED BY <2>1, <2>2
<1>7. ASSUME Ordered(s), NEW i \in 1 .. c, NEW j \in 1 .. c, i < j
      PROVE  Older(s)[i].age >= Older(s)[j].age
  <2>1. s[i].age >= s[j].age
    BY <1>1, <1>7 DEF Ordered
  <2>2. s[i].age \in 0 .. RateWindow + 1 /\ s[j].age \in 0 .. RateWindow + 1
    BY <1>1, EntryIs
  <2>3. /\ Older(s)[i].age = IF s[i].age <= RateWindow THEN s[i].age + 1 ELSE RateWindow + 1
        /\ Older(s)[j].age = IF s[j].age <= RateWindow THEN s[j].age + 1 ELSE RateWindow + 1
    BY <1>5
  <2> QED BY <1>2, <2>1, <2>2, <2>3
<1>8. Ordered(s) => Ordered(Older(s))
  BY <1>6, <1>7 DEF Ordered
<1> QED BY <1>1, <1>5, <1>6, <1>8

LEMMA OlderConcat ==
  ASSUME NEW s \in Seq(Entry), NEW t \in Seq(Entry)
  PROVE  Older(s \o t) = Older(s) \o Older(t)
<1>1. PICK a \in Nat, b \in Nat : a = Len(s) /\ b = Len(t)
  OBVIOUS
<1>2. PICK u : u = s \o t
  OBVIOUS
<1>3. /\ u \in Seq(Entry) /\ Len(u) = a + b /\ DOMAIN u = 1 .. a + b
      /\ (\A i \in 1 .. a : u[i] = s[i]) /\ \A i \in 1 .. b : u[a + i] = t[i]
  BY <1>1, <1>2, Joined
<1>4. PICK os, ot, ou : os = Older(s) /\ ot = Older(t) /\ ou = Older(u)
  OBVIOUS
<1>5. /\ os \in Seq(Entry) /\ Len(os) = a /\ ot \in Seq(Entry) /\ Len(ot) = b
      /\ ou \in Seq(Entry) /\ Len(ou) = a + b
  BY <1>1, <1>3, <1>4, OlderIs
<1>6. PICK v : v = os \o ot
  OBVIOUS
<1>7. /\ v \in Seq(Entry) /\ Len(v) = a + b
      /\ (\A i \in 1 .. a : v[i] = os[i]) /\ \A i \in 1 .. b : v[a + i] = ot[i]
  <2>1. /\ os \o ot \in Seq(Entry) /\ Len(os \o ot) = a + b
        /\ (\A i \in 1 .. a : (os \o ot)[i] = os[i]) /\ \A i \in 1 .. b : (os \o ot)[a + i] = ot[i]
    <3>1. os \in Seq(Entry) /\ ot \in Seq(Entry)
      BY <1>5
    <3>2. a = Len(os)
      BY <1>5
    <3>3. b = Len(ot)
      BY <1>5
    <3> QED BY ONLY a \in Nat, b \in Nat, <3>1, <3>2, <3>3, Joined
  <2> QED BY <1>6, <2>1
<1> DEFINE aged(e) == [e EXCEPT !.age = Min({e.age + 1, RateWindow + 1})]
<1>8. \A i \in 1 .. a + b : ou[i] = aged(u[i])
  BY <1>3, <1>4 DEF Older
<1>9. \A i \in 1 .. a : os[i] = aged(s[i])
  <2>1. DOMAIN s = 1 .. a
    BY <1>1
  <2> QED BY <1>4, <2>1 DEF Older
<1>10. \A i \in 1 .. b : ot[i] = aged(t[i])
  <2>1. DOMAIN t = 1 .. b
    BY <1>1
  <2> QED BY <1>4, <2>1 DEF Older
<1> HIDE DEF aged
<1>11. ASSUME NEW i \in 1 .. a + b PROVE ou[i] = v[i]
  <2>1. CASE i \in 1 .. a
    BY <1>3, <1>7, <1>8, <1>9, <2>1
  <2>2. ASSUME NEW k \in 1 .. b, i = a + k PROVE ou[i] = v[i]
    BY <1>3, <1>7, <1>8, <1>10, <2>2
  <2> QED BY <2>1, <2>2, TwoParts
<1>12. ou = v
  BY <1>5, <1>7, <1>11, SeqEqual
<1> QED BY <1>2, <1>4, <1>6, <1>12

\* What was too old stays too old.
LEMMA RecentOlder ==
  ASSUME NEW s \in Seq(Entry), Ordered(s)
  PROVE  Recent(Older(s)) = Recent(Older(Recent(s)))
<1>1. PICK r : r = Recent(s)
  OBVIOUS
<1>2. PICK old \in Seq(Entry) :
        s = old \o r /\ \A i \in 1 .. Len(old) : ~InWindow(old[i])
  BY <1>1, RecentOK
<1>3. r \in Seq(Entry)
  BY <1>1, RecentOK
<1>4. Older(s) = Older(old) \o Older(r) /\ Ordered(Older(s))
  BY <1>2, <1>3, OlderConcat, OlderIs
<1>5. PICK oo, ro : oo = Older(old) /\ ro = Older(r)
  OBVIOUS
<1>6. oo \in Seq(Entry) /\ ro \in Seq(Entry)
  BY <1>2, <1>3, <1>5, OlderIs
<1>7. Recent(oo \o ro) = Recent(oo) \o Recent(ro)
  BY <1>4, <1>5, <1>6, RecentConcat
<1>8. \A i \in 1 .. Len(oo) : ~InWindow(oo[i])
  <2> TAKE i \in 1 .. Len(oo)
  <2>1. i \in 1 .. Len(old) /\ oo[i].age = IF old[i].age <= RateWindow THEN old[i].age + 1 ELSE RateWindow + 1
    BY <1>2, <1>5, OlderIs
  <2>2. old[i].age \in 0 .. RateWindow + 1 /\ ~(old[i].age <= RateWindow)
    BY <1>2, <2>1, EntryIs DEF InWindow
  <2>3. RateWindow \in Nat
    BY RateLimitsAre
  <2> QED BY <2>1, <2>2, <2>3 DEF InWindow
<1>9. Recent(oo) = <<>>
  BY <1>6, <1>8, NoneRecent
<1>10. Ordered(ro)
  BY <1>1, <1>3, <1>5, RecentOK, OlderIs
<1>11. Recent(ro) \in Seq(Entry)
  BY <1>6, <1>10, RecentOK
<1>12. <<>> \o Recent(ro) = Recent(ro)
  BY <1>11, ConcatEmptySeq
<1> QED BY <1>1, <1>4, <1>5, <1>7, <1>9, <1>12

----------------------------------------------------------------------------
\* Counting.

LEMMA UsedIsNat ==
  ASSUME NEW s \in Seq(Entry), NEW key, NEW bucket
  PROVE  Used(s, key, bucket) \in Nat
<1>1. PICK c \in Nat : c = Len(s) /\ DOMAIN s = 1 .. c
  OBVIOUS
<1>2. IsFiniteSet(1 .. c)
  BY FS_Interval
<1>3. {i \in DOMAIN s : s[i].key = key /\ s[i].bucket = bucket} \subseteq 1 .. c
  BY <1>1
<1>4. IsFiniteSet({i \in DOMAIN s : s[i].key = key /\ s[i].bucket = bucket})
  BY <1>2, <1>3, FS_Subset
<1> QED BY <1>4, FS_CardinalityType DEF Used

LEMMA UsedConcat ==
  ASSUME NEW s \in Seq(Entry), NEW t \in Seq(Entry), NEW key, NEW bucket
  PROVE  Used(s \o t, key, bucket) = Used(s, key, bucket) + Used(t, key, bucket)
<1>1. PICK a \in Nat, b \in Nat : a = Len(s) /\ b = Len(t) /\ DOMAIN s = 1 .. a /\ DOMAIN t = 1 .. b
  OBVIOUS
<1>2. PICK u : u = s \o t
  OBVIOUS
<1>3. /\ u \in Seq(Entry) /\ Len(u) = a + b /\ DOMAIN u = 1 .. a + b
      /\ (\A i \in 1 .. a : u[i] = s[i]) /\ \A i \in 1 .. b : u[a + i] = t[i]
  <2>1. /\ s \o t \in Seq(Entry) /\ Len(s \o t) = a + b /\ DOMAIN (s \o t) = 1 .. a + b
        /\ (\A i \in 1 .. a : (s \o t)[i] = s[i]) /\ \A i \in 1 .. b : (s \o t)[a + i] = t[i]
    BY <1>1, Joined
  <2> QED BY <1>2, <2>1
<1>4. PICK A : A = {i \in 1 .. a : s[i].key = key /\ s[i].bucket = bucket}
  OBVIOUS
<1>5. PICK B : B = {i \in 1 .. b : t[i].key = key /\ t[i].bucket = bucket}
  OBVIOUS
<1>6. PICK C : C = {i \in a + 1 .. a + b : u[i].key = key /\ u[i].bucket = bucket}
  OBVIOUS
<1>7. PICK D : D = {i \in 1 .. a + b : u[i].key = key /\ u[i].bucket = bucket}
  OBVIOUS
<1>8. /\ Used(s, key, bucket) = Cardinality(A) /\ IsFiniteSet(A)
      /\ Used(t, key, bucket) = Cardinality(B) /\ IsFiniteSet(B)
      /\ Used(u, key, bucket) = Cardinality(D) /\ IsFiniteSet(D)
  <2>1. A = {i \in DOMAIN s : s[i].key = key /\ s[i].bucket = bucket}
    BY <1>1, <1>4
  <2>2. B = {i \in DOMAIN t : t[i].key = key /\ t[i].bucket = bucket}
    BY <1>1, <1>5
  <2>3. D = {i \in DOMAIN u : u[i].key = key /\ u[i].bucket = bucket}
    BY <1>3, <1>7
  <2>4. A \subseteq 1 .. a /\ B \subseteq 1 .. b /\ D \subseteq 1 .. a + b
    BY <1>4, <1>5, <1>7
  <2>5. IsFiniteSet(1 .. a) /\ IsFiniteSet(1 .. b) /\ IsFiniteSet(1 .. a + b)
    BY FS_Interval
  <2>6. IsFiniteSet(A) /\ IsFiniteSet(B) /\ IsFiniteSet(D)
    BY <2>4, <2>5, FS_Subset
  <2>7. Used(s, key, bucket) = Cardinality(A)
    BY <2>1 DEF Used
  <2>8. Used(t, key, bucket) = Cardinality(B)
    BY <2>2 DEF Used
  <2>9. Used(u, key, bucket) = Cardinality(D)
    BY <2>3 DEF Used
  <2> QED BY <2>6, <2>7, <2>8, <2>9
<1>9. D = A \cup C
  <2>1. \A i \in 1 .. a : u[i] = s[i]
    BY <1>3
  <2>2. \A i \in 1 .. a + b : i \in 1 .. a \/ i \in a + 1 .. a + b
    OBVIOUS
  <2>3. \A i \in a + 1 .. a + b : i \in 1 .. a + b
    OBVIOUS
  <2>4. \A i \in 1 .. a : i \in 1 .. a + b
    OBVIOUS
  <2> QED BY <1>4, <1>6, <1>7, <2>1, <2>2, <2>3, <2>4
<1>10. A \cap C = {}
  BY <1>4, <1>6
<1>11. IsFiniteSet(C)
  <2>1. C \subseteq D
    BY <1>9
  <2> QED BY <1>8, <2>1, FS_Subset
<1>12. Cardinality(C) = Cardinality(B)
  <2>1. PICK f : f = [i \in B |-> a + i]
    OBVIOUS
  <2>2. ASSUME NEW i \in 1 .. b PROVE a + i \in a + 1 .. a + b /\ u[a + i] = t[i]
    BY <1>3
  <2>3. f \in [B -> C]
    BY <1>5, <1>6, <2>1, <2>2
  <2>4. \A i, j \in B : f[i] = f[j] => i = j
    BY <1>5, <2>1
  <2>5. \A k \in C : \E i \in B : f[i] = k
    <3> TAKE k \in C
    <3>1. k - a \in 1 .. b /\ a + (k - a) = k
      BY <1>6
    <3>2. k - a \in B
      BY <1>5, <1>6, <2>2, <3>1
    <3> QED BY <2>1, <3>1, <3>2
  <2>6. f \in Bijection(B, C)
    BY <2>3, <2>4, <2>5 DEF Bijection, Injection, Surjection, IsInjective
  <2>7. ExistsBijection(B, C)
    BY <2>6 DEF ExistsBijection
  <2> QED BY <1>8, <2>7, FS_Bijection
<1>13. Cardinality(D) = Cardinality(A) + Cardinality(C) - Cardinality(A \cap C)
  BY <1>8, <1>9, <1>11, FS_Union
<1>14. Cardinality(A \cap C) = 0 /\ Cardinality(A) \in Nat /\ Cardinality(C) \in Nat
  BY <1>8, <1>10, <1>11, FS_EmptySet, FS_CardinalityType
<1> QED BY <1>2, <1>8, <1>12, <1>13, <1>14

\* The end of a table counts no more than all of it.
LEMMA UsedEnd ==
  ASSUME NEW s \in Seq(Entry), NEW n \in 0 .. Len(s), NEW key, NEW bucket
  PROVE  Used(SubSeq(s, n + 1, Len(s)), key, bucket) <= Used(s, key, bucket)
<1>1. PICK h, r : h = SubSeq(s, 1, n) /\ r = SubSeq(s, n + 1, Len(s))
  OBVIOUS
<1>2. h \in Seq(Entry) /\ r \in Seq(Entry) /\ h \o r = s
  BY <1>1, EndOf
<1>3. Used(h \o r, key, bucket) = Used(h, key, bucket) + Used(r, key, bucket)
  <2>1. h \in Seq(Entry) /\ r \in Seq(Entry)
    BY <1>2
  <2> QED BY <2>1, UsedConcat
<1>4. Used(h, key, bucket) \in Nat /\ Used(r, key, bucket) \in Nat
  BY <1>2, UsedIsNat
<1> QED BY <1>1, <1>2, <1>3, <1>4

LEMMA UsedRecent ==
  ASSUME NEW s \in Seq(Entry), Ordered(s), NEW key, NEW bucket
  PROVE  Used(Recent(s), key, bucket) <= Used(s, key, bucket)
<1>1. PICK n : StaleUpTo(s, n)
  BY StaleFirst
<1>2. n \in 0 .. Len(s)
  BY <1>1 DEF StaleUpTo
<1> QED BY <1>1, <1>2, RecentIs, UsedEnd

LEMMA UsedOlder ==
  ASSUME NEW s \in Seq(Entry), NEW key, NEW bucket
  PROVE  Used(Older(s), key, bucket) = Used(s, key, bucket)
<1>1. PICK c \in Nat : c = Len(s) /\ DOMAIN s = 1 .. c
  OBVIOUS
<1>2. PICK o : o = Older(s)
  OBVIOUS
<1>3. /\ o \in Seq(Entry) /\ Len(o) = c
      /\ \A i \in 1 .. c : o[i].key = s[i].key /\ o[i].bucket = s[i].bucket
  BY <1>1, <1>2, OlderIs
<1>4. DOMAIN o = 1 .. c
  BY <1>3
<1>5. {i \in DOMAIN o : o[i].key = key /\ o[i].bucket = bucket}
        = {i \in DOMAIN s : s[i].key = key /\ s[i].bucket = bucket}
  BY <1>1, <1>3, <1>4
<1> QED BY <1>2, <1>5 DEF Used


----------------------------------------------------------------------------
\* Every request that was let through in the window is in the table or has been lost
\* by it, and what the table holds of a requester and a bucket is within the limit.
RateInv ==
  /\ entries \in Seq(Entry) /\ allowed \in Seq(Entry) /\ cut \in Seq(Entry)
  /\ Len(entries) <= MaxEntries
  /\ Ordered(entries) /\ Ordered(allowed)
  /\ allowed = cut \o Recent(entries)
  /\ \A key \in Requester, bucket \in Buckets :
       Used(Recent(entries), key, bucket) <= LimitOf[bucket]

LEMMA RateInitInv == RateInit => RateInv
<1> SUFFICES ASSUME RateInit PROVE RateInv
  OBVIOUS
<1>1. entries = <<>> /\ allowed = <<>> /\ cut = <<>>
  BY DEF RateInit
<1>2. <<>> \in Seq(Entry) /\ Len(<<>>) = 0 /\ DOMAIN <<>> = {}
  OBVIOUS
<1>3. PICK z : z = <<>>
  OBVIOUS
<1>4. z \in Seq(Entry) /\ Len(z) = 0 /\ DOMAIN z = {} /\ Ordered(z)
  <2>1. z \in Seq(Entry) /\ Len(z) = 0 /\ DOMAIN z = {}
    BY <1>3
  <2> QED BY <2>1 DEF Ordered
<1>5. Recent(z) = <<>>
  <2>1. z \in Seq(Entry) /\ \A i \in 1 .. Len(z) : ~InWindow(z[i])
    BY <1>4
  <2> QED BY <2>1, NoneRecent
<1>6. ASSUME NEW key \in Requester, NEW bucket \in Buckets
      PROVE  Used(z, key, bucket) <= LimitOf[bucket]
  <2>1. {i \in DOMAIN z : z[i].key = key /\ z[i].bucket = bucket} = {}
    BY <1>4
  <2>2. Used(z, key, bucket) = 0
    BY <2>1, FS_EmptySet DEF Used
  <2> QED BY <2>2, RateLimitsAre
<1>7. z \o z = z
  BY <1>3, <1>4, ConcatEmptySeq
<1> QED BY <1>1, <1>3, <1>4, <1>5, <1>6, <1>7, RateLimitsAre DEF RateInv

\* A table with one more entry counts it for its requester and its bucket alone.
LEMMA UsedAppend ==
  ASSUME NEW s \in Seq(Entry), NEW e \in Entry, NEW key, NEW bucket
  PROVE  Used(Append(s, e), key, bucket)
           = Used(s, key, bucket) + IF e.key = key /\ e.bucket = bucket THEN 1 ELSE 0
<1>1. PICK t : t = <<e>>
  OBVIOUS
<1>2. t \in Seq(Entry) /\ Len(t) = 1 /\ DOMAIN t = {1} /\ t[1] = e
  BY <1>1
<1>3. Append(s, e) = s \o t
  BY <1>1, AppendIsConcat
<1>4. t \in Seq(Entry)
  BY <1>2
<1>5. Used(s \o t, key, bucket) = Used(s, key, bucket) + Used(t, key, bucket)
  BY <1>4, UsedConcat
<1>6. CASE e.key = key /\ e.bucket = bucket
  <2>1. {i \in DOMAIN t : t[i].key = key /\ t[i].bucket = bucket} = {1}
    BY <1>2, <1>6
  <2>2. Used(t, key, bucket) = 1
    BY <2>1, FS_Singleton DEF Used
  <2> QED BY <1>3, <1>5, <1>6, <2>2
<1>7. CASE ~(e.key = key /\ e.bucket = bucket)
  <2>1. {i \in DOMAIN t : t[i].key = key /\ t[i].bucket = bucket} = {}
    BY <1>2, <1>7
  <2>2. Used(t, key, bucket) = 0
    BY <2>1, FS_EmptySet DEF Used
  <2> QED BY <1>3, <1>5, <1>7, <2>2
<1> QED BY <1>6, <1>7

LEMMA AppendOrdered ==
  ASSUME NEW s \in Seq(Entry), NEW e \in Entry, Ordered(s), e.age = 0
  PROVE  Ordered(Append(s, e))
<1>1. PICK c \in Nat : c = Len(s) /\ DOMAIN s = 1 .. c
  OBVIOUS
<1>2. PICK u : u = Append(s, e)
  OBVIOUS
<1>3. /\ Len(u) = c + 1 /\ DOMAIN u = 1 .. c + 1
      /\ (\A i \in 1 .. c : u[i] = s[i]) /\ u[c + 1] = e
  BY <1>1, <1>2, AppendProperties
<1>4. ASSUME NEW i \in 1 .. c + 1, NEW j \in 1 .. c + 1, i < j PROVE u[i].age >= u[j].age
  <2>1. i \in 1 .. c /\ u[i] = s[i] /\ s[i].age \in Nat
    <3>1. i \in 1 .. c
      BY <1>4
    <3> QED BY <1>1, <1>3, <3>1, EntryIs
  <2>2. CASE j = c + 1
    BY <1>3, <2>1, <2>2
  <2>3. CASE j # c + 1
    <3>1. j \in 1 .. c /\ u[j] = s[j]
      BY <1>3, <2>3
    <3> QED BY <1>1, <1>4, <2>1, <3>1 DEF Ordered
  <2> QED BY <2>2, <2>3
<1> QED BY <1>2, <1>3, <1>4 DEF Ordered

LEMMA JoinedThree ==
  ASSUME NEW s \in Seq(Entry), NEW t \in Seq(Entry), NEW u \in Seq(Entry)
  PROVE  (s \o t) \o u = s \o (t \o u)
BY ConcatAssociative

\* The newest entries of a table, after the ones it loses.
LEMMA KeptIs ==
  ASSUME NEW s \in Seq(Entry)
  PROVE  /\ Dropped(s) \in 0 .. Len(s) /\ Kept(s) = SubSeq(s, Dropped(s) + 1, Len(s))
         /\ Len(s) - Dropped(s) <= MaxEntries
<1>1. PICK c \in Nat : c = Len(s)
  OBVIOUS
<1>2. MaxEntries \in Nat
  BY RateLimitsAre
<1>3. Max({0, c - MaxEntries}) \in {0, c - MaxEntries}
      /\ \A y \in {0, c - MaxEntries} : Max({0, c - MaxEntries}) >= y
  <2>1. PICK x \in {0, c - MaxEntries} : \A y \in {0, c - MaxEntries} : x >= y
    BY <1>2
  <2> QED BY <2>1 DEF Max
<1>4. Dropped(s) = Max({0, c - MaxEntries})
  BY <1>1 DEF Dropped
<1>5. Dropped(s) \in 0 .. c /\ c - Dropped(s) <= MaxEntries
  BY <1>2, <1>3, <1>4
<1> QED BY <1>1, <1>5 DEF Kept

LEMMA RecentRecent ==
  ASSUME NEW s \in Seq(Entry), Ordered(s)
  PROVE  Recent(Recent(s)) = Recent(s)
<1>1. PICK r : r = Recent(s)
  OBVIOUS
<1>2. r \in Seq(Entry) /\ \A i \in 1 .. Len(r) : InWindow(r[i])
  BY <1>1, RecentOK
<1>3. Recent(r) = r
  BY <1>2, AllRecent
<1> QED BY <1>1, <1>3

\* A period: what leaves the window leaves the table and what was let through alike.
LEMMA PassPeriodInv == RateInv /\ PassPeriod => RateInv'
<1> SUFFICES ASSUME RateInv, PassPeriod PROVE RateInv'
  OBVIOUS
<1>1. PICK s \in Seq(Entry) : s = entries
  BY DEF RateInv
<1>2. PICK al \in Seq(Entry) : al = allowed
  BY DEF RateInv
<1>3. PICK ct \in Seq(Entry) : ct = cut
  BY DEF RateInv
<1>4. /\ Ordered(s) /\ Ordered(al) /\ al = ct \o Recent(s) /\ Len(s) <= MaxEntries
      /\ \A key \in Requester, bucket \in Buckets :
           Used(Recent(s), key, bucket) <= LimitOf[bucket]
  BY <1>1, <1>2, <1>3 DEF RateInv
<1>5. entries' = Older(s) /\ allowed' = Recent(Older(al)) /\ cut' = Recent(Older(ct))
  BY <1>1, <1>2, <1>3, LastWindowIs DEF PassPeriod
<1>6. PICK r : r = Recent(s)
  OBVIOUS
<1>7. r \in Seq(Entry) /\ Ordered(r)
  BY <1>4, <1>6, RecentOK
<1>8. PICK os : os = Older(s)
  OBVIOUS
<1>9. PICK oa : oa = Older(al)
  OBVIOUS
<1>10. PICK oc : oc = Older(ct)
  OBVIOUS
<1>11. PICK ro : ro = Older(r)
  OBVIOUS
<1>12. os \in Seq(Entry) /\ Len(os) = Len(s) /\ Ordered(os)
  BY <1>4, <1>8, OlderIs
<1>13. oa \in Seq(Entry) /\ Ordered(oa)
  BY <1>4, <1>9, OlderIs
<1>14. oc \in Seq(Entry)
  BY <1>10, OlderIs
<1>15. ro \in Seq(Entry) /\ Ordered(ro)
  BY <1>7, <1>11, OlderIs
<1>16. Older(ct \o r) = Older(ct) \o Older(r)
  BY <1>7, OlderConcat
<1>17. oa = oc \o ro
  BY <1>4, <1>6, <1>9, <1>10, <1>11, <1>16
<1>18. Ordered(oc \o ro)
  BY <1>13, <1>17
<1>19. Recent(oc \o ro) = Recent(oc) \o Recent(ro)
  BY <1>14, <1>15, <1>18, RecentConcat
<1>20. Recent(Older(s)) = Recent(Older(Recent(s)))
  BY <1>4, RecentOlder
<1>21. Recent(os) = Recent(ro)
  BY <1>6, <1>8, <1>11, <1>20
<1>22. Recent(oa) = Recent(oc) \o Recent(os)
  BY <1>17, <1>19, <1>21
<1>23. Recent(oa) \in Seq(Entry) /\ Ordered(Recent(oa))
  BY <1>13, RecentOK
<1>24. Recent(oc) \in Seq(Entry)
  <2>1. oc \o ro \in Seq(Entry)
    BY <1>13, <1>17
  <2>2. Ordered(oc)
    <3>1. PICK u : u = oc \o ro
      OBVIOUS
    <3>2. PICK a \in Nat, b \in Nat : a = Len(oc) /\ b = Len(ro)
      BY <1>14, <1>15
    <3>3. DOMAIN u = 1 .. a + b /\ \A i \in 1 .. a : u[i] = oc[i]
      BY <1>14, <1>15, <3>1, <3>2, Joined
    <3>4. DOMAIN oc = 1 .. a
      BY <1>14, <3>2
    <3>5. \A i \in 1 .. a : i \in 1 .. a + b
      OBVIOUS
    <3>6. Ordered(u)
      BY <1>18, <3>1
    <3> QED BY <3>3, <3>4, <3>5, <3>6 DEF Ordered
  <2> QED BY <1>14, <2>2, RecentOK
<1>25. ASSUME NEW key \in Requester, NEW bucket \in Buckets
       PROVE  Used(Recent(os), key, bucket) <= LimitOf[bucket]
  <2>1. Used(Recent(ro), key, bucket) <= Used(ro, key, bucket)
    BY <1>15, UsedRecent
  <2>2. Used(Older(r), key, bucket) = Used(r, key, bucket)
    BY <1>7, UsedOlder
  <2>3. Used(r, key, bucket) <= LimitOf[bucket]
    BY <1>4, <1>6
  <2>4. Recent(ro) \in Seq(Entry)
    BY <1>15, RecentOK
  <2>5. Used(Recent(ro), key, bucket) \in Nat /\ Used(r, key, bucket) \in Nat
    BY <1>7, <2>4, UsedIsNat
  <2>6. LimitOf[bucket] \in Nat
    BY RateLimitsAre
  <2> QED BY <1>11, <1>21, <2>1, <2>2, <2>3, <2>5, <2>6
<1>26. Len(os) <= MaxEntries
  BY <1>4, <1>12
<1>27. entries' = os /\ allowed' = Recent(oa) /\ cut' = Recent(oc)
  BY <1>5, <1>8, <1>9, <1>10
<1> QED BY <1>12, <1>22, <1>23, <1>24, <1>25, <1>26, <1>27 DEF RateInv

LEMMA RefuseInv ==
  ASSUME NEW key \in Requester, NEW bucket \in Buckets, RateInv, RefuseRequest(key, bucket)
  PROVE  RateInv'
<1>1. PICK s \in Seq(Entry) : s = entries
  BY DEF RateInv
<1>2. PICK r : r = Recent(s)
  OBVIOUS
<1>3. Ordered(s) /\ Len(s) <= MaxEntries /\ Len(s) \in Nat
  BY <1>1 DEF RateInv
<1>4. r \in Seq(Entry) /\ Len(r) <= Len(s) /\ Ordered(r)
  BY <1>2, <1>3, RecentOK
<1>5. Recent(r) = r
  BY <1>2, <1>3, RecentRecent
<1>6. entries' = r /\ allowed' = allowed /\ cut' = cut
  BY <1>1, <1>2 DEF RefuseRequest
<1>7. Len(r) <= MaxEntries
  BY <1>3, <1>4, RateLimitsAre
<1>8. /\ allowed \in Seq(Entry) /\ cut \in Seq(Entry) /\ Ordered(allowed) /\ allowed = cut \o r
      /\ \A k \in Requester, b \in Buckets : Used(r, k, b) <= LimitOf[b]
  BY <1>1, <1>2 DEF RateInv
<1> QED BY <1>4, <1>5, <1>6, <1>7, <1>8 DEF RateInv

\* A request that is let through: the entries it drives out of the table are lost.
LEMMA AllowInv ==
  ASSUME NEW key \in Requester, NEW bucket \in Buckets, RateInv, AllowRequest(key, bucket)
  PROVE  RateInv'
<1>1. PICK s \in Seq(Entry) : s = entries
  BY DEF RateInv
<1>2. PICK ct \in Seq(Entry) : ct = cut
  BY DEF RateInv
<1>3. PICK al \in Seq(Entry) : al = allowed
  BY DEF RateInv
<1>4. PICK r : r = Recent(s)
  OBVIOUS
<1>5. PICK e : e = [key |-> key, bucket |-> bucket, age |-> 0]
  OBVIOUS
<1>6. e \in Entry /\ e.age = 0 /\ e.key = key /\ e.bucket = bucket
  BY <1>5, RateLimitsAre DEF Entry
<1>7. Ordered(s) /\ Ordered(al) /\ al = ct \o r
      /\ \A k \in Requester, b \in Buckets : Used(r, k, b) <= LimitOf[b]
  BY <1>1, <1>2, <1>3, <1>4 DEF RateInv
<1>8. r \in Seq(Entry) /\ Ordered(r) /\ \A i \in 1 .. Len(r) : InWindow(r[i])
  BY <1>4, <1>7, RecentOK
<1>9. PICK all : all = Append(r, e)
  OBVIOUS
<1>10. PICK d : d = Dropped(all)
  OBVIOUS
<1>11. PICK c \in Nat : c = Len(r) /\ DOMAIN r = 1 .. c
  BY <1>8
<1>12. /\ all \in Seq(Entry) /\ Len(all) = c + 1
       /\ (\A i \in 1 .. c : all[i] = r[i]) /\ all[c + 1] = e
  BY <1>6, <1>8, <1>9, <1>11, AppendProperties
<1>13. InWindow(e)
  BY <1>6, RateLimitsAre DEF InWindow
<1>14. \A i \in 1 .. c + 1 : InWindow(all[i])
  <2> TAKE i \in 1 .. c + 1
  <2>1. i \in 1 .. c \/ i = c + 1
    OBVIOUS
  <2> QED BY <1>8, <1>11, <1>12, <1>13, <2>1
<1>15. Ordered(all)
  BY <1>6, <1>8, <1>9, AppendOrdered
<1>16. d \in 0 .. Len(all) /\ Kept(all) = SubSeq(all, d + 1, Len(all)) /\ Len(all) - d <= MaxEntries
  BY <1>10, <1>12, KeptIs
<1>17. PICK k : k = Kept(all)
  OBVIOUS
<1>18. PICK l : l = SubSeq(all, 1, d)
  OBVIOUS
<1>19. /\ k \in Seq(Entry) /\ Len(k) = Len(all) - d
       /\ \A i \in 1 .. Len(all) - d : k[i] = all[d + i]
       /\ l \in Seq(Entry) /\ l \o k = all
       /\ Ordered(k)
  <2>1. k = SubSeq(all, d + 1, Len(all))
    BY <1>16, <1>17
  <2>2. all \in Seq(Entry) /\ d \in 0 .. Len(all)
    BY <1>12, <1>16
  <2> QED BY <1>15, <1>18, <2>1, <2>2, EndOf
<1>20. k \in Seq(Entry) /\ l \in Seq(Entry)
  BY <1>19
<1>21. Recent(k) = k
  <2>1. ASSUME NEW i \in 1 .. Len(k) PROVE InWindow(k[i])
    <3>1. i \in 1 .. c + 1 - d /\ d \in 0 .. c + 1
      BY <1>12, <1>16, <1>19
    <3>2. d + i \in 1 .. c + 1
      BY <3>1
    <3>3. k[i] = all[d + i]
      BY <1>12, <1>19, <3>1
    <3> QED BY <1>14, <3>2, <3>3
  <2> QED BY <1>20, <2>1, AllRecent
<1>22. entries' = k /\ allowed' = Append(al, e) /\ cut' = ct \o l
  BY <1>1, <1>2, <1>3, <1>4, <1>5, <1>9, <1>10, <1>17, <1>18 DEF AllowRequest
<1>23. Append(al, e) = (ct \o l) \o k
  <2>1. PICK x : x = <<e>>
    OBVIOUS
  <2>2. x \in Seq(Entry)
    BY <1>6, <2>1
  <2>3. Append(al, e) = al \o x
    BY <1>6, <2>1, AppendIsConcat
  <2>4. all = r \o x
    BY <1>6, <1>8, <1>9, <2>1, AppendIsConcat
  <2>5. (ct \o r) \o x = ct \o (r \o x)
    BY <1>8, <2>2, ConcatAssociative
  <2>6. (ct \o l) \o k = ct \o (l \o k)
    BY <1>20, JoinedThree
  <2> QED BY <1>7, <1>19, <2>3, <2>4, <2>5, <2>6
<1>24. allowed' \in Seq(Entry) /\ Ordered(allowed')
  <2>1. Append(al, e) \in Seq(Entry)
    BY <1>6, AppendProperties
  <2>2. Ordered(Append(al, e))
    BY <1>6, <1>7, AppendOrdered
  <2> QED BY <1>22, <2>1, <2>2
<1>25. ct \o l \in Seq(Entry)
  BY <1>20, ConcatProperties
<1>26. ASSUME NEW q \in Requester, NEW b \in Buckets PROVE Used(k, q, b) <= LimitOf[b]
  <2>1. Used(all, q, b) = Used(r, q, b) + IF e.key = q /\ e.bucket = b THEN 1 ELSE 0
    BY <1>6, <1>8, <1>9, UsedAppend
  <2>2. Used(l \o k, q, b) = Used(l, q, b) + Used(k, q, b)
    BY <1>20, UsedConcat
  <2>3. l \o k = all
    BY <1>19
  <2>4. Used(l, q, b) \in Nat /\ Used(k, q, b) \in Nat /\ Used(r, q, b) \in Nat
    BY <1>8, <1>20, UsedIsNat
  <2>5. Used(r, q, b) <= LimitOf[b] /\ LimitOf[b] \in Nat
    BY <1>7, RateLimitsAre
  <2>6. CASE key = q /\ bucket = b
    <3>1. Used(r, q, b) < LimitOf[b]
      BY <1>1, <1>4, <2>6 DEF AllowRequest
    <3> QED BY <1>6, <2>1, <2>2, <2>3, <2>4, <2>5, <2>6, <3>1
  <2>7. CASE ~(key = q /\ bucket = b)
    BY <1>6, <2>1, <2>2, <2>3, <2>4, <2>5, <2>7
  <2> QED BY <2>6, <2>7
<1>27. Len(k) <= MaxEntries
  BY <1>16, <1>19
<1>28. Ordered(k)
  BY <1>19
<1>29. allowed' = cut' \o Recent(entries')
  BY <1>21, <1>22, <1>23
<1>30. entries' \in Seq(Entry) /\ cut' \in Seq(Entry) /\ Len(entries') <= MaxEntries /\ Ordered(entries')
  BY <1>20, <1>22, <1>25, <1>27, <1>28
<1>31. \A q \in Requester, b \in Buckets : Used(Recent(entries'), q, b) <= LimitOf[b]
  BY <1>21, <1>22, <1>26
<1> QED BY <1>24, <1>29, <1>30, <1>31 DEF RateInv

LEMMA RateStep == RateInv /\ [RateNext]_rateVars => RateInv'
<1> SUFFICES ASSUME RateInv, [RateNext]_rateVars PROVE RateInv'
  OBVIOUS
<1>1. ASSUME NEW key \in Requester, NEW bucket \in Buckets, AllowRequest(key, bucket)
      PROVE  RateInv'
  BY <1>1, AllowInv
<1>2. ASSUME NEW key \in Requester, NEW bucket \in Buckets, RefuseRequest(key, bucket)
      PROVE  RateInv'
  BY <1>2, RefuseInv
<1>3. CASE PassPeriod
  BY <1>3, PassPeriodInv
<1>4. CASE UNCHANGED rateVars
  BY <1>4 DEF RateInv, rateVars
<1> QED BY <1>1, <1>2, <1>3, <1>4 DEF RateNext

\* A requester is let through as often in a window as the table holds and has lost of it.
LEMMA RateInvImplies == RateInv => WindowLimit
<1> SUFFICES ASSUME RateInv, NEW key \in Requester, NEW bucket \in Buckets
             PROVE  Used(allowed, key, bucket) <= LimitOf[bucket] + Used(cut, key, bucket)
  BY DEF WindowLimit
<1>1. PICK s \in Seq(Entry) : s = entries
  BY DEF RateInv
<1>2. PICK ct \in Seq(Entry) : ct = cut
  BY DEF RateInv
<1>3. PICK r : r = Recent(s)
  OBVIOUS
<1>4. Ordered(s) /\ allowed = ct \o r /\ Used(r, key, bucket) <= LimitOf[bucket]
  BY <1>1, <1>2, <1>3 DEF RateInv
<1>5. Ordered(s)
  BY <1>4
<1>6. r \in Seq(Entry)
  BY <1>3, <1>5, RecentOK
<1>7. Used(ct \o r, key, bucket) = Used(ct, key, bucket) + Used(r, key, bucket)
  BY <1>6, UsedConcat
<1>8. Used(ct, key, bucket) \in Nat /\ Used(r, key, bucket) \in Nat /\ LimitOf[bucket] \in Nat
  BY <1>6, UsedIsNat, RateLimitsAre
<1>9. Used(allowed, key, bucket) = Used(ct, key, bucket) + Used(r, key, bucket)
  BY <1>4, <1>7
<1> QED BY <1>2, <1>4, <1>8, <1>9

\* The table keeps the order of the requests, which is what lets it drop the old ones as
\* the first ones.
LEMMA RateInvTypes == RateInv => RateTypeOK
<1> SUFFICES ASSUME RateInv PROVE RateTypeOK
  OBVIOUS
<1>1. /\ entries \in Seq(Entry) /\ allowed \in Seq(Entry) /\ cut \in Seq(Entry)
      /\ Len(entries) <= MaxEntries /\ Ordered(entries) /\ Ordered(allowed)
      /\ allowed = cut \o Recent(entries)
  BY DEF RateInv
<1>2. Recent(entries) \in Seq(Entry)
  BY <1>1, RecentOK
<1>3. Ordered(cut)
  <2>1. PICK c \in Seq(Entry), r \in Seq(Entry) : c = cut /\ r = Recent(entries)
    BY <1>1, <1>2
  <2>2. /\ Len(c) \in Nat /\ Len(r) \in Nat /\ DOMAIN c = 1..Len(c)
        /\ DOMAIN (c \o r) = 1..Len(c) + Len(r) /\ \A i \in 1..Len(c) : (c \o r)[i] = c[i]
    OBVIOUS
  <2>3. \A i \in 1..Len(c) : i \in 1..Len(c) + Len(r)
    BY <2>2
  <2>4. Ordered(c \o r)
    BY <1>1, <2>1
  <2>5. Ordered(c)
    BY <2>2, <2>3, <2>4 DEF Ordered
  <2> QED BY <2>1, <2>5
<1>4. ASSUME NEW s \in Seq(Entry), Ordered(s)
      PROVE  \A i \in DOMAIN s : InWindow(s[i]) <=> i > Len(s) - Len(Recent(s))
  <2>1. PICK n : StaleUpTo(s, n)
    BY <1>4, StaleFirst
  <2>2. PICK c \in Nat : c = Len(s) /\ DOMAIN s = 1..c /\ n \in 0..c
    BY <2>1 DEF StaleUpTo
  <2>3. PICK r : r = Recent(s)
    OBVIOUS
  <2>4. r = SubSeq(s, n + 1, Len(s))
    BY <2>1, <2>3, RecentIs
  <2>5. Len(SubSeq(s, n + 1, Len(s))) = Len(s) - n
    BY <2>2, EndOf
  <2>6. PICK l \in Int : l = Len(r) /\ l = c - n
    <3>1. Len(r) = c - n
      BY <2>2, <2>4, <2>5
    <3>2. c - n \in Int
      BY <2>2
    <3> QED BY <3>1, <3>2
  <2>7. \A i \in 1..c : InWindow(s[i]) <=> i > n
    BY <2>1, <2>2 DEF StaleUpTo
  <2>8. c - l = n
    BY <2>2, <2>6
  <2>9. \A i \in 1..c : InWindow(s[i]) <=> i > c - l
    BY <2>7, <2>8
  <2> QED BY <2>2, <2>3, <2>6, <2>9
<1>5. \A i, j \in DOMAIN entries : i < j => entries[i].age >= entries[j].age
  BY <1>1 DEF Ordered
<1> QED BY <1>1, <1>3, <1>4, <1>5 DEF RateTypeOK

LEMMA RateAlways == RateSpec => []RateInv
  BY RateInitInv, RateStep, PTL DEF RateSpec

\* The table keeps to its limit and to the order of the requests.
THEOREM RateTypeCorrect == RateSpec => []RateTypeOK
  BY RateAlways, RateInvTypes, PTL

\* For any limits, window and size of the table: in a window a requester is let through
\* no more often than its bucket allows, but for what others drove out of the table.
THEOREM RatesCorrect == RateSpec => []WindowLimit
  BY RateAlways, RateInvImplies, PTL

----------------------------------------------------------------------------
\* The bridge by which a person answers for the language model.

\* Every state of a server and of a request.
ServerState == {"down", "emptying", "starting", "listening", "up", "bare", "closing"}
RequestState ==
  [at : {"new", "written", "waiting", "read", "returned", "answered", "done", "failing", "failed"},
   server : Servers \cup {NoOne}, seen : BOOLEAN, read : {NoOne, "part", "whole"}]
Open == {"written", "waiting", "read", "returned", "failing"}

LlmTyped ==
  /\ server \in [Servers -> ServerState]
  /\ dir \in BOOLEAN
  /\ status \in Servers \cup {NoOne} /\ stopping \in Servers \cup {NoOne}
  /\ requestFiles \subseteq Requests
  /\ responseFiles \in [Requests -> {NoOne, "part", "whole"}]
  /\ request \in [Requests -> RequestState]
  /\ wiped \subseteq Servers /\ crashed \subseteq Servers

OneListens == \A s, t \in Servers : Listens(s) /\ Listens(t) => s = t

\* Without the directory there is nothing in it.
Filed == ~dir => requestFiles = {} /\ responseFiles = NoFiles /\ status = NoOne

Served(r) ==
  request[r].server \in Servers /\ server[request[r].server] \in {"listening", "up", "bare", "closing"}

\* An open request belongs to a process that listens, or that waits for it to end.
OpenIsServed == \A r \in Requests : request[r].at \in Open => Served(r)

\* While there is no directory each process that runs has lost it, or is about to make it.
\* That is what lets a process end with a rejection, and the one that has does not run.
Wiped ==
  /\ ~dir => \A s \in Servers : Runs(s) => s \in wiped \/ server[s] = "emptying"
  /\ crashed \subseteq wiped
  /\ \A s \in crashed : ~Runs(s)

\* What BridgeIsSound says of requests.
Fulfilled ==
  /\ \A r \in Requests :
       request[r].at \in {"read", "returned", "answered", "done"} => request[r].read = "whole"
  /\ \A r \in Requests : request[r].at \in {"written", "waiting"} =>
       r \in requestFiles \/ request[r].server \in wiped

LlmInv == LlmTyped /\ OneListens /\ Filed /\ OpenIsServed /\ Wiped /\ Fulfilled

\* The processes have run nothing and hold no files at first.
LEMMA LlmInitial == LlmInit => LlmInv
<1> SUFFICES ASSUME LlmInit PROVE LlmInv
  OBVIOUS
<1>1. LlmTyped
  BY DEF LlmInit, LlmTyped, NoFiles, ServerState, RequestState
<1> QED
  BY <1>1 DEF LlmInit, LlmInv, OneListens, Listens, Filed, OpenIsServed, Open, Wiped, Fulfilled, NoFiles,
              Runs

\* The requests whose connections are reset have failed, the others are as they were.
LEMMA ResetRequests ==
  ASSUME LlmInv, NEW s \in Servers, Reset(s)
  PROVE  /\ request' \in [Requests -> RequestState]
         /\ \A r \in Requests :
              \/ request'[r].at = "failed"
              \/ request'[r] = request[r] /\ (request[r].server # s \/ request[r].at \notin Open)
<1> DEFINE new(r) == IF r \in OpenRequests(s) THEN [request[r] EXCEPT !.at = "failed"]
                     ELSE request[r]
<1>1. request \in [Requests -> RequestState]
  BY DEF LlmInv, LlmTyped
<1>2. request' = [r \in Requests |-> new(r)]
  BY DEF Reset
<1>3. ASSUME NEW r \in Requests
      PROVE  /\ new(r) \in RequestState
             /\ \/ new(r).at = "failed"
                \/ new(r) = request[r] /\ (request[r].server # s \/ request[r].at \notin Open)
  <2>1. request[r] \in RequestState
    BY <1>1
  <2>2. CASE r \in OpenRequests(s)
    <3>1. new(r) = [request[r] EXCEPT !.at = "failed"]
      BY <2>2
    <3> QED BY <2>1, <3>1 DEF RequestState
  <2>3. CASE r \notin OpenRequests(s)
    <3>1. new(r) = request[r]
      BY <2>3
    <3>2. request[r].server # s \/ request[r].at \notin Open
      BY <2>3 DEF OpenRequests, Open
    <3> QED BY <2>1, <3>1, <3>2
  <2> QED BY <2>2, <2>3
<1> HIDE DEF new
<1>4. \A r \in Requests : request'[r] = new(r)
  BY <1>2
<1> QED BY <1>2, <1>3, <1>4

\* A request that moves on changes its state only.
LEMMA MovesRequest ==
  ASSUME LlmInv, NEW r \in Requests, NEW label \in Open \cup {"answered", "done", "failed"},
         Moves(r, label)
  PROVE  /\ request' \in [Requests -> RequestState]
         /\ request'[r].at = label /\ request'[r].server = request[r].server
         /\ request'[r].read = request[r].read
         /\ \A q \in Requests : q # r => request'[q] = request[q]
<1>1. request \in [Requests -> RequestState] /\ request' = [request EXCEPT ![r].at = label]
  BY DEF LlmInv, LlmTyped, Moves
<1> QED BY <1>1 DEF RequestState, Open

\* A request goes on to where nothing is asked of it that was not asked before, while the
\* processes and the files stay.
LEMMA MoveInv ==
  ASSUME LlmInv, NEW r \in Requests, request[r].at \in Open,
         NEW label \in Open \cup {"answered", "done", "failed"}, Moves(r, label),
         label \in {"returned", "answered", "done"} =>
           request[r].at \in {"read", "returned", "answered"},
         label = "waiting" => request[r].at = "written", label \notin {"written", "read"},
         UNCHANGED <<server, dir, requestFiles, responseFiles, wiped, stopping, crashed>>,
         status' = status \/ (dir /\ status' = request[r].server)
  PROVE  LlmInv'
<1>1. /\ request' \in [Requests -> RequestState]
      /\ request'[r].at = label /\ request'[r].server = request[r].server
      /\ request'[r].read = request[r].read
      /\ \A q \in Requests : q # r => request'[q] = request[q]
  BY MovesRequest
<1>2. Served(r)
  BY DEF LlmInv, OpenIsServed
<1>3. LlmTyped'
  BY <1>1, <1>2 DEF LlmInv, LlmTyped, Served
<1>4. OneListens' /\ Filed'
  BY DEF LlmInv, OneListens, Listens, Filed
<1>5. OpenIsServed'
  BY <1>1, <1>2 DEF LlmInv, OpenIsServed, Served
<1>6. Wiped'
  BY DEF LlmInv, Wiped, Runs
<1>7. Fulfilled'
  BY <1>1 DEF LlmInv, Fulfilled
<1> QED BY <1>3, <1>4, <1>5, <1>6, <1>7 DEF LlmInv

----------------------------------------------------------------------------
\* How a server starts.

\* A process that starts takes the directory away from all others.
LEMMA EmptyDirectoryInv ==
  ASSUME LlmInv, NEW s \in Servers, EmptyDirectory(s)
  PROVE  LlmInv'
<1> USE DEF LlmInv
<1>1. /\ server[s] = "down" /\ server' = [server EXCEPT ![s] = "emptying"]
      /\ dir' = FALSE /\ requestFiles' = {} /\ responseFiles' = NoFiles /\ status' = NoOne
      /\ wiped' = (wiped \cup {t \in Servers : Runs(t)}) \ {s}
      /\ crashed' = crashed \ {s} /\ request' = request /\ stopping' = stopping
  BY DEF EmptyDirectory, RemoveDirectory, Stop
<1>2. server \in [Servers -> ServerState]
  BY DEF LlmTyped
<1>3. LlmTyped'
  BY <1>1, <1>2 DEF LlmTyped, NoFiles, ServerState
<1>4. OneListens'
  BY <1>1, <1>2 DEF OneListens, Listens
<1>5. Filed'
  BY <1>1 DEF Filed, NoFiles
<1>6. OpenIsServed'
  BY <1>1, <1>2 DEF OpenIsServed, Served
<1>7. Wiped'
  BY <1>1, <1>2 DEF Wiped, Runs, LlmTyped
<1>8. Fulfilled'
  BY <1>1, <1>2 DEF Fulfilled, OpenIsServed, Open, Served, Runs
<1> QED BY <1>3, <1>4, <1>5, <1>6, <1>7, <1>8

\* A process that has made the directory has it.
LEMMA MakeDirectoryInv ==
  ASSUME LlmInv, NEW s \in Servers, MakeDirectory(s)
  PROVE  LlmInv'
<1> USE DEF LlmInv
<1>1. /\ server[s] = "emptying" /\ server' = [server EXCEPT ![s] = "starting"]
      /\ dir' = TRUE /\ wiped' = wiped \ {s}
      /\ UNCHANGED <<status, requestFiles, responseFiles, request, stopping, crashed>>
  BY DEF MakeDirectory, Stop
<1>2. server \in [Servers -> ServerState]
  BY DEF LlmTyped
<1>3. LlmTyped'
  BY <1>1, <1>2 DEF LlmTyped, ServerState
<1>4. OneListens' /\ Filed'
  BY <1>1, <1>2 DEF OneListens, Listens, Filed
<1>5. \A r \in Requests : request[r].at \in Open => request[r].server # s
  BY <1>1 DEF OpenIsServed, Served
<1>6. OpenIsServed'
  BY <1>1, <1>2, <1>5 DEF OpenIsServed, Served
<1>7. Wiped'
  BY <1>1, <1>2 DEF Wiped, Runs, LlmTyped
<1>8. Fulfilled'
  BY <1>1, <1>5 DEF Fulfilled, Open
<1> QED BY <1>3, <1>4, <1>6, <1>7, <1>8

\* A process listens only when no other does.
LEMMA ListenInv ==
  ASSUME LlmInv, NEW s \in Servers, Listen(s)
  PROVE  LlmInv'
<1> USE DEF LlmInv
<1>1. /\ server[s] = "starting"
      /\ UNCHANGED <<status, dir, requestFiles, responseFiles, wiped, request, stopping, crashed>>
  BY DEF Listen, Files, Stop
<1>2. server \in [Servers -> ServerState]
  BY DEF LlmTyped
<1>3. \/ /\ \A t \in Servers : ~Listens(t)
         /\ server' = [server EXCEPT ![s] = "listening"]
      \/ server' = [server EXCEPT ![s] = "down"]
  BY DEF Listen
<1>4. LlmTyped'
  BY <1>1, <1>2, <1>3 DEF LlmTyped, ServerState
<1>5. OneListens'
  BY <1>2, <1>3 DEF OneListens, Listens
<1>6. Filed'
  BY <1>1 DEF Filed
<1>7. OpenIsServed'
  BY <1>1, <1>2, <1>3 DEF OpenIsServed, Served
<1>8. Wiped'
  BY <1>1, <1>2, <1>3 DEF Wiped, Runs, LlmTyped
<1>9. Fulfilled'
  BY <1>1 DEF Fulfilled
<1> QED BY <1>4, <1>5, <1>6, <1>7, <1>8, <1>9

\* The one that listens goes on to, with handlers of signals or without.
LEMMA WriteListeningInv ==
  ASSUME LlmInv, NEW s \in Servers, WriteListening(s)
  PROVE  LlmInv'
<1> USE DEF LlmInv
<1>1. /\ server[s] = "listening"
      /\ UNCHANGED <<dir, requestFiles, responseFiles, wiped, request, stopping, crashed>>
      /\ status' = status \/ (dir /\ status' = s)
  BY DEF WriteListening, Files, Stop
<1>2. server \in [Servers -> ServerState]
  BY DEF LlmTyped
<1>3. PICK new \in {"up", "bare"} : server' = [server EXCEPT ![s] = new]
  BY DEF WriteListening
<1>4. LlmTyped'
  BY <1>1, <1>2, <1>3 DEF LlmTyped, ServerState
<1>5. OneListens' /\ Filed'
  BY <1>1, <1>2, <1>3 DEF OneListens, Listens, Filed
<1>6. OpenIsServed'
  BY <1>1, <1>2, <1>3 DEF OpenIsServed, Served
<1>7. Wiped'
  BY <1>1, <1>2, <1>3 DEF Wiped, Runs, LlmTyped
<1>8. Fulfilled'
  BY <1>1 DEF Fulfilled
<1> QED BY <1>4, <1>5, <1>6, <1>7, <1>8

----------------------------------------------------------------------------
\* How a request is answered.

\* A request that a process takes has its file, or is about to fail.
LEMMA ReceiveRequestInv ==
  ASSUME LlmInv, NEW s \in Servers, NEW r \in Requests, ReceiveRequest(s, r)
  PROVE  LlmInv'
<1>1. request \in [Requests -> RequestState] /\ Listens(s) /\ request[r].at = "new" /\ dir \in BOOLEAN
  BY DEF LlmInv, LlmTyped, ReceiveRequest
<1>2. /\ requestFiles' = IF dir THEN requestFiles \cup {r} ELSE requestFiles
      /\ UNCHANGED <<server, dir, status, responseFiles, wiped, stopping, crashed>>
  BY DEF ReceiveRequest, Stop
<1>3. /\ request' \in [Requests -> RequestState] /\ request'[r].server = s
      /\ request'[r].at = (IF dir THEN "written" ELSE "failing")
      /\ \A q \in Requests : q # r => request'[q] = request[q]
  <2> DEFINE new == [request[r] EXCEPT !.at = IF dir THEN "written" ELSE "failing",
                                       !.server = s, !.seen = dir]
  <2>1. new \in RequestState /\ new.server = s /\ new.at = (IF dir THEN "written" ELSE "failing")
    BY <1>1 DEF RequestState
  <2>2. request' = [request EXCEPT ![r] = new]
    BY DEF ReceiveRequest
  <2> HIDE DEF new
  <2> QED BY <1>1, <2>1, <2>2
<1>4. LlmTyped'
  BY <1>2, <1>3 DEF LlmInv, LlmTyped
<1>5. OneListens' /\ Filed'
  BY <1>1, <1>2 DEF LlmInv, OneListens, Listens, Filed
<1>6. OpenIsServed'
  BY <1>1, <1>2, <1>3 DEF LlmInv, OpenIsServed, Served, Listens
<1>7. Wiped'
  BY <1>2 DEF LlmInv, Wiped, Runs
<1>8. Fulfilled'
  BY <1>1, <1>2, <1>3 DEF LlmInv, Fulfilled
<1> QED BY <1>4, <1>5, <1>6, <1>7, <1>8 DEF LlmInv

\* The status names a process that runs and the request goes on, or is about to fail.
LEMMA TryStatusInv ==
  ASSUME LlmInv, NEW r \in Requests, NEW label,
         \/ request[r].at = "written" /\ label = "waiting"
         \/ request[r].at = "read" /\ label = "returned",
         TryStatus(r, label)
  PROVE  LlmInv'
<1>1. /\ UNCHANGED <<server, dir, requestFiles, responseFiles, wiped, stopping, crashed>>
      /\ status' = status \/ (dir /\ status' = request[r].server)
  BY DEF TryStatus, Files, Stop
<1>2. Moves(r, label) \/ Moves(r, "failing")
  BY DEF TryStatus
<1>3. /\ request[r].at \in Open
      /\ {label, "failing"} \subseteq Open \cup {"answered", "done", "failed"}
      /\ label \in {"waiting", "returned"}
  BY DEF Open
<1>4. CASE Moves(r, label)
  BY <1>1, <1>3, <1>4, MoveInv
<1>5. CASE Moves(r, "failing")
  BY <1>1, <1>3, <1>5, MoveInv
<1> QED BY <1>2, <1>4, <1>5

\* A response is read when it is whole.
LEMMA PollInv ==
  ASSUME LlmInv, NEW r \in Requests, Poll(r) \/ TimeOutRequest(r)
  PROVE  LlmInv'
<1>1. /\ request[r].at = "waiting" /\ request[r].at \in Open
      /\ UNCHANGED <<server, status, dir, requestFiles, responseFiles, wiped, stopping, crashed>>
  BY DEF Poll, TimeOutRequest, Files, Stop, Open
<1>2. CASE Moves(r, "failing")
  BY <1>1, <1>2, MoveInv DEF Open
<1>3. CASE ~Moves(r, "failing")
  <2>1. /\ request' = [request EXCEPT ![r] = [@ EXCEPT !.at = "read", !.read = "whole"]]
        /\ request \in [Requests -> RequestState]
    BY <1>3 DEF Poll, TimeOutRequest, LlmInv, LlmTyped
  <2>2. /\ request' \in [Requests -> RequestState]
        /\ request'[r].at = "read" /\ request'[r].read = "whole"
        /\ request'[r].server = request[r].server
        /\ \A q \in Requests : q # r => request'[q] = request[q]
    BY <2>1 DEF RequestState
  <2>3. LlmTyped'
    BY <1>1, <2>2 DEF LlmInv, LlmTyped
  <2>4. OneListens' /\ Filed'
    BY <1>1 DEF LlmInv, OneListens, Listens, Filed
  <2>5. OpenIsServed'
    BY <1>1, <2>2 DEF LlmInv, OpenIsServed, Served
  <2>6. Wiped'
    BY <1>1 DEF LlmInv, Wiped, Runs
  <2>7. Fulfilled'
    BY <1>1, <2>2 DEF LlmInv, Fulfilled
  <2> QED BY <2>3, <2>4, <2>5, <2>6, <2>7 DEF LlmInv
<1> QED BY <1>2, <1>3

\* What was read in full is what the client gets.
LEMMA AnswerRequestInv ==
  ASSUME LlmInv, NEW r \in Requests, AnswerRequest(r)
  PROVE  LlmInv'
<1>1. /\ request[r].at = "returned" /\ Moves(r, "answered")
      /\ UNCHANGED <<server, status, dir, requestFiles, responseFiles, wiped, stopping, crashed>>
  BY DEF AnswerRequest, Files, Stop
<1> QED BY <1>1, MoveInv DEF Open

\* The files that are removed are of a request that nobody waits for any more.
LEMMA RemoveFilesInv ==
  ASSUME LlmInv, NEW r \in Requests, RemoveFiles(r)
  PROVE  LlmInv'
<1>1. /\ request[r].at = "answered" /\ Moves(r, "done")
      /\ requestFiles' \in {requestFiles, requestFiles \ {r}}
      /\ responseFiles' \in {responseFiles, [responseFiles EXCEPT ![r] = NoOne]}
      /\ UNCHANGED <<server, dir, status, wiped, stopping, crashed>>
  BY DEF RemoveFiles, Stop
<1>2. /\ request' \in [Requests -> RequestState]
      /\ request'[r].at = "done" /\ request'[r].read = request[r].read
      /\ \A q \in Requests : q # r => request'[q] = request[q]
  BY <1>1, MovesRequest
<1>3. responseFiles \in [Requests -> {NoOne, "part", "whole"}]
  BY DEF LlmInv, LlmTyped
<1>4. LlmTyped'
  BY <1>1, <1>2, <1>3 DEF LlmInv, LlmTyped
<1>5. OneListens' /\ Filed'
  BY <1>1, <1>3 DEF LlmInv, OneListens, Listens, Filed, NoFiles
<1>6. OpenIsServed'
  BY <1>1, <1>2 DEF LlmInv, OpenIsServed, Open, Served
<1>7. Wiped'
  BY <1>1 DEF LlmInv, Wiped, Runs
<1>8. Fulfilled'
  BY <1>1, <1>2 DEF LlmInv, Fulfilled
<1> QED BY <1>4, <1>5, <1>6, <1>7, <1>8 DEF LlmInv

\* A process ends with its open requests.
LEMMA EndInv ==
  ASSUME LlmInv, NEW s \in Servers, server' = [server EXCEPT ![s] = "down"], Reset(s),
         UNCHANGED <<dir, status, requestFiles, responseFiles, wiped>>,
         crashed' = crashed \/ (crashed' = crashed \cup {s} /\ s \in wiped),
         stopping' \in Servers \cup {NoOne}
  PROVE  LlmInv'
<1>1. server \in [Servers -> ServerState]
  BY DEF LlmInv, LlmTyped
<1>2. /\ request' \in [Requests -> RequestState]
      /\ \A r \in Requests : \/ request'[r].at = "failed"
                             \/ request'[r] = request[r]
                                /\ (request[r].server # s \/ request[r].at \notin Open)
  BY ResetRequests
<1>3. LlmTyped'
  BY <1>1, <1>2 DEF LlmInv, LlmTyped, ServerState
<1>4. OneListens' /\ Filed'
  BY <1>1 DEF LlmInv, OneListens, Listens, Filed
<1>5. OpenIsServed'
  BY <1>1, <1>2 DEF LlmInv, OpenIsServed, Open, Served
<1>6. Wiped'
  BY <1>1 DEF LlmInv, Wiped, Runs, LlmTyped
<1>7. Fulfilled'
  BY <1>2 DEF LlmInv, Fulfilled
<1> QED BY <1>3, <1>4, <1>5, <1>6, <1>7 DEF LlmInv

\* The client is told of the failure, or the process ends, which has lost its directory.
LEMMA FailRequestInv ==
  ASSUME LlmInv, NEW r \in Requests, FailRequest(r)
  PROVE  LlmInv'
<1>1. /\ request[r].at = "failing" /\ request[r].at \in Open
      /\ UNCHANGED <<dir, requestFiles, responseFiles, wiped, stopping>>
  BY DEF FailRequest, Files, Stop, Open
<1>2. Served(r)
  BY <1>1 DEF LlmInv, OpenIsServed
<1>3. CASE dir
  <2>1. status' = request[r].server /\ Moves(r, "failed") /\ UNCHANGED <<server, crashed>>
    BY <1>3 DEF FailRequest
  <2> QED BY <1>1, <1>3, <2>1, MoveInv
<1>4. CASE ~dir
  <2>1. /\ server' = [server EXCEPT ![request[r].server] = "down"] /\ Reset(request[r].server)
        /\ crashed' = crashed \cup {request[r].server} /\ status' = status
    BY <1>4 DEF FailRequest
  <2>2. request[r].server \in Servers /\ request[r].server \in wiped
    BY <1>2, <1>4 DEF LlmInv, Wiped, Runs, Served
  <2>3. stopping' \in Servers \cup {NoOne}
    BY <1>1 DEF LlmInv, LlmTyped
  <2> QED BY <1>1, <2>1, <2>2, <2>3, EndInv
<1> QED BY <1>3, <1>4

\* A response is a file of the directory.
LEMMA WriteResponseInv ==
  ASSUME LlmInv, NEW r \in Requests, WriteResponse(r)
  PROVE  LlmInv'
<1>1. PICK written \in {"part", "whole"} : responseFiles' = [responseFiles EXCEPT ![r] = written]
  BY DEF WriteResponse
<1>2. /\ dir
      /\ UNCHANGED <<server, dir, status, requestFiles, request, stopping, wiped, crashed>>
  BY DEF WriteResponse, Stop
<1>3. LlmTyped'
  BY <1>1, <1>2 DEF LlmInv, LlmTyped
<1>4. OneListens' /\ Filed' /\ OpenIsServed'
  BY <1>2 DEF LlmInv, OneListens, Listens, Filed, OpenIsServed, Served
<1>5. Wiped' /\ Fulfilled'
  BY <1>2 DEF LlmInv, Wiped, Runs, Fulfilled
<1> QED BY <1>3, <1>4, <1>5 DEF LlmInv

----------------------------------------------------------------------------
\* Ends and stops.

\* A process that is sent a signal lets its connections end, or ends with them.
LEMMA SignalServerInv ==
  ASSUME LlmInv, NEW s \in Servers, Runs(s), SignalServer(s),
         UNCHANGED <<dir, status, requestFiles, responseFiles, wiped, crashed>>,
         stopping' \in Servers \cup {NoOne}
  PROVE  LlmInv'
<1>1. server \in [Servers -> ServerState]
  BY DEF LlmInv, LlmTyped
<1>2. CASE server' = [server EXCEPT ![s] = "down"] /\ Reset(s)
  BY <1>2, EndInv
<1>3. CASE server[s] \in {"up", "closing"} /\ server' = [server EXCEPT ![s] = "closing"] /\ request' = request
  <2>1. LlmTyped'
    BY <1>1, <1>3 DEF LlmInv, LlmTyped, ServerState
  <2>2. OneListens' /\ Filed'
    BY <1>1, <1>3 DEF LlmInv, OneListens, Listens, Filed
  <2>3. OpenIsServed'
    BY <1>1, <1>3 DEF LlmInv, OpenIsServed, Served
  <2>4. Wiped'
    BY <1>1, <1>3 DEF LlmInv, Wiped, Runs, LlmTyped
  <2>5. Fulfilled'
    BY <1>3 DEF LlmInv, Fulfilled
  <2> QED BY <2>1, <2>2, <2>3, <2>4, <2>5 DEF LlmInv
<1> QED BY <1>2, <1>3 DEF SignalServer

\* A process that ends when its connections have ended leaves no open request, and the
\* directory it removes is lost to the others.
LEMMA CloseServerInv ==
  ASSUME LlmInv, NEW s \in Servers, CloseServer(s)
  PROVE  LlmInv'
<1>1. /\ server[s] = "closing" /\ OpenRequests(s) = {}
      /\ server' = [server EXCEPT ![s] = "down"]
      /\ dir' = FALSE /\ requestFiles' = {} /\ responseFiles' = NoFiles /\ status' = NoOne
      /\ wiped' = (wiped \cup {t \in Servers : Runs(t)}) \ {s}
      /\ UNCHANGED <<request, stopping, crashed>>
  BY DEF CloseServer, RemoveDirectory, Stop
<1>2. server \in [Servers -> ServerState]
  BY DEF LlmInv, LlmTyped
<1>3. \A r \in Requests : request[r].server = s => request[r].at \notin Open
  BY <1>1 DEF OpenRequests, Open
<1>4. LlmTyped'
  BY <1>1, <1>2 DEF LlmInv, LlmTyped, NoFiles, ServerState
<1>5. OneListens' /\ Filed'
  BY <1>1, <1>2 DEF LlmInv, OneListens, Listens, Filed, NoFiles
<1>6. OpenIsServed'
  BY <1>1, <1>2, <1>3 DEF LlmInv, OpenIsServed, Open, Served
<1>7. Wiped'
  BY <1>1, <1>2 DEF LlmInv, Wiped, Runs, LlmTyped
<1>8. Fulfilled'
  <2>1. \A r \in Requests : request[r].at \in {"written", "waiting"} => request[r].server \in wiped'
    BY <1>1, <1>2, <1>3 DEF LlmInv, OpenIsServed, Open, Served, Runs
  <2> QED BY <1>1, <2>1 DEF LlmInv, Fulfilled
<1> QED BY <1>4, <1>5, <1>6, <1>7, <1>8 DEF LlmInv

\* The stop command signals the process that the status names, or removes a directory that
\* nobody has a status in, whoever uses it.
LEMMA StopCommandInv ==
  ASSUME LlmInv, StopCommand
  PROVE  LlmInv'
<1>1. CASE status # NoOne /\ Runs(status)
  <2>1. /\ stopping' = status /\ SignalServer(status) /\ status \in Servers
        /\ UNCHANGED <<dir, status, requestFiles, responseFiles, wiped, crashed>>
    BY <1>1 DEF StopCommand, Files, LlmInv, LlmTyped
  <2> QED BY <1>1, <2>1, SignalServerInv
<1>2. CASE ~(status # NoOne /\ Runs(status))
  <2>1. /\ dir' = FALSE /\ requestFiles' = {} /\ responseFiles' = NoFiles /\ status' = NoOne
        /\ wiped' = (wiped \cup {t \in Servers : Runs(t)}) \ {NoOne}
        /\ UNCHANGED <<server, request, stopping, crashed>>
    BY <1>2 DEF StopCommand, RemoveDirectory
  <2>2. LlmTyped'
    BY <2>1 DEF LlmInv, LlmTyped, NoFiles, ServerState
  <2>3. OneListens' /\ Filed'
    BY <2>1 DEF LlmInv, OneListens, Listens, Filed, NoFiles
  <2>4. OpenIsServed'
    BY <2>1 DEF LlmInv, OpenIsServed, Open, Served
  <2>5. Wiped'
    BY <2>1, LlmBridgeAssumption DEF LlmInv, Wiped, Runs, LlmTyped
  <2>6. Fulfilled'
    <3>1. \A r \in Requests : request[r].at \in {"written", "waiting"} => request[r].server \in wiped'
      BY <2>1, LlmBridgeAssumption DEF LlmInv, OpenIsServed, Open, Served, Runs
    <3> QED BY <2>1, <3>1 DEF LlmInv, Fulfilled
  <2> QED BY <2>2, <2>3, <2>4, <2>5, <2>6 DEF LlmInv
<1> QED BY <1>1, <1>2

\* A process that is killed fails its requests, and all lose the directory.
LEMMA StopDeadlineInv ==
  ASSUME LlmInv, StopDeadline
  PROVE  LlmInv'
<1>1. /\ stopping \in Servers /\ stopping' = NoOne
      /\ server' = [server EXCEPT ![stopping] = "down"] /\ Reset(stopping)
      /\ dir' = FALSE /\ requestFiles' = {} /\ responseFiles' = NoFiles /\ status' = NoOne
      /\ wiped' = (wiped \cup {t \in Servers : Runs(t)}) \ {NoOne}
      /\ crashed' = crashed
  BY DEF StopDeadline, RemoveDirectory, LlmInv, LlmTyped
<1>2. server \in [Servers -> ServerState]
  BY DEF LlmInv, LlmTyped
<1>3. \A r \in Requests : \/ request'[r].at = "failed"
                          \/ request'[r] = request[r]
                             /\ (request[r].server # stopping \/ request[r].at \notin Open)
  BY <1>1, ResetRequests
<1>4. LlmTyped'
  BY <1>1, <1>2, ResetRequests DEF LlmInv, LlmTyped, NoFiles, ServerState
<1>5. OneListens' /\ Filed'
  BY <1>1, <1>2 DEF LlmInv, OneListens, Listens, Filed, NoFiles
<1>6. OpenIsServed'
  BY <1>1, <1>2, <1>3 DEF LlmInv, OpenIsServed, Open, Served
<1>7. Wiped'
  BY <1>1, <1>2, LlmBridgeAssumption DEF LlmInv, Wiped, Runs, LlmTyped
<1>8. Fulfilled'
  <2>1. \A r \in Requests : request[r].at \in {"written", "waiting"} => request[r].server \in wiped'
    BY <1>1, LlmBridgeAssumption DEF LlmInv, OpenIsServed, Open, Served, Runs
  <2> QED BY <1>1, <1>3, <2>1 DEF LlmInv, Fulfilled
<1> QED BY <1>4, <1>5, <1>6, <1>7, <1>8 DEF LlmInv

\* The invariant is preserved by every step.
LEMMA LlmStep == LlmInv /\ [LlmNext]_llmVars => LlmInv'
<1> SUFFICES ASSUME LlmInv, [LlmNext]_llmVars PROVE LlmInv'
  OBVIOUS
<1>1. ASSUME NEW s \in Servers,
             \/ EmptyDirectory(s) \/ MakeDirectory(s) \/ Listen(s) \/ WriteListening(s)
             \/ Interrupt(s) \/ CloseServer(s)
      PROVE  LlmInv'
  <2>1. CASE Interrupt(s)
    <3>1. /\ Runs(s) /\ SignalServer(s)
          /\ UNCHANGED <<dir, status, requestFiles, responseFiles, wiped, crashed>>
          /\ stopping' \in Servers \cup {NoOne}
      BY <2>1 DEF Interrupt, Files, LlmInv, LlmTyped
    <3> QED BY <3>1, SignalServerInv
  <2> QED BY <1>1, <2>1, EmptyDirectoryInv, MakeDirectoryInv, ListenInv, WriteListeningInv, CloseServerInv
<1>2. ASSUME NEW s \in Servers, NEW r \in Requests, ReceiveRequest(s, r)
      PROVE  LlmInv'
  BY <1>2, ReceiveRequestInv
<1>3. ASSUME NEW r \in Requests,
             \/ WriteStatus(r) \/ Poll(r) \/ TimeOutRequest(r) \/ WriteReturned(r)
             \/ AnswerRequest(r) \/ RemoveFiles(r) \/ FailRequest(r) \/ WriteResponse(r)
      PROVE  LlmInv'
  <2>1. CASE WriteStatus(r) \/ WriteReturned(r)
    BY <2>1, TryStatusInv DEF WriteStatus, WriteReturned
  <2> QED BY <1>3, <2>1, PollInv, AnswerRequestInv, RemoveFilesInv, FailRequestInv, WriteResponseInv
<1>4. CASE StopCommand \/ StopDeadline
  BY <1>4, StopCommandInv, StopDeadlineInv
<1>5. CASE Stopped \/ UNCHANGED llmVars
  <2>1. /\ UNCHANGED <<server, dir, status, requestFiles, responseFiles, request, wiped, crashed>>
        /\ stopping' \in Servers \cup {NoOne}
    BY <1>5 DEF Stopped, llmVars, Files, LlmInv, LlmTyped
  <2>2. LlmTyped'
    BY <2>1 DEF LlmInv, LlmTyped
  <2>3. OneListens' /\ Filed' /\ OpenIsServed'
    BY <2>1 DEF LlmInv, OneListens, Listens, Filed, OpenIsServed, Open, Served
  <2>4. Wiped' /\ Fulfilled'
    BY <2>1 DEF LlmInv, Wiped, Runs, Fulfilled
  <2> QED BY <2>2, <2>3, <2>4 DEF LlmInv
<1> QED BY <1>1, <1>2, <1>3, <1>4, <1>5 DEF LlmNext

\* Processes, files and requests agree in every reachable state, whoever removes whose
\* directory.
LEMMA LlmInvariant == LlmSpec => []LlmInv
BY LlmInitial, LlmStep, PTL DEF LlmSpec

\* One server listens at a time, an open request belongs to a process that runs, and
\* without the directory there are no files.
THEOREM LlmTypeCorrect == LlmSpec => []LlmTypeOK
<1>1. LlmInv => LlmTypeOK
  BY DEF LlmInv, LlmTyped, ServerState, RequestState, Open, OneListens, Filed, OpenIsServed, Served, Runs,
         LlmTypeOK
<1> QED BY <1>1, LlmInvariant, PTL

\* A client is told what was written in full, a request that waits has its file unless
\* another process removed the directory, and only then does a server end with a rejection.
THEOREM LlmBridgeCorrect == LlmSpec => []BridgeIsSound
<1>1. LlmInv => BridgeIsSound
  BY DEF LlmInv, Fulfilled, Wiped, BridgeIsSound
<1> QED BY <1>1, LlmInvariant, PTL

----------------------------------------------------------------------------
\* The statistics of the contract.  First sequences.

\* What is kept of a sequence.  The fold that Filtered is takes out the last place first.
Turn(s, S, i, q) == IF s[i] \in S THEN Append(q, s[i]) ELSE q

KeptTable(g, s, S, D) ==
  g = [T \in SUBSET D |-> IF T = {} THEN <<>> ELSE Turn(s, S, Max(T), g[T \ {Max(T)}])]

\* Filtered is read from a table of what is kept of the places in each set.
LEMMA FilteredIsChosen ==
  ASSUME NEW s, NEW S
  PROVE  Filtered(s, S) = (CHOOSE g : KeptTable(g, s, S, DOMAIN s))[DOMAIN s]
BY DEF Filtered, FoldLeft, MapThenFoldSet, KeptTable, Turn

\* Finitely many places in a sequence.
Places(D) == D \subseteq Nat /\ IsFiniteSet(D)

\* A part of such places is one, too.
LEMMA PlacesParts ==
  ASSUME NEW D, Places(D), NEW T \in SUBSET D
  PROVE  Places(T)
BY FS_Subset DEF Places

\* The last of them is one of them.
LEMMA MaxIs ==
  ASSUME NEW T, Places(T), T # {}
  PROVE  Max(T) \in T /\ \A y \in T : Max(T) >= y
<1>1. PICK m \in T : \A y \in T : m >= y
  <2> DEFINE F == {U \in SUBSET T : U = {} \/ \E m \in U : \A y \in U : m >= y}
  <2>1. IsFiniteSet(T) /\ T \subseteq Nat
    BY DEF Places
  <2>2. ASSUME NEW U \in SUBSET T, \A V \in SUBSET U : V # U => V \in F PROVE U \in F
    <3>1. CASE U = {}
      BY <3>1
    <3>2. CASE U # {}
      <4>1. PICK x \in U : TRUE
        BY <3>2
      <4>2. U \ {x} \in F
        BY <2>2, <4>1
      <4> QED BY <2>1, <4>1, <4>2
    <3> QED BY <3>1, <3>2
  <2>3. \A U \in SUBSET T : U \in F
    <3> HIDE DEF F
    <3> QED BY <2>1, <2>2, SubsetInduction
  <2> QED BY <2>3
<1> QED BY <1>1 DEF Max

\* Two such tables agree where both are defined.
LEMMA KeptAgree ==
  ASSUME NEW s, NEW S, NEW D, Places(D), NEW T \in SUBSET D
  PROVE  \A g, h : KeptTable(g, s, S, D) /\ KeptTable(h, s, S, T) => \A U \in SUBSET T : g[U] = h[U]
<1> SUFFICES ASSUME NEW g, NEW h, KeptTable(g, s, S, D), KeptTable(h, s, S, T)
             PROVE  \A U \in SUBSET T : g[U] = h[U]
  OBVIOUS
<1> DEFINE F == {U \in SUBSET T : g[U] = h[U]}
<1>1. \A U \in SUBSET T : g[U] = IF U = {} THEN <<>> ELSE Turn(s, S, Max(U), g[U \ {Max(U)}])
  BY DEF KeptTable
<1>2. \A U \in SUBSET T : h[U] = IF U = {} THEN <<>> ELSE Turn(s, S, Max(U), h[U \ {Max(U)}])
  BY DEF KeptTable
<1>3. ASSUME NEW U \in SUBSET T, \A V \in SUBSET U : V # U => V \in F PROVE U \in F
  <2>1. CASE U = {}
    BY <1>1, <1>2, <2>1
  <2>2. CASE U # {}
    <3>1. U \ {Max(U)} \in F
      BY <1>3, <2>2, PlacesParts, MaxIs
    <3> QED BY <1>1, <1>2, <2>2, <3>1
  <2> QED BY <2>1, <2>2
<1>4. IsFiniteSet(T)
  BY FS_Subset DEF Places
<1>5. \A U \in SUBSET T : U \in F
  <2> HIDE DEF F
  <2> QED BY <1>3, <1>4, SubsetInduction
<1> QED BY <1>5

\* There is such a table: there is one for some places if there is for any fewer.
LEMMA KeptExist ==
  ASSUME NEW s, NEW S, NEW D, Places(D)
  PROVE  \E g : KeptTable(g, s, S, D)
<1> DEFINE F == {T \in SUBSET D : \E g : KeptTable(g, s, S, T)}
<1>1. ASSUME NEW T \in SUBSET D, \A U \in SUBSET T : U # T => U \in F PROVE T \in F
  <2> DEFINE G(U) == CHOOSE g : KeptTable(g, s, S, U)
             V(U) == IF U = T /\ T # {} THEN Turn(s, S, Max(T), G(T \ {Max(T)})[T \ {Max(T)}]) ELSE G(U)[U]
             g == [U \in SUBSET T |-> IF U = {} THEN <<>> ELSE V(U)]
  <2>1. \A U \in SUBSET T : U # T => KeptTable(G(U), s, S, U)
    BY <1>1
  <2>2. \A U \in SUBSET T : U # T => \A W \in SUBSET U : G(U)[W] = G(W)[W]
    <3> SUFFICES ASSUME NEW U \in SUBSET T, U # T, NEW W \in SUBSET U PROVE G(U)[W] = G(W)[W]
      OBVIOUS
    <3>1. KeptTable(G(U), s, S, U) /\ KeptTable(G(W), s, S, W)
      <4>1. W \in SUBSET T /\ W # T
        OBVIOUS
      <4> HIDE DEF G
      <4> QED BY <2>1, <4>1
    <3>2. Places(U)
      BY PlacesParts
    <3>3. ASSUME NEW x, NEW y, KeptTable(x, s, S, U), KeptTable(y, s, S, W)
          PROVE  x[W] = y[W]
      <4> HIDE DEF F, G, V, g
      <4> QED BY <3>2, <3>3, KeptAgree
    <3> HIDE DEF G
    <3> QED BY <3>1, <3>3
  <2>3. \A U \in SUBSET T : U # {} /\ U # T => G(U)[U] = Turn(s, S, Max(U), G(U)[U \ {Max(U)}])
    <3> HIDE DEF G
    <3> QED BY <2>1 DEF KeptTable
  <2>4. ASSUME NEW U \in SUBSET T, U # {} PROVE g[U] = Turn(s, S, Max(U), g[U \ {Max(U)}])
    <3>1. Max(U) \in U
      BY <2>4, PlacesParts, MaxIs
    <3>2. U \ {Max(U)} \in SUBSET T /\ U \ {Max(U)} # T /\ U \ {Max(U)} \in SUBSET U
      BY <3>1
    <3>3. g[U \ {Max(U)}] = IF U \ {Max(U)} = {} THEN <<>> ELSE G(U \ {Max(U)})[U \ {Max(U)}]
      <4> HIDE DEF G
      <4> QED BY <3>2
    <3>4. g[U \ {Max(U)}] = G(U \ {Max(U)})[U \ {Max(U)}]
      <4>1. CASE U \ {Max(U)} = {}
        <5>1. KeptTable(G({}), s, S, {})
          BY <2>1, <3>2, <4>1
        <5>2. G({})[{}] = <<>>
          <6> HIDE DEF G
          <6> QED BY <5>1 DEF KeptTable
        <5> HIDE DEF G, g
        <5> QED BY <3>3, <4>1, <5>2
      <4>2. CASE U \ {Max(U)} # {}
        <5> HIDE DEF G, g
        <5> QED BY <3>3, <4>2
      <4> QED BY <4>1, <4>2
    <3>5. CASE U = T
      <4> HIDE DEF G
      <4>1. g[U] = V(U)
        BY <2>4
      <4>2. V(U) = Turn(s, S, Max(T), G(T \ {Max(T)})[T \ {Max(T)}])
        BY <3>5, <2>4
      <4> HIDE DEF g, V
      <4> QED BY <3>4, <3>5, <4>1, <4>2
    <3>6. CASE U # T
      <4> HIDE DEF G
      <4>1. g[U] = G(U)[U]
        BY <2>4, <3>6
      <4>2. G(U)[U \ {Max(U)}] = G(U \ {Max(U)})[U \ {Max(U)}]
        BY <2>2, <3>2, <3>6
      <4>3. G(U)[U] = Turn(s, S, Max(U), G(U)[U \ {Max(U)}])
        BY <2>3, <2>4, <3>6
      <4> HIDE DEF g, V
      <4> QED BY <3>4, <4>1, <4>2, <4>3
    <3> QED BY <3>5, <3>6
  <2>5. KeptTable(g, s, S, T)
    <3>1. g[{}] = <<>>
      OBVIOUS
    <3>2. \A U \in SUBSET T : g[U] = IF U = {} THEN <<>> ELSE Turn(s, S, Max(U), g[U \ {Max(U)}])
      <4> HIDE DEF g
      <4> QED BY <2>4, <3>1
    <3>3. g = [U \in SUBSET T |-> g[U]]
      OBVIOUS
    <3> HIDE DEF g
    <3> QED BY <3>2, <3>3 DEF KeptTable
  <2> HIDE DEF g
  <2> QED BY <2>5
<1>2. \A T \in SUBSET D : T \in F
  <2>1. IsFiniteSet(D)
    BY DEF Places
  <2> HIDE DEF F
  <2> QED BY <1>1, <2>1, SubsetInduction
<1> QED BY <1>2


\* The places of a sequence.
LEMMA SequencePlaces ==
  ASSUME NEW X, NEW s \in Seq(X)
  PROVE  /\ Len(s) \in Nat /\ DOMAIN s = 1..Len(s) /\ Places(DOMAIN s) /\ IsFiniteSet(DOMAIN s)
         /\ Cardinality(DOMAIN s) = Len(s) /\ \A i \in DOMAIN s : s[i] \in X
<1>1. Len(s) \in Nat /\ DOMAIN s = 1..Len(s) /\ \A i \in DOMAIN s : s[i] \in X
  OBVIOUS
<1>2. IsFiniteSet(1..Len(s)) /\ Cardinality(1..Len(s)) = Len(s)
  BY <1>1, FS_Interval
<1> QED BY <1>1, <1>2 DEF Places

Increasing(s) == \A i, j \in DOMAIN s : i < j => s[i] < s[j]

Above(x, q) == \A y \in Range(q) : y < x

\* Appending an element that is greater than the others.
LEMMA AppendIncreasing ==
  ASSUME NEW X, NEW q \in Seq(X), NEW x \in X
  PROVE  /\ Append(q, x) \in Seq(X) /\ Range(Append(q, x)) = Range(q) \cup {x}
         /\ Increasing(q) /\ Above(x, q) => Increasing(Append(q, x))
<1>1. /\ Append(q, x) \in Seq(X) /\ DOMAIN q = 1..Len(q) /\ Len(q) \in Nat
      /\ DOMAIN Append(q, x) = 1..Len(q) + 1
      /\ \A i \in 1..Len(q) : Append(q, x)[i] = q[i]
      /\ Append(q, x)[Len(q) + 1] = x
  OBVIOUS
<1>2. \A i \in 1..Len(q) + 1 : i \in 1..Len(q) \/ i = Len(q) + 1
  BY <1>1
<1> HIDE DEF Increasing
<1>3. Range(Append(q, x)) = Range(q) \cup {x}
  <2>1. ASSUME NEW y \in Range(Append(q, x)) PROVE y \in Range(q) \cup {x}
    BY <1>1, <1>2, <2>1 DEF Range
  <2>2. \A i \in 1..Len(q) : q[i] \in Range(Append(q, x))
    BY <1>1 DEF Range
  <2>3. x \in Range(Append(q, x))
    BY <1>1 DEF Range
  <2> QED BY <1>1, <2>1, <2>2, <2>3 DEF Range
<1>4. ASSUME Increasing(q), Above(x, q) PROVE Increasing(Append(q, x))
  <2> SUFFICES ASSUME NEW i \in 1..Len(q) + 1, NEW j \in 1..Len(q) + 1, i < j
               PROVE  Append(q, x)[i] < Append(q, x)[j]
    BY <1>1 DEF Increasing
  <2>1. i \in 1..Len(q)
    BY <1>1
  <2>2. CASE j \in 1..Len(q)
    BY <1>1, <1>4, <2>1, <2>2 DEF Increasing
  <2>3. CASE j = Len(q) + 1
    BY <1>1, <1>4, <2>1, <2>3 DEF Range, Above
  <2> QED BY <1>2, <2>2, <2>3
<1> QED BY <1>1, <1>3, <1>4

\* Filtered keeps the elements that are in the set, in their order.
LEMMA FilteredKeeps ==
  ASSUME NEW X, NEW s \in Seq(X), NEW S, Increasing(s)
  PROVE  /\ Filtered(s, S) \in Seq(X) /\ Range(Filtered(s, S)) = Range(s) \cap S
         /\ Increasing(Filtered(s, S))
<1> DEFINE D == DOMAIN s
           g == CHOOSE g : KeptTable(g, s, S, D)
           Of(T) == {s[i] : i \in T}
           F == {T \in SUBSET D : /\ g[T] \in Seq(X) /\ Range(g[T]) = Of(T) \cap S
                                  /\ Increasing(g[T])}
<1>1. Places(D) /\ \A i \in D : i \in Nat /\ s[i] \in X
  BY SequencePlaces DEF Places
<1>2. KeptTable(g, s, S, D)
  <2> HIDE DEF D
  <2> QED BY <1>1, KeptExist
<1> HIDE DEF g
<1>3. \A T \in SUBSET D : g[T] = IF T = {} THEN <<>> ELSE Turn(s, S, Max(T), g[T \ {Max(T)}])
  BY <1>2 DEF KeptTable
<1>4. ASSUME NEW T \in SUBSET D, \A U \in SUBSET T : U # T => U \in F PROVE T \in F
  <2>1. CASE T = {}
    <3>1. g[T] = <<>> /\ Of(T) = {}
      BY <1>3, <2>1
    <3>2. <<>> \in Seq(X) /\ Range(<<>>) = {} /\ Increasing(<<>>)
      BY DEF Range, Increasing
    <3> QED BY <3>1, <3>2
  <2>2. CASE T # {}
    <3> DEFINE m == Max(T)
               q == g[T \ {m}]
    <3>1. m \in T /\ \A i \in T : m >= i
      <4> HIDE DEF D
      <4> QED BY <1>1, <2>2, PlacesParts, MaxIs
    <3>2. T \ {m} \in F /\ g[T] = Turn(s, S, m, q) /\ s[m] \in X
      BY <1>1, <1>3, <1>4, <2>2, <3>1
    <3>3. \A i \in T \ {m} : s[i] < s[m]
      <4>1. \A i \in T \ {m} : i < m /\ i \in D /\ m \in D
        BY <1>1, <3>1
      <4> HIDE DEF m
      <4> QED BY <4>1 DEF Increasing
    <3> HIDE DEF m, g
    <3>4. Of(T) = Of(T \ {m}) \cup {s[m]}
      BY <3>1
    <3>5. q \in Seq(X) /\ Range(q) = Of(T \ {m}) \cap S /\ Increasing(q)
          /\ Above(s[m], q)
      BY <3>2, <3>3 DEF Above
    <3> HIDE DEF q, Of
    <3>6. CASE s[m] \notin S
      BY <3>2, <3>4, <3>5, <3>6 DEF Turn
    <3>7. CASE s[m] \in S
      <4>1. g[T] = Append(q, s[m])
        BY <3>2, <3>7 DEF Turn
      <4>2. Append(q, s[m]) \in Seq(X) /\ Range(Append(q, s[m])) = Range(q) \cup {s[m]}
            /\ Increasing(Append(q, s[m]))
        <5>1. q \in Seq(X) /\ s[m] \in X /\ Increasing(q) /\ Above(s[m], q)
          BY <3>2, <3>5
        <5> HIDE DEF F
        <5> QED BY <5>1, AppendIncreasing
      <4> QED BY <3>4, <3>5, <3>7, <4>1, <4>2
    <3> QED BY <3>6, <3>7
  <2> QED BY <2>1, <2>2
<1>5. D \in F
  <2>1. IsFiniteSet(D)
    BY <1>1 DEF Places
  <2>2. \A T \in SUBSET D : T \in F
    <3> HIDE DEF F, D
    <3> QED BY <1>4, <2>1, SubsetInduction
  <2> HIDE DEF F
  <2> QED BY <2>2
<1>6. Filtered(s, S) = g[D]
  BY <1>1, FilteredIsChosen DEF g
<1>7. Range(s) = Of(D)
  BY <1>1 DEF Range
<1> QED BY <1>5, <1>6, <1>7

\* An increasing sequence is told by its elements.
LEMMA IncreasingUnique ==
  ASSUME NEW s \in Seq(Nat), NEW t \in Seq(Nat), Increasing(s), Increasing(t),
         Range(s) = Range(t)
  PROVE  s = t
<1> DEFINE Bad == {i \in Nat : i \in DOMAIN s \cup DOMAIN t
                                /\ ~(i \in DOMAIN s \cap DOMAIN t /\ s[i] = t[i])}
<1>1. /\ Len(s) \in Nat /\ DOMAIN s = 1..Len(s) /\ \A i \in DOMAIN s : s[i] \in Int
      /\ Len(t) \in Nat /\ DOMAIN t = 1..Len(t) /\ \A i \in DOMAIN t : t[i] \in Int
  BY SequencePlaces
<1>2. ASSUME Bad # {} PROVE FALSE
  <2>1. PICK i \in Bad : \A j \in Bad : ~(<<j, i>> \in OpToRel(<, Nat))
    <3> HIDE DEF Bad
    <3>1. Bad \subseteq Nat
      BY DEF Bad
    <3> QED BY <1>2, <3>1, NatLessThanWellFounded, WFMin
  <2>2. \A j \in Nat : j < i => j \notin Bad
    BY <2>1 DEF OpToRel
  <2>3. \A j \in 1..i - 1 : j \in DOMAIN s /\ j \in DOMAIN t /\ s[j] = t[j]
    <3> SUFFICES ASSUME NEW j \in 1..i - 1 PROVE j \in DOMAIN s \cap DOMAIN t /\ s[j] = t[j]
      OBVIOUS
    <3>1. j \in DOMAIN s \cup DOMAIN t
      BY <1>1
    <3> QED BY <2>2, <3>1
  <2>4. ASSUME i \in DOMAIN s, NEW k \in DOMAIN s, ~(k < i) PROVE s[i] <= s[k]
    <3>1. k = i \/ i < k
      BY <1>1, <2>4
    <3>2. i < k => s[i] < s[k]
      BY <2>4 DEF Increasing
    <3> QED BY <1>1, <2>4, <3>1, <3>2
  <2>5. ASSUME i \in DOMAIN t, NEW k \in DOMAIN t, ~(k < i) PROVE t[i] <= t[k]
    <3>1. k = i \/ i < k
      BY <1>1, <2>5
    <3>2. i < k => t[i] < t[k]
      BY <2>5 DEF Increasing
    <3> QED BY <1>1, <2>5, <3>1, <3>2
  <2>6. ASSUME i \in DOMAIN s PROVE i \in DOMAIN t /\ t[i] <= s[i]
    <3>1. PICK k \in DOMAIN t : t[k] = s[i]
      BY <2>6 DEF Range
    <3>2. ~(k < i)
      <4> SUFFICES ASSUME k < i PROVE FALSE
        OBVIOUS
      <4>1. s[k] = t[k] /\ k \in DOMAIN s
        BY <1>1, <2>3
      <4> QED BY <1>1, <2>6, <3>1, <4>1 DEF Increasing
    <3> QED BY <1>1, <2>5, <2>6, <3>1, <3>2
  <2>7. ASSUME i \in DOMAIN t PROVE i \in DOMAIN s /\ s[i] <= t[i]
    <3>1. PICK k \in DOMAIN s : s[k] = t[i]
      BY <2>7 DEF Range
    <3>2. ~(k < i)
      <4> SUFFICES ASSUME k < i PROVE FALSE
        OBVIOUS
      <4>1. s[k] = t[k] /\ k \in DOMAIN t
        BY <1>1, <2>3
      <4>2. t[k] < t[i]
        BY <2>7, <4>1 DEF Increasing
      <4> QED BY <1>1, <2>7, <3>1, <4>1, <4>2
    <3> QED BY <1>1, <2>4, <2>7, <3>1, <3>2
  <2> QED BY <1>1, <2>6, <2>7
<1>3. \A i \in Nat : i \in DOMAIN s \cup DOMAIN t
                      => i \in DOMAIN s /\ i \in DOMAIN t /\ s[i] = t[i]
  BY <1>2
<1>4. \A i \in DOMAIN s \cup DOMAIN t : i \in Nat
  BY <1>1
<1>5. DOMAIN s = DOMAIN t /\ \A i \in DOMAIN s : s[i] = t[i]
  BY <1>3, <1>4
<1> QED BY <1>5

\* One increasing sequence after another that is above it.
LEMMA ConcatIncreasing ==
  ASSUME NEW X, NEW p \in Seq(X), NEW q \in Seq(X), Increasing(p), Increasing(q),
         \A x \in Range(p), y \in Range(q) : x < y
  PROVE  p \o q \in Seq(X) /\ Range(p \o q) = Range(p) \cup Range(q) /\ Increasing(p \o q)
<1> DEFINE m == Len(p)
           n == Len(q)
<1>1. /\ m \in Nat /\ n \in Nat /\ DOMAIN p = 1..m /\ DOMAIN q = 1..n
      /\ p \o q \in Seq(X) /\ DOMAIN (p \o q) = 1..m + n
      /\ \A i \in 1..m : (p \o q)[i] = p[i]
      /\ \A i \in 1..m + n : ~(i \in 1..m) => (p \o q)[i] = q[i - m]
  OBVIOUS
<1>2. \A i \in 1..m + n : i \in 1..m \/ (i - m \in 1..n /\ ~(i \in 1..m))
  BY <1>1
<1>3. \A i \in 1..n : i + m \in 1..m + n /\ (p \o q)[i + m] = q[i]
  BY <1>1
<1> HIDE DEF m, n
<1>4. Range(p \o q) = Range(p) \cup Range(q)
  <2>1. ASSUME NEW i \in 1..m + n PROVE (p \o q)[i] \in Range(p) \cup Range(q)
    BY <1>1, <1>2 DEF Range
  <2>2. ASSUME NEW i \in 1..m PROVE p[i] \in Range(p \o q)
    BY <1>1 DEF Range
  <2>3. ASSUME NEW i \in 1..n PROVE q[i] \in Range(p \o q)
    BY <1>1, <1>3 DEF Range
  <2> QED BY <1>1, <2>1, <2>2, <2>3 DEF Range
<1>5. Increasing(p \o q)
  <2> SUFFICES ASSUME NEW i \in 1..m + n, NEW j \in 1..m + n, i < j
               PROVE  (p \o q)[i] < (p \o q)[j]
    BY <1>1 DEF Increasing
  <2>1. CASE j \in 1..m
    BY <1>1, <2>1 DEF Increasing
  <2>2. CASE i \in 1..m /\ j \notin 1..m
    <3>1. p[i] \in Range(p) /\ q[j - m] \in Range(q)
      BY <1>1, <1>2, <2>2 DEF Range
    <3> QED BY <1>1, <2>2, <3>1
  <2>3. CASE i \notin 1..m /\ j \notin 1..m
    <3>1. i - m \in 1..n /\ j - m \in 1..n /\ i - m < j - m
      BY <1>1, <1>2, <2>3
    <3>2. q[i - m] < q[j - m]
      BY <1>1, <3>1 DEF Increasing
    <3> QED BY <1>1, <2>3, <3>2
  <2> QED BY <1>1, <2>1, <2>2, <2>3
<1> QED BY <1>1, <1>4, <1>5
----------------------------------------------------------------------------
\* The statistics.  A step of a search leaves no message behind the block it is at; the
\* scan has the messages up to its cursor; and what the pool has not been told of an item
\* that was taken, a worker is asking for.
Logged(from, upto) == {m \in Message : block[m] \in from..upto}

SeenTo == IF cursor - 1 < to THEN cursor - 1 ELSE to

ChainInv ==
  /\ block \in [Message -> 0..MaxBlock] /\ deployed \in 0..MaxBlock /\ to \in 0..MaxBlock
  /\ \A m, n \in Message : m < n => block[m] <= block[n]
  /\ \A m \in Message : deployed <= block[m]

FirstInv ==
  /\ phase \in Phases /\ tries \in 0..Attempts - 1
  /\ source \in {"none", "given", "code", "logs"}
  /\ low \in 0..MaxBlock /\ high \in 0..to /\ cursor \in Nat
  /\ phase \in {"explorer", "code?", "code", "logs"} => low <= high
  /\ phase \in {"explorer", "code?", "code", "logs?", "logs"} => source = "none"
  /\ source # "given" => \A m \in Message : low <= block[m]

MessagesInv ==
  /\ messages \in Seq(Message) /\ Increasing(messages)
  /\ phase \in {"explorer", "code?", "code", "logs?", "logs"} => messages = <<>>
  /\ phase = "scan" => low <= cursor /\ Range(messages) = Logged(low, SeenTo)
  /\ phase \in {"details", "times", "done"} => Range(messages) = Logged(low, to) \cap OfEpoch

PoolTyped ==
  /\ results \in Seq(Nat) /\ next \in 1..Len(results) + 1
  /\ doing \in [Worker -> 0..next - 1] /\ failures \in [Worker -> 0..Attempts - 1]
  /\ \A v, w \in Worker : v # w /\ doing[v] # 0 => doing[v] # doing[w]

Heard(n) ==
  /\ Len(results) = n
  /\ \A i \in 1..next - 1 : results[i] = AnswerItem(i) \/ \E w \in Worker : doing[w] = i

PoolInv ==
  /\ phase = "details" => Heard(Len(messages))
  /\ phase = "times" => Heard(Len(BlockNumbers))
  /\ phase \in {"times", "done"} => chunks = [i \in DOMAIN messages |-> Chunks[messages[i]]]
  /\ phase = "done" => results = [i \in DOMAIN BlockNumbers |-> BlockNumbers[i] + 1]

StatsInv == ChainInv /\ FirstInv /\ MessagesInv /\ PoolTyped /\ PoolInv

LEMMA StatsLimits ==
  /\ MaxBlock \in Nat /\ Attempts \in Nat /\ Attempts > 0 /\ BatchSize \in Nat /\ BatchSize > 0
  /\ Chunks \in [Message -> Nat]
  BY StatsAssumption

\* The messages are counted in the order of the chain.
LEMMA MessagesAre ==
  /\ Message \subseteq Nat /\ IsFiniteSet(Message)
  /\ [m \in Message |-> m] \in Seq(Message) /\ Increasing([m \in Message |-> m])
  /\ Range([m \in Message |-> m]) = Message
<1> DEFINE n == Cardinality(Message)
<1>1. Message = 1..n /\ n \in Nat /\ IsFiniteSet(Message)
  BY StatsAssumption, FS_CardinalityType
<1> HIDE DEF n
<1> QED BY <1>1 DEF Increasing, Range

\* The logs of some blocks are of the messages in them.
LEMMA LogsAre ==
  ASSUME NEW from, NEW upto
  PROVE  /\ LogsIn(from, upto) \in Seq(Message) /\ Increasing(LogsIn(from, upto))
         /\ Range(LogsIn(from, upto)) = Logged(from, upto)
<1> DEFINE s == [m \in Message |-> m]
           S == {m \in Message : block[m] \in from..upto}
<1>1. s \in Seq(Message) /\ Increasing(s) /\ Range(s) = Message
  BY MessagesAre
<1>2. LogsIn(from, upto) = Filtered(s, S)
  BY DEF LogsIn
<1>3. S = Logged(from, upto) /\ Message \cap S = S
  BY DEF Logged
<1> HIDE DEF s, S
<1>4. Filtered(s, S) \in Seq(Message) /\ Range(Filtered(s, S)) = Range(s) \cap S
      /\ Increasing(Filtered(s, S))
  BY <1>1, FilteredKeeps
<1> QED BY <1>1, <1>2, <1>3, <1>4

\* There are logs in some blocks when there are messages.
LEMMA NoLogs ==
  ASSUME NEW from, NEW upto
  PROVE  LogsIn(from, upto) = <<>> => Logged(from, upto) = {}
<1>1. Range(<<>>) = {}
  BY DEF Range
<1> QED BY <1>1, LogsAre

LEMMA ExternalKept ==
  ASSUME ChainInv, UNCHANGED <<external, to>>
  PROVE  ChainInv'
  BY DEF ChainInv, external

\* While the first block is looked for, there is neither a message nor a pool.
LEMMA Searching ==
  ASSUME ChainInv, FirstInv, MessagesInv, PoolTyped, FirstInv',
         phase \in {"explorer", "code?", "code", "logs?", "logs"}, phase' \notin {"details", "times", "done"},
         phase' = "scan" => cursor' = low',
         UNCHANGED <<external, to, messages, chunks, pool>>
  PROVE  StatsInv'
<1>1. ChainInv'
  BY ExternalKept
<1>2. MessagesInv'
  <2>1. messages' = <<>> /\ messages' \in Seq(Message) /\ Increasing(messages')
    BY DEF MessagesInv
  <2>2. ASSUME phase' = "scan" PROVE Range(messages') = Logged(low, SeenTo)'
    <3>1. Range(<<>>) = {}
      BY DEF Range
    <3>2. cursor' = low' /\ low' \in Int /\ to' \in Int
      BY <1>1, <2>2, StatsLimits DEF FirstInv, ChainInv
    <3>3. SeenTo' \in Int /\ SeenTo' < low'
      <4>1. SeenTo' = IF cursor' - 1 < to' THEN cursor' - 1 ELSE to'
        BY DEF SeenTo
      <4>2. \A c, l, t \in Int : c = l => (IF c - 1 < t THEN c - 1 ELSE t) \in Int
                                       /\ (IF c - 1 < t THEN c - 1 ELSE t) < l
        OBVIOUS
      <4> QED BY <3>2, <4>1, <4>2
    <3>4. \A m \in Message : block'[m] \in Int
      BY <1>1, StatsLimits DEF ChainInv
    <3>5. Logged(low, SeenTo)' = {}
      BY <3>2, <3>3, <3>4 DEF Logged
    <3> QED BY <2>1, <3>1, <3>5
  <2>3. phase' = "scan" => low' <= cursor'
    BY StatsLimits DEF FirstInv
  <2> QED BY <2>1, <2>2, <2>3 DEF MessagesInv
<1>3. PoolTyped'
  BY DEF PoolTyped, pool
<1>4. PoolInv'
  BY DEF PoolInv
<1> QED BY <1>1, <1>2, <1>3, <1>4 DEF StatsInv

LEMMA StartStep ==
  ASSUME StatsInv, StartGiven \/ StartUnknown
  PROVE  StatsInv'
<1>1. ChainInv /\ FirstInv /\ MessagesInv /\ PoolTyped
  BY DEF StatsInv
<1>2. FirstInv'
  <2>1. CASE StartGiven
    BY <1>1, <2>1, StatsLimits DEF FirstInv, StartGiven, Go, ChainInv, external, Phases
  <2>2. CASE StartUnknown
    BY <1>1, <2>2, StatsLimits DEF FirstInv, StartUnknown, Go, ChainInv, external, search, Phases
  <2> QED BY <2>1, <2>2
<1> QED BY <1>1, <1>2, Searching DEF StartGiven, StartUnknown, Go, search

LEMMA AskStep ==
  ASSUME StatsInv, AskCode \/ AskLogs
  PROVE  StatsInv'
<1>1. ChainInv /\ FirstInv /\ MessagesInv /\ PoolTyped
  BY DEF StatsInv
<1>2. CASE AskCode
  <2>1. phase' \in {"code", "logs?", "code?"} /\ tries' \in 0..Attempts - 1
        /\ (phase' = "code" => low' <= high')
    BY <1>1, <1>2, StatsLimits DEF FirstInv, AskCode, Go, Retry, ChainInv, search
  <2>2. FirstInv'
    BY <1>1, <1>2, <2>1 DEF FirstInv, AskCode, Phases, external, search
  <2> QED BY <1>1, <1>2, <2>1, <2>2, Searching DEF AskCode, search
<1>3. CASE AskLogs
  <2>1. phase' \in {"logs", "failed", "logs?"} /\ tries' \in 0..Attempts - 1
    BY <1>1, <1>3, StatsLimits DEF FirstInv, AskLogs, Go, Retry
  <2>2. FirstInv'
    BY <1>1, <1>3, <2>1, StatsLimits DEF FirstInv, AskLogs, Phases, external, ChainInv
  <2> QED BY <1>1, <1>3, <2>1, <2>2, Searching DEF AskLogs
<1> QED BY <1>2, <1>3

LEMMA MidIs ==
  ASSUME NEW l \in Nat, NEW h \in Nat, l < h
  PROVE  (l + h) \div 2 \in Nat /\ l <= (l + h) \div 2 /\ (l + h) \div 2 < h
  OBVIOUS

\* The half of the blocks that is left out has no message, or it is the later one.
LEMMA SearchStepInv ==
  ASSUME StatsInv, SearchStep
  PROVE  StatsInv'
<1>1. ChainInv /\ FirstInv /\ MessagesInv /\ PoolTyped
  BY DEF StatsInv
<1>2. low \in Nat /\ high \in Nat /\ to \in Nat /\ low < high /\ high <= to /\ to <= MaxBlock
      /\ phase \in {"code", "logs"}
  BY <1>1, StatsLimits DEF SearchStep, FirstInv, ChainInv
<1>3. Mid \in Nat /\ low <= Mid /\ Mid < high
  BY <1>2, MidIs DEF Mid
<1> DEFINE there == IF phase = "code" THEN Mid >= deployed ELSE LogsIn(0, Mid) # <<>>
<1>4. ASSUME ~there PROVE \A m \in Message : Mid + 1 <= block[m]
  <2> SUFFICES ASSUME NEW m \in Message PROVE Mid + 1 <= block[m]
    OBVIOUS
  <2>1. block[m] \in Nat /\ deployed \in Nat /\ deployed <= block[m]
    BY <1>1, StatsLimits DEF ChainInv
  <2>2. CASE phase = "code"
    BY <1>3, <1>4, <2>1, <2>2
  <2>3. CASE phase # "code"
    <3>1. Logged(0, Mid) = {}
      BY <1>4, <2>3, NoLogs
    <3> QED BY <1>3, <2>1, <3>1 DEF Logged
  <2> QED BY <2>2, <2>3
<1>5. FirstInv'
  <2>1. CASE Halve(there) /\ Go(phase)
    <3>1. /\ low' \in Nat /\ high' \in Nat /\ low' <= high' /\ high' <= high
          /\ low' = low \/ (low' = Mid + 1 /\ ~there)
      BY <1>2, <1>3, <2>1 DEF Halve
    <3>2. \A m \in Message : source # "given" => low' <= block[m]
      BY <1>1, <1>4, <3>1 DEF FirstInv
    <3>3. phase' = phase /\ tries' = 0 /\ UNCHANGED <<block, to, source, cursor>>
      BY <2>1 DEF Go, SearchStep, external
    <3> HIDE DEF there
    <3> QED BY <1>1, <1>2, <3>1, <3>2, <3>3, StatsLimits DEF FirstInv
  <2>2. CASE Retry(IF phase = "code" THEN "logs?" ELSE "failed") /\ UNCHANGED <<low, high>>
    <3>1. phase' \in {phase, "logs?", "failed"} /\ tries' \in 0..Attempts - 1
      BY <1>1, <1>2, <2>2, StatsLimits DEF Retry, Go, FirstInv
    <3>2. UNCHANGED <<block, to, source, cursor>>
      BY DEF SearchStep, external
    <3> QED BY <1>1, <1>2, <2>2, <3>1, <3>2 DEF FirstInv, Phases
  <2> QED BY <2>1, <2>2 DEF SearchStep
<1>6. phase' \in {"code", "logs", "logs?", "failed"}
  BY <1>2 DEF SearchStep, Go, Retry
<1> QED BY <1>1, <1>2, <1>5, <1>6, Searching DEF SearchStep

LEMMA SearchEndInv ==
  ASSUME StatsInv, SearchEnd
  PROVE  StatsInv'
<1>1. ChainInv /\ FirstInv /\ MessagesInv /\ PoolTyped
  BY DEF StatsInv
<1>2. FirstInv'
  BY <1>1, StatsLimits DEF FirstInv, SearchEnd, Go, ChainInv, external, Phases
<1> QED BY <1>1, <1>2, Searching DEF SearchEnd, Go

\* A batch has the messages that come next.
LEMMA ScanBatchInv ==
  ASSUME StatsInv, ScanBatch
  PROVE  StatsInv'
<1>1. ChainInv /\ FirstInv /\ MessagesInv /\ PoolTyped /\ PoolInv
  BY DEF StatsInv
<1>2. /\ phase = "scan" /\ cursor \in Nat /\ to \in Nat /\ cursor <= to /\ low \in Nat
      /\ low <= cursor /\ cursor' = cursor + BatchSize /\ phase' \in {"scan", "failed"}
      /\ UNCHANGED <<block, deployed, to, tries, low, high, source, epoch, pool>>
  BY <1>1, StatsLimits DEF ScanBatch, FirstInv, ChainInv, MessagesInv, external, search
<1>3. ChainInv'
  BY <1>1, <1>2, ExternalKept DEF external
<1>4. FirstInv'
  BY <1>1, <1>2, StatsLimits DEF FirstInv, Phases
<1>5. PoolTyped' /\ PoolInv'
  BY <1>1, <1>2 DEF PoolTyped, PoolInv, pool
<1>6. MessagesInv'
  <2>1. CASE messages' = messages \o LogsIn(cursor, BatchEnd) /\ UNCHANGED phase
    <3>1. /\ messages \in Seq(Message) /\ Increasing(messages)
          /\ Range(messages) = Logged(low, SeenTo)
      BY <1>1, <1>2 DEF MessagesInv
    <3>2. /\ LogsIn(cursor, BatchEnd) \in Seq(Message) /\ Increasing(LogsIn(cursor, BatchEnd))
          /\ Range(LogsIn(cursor, BatchEnd)) = Logged(cursor, BatchEnd)
      BY LogsAre
    <3>3. SeenTo = cursor - 1 /\ BatchEnd \in Int /\ BatchEnd = SeenTo' /\ cursor <= BatchEnd
      BY <1>2, StatsLimits DEF SeenTo, BatchEnd
    <3>4. \A m \in Message : block[m] \in Nat /\ m \in Nat
      BY <1>1, StatsLimits, MessagesAre DEF ChainInv
    <3>5. \A x \in Logged(low, SeenTo), y \in Logged(cursor, BatchEnd) : x < y
      <4> SUFFICES ASSUME NEW x \in Message, NEW y \in Message, block[x] \in low..SeenTo,
                          block[y] \in cursor..BatchEnd
                   PROVE  x < y
        BY DEF Logged
      <4>1. block[x] < block[y]
        BY <1>2, <3>3, <3>4
      <4>2. ~(y < x) /\ x # y
        BY <1>1, <3>4, <4>1 DEF ChainInv
      <4> QED BY <3>4, <4>2
    <3>6. /\ messages' \in Seq(Message) /\ Increasing(messages')
          /\ Range(messages') = Logged(low, SeenTo) \cup Logged(cursor, BatchEnd)
      BY <2>1, <3>1, <3>2, <3>5, ConcatIncreasing
    <3>7. Logged(low, SeenTo) \cup Logged(cursor, BatchEnd) = Logged(low, SeenTo)'
      <4>1. \A b \in Nat : b \in low..cursor - 1 \/ b \in cursor..BatchEnd <=> b \in low..BatchEnd
        BY <1>2, <3>3
      <4>2. Logged(low, SeenTo)' = {m \in Message : block[m] \in low..BatchEnd}
        BY <1>2, <3>3 DEF Logged
      <4> QED BY <3>3, <3>4, <4>1, <4>2 DEF Logged
    <3>8. low' <= cursor'
      BY <1>2, StatsLimits
    <3> QED BY <1>2, <3>6, <3>7, <3>8 DEF MessagesInv
  <2>2. CASE phase' = "failed" /\ UNCHANGED messages
    BY <1>1, <2>2 DEF MessagesInv
  <2> QED BY <2>1, <2>2 DEF ScanBatch
<1> QED BY <1>3, <1>4, <1>5, <1>6 DEF StatsInv

\* Sorting.  Each element has a place of its own.
LEMMA PlaceOfIs ==
  ASSUME NEW v \in Seq(Nat)
  PROVE  /\ \A i \in DOMAIN v : PlaceOf(v, i) \in DOMAIN v
         /\ \A i, k \in DOMAIN v : PlaceOf(v, i) = PlaceOf(v, k) => i = k
         /\ \A k \in DOMAIN v : \E i \in DOMAIN v : PlaceOf(v, i) = k
<1> DEFINE D == DOMAIN v
           Before(i) == {j \in D : v[j] < v[i] \/ (v[j] = v[i] /\ j <= i)}
           f == [i \in D |-> PlaceOf(v, i)]
<1>1. /\ Len(v) \in Nat /\ D = 1..Len(v) /\ IsFiniteSet(D) /\ Cardinality(D) = Len(v)
      /\ \A i \in D : v[i] \in Nat /\ i \in Nat
  BY SequencePlaces
<1>2. \A i \in D : PlaceOf(v, i) = Cardinality(Before(i))
  BY DEF PlaceOf
<1>3. \A i \in D : i \in Before(i) /\ Before(i) \in SUBSET D
  BY <1>1
<1>4. \A i, k \in D : i # k => \/ Before(i) \in SUBSET Before(k) /\ k \notin Before(i)
                               \/ Before(k) \in SUBSET Before(i) /\ i \notin Before(k)
  <2> SUFFICES ASSUME NEW i \in D, NEW k \in D, i # k
               PROVE  \/ Before(i) \in SUBSET Before(k) /\ k \notin Before(i)
                      \/ Before(k) \in SUBSET Before(i) /\ i \notin Before(k)
    OBVIOUS
  <2>1. CASE v[i] < v[k] \/ (v[i] = v[k] /\ i < k)
    BY <1>1, <2>1
  <2>2. CASE v[k] < v[i] \/ (v[k] = v[i] /\ k < i)
    BY <1>1, <2>2
  <2> QED BY <1>1, <2>1, <2>2
<1> HIDE DEF D, Before
<1>5. \A i \in D : IsFiniteSet(Before(i)) /\ Cardinality(Before(i)) \in 1..Len(v)
  <2> SUFFICES ASSUME NEW i \in D PROVE IsFiniteSet(Before(i)) /\ Cardinality(Before(i)) \in 1..Len(v)
    OBVIOUS
  <2>1. IsFiniteSet(Before(i)) /\ Cardinality(Before(i)) <= Len(v)
    BY <1>1, <1>3, FS_Subset
  <2>2. Cardinality(Before(i)) \in Nat /\ Cardinality(Before(i)) # 0
    BY <1>3, <2>1, FS_CardinalityType, FS_EmptySet
  <2> QED BY <1>1, <2>1, <2>2
<1>6. \A i, k \in D : Cardinality(Before(i)) = Cardinality(Before(k)) => i = k
  <2> SUFFICES ASSUME NEW i \in D, NEW k \in D, i # k, Cardinality(Before(i)) = Cardinality(Before(k))
               PROVE  FALSE
    OBVIOUS
  <2>1. CASE Before(i) \in SUBSET Before(k) /\ k \notin Before(i)
    <3>1. Before(k) = Before(i)
      BY <1>5, <2>1, FS_Subset
    <3> QED BY <1>3, <2>1, <3>1
  <2>2. CASE Before(k) \in SUBSET Before(i) /\ i \notin Before(k)
    <3>1. Before(k) = Before(i)
      BY <1>5, <2>2, FS_Subset
    <3> QED BY <1>3, <2>2, <3>1
  <2> QED BY <1>4, <2>1, <2>2
<1>7. f \in Injection(D, D)
  <2>1. f \in [D -> D]
    BY <1>1, <1>2, <1>5
  <2>2. \A i, k \in D : f[i] = f[k] => i = k
    BY <1>2, <1>6
  <2> QED BY <2>1, <2>2 DEF Injection, IsInjective
<1>8. f \in Surjection(D, D)
  <2> HIDE DEF f
  <2> QED BY <1>1, <1>7, FS_Injection
<1>9. \A k \in D : \E i \in D : PlaceOf(v, i) = k
  BY <1>8 DEF Surjection
<1> QED BY <1>1, <1>2, <1>5, <1>6, <1>9 DEF D

LEMMA SortedIs ==
  ASSUME NEW v \in Seq(Nat)
  PROVE  /\ Sorted(v) \in Seq(Nat) /\ DOMAIN Sorted(v) = DOMAIN v /\ Len(Sorted(v)) = Len(v)
         /\ \A i \in DOMAIN v : Sorted(v)[PlaceOf(v, i)] = v[i]
<1> DEFINE Origin(k) == CHOOSE i \in DOMAIN v : PlaceOf(v, i) = k
<1>1. \A k \in DOMAIN v : Origin(k) \in DOMAIN v /\ PlaceOf(v, Origin(k)) = k
  BY PlaceOfIs
<1>2. Sorted(v) = [k \in DOMAIN v |-> v[Origin(k)]]
  BY DEF Sorted
<1>3. Len(v) \in Nat /\ DOMAIN v = 1..Len(v) /\ \A i \in DOMAIN v : v[i] \in Nat
  BY SequencePlaces
<1> HIDE DEF Origin
<1>4. \A i \in DOMAIN v : Origin(PlaceOf(v, i)) = i
  BY <1>1, PlaceOfIs
<1>5. Sorted(v) \in [1..Len(v) -> Nat]
  BY <1>1, <1>2, <1>3
<1>6. Sorted(v) \in Seq(Nat) /\ Len(Sorted(v)) = Len(v)
  BY <1>3, <1>5
<1>7. \A i \in DOMAIN v : PlaceOf(v, i) \in DOMAIN v
  BY PlaceOfIs
<1>8. \A i \in DOMAIN v : Sorted(v)[PlaceOf(v, i)] = v[i]
  BY <1>2, <1>4, <1>7
<1> QED BY <1>2, <1>6, <1>8

\* A sequence of the elements of a set of numbers.
LEMMA SetToSeqIs ==
  ASSUME NEW B, B \subseteq Nat, IsFiniteSet(B)
  PROVE  SetToSeq(B) \in Seq(Nat) /\ Range(SetToSeq(B)) = B
<1> DEFINE n == Cardinality(B)
           f == SetToSeq(B)
<1>1. n \in Nat /\ ExistsBijection(1..n, B)
  BY FS_CardinalityType
<1>2. \E g \in [1..n -> B] : IsInjective(g)
  BY <1>1 DEF ExistsBijection, Bijection, Injection
<1>3. f \in [1..n -> B] /\ IsInjective(f)
  BY <1>2 DEF SetToSeq
<1>4. f \in Injection(1..n, B)
  BY <1>3 DEF Injection
<1>5. Cardinality(1..n) = n
  BY <1>1, FS_Interval
<1>6. f \in Surjection(1..n, B)
  <2> HIDE DEF f
  <2> QED BY <1>4, <1>5, FS_Injection
<1> HIDE DEF f, n
<1>7. f \in Seq(Nat) /\ Range(f) = B
  <2>1. f \in [1..n -> Nat]
    BY <1>3
  <2>2. \A b \in B : \E k \in 1..n : f[k] = b
    BY <1>6 DEF Surjection
  <2>3. f \in Seq(Nat)
    BY <1>1, <2>1
  <2> QED BY <1>3, <2>2, <2>3 DEF Range
<1> QED BY <1>7 DEF f

\* The blocks of the messages, each once, are what the second pool asks for.
LEMMA BlockNumbersAre ==
  ASSUME ChainInv, MessagesInv
  PROVE  /\ BlockNumbers \in Seq(Nat)
         /\ \A i \in DOMAIN messages : \E k \in DOMAIN BlockNumbers : BlockNumbers[k] = block[messages[i]]
<1> DEFINE B == {block[messages[i]] : i \in DOMAIN messages}
           v == SetToSeq(B)
<1>1. \A i \in DOMAIN messages : messages[i] \in Message
  BY SequencePlaces DEF MessagesInv
<1>2. B \subseteq 0..MaxBlock /\ 0..MaxBlock \subseteq Nat
  BY <1>1, StatsLimits DEF ChainInv
<1>3. IsFiniteSet(0..MaxBlock)
  BY StatsLimits, FS_Interval
<1>4. IsFiniteSet(B) /\ B \subseteq Nat
  <2> HIDE DEF B
  <2> QED BY <1>2, <1>3, FS_Subset
<1>5. v \in Seq(Nat) /\ Range(v) = B
  <2> HIDE DEF B
  <2> QED BY <1>4, SetToSeqIs
<1>6. BlockNumbers = Sorted(v)
  BY DEF BlockNumbers
<1>7. ASSUME NEW i \in DOMAIN messages
      PROVE  \E k \in DOMAIN BlockNumbers : BlockNumbers[k] = block[messages[i]]
  <2>1. block[messages[i]] \in B
    OBVIOUS
  <2> HIDE DEF v, B
  <2>2. PICK j \in DOMAIN v : v[j] = block[messages[i]]
    BY <1>5, <2>1 DEF Range
  <2>3. PlaceOf(v, j) \in DOMAIN Sorted(v) /\ Sorted(v)[PlaceOf(v, j)] = v[j]
    BY <1>5, SortedIs, PlaceOfIs
  <2> QED BY <1>6, <2>2, <2>3
<1> HIDE DEF v
<1> QED BY <1>5, <1>6, <1>7, SortedIs

----------------------------------------------------------------------------
\* The pools.
LEMMA PoolStarted ==
  ASSUME NEW n \in Nat, StartPool(n)
  PROVE  PoolTyped' /\ next' = 1 /\ Len(results') = n
<1>1. results' = [i \in 1..n |-> 0] /\ next' = 1 /\ doing' = [w \in Worker |-> 0]
      /\ failures' = [w \in Worker |-> 0]
  BY DEF StartPool
<1>2. results' \in Seq(Nat) /\ Len(results') = n
  BY <1>1
<1> QED BY <1>1, <1>2, StatsLimits DEF PoolTyped

LEMMA ScanEndInv ==
  ASSUME StatsInv, ScanEnd
  PROVE  StatsInv'
<1>1. ChainInv /\ FirstInv /\ MessagesInv
  BY DEF StatsInv
<1>2. /\ phase = "scan" /\ cursor > to /\ phase' = "details" /\ StartPool(Len(messages'))
      /\ messages' = Filtered(messages, OfEpoch)
      /\ UNCHANGED <<block, deployed, to, tries, low, high, source, cursor, epoch>>
  BY DEF ScanEnd, external, search
<1>3. ChainInv' /\ FirstInv'
  <2>1. ChainInv'
    BY <1>1, <1>2, ExternalKept DEF external
  <2> QED BY <1>1, <1>2, <2>1 DEF FirstInv, Phases
<1>4. /\ messages' \in Seq(Message) /\ Increasing(messages')
      /\ Range(messages') = Logged(low, SeenTo) \cap OfEpoch
  BY <1>1, <1>2, FilteredKeeps DEF MessagesInv
<1>5. SeenTo = to
  BY <1>1, <1>2, StatsLimits DEF FirstInv, ChainInv, SeenTo
<1>6. MessagesInv'
  BY <1>2, <1>4, <1>5 DEF MessagesInv, Logged, OfEpoch
<1>7. Len(messages') \in Nat
  BY <1>4
<1>8. PoolTyped' /\ next' = 1 /\ Len(results') = Len(messages')
  BY <1>2, <1>7, PoolStarted
<1>9. PoolInv'
  BY <1>2, <1>8 DEF PoolInv, Heard
<1> QED BY <1>3, <1>6, <1>8, <1>9 DEF StatsInv

\* What a step of a pool leaves as it was.
LEMMA PoolStep ==
  ASSUME StatsInv, phase \in {"details", "times"}, phase' \in {phase, "times", "done", "failed"},
         UNCHANGED <<external, tries, search, cursor, epoch, messages>>
  PROVE  ChainInv' /\ FirstInv' /\ MessagesInv' /\ BlockNumbers' = BlockNumbers
<1>1. ChainInv /\ FirstInv /\ MessagesInv
  BY DEF StatsInv
<1>2. UNCHANGED <<block, deployed, to, tries, low, high, source, cursor, epoch, messages>>
  BY DEF external, search
<1>3. ChainInv'
  BY <1>1, <1>2, ExternalKept DEF external
<1>4. FirstInv'
  BY <1>1, <1>2, <1>3 DEF FirstInv, Phases
<1>5. MessagesInv'
  BY <1>1, <1>2 DEF MessagesInv, Logged, OfEpoch
<1>6. BlockNumbers' = BlockNumbers
  BY <1>2 DEF BlockNumbers
<1> QED BY <1>3, <1>4, <1>5, <1>6

\* A worker that takes an item asks for it.
LEMMA TakeInv ==
  ASSUME StatsInv, NEW w \in Worker, Take(w)
  PROVE  StatsInv'
<1>1. PoolTyped /\ PoolInv
  BY DEF StatsInv
<1>2. /\ phase \in {"details", "times"} /\ doing[w] = 0 /\ next <= Len(results)
      /\ doing' = [doing EXCEPT ![w] = next] /\ next' = next + 1
      /\ UNCHANGED <<external, phase, tries, search, cursor, epoch, messages, chunks, failures, results>>
  BY DEF Take
<1>3. ChainInv' /\ FirstInv' /\ MessagesInv' /\ BlockNumbers' = BlockNumbers
  BY <1>2, PoolStep
<1>4. PoolTyped'
  <2>1. next \in Nat /\ Len(results) \in Nat /\ next > 0
    BY <1>1 DEF PoolTyped
  <2>2. doing' \in [Worker -> 0..next' - 1]
    BY <1>1, <1>2, <2>1 DEF PoolTyped
  <2>3. \A u \in Worker : doing[u] # next /\ doing'[u] = IF u = w THEN next ELSE doing[u]
    BY <1>1, <1>2, <2>1 DEF PoolTyped
  <2>4. \A u, v \in Worker : u # v /\ doing'[u] # 0 => doing'[u] # doing'[v]
    BY <1>1, <2>3 DEF PoolTyped
  <2> QED BY <1>1, <1>2, <2>1, <2>2, <2>4 DEF PoolTyped
<1>5. ASSUME NEW n, Heard(n) PROVE Len(results') = n
        /\ \A i \in 1..next' - 1 : results'[i] = AnswerItem(i)' \/ \E u \in Worker : doing'[u] = i
  <2>1. \A i : AnswerItem(i)' = AnswerItem(i)
    BY <1>2, <1>3 DEF AnswerItem
  <2>2. \A i \in 1..next' - 1 : i \in 1..next - 1 \/ i = next
    BY <1>1, <1>2 DEF PoolTyped
  <2>3. ASSUME NEW i \in 1..next - 1, NEW u \in Worker, doing[u] = i PROVE doing'[u] = i
    BY <1>1, <1>2, <2>3 DEF PoolTyped
  <2>4. doing'[w] = next
    BY <1>1, <1>2 DEF PoolTyped
  <2> QED BY <1>2, <1>5, <2>1, <2>2, <2>3, <2>4 DEF Heard
<1>6. PoolInv'
  BY <1>1, <1>2, <1>3, <1>5 DEF PoolInv, Heard
<1> QED BY <1>3, <1>4, <1>6 DEF StatsInv

\* An answer is told of the item it was asked of.
LEMMA AnsweredInv ==
  ASSUME StatsInv, NEW w \in Worker, Answered(w)
  PROVE  StatsInv'
<1>1. PoolTyped /\ PoolInv /\ ChainInv /\ MessagesInv
  BY DEF StatsInv
<1> DEFINE k == doing[w]
<1>2. /\ phase \in {"details", "times"} /\ k # 0
      /\ results' = [results EXCEPT ![k] = AnswerItem(k)]
      /\ doing' = [doing EXCEPT ![w] = 0] /\ failures' = [failures EXCEPT ![w] = 0]
      /\ UNCHANGED <<external, phase, tries, search, cursor, epoch, messages, chunks, next>>
  BY DEF Answered, Store
<1>3. ChainInv' /\ FirstInv' /\ MessagesInv' /\ BlockNumbers' = BlockNumbers
  BY <1>2, PoolStep
<1>4. /\ next \in Nat /\ Len(results) \in Nat /\ next > 0 /\ next <= Len(results) + 1
      /\ k \in 1..next - 1 /\ k \in 1..Len(results) /\ DOMAIN results = 1..Len(results)
      /\ results \in [1..Len(results) -> Nat]
  BY <1>1, <1>2 DEF PoolTyped
<1>5. AnswerItem(k) \in Nat
  <2>1. CASE phase = "details"
    <3>1. k \in DOMAIN messages
      BY <1>1, <1>4, <2>1, SequencePlaces DEF PoolInv, Heard, MessagesInv
    <3>2. messages[k] \in Message
      BY <1>1, <3>1, SequencePlaces DEF MessagesInv
    <3> QED BY <2>1, <3>2, StatsLimits DEF AnswerItem
  <2>2. CASE phase = "times"
    <3>1. BlockNumbers \in Seq(Nat)
      BY <1>1, BlockNumbersAre
    <3>2. k \in DOMAIN BlockNumbers
      BY <1>1, <1>4, <2>2, <3>1, SequencePlaces DEF PoolInv, Heard
    <3>3. BlockNumbers[k] \in Nat
      BY <3>1, <3>2, SequencePlaces
    <3> QED BY <2>2, <3>3 DEF AnswerItem
  <2> QED BY <1>2, <2>1, <2>2
<1> HIDE DEF k
<1>6. /\ results' \in Seq(Nat) /\ Len(results') = Len(results) /\ results'[k] = AnswerItem(k)
      /\ \A i \in 1..Len(results) : i # k => results'[i] = results[i]
  BY <1>2, <1>4, <1>5
<1>7. \A u \in Worker : doing'[u] = IF u = w THEN 0 ELSE doing[u]
  BY <1>1, <1>2 DEF PoolTyped
<1>8. PoolTyped'
  <2>1. doing' \in [Worker -> 0..next' - 1]
    BY <1>1, <1>2, <1>4 DEF PoolTyped
  <2>2. \A u, v \in Worker : u # v /\ doing'[u] # 0 => doing'[u] # doing'[v]
    BY <1>1, <1>7 DEF PoolTyped
  <2>3. failures' \in [Worker -> 0..Attempts - 1]
    BY <1>1, <1>2, StatsLimits DEF PoolTyped
  <2>4. next' \in 1..Len(results') + 1
    BY <1>2, <1>4, <1>6
  <2> QED BY <1>6, <2>1, <2>2, <2>3, <2>4 DEF PoolTyped
<1>9. ASSUME NEW n, Heard(n) PROVE Len(results') = n
        /\ \A i \in 1..next' - 1 : results'[i] = AnswerItem(i)' \/ \E u \in Worker : doing'[u] = i
  <2>1. \A i : AnswerItem(i)' = AnswerItem(i)
    BY <1>2, <1>3 DEF AnswerItem
  <2> SUFFICES ASSUME NEW i \in 1..next - 1
               PROVE  results'[i] = AnswerItem(i) \/ \E u \in Worker : doing'[u] = i
    BY <1>2, <1>6, <1>9, <2>1 DEF Heard
  <2>2. CASE i = k
    BY <1>6, <2>2
  <2>3. CASE i # k
    <3>1. results'[i] = results[i]
      BY <1>4, <1>6, <2>3
    <3>2. ASSUME NEW u \in Worker, doing[u] = i PROVE doing'[u] = i
      BY <1>7, <2>3, <3>2 DEF k
    <3> QED BY <1>9, <3>1, <3>2 DEF Heard
  <2> QED BY <2>2, <2>3
<1>10. PoolInv'
  BY <1>1, <1>2, <1>3, <1>9 DEF PoolInv, Heard
<1> QED BY <1>3, <1>8, <1>10 DEF StatsInv

LEMMA ItemFailsInv ==
  ASSUME StatsInv, NEW w \in Worker, ItemFails(w)
  PROVE  StatsInv'
<1>1. PoolTyped /\ PoolInv
  BY DEF StatsInv
<1>2. /\ phase \in {"details", "times"} /\ phase' \in {phase, "failed"}
      /\ UNCHANGED <<external, tries, search, cursor, epoch, messages, chunks, next, results>>
  BY DEF ItemFails
<1>3. ChainInv' /\ FirstInv' /\ MessagesInv' /\ BlockNumbers' = BlockNumbers
  BY <1>2, PoolStep
<1>4. CASE failures[w] + 1 < Attempts /\ failures' = [failures EXCEPT ![w] = @ + 1]
           /\ UNCHANGED <<phase, doing>>
  <2>1. failures' \in [Worker -> 0..Attempts - 1]
    BY <1>1, <1>4, StatsLimits DEF PoolTyped
  <2>2. PoolTyped'
    BY <1>1, <1>2, <1>4, <2>1 DEF PoolTyped
  <2>3. \A i : AnswerItem(i)' = AnswerItem(i)
    BY <1>2, <1>3, <1>4 DEF AnswerItem
  <2>4. PoolInv'
    BY <1>1, <1>2, <1>3, <1>4, <2>3 DEF PoolInv, Heard
  <2> QED BY <1>3, <2>2, <2>4 DEF StatsInv
<1>5. CASE phase' = "failed" /\ doing' = [doing EXCEPT ![w] = 0] /\ UNCHANGED failures
  <2>1. \A u \in Worker : doing'[u] = IF u = w THEN 0 ELSE doing[u]
    BY <1>1, <1>5 DEF PoolTyped
  <2>2. doing' \in [Worker -> 0..next - 1]
    BY <1>1, <1>5 DEF PoolTyped
  <2>3. PoolTyped'
    BY <1>1, <1>2, <1>5, <2>1, <2>2 DEF PoolTyped
  <2>4. PoolInv'
    BY <1>5 DEF PoolInv
  <2> QED BY <1>3, <2>3, <2>4 DEF StatsInv
<1> QED BY <1>4, <1>5 DEF ItemFails

\* When all workers have returned, all items have been told of.
LEMMA PoolEndInv ==
  ASSUME StatsInv, PoolEnd
  PROVE  StatsInv'
<1>1. PoolTyped /\ PoolInv /\ ChainInv /\ MessagesInv
  BY DEF StatsInv
<1>2. /\ phase \in {"details", "times"} /\ phase' = IF phase = "details" THEN "times" ELSE "done"
      /\ next > Len(results) /\ \A w \in Worker : doing[w] = 0
      /\ UNCHANGED <<external, tries, search, cursor, epoch, messages>>
  BY DEF PoolEnd
<1>3. ChainInv' /\ FirstInv' /\ MessagesInv' /\ BlockNumbers' = BlockNumbers
  BY <1>2, PoolStep
<1>4. /\ results \in Seq(Nat) /\ Len(results) \in Nat /\ DOMAIN results = 1..Len(results)
      /\ next \in 1..Len(results) + 1
  BY <1>1 DEF PoolTyped
<1>5. ASSUME NEW n, Heard(n)
      PROVE  DOMAIN results = 1..n /\ \A i \in 1..n : results[i] = AnswerItem(i)
  BY <1>2, <1>4, <1>5 DEF Heard
<1>6. BlockNumbers \in Seq(Nat) /\ Len(BlockNumbers) \in Nat
      /\ DOMAIN BlockNumbers = 1..Len(BlockNumbers)
  BY <1>1, BlockNumbersAre, SequencePlaces
<1>7. CASE phase = "details"
  <2>1. chunks' = results /\ StartPool(Len(BlockNumbers)) /\ phase' = "times"
    BY <1>2, <1>7 DEF PoolEnd
  <2>2. PoolTyped' /\ next' = 1 /\ Len(results') = Len(BlockNumbers)
    BY <1>6, <2>1, PoolStarted
  <2>3. DOMAIN messages = 1..Len(messages)
    BY <1>1 DEF MessagesInv
  <2>4. \A i \in DOMAIN messages : AnswerItem(i) = Chunks[messages[i]]
    BY <1>7 DEF AnswerItem
  <2>5. DOMAIN results = DOMAIN messages /\ \A i \in DOMAIN messages : results[i] = Chunks[messages[i]]
    BY <1>1, <1>5, <1>7, <2>3, <2>4 DEF PoolInv
  <2>6. results = [i \in DOMAIN messages |-> Chunks[messages[i]]]
    BY <1>4, <2>5
  <2>7. PoolInv'
    BY <1>2, <1>3, <2>1, <2>2, <2>6 DEF PoolInv, Heard
  <2> QED BY <1>3, <2>2, <2>7 DEF StatsInv
<1>8. CASE phase = "times"
  <2>1. UNCHANGED <<chunks, next, doing, failures, results>> /\ phase' = "done"
    BY <1>2, <1>8 DEF PoolEnd, pool
  <2>2. PoolTyped'
    BY <1>1, <2>1 DEF PoolTyped
  <2>3. \A i \in DOMAIN BlockNumbers : AnswerItem(i) = BlockNumbers[i] + 1
    BY <1>8 DEF AnswerItem
  <2>4. DOMAIN results = DOMAIN BlockNumbers
        /\ \A i \in DOMAIN BlockNumbers : results[i] = BlockNumbers[i] + 1
    BY <1>1, <1>5, <1>6, <1>8, <2>3 DEF PoolInv
  <2>5. results = [i \in DOMAIN BlockNumbers |-> BlockNumbers[i] + 1]
    BY <1>4, <2>4
  <2>6. PoolInv'
    BY <1>1, <1>2, <1>3, <1>8, <2>1, <2>5 DEF PoolInv
  <2> QED BY <1>3, <2>2, <2>6 DEF StatsInv
<1> QED BY <1>2, <1>7, <1>8

----------------------------------------------------------------------------
LEMMA StatsInitially == StatsInit => StatsInv
<1> SUFFICES ASSUME StatsInit PROVE StatsInv
  OBVIOUS
<1>1. ChainInv
  BY DEF StatsInit, ChainInv
<1>2. FirstInv
  BY <1>1, StatsLimits DEF StatsInit, FirstInv, Phases, ChainInv
<1>3. MessagesInv
  BY DEF StatsInit, MessagesInv, Increasing
<1>4. PoolTyped
  <2>1. <<>> \in Seq(Nat) /\ Len(<<>>) = 0
    OBVIOUS
  <2> QED BY <2>1, StatsLimits DEF StatsInit, PoolTyped
<1>5. PoolInv
  BY DEF StatsInit, PoolInv
<1> QED BY <1>1, <1>2, <1>3, <1>4, <1>5 DEF StatsInv

LEMMA StatsStep == StatsInv /\ [StatsNext]_statsVars => StatsInv'
<1> SUFFICES ASSUME StatsInv, [StatsNext]_statsVars PROVE StatsInv'
  OBVIOUS
<1>1. CASE StatsNext
  BY <1>1, StartStep, AskStep, SearchStepInv, SearchEndInv, ScanBatchInv, ScanEndInv, PoolEndInv,
     TakeInv, AnsweredInv, ItemFailsInv DEF StatsNext
<1>2. CASE UNCHANGED statsVars
  <2>1. UNCHANGED <<block, deployed, phase, tries, low, high, to, source, cursor, epoch, messages,
                    chunks, next, doing, failures, results>>
    BY <1>2 DEF statsVars, external, search, pool
  <2>2. ChainInv' /\ FirstInv' /\ MessagesInv'
    BY <2>1 DEF StatsInv, ChainInv, FirstInv, MessagesInv, Logged, SeenTo, OfEpoch
  <2>3. BlockNumbers' = BlockNumbers
    BY <2>1 DEF BlockNumbers
  <2>4. \A i : AnswerItem(i)' = AnswerItem(i)
    BY <2>1, <2>3 DEF AnswerItem
  <2>5. PoolTyped' /\ PoolInv'
    BY <2>1, <2>3, <2>4 DEF StatsInv, PoolTyped, PoolInv, Heard
  <2> QED BY <2>2, <2>5 DEF StatsInv
<1> QED BY <1>1, <1>2

LEMMA StatsAlways == StatsSpec => []StatsInv
  BY StatsInitially, StatsStep, PTL DEF StatsSpec

\* A search stays in its range, and the pool is not ahead of its items.
THEOREM StatsTypeCorrect == StatsSpec => []StatsTypeOK
<1>1. StatsInv => StatsTypeOK
  <2> SUFFICES ASSUME StatsInv PROVE StatsTypeOK
    OBVIOUS
  <2>1. FirstInv /\ MessagesInv /\ PoolTyped
    BY DEF StatsInv
  <2>2. \A w \in Worker : doing[w] < next /\ failures[w] \in 0..Attempts - 1
    BY <2>1 DEF PoolTyped
  <2> QED BY <2>1, <2>2 DEF StatsTypeOK, FirstInv, MessagesInv, PoolTyped
<1> QED BY <1>1, StatsAlways, PTL

----------------------------------------------------------------------------
\* The figures of the report.

\* As many messages as the nearest rank says are no greater than the one at that rank.
LEMMA RankIs ==
  ASSUME NEW n \in Nat, n > 0, NEW p \in {50, 95}
  PROVE  LET rank == (p * n + 99) \div 100
         IN  /\ rank \in 1..n /\ rank * 100 >= p * n
             /\ \A c \in Nat : c * 100 >= p * n => c >= rank
<1>1. CASE p = 50
  BY <1>1
<1>2. CASE p = 95
  BY <1>2
<1> QED BY <1>1, <1>2

LEMMA PercentileIs ==
  ASSUME NEW v \in Seq(Nat), v # <<>>, NEW p \in {50, 95}
  PROVE  Percentile(v, p) = NearestRank(v, p)
<1> DEFINE n == Len(v)
           rank == (p * n + 99) \div 100
           Upto(x) == {i \in DOMAIN v : v[i] <= x}
           Enough(x) == Cardinality(Upto(x)) * 100 >= p * n
<1>1. /\ n \in Nat /\ n > 0 /\ DOMAIN v = 1..n /\ IsFiniteSet(DOMAIN v)
      /\ \A i \in DOMAIN v : v[i] \in Nat /\ i \in Nat
  BY SequencePlaces
<1>2. /\ rank \in 1..n /\ rank * 100 >= p * n
      /\ \A c \in Nat : c * 100 >= p * n => c >= rank
  <2> HIDE DEF n
  <2> QED BY <1>1, RankIs
<1> HIDE DEF rank
<1>3. Percentile(v, p) = Sorted(v)[rank]
  BY <1>1, <1>2 DEF Percentile, rank
<1>4. PICK k \in DOMAIN v : PlaceOf(v, k) = rank
  BY <1>1, <1>2, PlaceOfIs
<1>5. Sorted(v)[rank] = v[k]
  BY <1>4, SortedIs
<1> DEFINE Before == {j \in DOMAIN v : v[j] < v[k] \/ (v[j] = v[k] /\ j <= k)}
<1>6. Cardinality(Before) = rank /\ k \in Before /\ Before \in SUBSET DOMAIN v
  BY <1>1, <1>4 DEF PlaceOf
<1>7. \A x : Upto(x) \in SUBSET DOMAIN v
  OBVIOUS
<1>8. Before \in SUBSET Upto(v[k])
  BY <1>1
<1>9. \A u \in Nat : u < v[k] => Upto(u) \in SUBSET (Before \ {k})
  BY <1>1
<1> HIDE DEF Before, Upto
<1>10. \A x : IsFiniteSet(Upto(x)) /\ Cardinality(Upto(x)) \in Nat
  BY <1>1, <1>7, FS_Subset, FS_CardinalityType
<1>11. IsFiniteSet(Before) /\ IsFiniteSet(Before \ {k}) /\ Cardinality(Before \ {k}) = rank - 1
  <2>1. IsFiniteSet(Before)
    BY <1>1, <1>6, FS_Subset
  <2> QED BY <1>6, <2>1, FS_RemoveElement
<1>12. Enough(v[k])
  <2>1. rank <= Cardinality(Upto(v[k]))
    BY <1>6, <1>8, <1>10, FS_Subset
  <2>2. rank \in Nat /\ p * n \in Nat
    BY <1>1, <1>2
  <2> HIDE DEF n
  <2> QED BY <1>2, <1>10, <2>1, <2>2
<1>13. ASSUME NEW u \in Range(v), Enough(u) PROVE v[k] <= u
  <2>1. u \in Nat
    BY <1>1 DEF Range
  <2>2. Cardinality(Upto(u)) >= rank
    BY <1>2, <1>10, <1>13
  <2>3. ASSUME u < v[k] PROVE FALSE
    <3>1. Cardinality(Upto(u)) <= rank - 1
      BY <1>9, <1>11, <2>1, <2>3, FS_Subset
    <3>2. rank \in Nat
      BY <1>2
    <3> QED BY <1>10, <2>2, <3>1, <3>2
  <2> QED BY <1>1, <1>4, <2>1, <2>3
<1> DEFINE Best(x) == Enough(x) /\ \A u \in Range(v) : Enough(u) => x <= u
<1>14. v[k] \in Range(v) /\ Best(v[k])
  BY <1>12, <1>13 DEF Range
<1>15. NearestRank(v, p) = CHOOSE x \in Range(v) : Best(x)
  BY DEF NearestRank, Upto
<1>16. \A x \in Range(v) : Best(x) => x = v[k]
  <2> SUFFICES ASSUME NEW x \in Range(v), Best(x) PROVE x = v[k]
    OBVIOUS
  <2>1. x \in Nat /\ v[k] \in Nat
    BY <1>1 DEF Range
  <2>2. x <= v[k] /\ v[k] <= x
    BY <1>14
  <2> QED BY <2>1, <2>2
<1> HIDE DEF Best
<1>17. (CHOOSE x \in Range(v) : Best(x)) = v[k]
  BY <1>14, <1>16
<1> QED BY <1>3, <1>5, <1>15, <1>17

\* The count of the messages of an agent.  The fold that AgentStats is takes out the last
\* place first, and is read from a table of the counts of the places in each set.
SentBy(a) == {i \in DOMAIN messages : Sender[messages[i]] = a}
ReceivedBy(a) == {i \in DOMAIN messages : Recipient[messages[i]] = a}
ManyBy(a) == {i \in DOMAIN messages : Sender[messages[i]] = a /\ chunks[i] > 1}

NoCount == [sent |-> 0, received |-> 0, multipart |-> 0]

CountOne(a, i, s) ==
  [s EXCEPT !.sent = IF Sender[messages[i]] = a THEN @ + 1 ELSE @,
            !.received = IF Recipient[messages[i]] = a THEN @ + 1 ELSE @,
            !.multipart = IF Sender[messages[i]] = a /\ chunks[i] > 1 THEN @ + 1 ELSE @]

CountTable(g, a, P, D) ==
  g = [T \in SUBSET D |-> IF T = {} THEN NoCount ELSE CountOne(a, P[Max(T)], g[T \ {Max(T)}])]

LEMMA AgentStatsIsChosen ==
  ASSUME NEW a
  PROVE  AgentStats(a) = LET P == [i \in DOMAIN messages |-> i]
                         IN (CHOOSE g : CountTable(g, a, P, DOMAIN P))[DOMAIN P]
BY DEF AgentStats, FoldLeftDomain, FoldLeft, MapThenFoldSet, CountTable, CountOne, NoCount

Count == [sent : Nat, received : Nat, multipart : Nat]

LEMMA CountOneIs ==
  ASSUME NEW a, NEW i, NEW s \in Count
  PROVE  /\ CountOne(a, i, s) \in Count
         /\ CountOne(a, i, s).sent = IF Sender[messages[i]] = a THEN s.sent + 1 ELSE s.sent
         /\ CountOne(a, i, s).received
              = IF Recipient[messages[i]] = a THEN s.received + 1 ELSE s.received
         /\ CountOne(a, i, s).multipart
              = IF Sender[messages[i]] = a /\ chunks[i] > 1 THEN s.multipart + 1 ELSE s.multipart
<1> DEFINE A == IF Sender[messages[i]] = a THEN s.sent + 1 ELSE s.sent
           B == IF Recipient[messages[i]] = a THEN s.received + 1 ELSE s.received
           C == IF Sender[messages[i]] = a /\ chunks[i] > 1 THEN s.multipart + 1 ELSE s.multipart
<1>1. CountOne(a, i, s) = [s EXCEPT !.sent = A, !.received = B, !.multipart = C]
  BY DEF CountOne
<1>2. A \in Nat /\ B \in Nat /\ C \in Nat
  BY DEF Count
<1> HIDE DEF A, B, C
<1>3. /\ CountOne(a, i, s) \in Count /\ CountOne(a, i, s).sent = A
      /\ CountOne(a, i, s).received = B /\ CountOne(a, i, s).multipart = C
  BY <1>1, <1>2 DEF Count
<1> QED BY <1>3 DEF A, B, C

\* One more place.
LEMMA OneMore ==
  ASSUME NEW T, IsFiniteSet(T), NEW m \in T, NEW S
  PROVE  /\ Cardinality(T \cap S) \in Nat /\ Cardinality((T \ {m}) \cap S) \in Nat
         /\ Cardinality(T \cap S) = IF m \in S THEN Cardinality((T \ {m}) \cap S) + 1
                                    ELSE Cardinality((T \ {m}) \cap S)
<1> DEFINE A == T \cap S
           B == (T \ {m}) \cap S
<1>1. IsFiniteSet(A) /\ IsFiniteSet(B)
  BY FS_Subset
<1>2. Cardinality(A) \in Nat /\ Cardinality(B) \in Nat
  BY <1>1, FS_CardinalityType
<1>3. CASE m \in S
  <2>1. A = B \cup {m} /\ m \notin B
    BY <1>3
  <2> HIDE DEF A, B
  <2>2. Cardinality(A) = Cardinality(B) + 1
    BY <1>1, <2>1, FS_AddElement
  <2> QED BY <1>2, <1>3, <2>2 DEF A, B
<1>4. CASE m \notin S
  <2>1. A = B
    BY <1>4
  <2> HIDE DEF A, B
  <2> QED BY <1>2, <1>4, <2>1 DEF A, B
<1> QED BY <1>3, <1>4

LEMMA AgentStatsAre ==
  ASSUME messages \in Seq(Message), NEW a
  PROVE  AgentStats(a) = [sent |-> Cardinality(SentBy(a)), received |-> Cardinality(ReceivedBy(a)),
                          multipart |-> Cardinality(ManyBy(a))]
<1> DEFINE D == DOMAIN messages
           P == [i \in D |-> i]
           S == SentBy(a)
           R == ReceivedBy(a)
           M == ManyBy(a)
           Counts(T) == [sent |-> Cardinality(T \cap S), received |-> Cardinality(T \cap R),
                         multipart |-> Cardinality(T \cap M)]
           table == [T \in SUBSET D |-> Counts(T)]
           g == CHOOSE g : CountTable(g, a, P, D)
<1>1. Places(D) /\ IsFiniteSet(D)
  BY SequencePlaces
<1>2. DOMAIN P = D /\ \A i \in D : P[i] = i
  OBVIOUS
<1> HIDE DEF P
<1>3. S \subseteq D /\ R \subseteq D /\ M \subseteq D
  BY DEF SentBy, ReceivedBy, ManyBy
<1>4. \A i \in D : /\ i \in S <=> Sender[messages[i]] = a
                   /\ i \in R <=> Recipient[messages[i]] = a
                   /\ i \in M <=> Sender[messages[i]] = a /\ chunks[i] > 1
  BY DEF SentBy, ReceivedBy, ManyBy
<1> HIDE DEF D, S, R, M
<1>5. Counts({}) = NoCount
  <2>1. {} \cap S = {} /\ {} \cap R = {} /\ {} \cap M = {} /\ Cardinality({}) = 0
    BY FS_EmptySet
  <2> QED BY <2>1 DEF NoCount
<1>6. ASSUME NEW T \in SUBSET D, T # {}
      PROVE  Max(T) \in T /\ Counts(T) = CountOne(a, P[Max(T)], Counts(T \ {Max(T)}))
  <2> DEFINE m == Max(T)
  <2>1. m \in T /\ IsFiniteSet(T)
    BY <1>1, <1>6, PlacesParts, MaxIs DEF Places
  <2>2. P[m] = m /\ m \in D
    BY <1>2, <2>1
  <2> HIDE DEF m
  <2>3. /\ Cardinality(T \cap S) = IF m \in S THEN Cardinality((T \ {m}) \cap S) + 1
                                   ELSE Cardinality((T \ {m}) \cap S)
        /\ Cardinality(T \cap R) = IF m \in R THEN Cardinality((T \ {m}) \cap R) + 1
                                   ELSE Cardinality((T \ {m}) \cap R)
        /\ Cardinality(T \cap M) = IF m \in M THEN Cardinality((T \ {m}) \cap M) + 1
                                   ELSE Cardinality((T \ {m}) \cap M)
    BY <2>1, OneMore
  <2>4. Counts(T) = CountOne(a, m, Counts(T \ {m}))
    <3>1. Counts(T) \in Count /\ Counts(T \ {m}) \in Count
      BY <2>1, OneMore DEF Count
    <3>2. /\ m \in S <=> Sender[messages[m]] = a
          /\ m \in R <=> Recipient[messages[m]] = a
          /\ m \in M <=> Sender[messages[m]] = a /\ chunks[m] > 1
      BY <1>4, <2>2
    <3>3. /\ Counts(T).sent = IF m \in S THEN Counts(T \ {m}).sent + 1 ELSE Counts(T \ {m}).sent
          /\ Counts(T).received = IF m \in R THEN Counts(T \ {m}).received + 1 ELSE Counts(T \ {m}).received
          /\ Counts(T).multipart = IF m \in M THEN Counts(T \ {m}).multipart + 1 ELSE Counts(T \ {m}).multipart
      BY <2>3
    <3> HIDE DEF Counts
    <3> DEFINE r == CountOne(a, m, Counts(T \ {m}))
    <3>4. r \in Count /\ r.sent = Counts(T).sent /\ r.received = Counts(T).received
          /\ r.multipart = Counts(T).multipart
      BY <3>1, <3>2, <3>3, CountOneIs
    <3> HIDE DEF r
    <3>5. r = Counts(T)
      BY <3>1, <3>4 DEF Count
    <3> QED BY <3>5 DEF r
  <2> QED BY <2>1, <2>2, <2>4 DEF m
<1> HIDE DEF Counts
<1>7. CountTable(table, a, P, D)
  <2>1. \A T \in SUBSET D :
          table[T] = IF T = {} THEN NoCount ELSE CountOne(a, P[Max(T)], table[T \ {Max(T)}])
    BY <1>5, <1>6
  <2>2. table = [T \in SUBSET D |-> table[T]]
    OBVIOUS
  <2> HIDE DEF table
  <2> QED BY <2>1, <2>2 DEF CountTable
<1>8. CountTable(g, a, P, D)
  <2> HIDE DEF table
  <2> QED BY <1>7
<1> HIDE DEF g
<1> DEFINE F == {T \in SUBSET D : g[T] = Counts(T)}
<1>9. ASSUME NEW T \in SUBSET D, \A U \in SUBSET T : U # T => U \in F PROVE T \in F
  <2>1. g[T] = IF T = {} THEN NoCount ELSE CountOne(a, P[Max(T)], g[T \ {Max(T)}])
    BY <1>8 DEF CountTable
  <2>2. CASE T = {}
    BY <1>5, <2>1, <2>2
  <2>3. CASE T # {}
    <3>1. T \ {Max(T)} \in F
      BY <1>6, <1>9, <2>3
    <3> QED BY <1>6, <2>1, <2>3, <3>1
  <2> QED BY <2>2, <2>3
<1>10. g[D] = Counts(D)
  <2>1. \A T \in SUBSET D : T \in F
    <3> HIDE DEF F
    <3> QED BY <1>1, <1>9, SubsetInduction
  <2> QED BY <2>1
<1>11. AgentStats(a) = g[D]
  BY <1>2, AgentStatsIsChosen DEF g, P, D
<1>12. D \cap S = S /\ D \cap R = R /\ D \cap M = M
  BY <1>3
<1> QED BY <1>10, <1>11, <1>12 DEF Counts, S, R, M

\* As many places as elements.
LEMMA IncreasingLength ==
  ASSUME NEW s \in Seq(Nat), Increasing(s)
  PROVE  Len(s) = Cardinality(Range(s))
<1>1. Len(s) \in Nat /\ DOMAIN s = 1..Len(s) /\ s \in [1..Len(s) -> Range(s)]
      /\ \A i \in DOMAIN s : s[i] \in Nat
  BY SequencePlaces DEF Range
<1>2. \A i, j \in 1..Len(s) : s[i] = s[j] => i = j
  <2> SUFFICES ASSUME NEW i \in 1..Len(s), NEW j \in 1..Len(s), i < j PROVE s[i] # s[j]
    BY <1>1
  <2> QED BY <1>1 DEF Increasing
<1>3. s \in Bijection(1..Len(s), Range(s))
  BY <1>1, <1>2 DEF Bijection, Injection, Surjection, IsInjective, Range
<1>4. ExistsBijection(1..Len(s), Range(s))
  BY <1>3 DEF ExistsBijection
<1> QED BY <1>1, <1>4, FS_CountingElements

\* The time of a block is found by its number.
LEMMA WindowIs ==
  ASSUME ChainInv, MessagesInv, results = [i \in DOMAIN BlockNumbers |-> BlockNumbers[i] + 1],
         NEW b \in Nat
  PROVE  WindowCount(b + 1) = Cardinality({m \in Range(messages) : block[m] >= b})
<1> DEFINE N == {BlockNumbers[i] : i \in DOMAIN BlockNumbers}
           time == [c \in N |-> results[CHOOSE i \in DOMAIN BlockNumbers : BlockNumbers[i] = c]]
           S == {m \in Range(messages) : time[block[m]] >= b + 1}
           W == {m \in Range(messages) : block[m] >= b}
<1>1. /\ messages \in Seq(Message) /\ Increasing(messages) /\ Range(messages) \subseteq Message
      /\ Message \subseteq Nat
  <2>1. messages \in Seq(Message) /\ Increasing(messages)
    BY DEF MessagesInv
  <2> QED BY <2>1, SequencePlaces, MessagesAre DEF Range
<1>2. \A m \in Range(messages) : block[m] \in Nat /\ block[m] \in N
  <2>1. \A m \in Range(messages) : block[m] \in Nat
    BY <1>1, StatsLimits DEF ChainInv
  <2>2. \A i \in DOMAIN messages : block[messages[i]] \in N
    BY BlockNumbersAre
  <2> QED BY <2>1, <2>2 DEF Range
<1>3. \A c \in N : time[c] = c + 1
  <2> SUFFICES ASSUME NEW c \in N PROVE results[CHOOSE i \in DOMAIN BlockNumbers : BlockNumbers[i] = c] = c + 1
    OBVIOUS
  <2>1. PICK k \in DOMAIN BlockNumbers : BlockNumbers[k] = c
    OBVIOUS
  <2> DEFINE k0 == CHOOSE i \in DOMAIN BlockNumbers : BlockNumbers[i] = c
  <2>2. k0 \in DOMAIN BlockNumbers /\ BlockNumbers[k0] = c
    BY <2>1
  <2> HIDE DEF k0
  <2>3. results[k0] = c + 1
    BY <2>2
  <2> QED BY <2>3 DEF k0
<1> HIDE DEF N, time
<1>4. S = W
  BY <1>2, <1>3
<1>5. WindowCount(b + 1) = Len(Filtered(messages, S))
  BY DEF WindowCount, time, N
<1>6. Filtered(messages, W) \in Seq(Message) /\ Increasing(Filtered(messages, W))
      /\ Range(Filtered(messages, W)) = Range(messages) \cap W
  <2> HIDE DEF W
  <2> QED BY <1>1, FilteredKeeps
<1>7. Range(messages) \cap W = W
  OBVIOUS
<1> HIDE DEF S, W
<1>8. Filtered(messages, W) \in Seq(Nat)
  <2>1. \A s \in Seq(Message) : s \in Seq(Nat)
    BY MessagesAre
  <2> QED BY <1>6, <2>1
<1>9. Len(Filtered(messages, W)) = Cardinality(W)
  BY <1>6, <1>7, <1>8, IncreasingLength
<1> QED BY <1>4, <1>5, <1>9 DEF W

----------------------------------------------------------------------------
\* The messages are those that are wanted: an increasing sequence is told by its elements.
LEMMA MessagesAreWanted ==
  ASSUME StatsInv, phase \in {"details", "times", "done"}
  PROVE  messages = Wanted(IF source = "given" THEN low ELSE 0)
<1> DEFINE first == IF source = "given" THEN low ELSE 0
           logs == LogsIn(first, to)
<1>1. ChainInv /\ FirstInv /\ MessagesInv
  BY DEF StatsInv
<1>2. /\ messages \in Seq(Message) /\ Increasing(messages)
      /\ Range(messages) = Logged(low, to) \cap OfEpoch
  BY <1>1 DEF MessagesInv
<1>3. Logged(first, to) = Logged(low, to)
  <2>1. \A m \in Message : block[m] \in Nat /\ low \in Nat /\ to \in Nat
    BY <1>1, StatsLimits DEF ChainInv, FirstInv
  <2>2. source # "given" => \A m \in Message : low <= block[m]
    BY <1>1 DEF FirstInv
  <2> QED BY <2>1, <2>2 DEF Logged
<1> HIDE DEF first
<1>4. logs \in Seq(Message) /\ Increasing(logs) /\ Range(logs) = Logged(low, to)
  BY <1>3, LogsAre
<1>5. Wanted(first) = Filtered(logs, OfEpoch)
  BY DEF Wanted
<1> HIDE DEF logs
<1>6. /\ Wanted(first) \in Seq(Message) /\ Increasing(Wanted(first))
      /\ Range(Wanted(first)) = Logged(low, to) \cap OfEpoch
  BY <1>4, <1>5, FilteredKeeps
<1>7. \A s \in Seq(Message) : s \in Seq(Nat)
  BY MessagesAre
<1>8. messages = Wanted(first)
  <2>1. messages \in Seq(Nat) /\ Wanted(first) \in Seq(Nat)
    BY <1>2, <1>6, <1>7
  <2> QED BY <1>2, <1>6, <2>1, IncreasingUnique
<1> QED BY <1>8 DEF first

LEMMA Figures ==
  ASSUME StatsInv, phase = "done"
  PROVE  FiguresAreRight
<1>1. /\ ChainInv /\ MessagesInv /\ messages \in Seq(Message)
      /\ chunks = [i \in DOMAIN messages |-> Chunks[messages[i]]]
      /\ results = [i \in DOMAIN BlockNumbers |-> BlockNumbers[i] + 1]
  BY DEF StatsInv, MessagesInv, PoolInv
<1>2. Len(messages) \in Nat /\ DOMAIN messages = 1..Len(messages)
      /\ \A i \in DOMAIN messages : messages[i] \in Message
  BY <1>1, SequencePlaces
<1>3. chunks \in Seq(Nat)
  BY <1>1, <1>2, StatsLimits
<1>4. \A p \in {50, 95} : chunks # <<>> => Percentile(chunks, p) = NearestRank(chunks, p)
  BY <1>3, PercentileIs
<1>5. ASSUME NEW a
      PROVE  /\ AgentStats(a).sent = Cardinality(SentBy(a))
             /\ AgentStats(a).received = Cardinality(ReceivedBy(a))
             /\ AgentStats(a).multipart = Cardinality(ManyBy(a))
  BY <1>1, AgentStatsAre
<1>6. ASSUME NEW a PROVE ManyBy(a) = {i \in SentBy(a) : Chunks[messages[i]] > 1}
  BY <1>1 DEF ManyBy, SentBy
<1>7. \A b \in 0..MaxBlock : WindowCount(b + 1) = Cardinality({m \in Range(messages) : block[m] >= b})
  BY <1>1, WindowIs
<1> QED BY <1>4, <1>5, <1>6, <1>7 DEF FiguresAreRight, SentBy, ReceivedBy

\* The report is that of the chain, for any chain, any size of a batch, any number of workers
\* and of attempts: it has each message once, in its order, with its own number of chunks and
\* the time of its own block, and the figures are those of these messages.
THEOREM ReportTrue == StatsSpec => []ReportIsTrue
<1>1. StatsInv => ReportIsTrue
  <2> SUFFICES ASSUME StatsInv PROVE ReportIsTrue
    OBVIOUS
  <2>1. PoolTyped /\ PoolInv
    BY DEF StatsInv
  <2> QED BY <2>1, MessagesAreWanted, Figures DEF ReportIsTrue, PoolTyped, PoolInv
<1> QED BY <1>1, StatsAlways, PTL

----------------------------------------------------------------------------
\* The components of MCServices together.  Each of them does its own steps or none.
LEMMA EachComponent ==
  Spec => RotationSpec /\ AttributionSpec /\ RateSpec /\ LlmSpec /\ StatsSpec
<1>1. Init => RotationInit /\ AttributionInit /\ RateInit /\ LlmInit /\ StatsInit
  BY DEF Init
<1>2. [Next]_vars => /\ [RotationNext]_rotationVars /\ [AttributionNext]_attributionVars
                     /\ [RateNext]_rateVars /\ [LlmNext]_llmVars /\ [StatsNext]_statsVars
  BY DEF Next, vars
<1> QED BY <1>1, <1>2, PTL DEF Spec, RotationSpec, AttributionSpec, RateSpec, LlmSpec, StatsSpec

\* Every component of the services keeps its type invariant, whichever it is that moves.
THEOREM ServicesTypeCorrect == Spec => []TypesOK
<1> DEFINE OnePart == part \in {"rotation", "faulty rotation", "attribution", "report",
                            "rates", "bridge", "stats"}
<1>1. Spec => []OnePart
  <2>1. Init => OnePart
    BY DEF Init
  <2>2. OnePart /\ [Next]_vars => OnePart'
    BY DEF Next, vars
  <2> QED BY <2>1, <2>2, PTL DEF Spec
<1>2. /\ OnePart /\ RotationTypeOK /\ AttributionTypeOK /\ RateTypeOK /\ LlmTypeOK /\ StatsTypeOK
      => TypesOK
  BY DEF TypesOK
<1> QED BY <1>1, <1>2, EachComponent, RotationTypeCorrect, AttributionTypeCorrect, RateTypeCorrect,
          LlmTypeCorrect, StatsTypeCorrect, PTL
=============================================================================
