---------------------------- MODULE BudgetProofs ----------------------------
(***************************************************************************)
(* Theorems about the daily budgets of the Moltbook agent, for any days,   *)
(* limits and spacings, any writes and any length of the queue; and about  *)
(* the verification of one write, for any challenges and any number of     *)
(* attempts.                                                               *)
(*                                                                         *)
(* BudgetInv is the inductive invariant.  A publication that is not        *)
(* recorded has a pending write that names its attempt, and its job is in  *)
(* the queue and not due.  One post at most is in the queue or on its way, *)
(* and the day of its attempt has room for it.  The comments of a day that *)
(* are recorded are fewer, with those in the queue, than the budget and    *)
(* the length of the queue.  Its parts are stated for a time t, an agent a *)
(* and the publications ps that were not lost, and a step is a composition *)
(* of moves of these: a period passes, a write is picked, published,       *)
(* recorded, queued, or leaves.                                            *)
(*                                                                         *)
(* ClientInv is that of the verification: an attempt has one copy at most, *)
(* and copies that are shown are counted by lost answers.  That the rules  *)
(* read a challenge rightly needs no invariant: the numbers of a text are  *)
(* read from a place on as from the next place on, up to its end.          *)
(***************************************************************************)
EXTENDS DailyBudget, Verification, FiniteSetTheorems, FunctionTheorems, SequenceTheorems,
        WellFoundedInduction, TLAPS

LEMMA BudgetConstants ==
  /\ DayLength \in Nat /\ DayLength > 0 /\ QueueLimit \in Nat /\ QueueLimit > 0
  /\ PostsPerDay \in [BOOLEAN -> Nat] /\ CommentsPerDay \in [BOOLEAN -> Nat]
  /\ PostSpacing \in [BOOLEAN -> Nat] /\ CommentSpacing \in [BOOLEAN -> Nat]
  /\ Posts \cap Comments = {} /\ MaxTime \in Nat /\ NewUntil \in Nat
BY BudgetAssumption

\* Days are numbers, and do not go back.
LEMMA DayIs ==
  ASSUME NEW t \in Nat
  PROVE  Day(t) \in Nat /\ \A u \in Nat : u <= t => Day(u) <= Day(t)
<1>1. DayLength \in Nat /\ DayLength > 0
  BY BudgetConstants
<1> QED BY <1>1 DEF Day

LeastSpacing == Min({PostSpacing[new] : new \in BOOLEAN})

\* The largest of the limits for agents that are new or not, and the least spacing.
LEMMA TwoValues ==
  ASSUME NEW f \in [BOOLEAN -> Nat]
  PROVE  {f[new] : new \in BOOLEAN} = {f[TRUE], f[FALSE]} /\ f[TRUE] \in Nat /\ f[FALSE] \in Nat
<1>1. f[TRUE] \in Nat /\ f[FALSE] \in Nat
  OBVIOUS
<1>2. {f[new] : new \in BOOLEAN} = {f[TRUE], f[FALSE]}
  <2>1. TRUE \in BOOLEAN /\ FALSE \in BOOLEAN
    BY Zenon
  <2>2. ASSUME NEW new \in BOOLEAN PROVE f[new] \in {f[TRUE], f[FALSE]}
    <3>1. CASE new = TRUE
      BY <3>1, Zenon
    <3>2. CASE new = FALSE
      BY <3>2, Zenon
    <3> QED BY <3>1, <3>2, Zenon
  <2>3. f[TRUE] \in {f[new] : new \in BOOLEAN}
    BY <2>1, Zenon
  <2>4. f[FALSE] \in {f[new] : new \in BOOLEAN}
    BY <2>1, Zenon
  <2> QED BY <2>2, <2>3, <2>4, Zenon
<1> QED BY <1>1, <1>2, Zenon

LEMMA MostIs ==
  ASSUME NEW limit \in [BOOLEAN -> Nat]
  PROVE  Most(limit) \in Nat /\ \A new \in BOOLEAN : limit[new] <= Most(limit)
<1>1. PICK S : S = {limit[new] : new \in BOOLEAN}
  OBVIOUS
<1>2. PICK a \in Nat, b \in Nat : S = {a, b}
  BY <1>1, TwoValues
<1>3. Max(S) \in S /\ \A y \in S : Max(S) >= y
  <2>1. \E x \in S : \A y \in S : x >= y
    BY <1>2
  <2> QED BY <2>1 DEF Max
<1>4. Max(S) \in Nat /\ \A y \in S : y <= Max(S)
  BY <1>2, <1>3
<1>5. Most(limit) = Max(S)
  BY <1>1 DEF Most
<1>6. \A new \in BOOLEAN : limit[new] \in S
  BY <1>1, Zenon
<1> QED BY <1>4, <1>5, <1>6

LEMMA LeastIs == LeastSpacing \in Nat /\ \A new \in BOOLEAN : LeastSpacing <= PostSpacing[new]
<1>1. PICK S : S = {PostSpacing[new] : new \in BOOLEAN}
  OBVIOUS
<1>2. PICK a \in Nat, b \in Nat : S = {a, b}
  BY <1>1, TwoValues, BudgetConstants
<1>3. Min(S) \in S /\ \A y \in S : Min(S) <= y
  <2>1. \E x \in S : \A y \in S : x <= y
    BY <1>2
  <2> QED BY <2>1 DEF Min
<1>4. Min(S) \in Nat
  BY <1>2, <1>3
<1>5. LeastSpacing = Min(S)
  BY <1>1 DEF LeastSpacing
<1>6. \A new \in BOOLEAN : PostSpacing[new] \in S
  BY <1>1, Zenon
<1> QED BY <1>3, <1>4, <1>5, <1>6

\* The latest of some times.
LEMMA LatestIs ==
  ASSUME NEW S, NEW t \in Nat, S \subseteq Never .. t, S # {}
  PROVE  Max(S) \in S /\ \A x \in S : x <= Max(S)
<1> DEFINE D == {k \in Nat : \A x \in S : x <= k - 1}
<1>1. t + 1 \in D
  BY DEF Never
<1>2. PICK m \in D : \A k \in D : ~(<<k, m>> \in OpToRel(<, Nat))
  <2>1. D \subseteq Nat /\ D # {}
    BY <1>1
  <2> HIDE DEF D
  <2> QED BY <2>1, WFMin, NatLessThanWellFounded
<1>3. \A k \in D : m <= k
  <2> SUFFICES ASSUME NEW k \in D, k < m PROVE FALSE
    BY DEF D
  <2>1. <<k, m>> \in OpToRel(<, Nat)
    BY Zenon DEF OpToRel, D
  <2> QED BY <2>1, <1>2
<1>4. m \in Nat /\ \A x \in S : x <= m - 1
  OBVIOUS
<1>5. m - 1 \in S
  <2>1. SUFFICES ASSUME m - 1 \notin S PROVE FALSE
    OBVIOUS
  <2>2. \A x \in S : x \in Int /\ x >= -1 /\ x <= m - 1 /\ x # m - 1
    BY <1>4, <2>1 DEF Never
  <2>3. \A x \in S : x <= m - 2
    BY <1>4, <2>2
  <2>4. CASE m = 0
    <3>1. PICK x \in S : TRUE
      OBVIOUS
    <3>2. x \in Int /\ x >= -1 /\ x <= 0 - 1 /\ x # 0 - 1
      BY <2>2, <2>4
    <3> QED BY <3>2
  <2>5. CASE m > 0
    <3>1. m - 1 \in Nat /\ \A x \in S : x <= m - 1 - 1
      BY <1>4, <2>3, <2>5
    <3>2. m - 1 \in D
      BY <3>1
    <3> QED BY <1>3, <1>4, <3>2
  <2> QED BY <1>4, <2>4, <2>5
<1> HIDE DEF D
<1>6. \A x \in S : m - 1 >= x
  BY <1>4 DEF Never
<1>7. Max(S) \in S /\ \A x \in S : Max(S) >= x
  BY <1>5, <1>6 DEF Max
<1>8. \A x \in S : x \in Int
  BY DEF Never
<1> QED BY <1>7, <1>8

----------------------------------------------------------------------------
\* The parts of the invariant.

Pendings == UNION {[D -> Nat] : D \in SUBSET Items}

AgentState ==
  [date : Nat, posts : Nat, comments : Nat, lastPost : Int, lastComment : Int,
   queue : SUBSET Items, running : SUBSET Items, stale : SUBSET Items,
   pending : Pendings, done : SUBSET Items]

Publication == [item : Items, created : Nat, time : Nat]

Afoot(a) == a.queue \cup DOMAIN a.pending

UnderWay(a) == (a.running \ a.stale) \cap DOMAIN a.pending

\* The writes of a day, by their attempts: all that were published, those of them that
\* are recorded, and those that are queued.
PublishedOn(ps, items, d) == {w \in items : \E p \in ps : p.item = w /\ Day(p.created) = d}

RecordedOn(a, ps, items, d) == PublishedOn(ps, items, d) \cap a.done

AttemptedOn(a, items, d) ==
  {w \in items \cap a.queue \cap DOMAIN a.pending : Day(a.pending[w]) = d}

AgentOK(t, a) ==
  /\ t \in Nat /\ a \in AgentState /\ a.date <= Day(t)
  /\ a.lastPost \in Never .. t /\ a.lastComment \in Never .. t
  /\ \A w \in DOMAIN a.pending : a.pending[w] <= t
  /\ IsFiniteSet(a.queue) /\ IsFiniteSet(a.done) /\ IsFiniteSet(DOMAIN a.pending)
  /\ Cardinality(a.queue) <= QueueLimit

\* Only what was picked is pending, and what is done is neither queued nor pending.
QueueOK(a) ==
  /\ a.stale \subseteq a.running /\ a.running \subseteq a.queue
  /\ a.done \cap Afoot(a) = {}
  /\ DOMAIN a.pending \cap a.queue \subseteq a.running

\* What was published is recorded, or a pending write knows of it and no one retries it.
KnownOK(t, a, ps) ==
  /\ ps \subseteq Publication
  /\ \A p \in ps : p.created <= p.time /\ p.time <= t
  /\ \A p \in ps : p.item \in a.done => Day(p.created) <= a.date
  /\ \A p \in ps :
       p.item \notin a.done => p.item \in UnderWay(a) /\ a.pending[p.item] = p.created
  /\ \A p, q \in ps : p.item = q.item => p = q

\* The agent has counted what is recorded of its day, and its last post.
CountsOK(a, ps) ==
  /\ Cardinality(RecordedOn(a, ps, Posts, a.date)) <= a.posts
  /\ Cardinality(RecordedOn(a, ps, Comments, a.date)) <= a.comments
  /\ \A p \in ps : p.item \in Posts \cap a.done => p.created <= a.lastPost

\* There is room for one more post that is attempted at time t.
Room(t, a, ps) ==
  /\ Cardinality(RecordedOn(a, ps, Posts, Day(t))) < Most(PostsPerDay)
  /\ \A p \in ps : p.item \in Posts \cap a.done => p.created + LeastSpacing <= t

PostsOK(t, a, ps) ==
  /\ \A v, w \in Afoot(a) \cap Posts : v = w
  /\ Afoot(a) \cap Posts # {} => Room(t, a, ps)
  /\ \A w \in DOMAIN a.pending \cap Posts : Room(a.pending[w], a, ps)
  /\ \A d \in Nat : Cardinality(PublishedOn(ps, Posts, d)) <= Most(PostsPerDay)
  /\ \A p, q \in ps :
       {p.item, q.item} \subseteq Posts /\ p # q /\ p.created <= q.created
         => p.created + LeastSpacing <= q.created

CommentsOK(t, a, ps) ==
  /\ Most(CommentsPerDay) = 0 => a.queue \cap Comments = {}
  /\ Cardinality(RecordedOn(a, ps, Comments, Day(t)) \cup (a.queue \cap Comments))
       < Most(CommentsPerDay) + QueueLimit
  /\ \A d \in Nat :
       Cardinality(RecordedOn(a, ps, Comments, d) \cup AttemptedOn(a, Comments, d))
         < Most(CommentsPerDay) + QueueLimit

Core(t, a, ps) ==
  /\ AgentOK(t, a) /\ QueueOK(a) /\ KnownOK(t, a, ps)
  /\ CountsOK(a, ps) /\ PostsOK(t, a, ps) /\ CommentsOK(t, a, ps)

InHand(a, x, ws, ps) ==
  /\ x \in {"publish", "answer"} => ws \subseteq UnderWay(a)
  /\ x = "publish" => \A p \in ps : p.item \notin ws

\* A heartbeat plans when all that was published is recorded, and what it plans fits.
Planning(t, a, x, ws, ps) ==
  /\ x \in {"plan", "draft"} => \A p \in ps : p.item \in a.done
  /\ x = "draft" =>
       /\ ws \cap (a.done \cup DOMAIN a.pending) = {}
       /\ ws \subseteq Posts => DOMAIN a.pending \cap Posts = {} /\ Room(t, a, ps)
       /\ ws \subseteq Comments =>
            Cardinality(RecordedOn(a, ps, Comments, Day(t))) < Most(CommentsPerDay)

OneWrite(x, ws) ==
  \/ x \in {"idle", "plan"} /\ ws = {}
  \/ x \in {"publish", "answer", "draft"} /\ \E w \in Items : ws = {w}

BudgetInv ==
  /\ Core(now, agent, published \ lost) /\ OneWrite(at, write) /\ lost \subseteq published
  /\ InHand(agent, at, write, published \ lost)
  /\ Planning(now, agent, at, write, published \ lost)

----------------------------------------------------------------------------
\* What the operators on the state of the agent do.

LEMMA PendingIs ==
  ASSUME NEW f
  PROVE  f \in Pendings <=> DOMAIN f \subseteq Items /\ f \in [DOMAIN f -> Nat]
<1>1. ASSUME f \in Pendings PROVE DOMAIN f \subseteq Items /\ f \in [DOMAIN f -> Nat]
  <2>1. PICK D \in SUBSET Items : f \in [D -> Nat]
    BY <1>1 DEF Pendings
  <2> QED BY <2>1
<1>2. ASSUME DOMAIN f \subseteq Items, f \in [DOMAIN f -> Nat] PROVE f \in Pendings
  BY <1>2 DEF Pendings
<1> QED BY <1>1, <1>2

\* A pending writes less some, and one more.
LEMMA PendingLess ==
  ASSUME NEW f \in Pendings, NEW D, D \subseteq DOMAIN f
  PROVE  /\ [w \in D |-> f[w]] \in Pendings /\ DOMAIN [w \in D |-> f[w]] = D
         /\ \A w \in D : [v \in D |-> f[v]][w] = f[w]
<1>1. PICK g : g = [w \in D |-> f[w]]
  OBVIOUS
<1>2. DOMAIN f \subseteq Items /\ \A w \in DOMAIN f : f[w] \in Nat
  BY PendingIs
<1>3. DOMAIN g = D /\ (\A w \in D : g[w] = f[w]) /\ g \in [D -> Nat] /\ D \subseteq Items
  BY <1>1, <1>2
<1>4. g \in Pendings
  BY <1>3 DEF Pendings
<1> QED BY <1>1, <1>3, <1>4

LEMMA NormalIs ==
  ASSUME now \in Nat, NEW s \in AgentState
  PROVE  /\ NormalState(s) \in AgentState /\ NormalState(s).date = Day(now)
         /\ NormalState(s).queue = s.queue /\ NormalState(s).running = s.running
         /\ NormalState(s).stale = s.stale /\ NormalState(s).pending = s.pending
         /\ NormalState(s).done = s.done
         /\ NormalState(s).lastPost = s.lastPost /\ NormalState(s).lastComment = s.lastComment
         /\ NormalState(s).posts = IF s.date = Day(now) THEN s.posts ELSE 0
         /\ NormalState(s).comments = IF s.date = Day(now) THEN s.comments ELSE 0
         /\ \/ NormalState(s) = s
            \/ s.date # Day(now) /\ NormalState(s).posts = 0 /\ NormalState(s).comments = 0
<1>1. PICK d \in Nat : d = Day(now)
  BY DayIs
<1>2. CASE s.date = d
  BY <1>1, <1>2 DEF NormalState
<1>3. CASE s.date # d
  <2>1. PICK n : n = [s EXCEPT !.date = d, !.posts = 0, !.comments = 0]
    OBVIOUS
  <2>2. NormalState(s) = n
    BY <1>1, <1>3, <2>1 DEF NormalState
  <2>3. /\ n \in AgentState /\ n.date = d /\ n.posts = 0 /\ n.comments = 0
        /\ n.queue = s.queue /\ n.running = s.running /\ n.stale = s.stale
        /\ n.pending = s.pending /\ n.done = s.done
        /\ n.lastPost = s.lastPost /\ n.lastComment = s.lastComment
    BY <2>1 DEF AgentState
  <2> QED BY <1>1, <1>3, <2>2, <2>3
<1> QED BY <1>2, <1>3

LEMMA LeaveIs ==
  ASSUME NEW s \in AgentState, NEW gone
  PROVE  /\ Leave(s, gone) \in AgentState
         /\ Leave(s, gone).queue = s.queue \ gone
         /\ Leave(s, gone).running = s.running \ gone
         /\ Leave(s, gone).stale = s.stale \ gone
         /\ DOMAIN Leave(s, gone).pending = DOMAIN s.pending \ gone
         /\ \A w \in DOMAIN s.pending \ gone : Leave(s, gone).pending[w] = s.pending[w]
         /\ Leave(s, gone).done = s.done /\ Leave(s, gone).date = s.date
         /\ Leave(s, gone).posts = s.posts /\ Leave(s, gone).comments = s.comments
         /\ Leave(s, gone).lastPost = s.lastPost /\ Leave(s, gone).lastComment = s.lastComment
<1>1. PICK f : f = [w \in DOMAIN s.pending \ gone |-> s.pending[w]]
  OBVIOUS
<1>2. s.pending \in Pendings
  BY DEF AgentState
<1>3. f \in Pendings /\ DOMAIN f = DOMAIN s.pending \ gone
      /\ \A w \in DOMAIN s.pending \ gone : f[w] = s.pending[w]
  <2>1. PICK D : D = DOMAIN s.pending \ gone
    OBVIOUS
  <2>2. D \subseteq DOMAIN s.pending /\ f = [w \in D |-> s.pending[w]]
    BY <1>1, <2>1
  <2>3. f \in Pendings /\ DOMAIN f = D /\ \A w \in D : f[w] = s.pending[w]
    BY <1>2, <2>2, PendingLess
  <2> QED BY <2>1, <2>3
<1>4. PICK l : l = [s EXCEPT !.queue = s.queue \ gone, !.running = s.running \ gone,
                             !.stale = s.stale \ gone, !.pending = f]
  OBVIOUS
<1>5. Leave(s, gone) = l
  BY <1>1, <1>4 DEF Leave
<1>6. /\ l \in AgentState
      /\ l.queue = s.queue \ gone /\ l.running = s.running \ gone /\ l.stale = s.stale \ gone
      /\ l.pending = f /\ l.done = s.done /\ l.date = s.date
      /\ l.posts = s.posts /\ l.comments = s.comments
      /\ l.lastPost = s.lastPost /\ l.lastComment = s.lastComment
  BY <1>3, <1>4 DEF AgentState
<1> QED BY <1>3, <1>5, <1>6

\* The writes of a set that were attempted on a day.
Of(s, ws, items, d) == {w \in ws \cap items : Day(s.pending[w]) = d}

LEMMA CountedIs ==
  ASSUME now \in Nat, NEW s \in AgentState, NEW ws, ws \subseteq DOMAIN s.pending, IsFiniteSet(ws),
         s.lastPost \in Never .. now, s.lastComment \in Never .. now,
         \A w \in ws : s.pending[w] <= now
  PROVE  /\ CountedToday(s, ws) \in AgentState /\ CountedToday(s, ws).date = Day(now)
         /\ CountedToday(s, ws).posts
              = NormalState(s).posts + Cardinality(Of(s, ws, Posts, Day(now)))
         /\ CountedToday(s, ws).comments
              = NormalState(s).comments + Cardinality(Of(s, ws, Comments, Day(now)))
         /\ CountedToday(s, ws).lastPost \in Never .. now
         /\ CountedToday(s, ws).lastPost >= s.lastPost
         /\ \A w \in ws \cap Posts : s.pending[w] <= CountedToday(s, ws).lastPost
         /\ CountedToday(s, ws).lastComment \in Never .. now
         /\ CountedToday(s, ws).queue = s.queue /\ CountedToday(s, ws).running = s.running
         /\ CountedToday(s, ws).stale = s.stale /\ CountedToday(s, ws).pending = s.pending
         /\ CountedToday(s, ws).done = s.done
<1>1. PICK n \in AgentState :
        /\ n = NormalState(s) /\ n.date = Day(now)
        /\ n.queue = s.queue /\ n.running = s.running /\ n.stale = s.stale
        /\ n.pending = s.pending /\ n.done = s.done
        /\ n.lastPost = s.lastPost /\ n.lastComment = s.lastComment
  BY NormalIs
<1>2. \A w \in ws : s.pending[w] \in Never .. now
  <2>1. s.pending \in Pendings
    BY DEF AgentState
  <2>2. \A w \in ws : s.pending[w] \in Nat
    BY <2>1, PendingIs
  <2> QED BY <2>2 DEF Never
<1>3. PICK P : P = {n.lastPost} \cup {s.pending[w] : w \in ws \cap Posts}
  OBVIOUS
<1>4. PICK C : C = {n.lastComment} \cup {s.pending[w] : w \in ws \cap Comments}
  OBVIOUS
<1>5. P \subseteq Never .. now /\ C \subseteq Never .. now /\ P # {} /\ C # {}
  BY <1>1, <1>2, <1>3, <1>4
<1>6. Max(P) \in P /\ (\A x \in P : x <= Max(P)) /\ Max(C) \in C
  BY <1>5, LatestIs
<1>7. PICK A : A = Of(s, ws, Posts, Day(now))
  OBVIOUS
<1>8. PICK B : B = Of(s, ws, Comments, Day(now))
  OBVIOUS
<1>9. Cardinality(A) \in Nat /\ Cardinality(B) \in Nat
  <2>1. A \subseteq ws /\ B \subseteq ws
    BY <1>7, <1>8 DEF Of
  <2>2. IsFiniteSet(A) /\ IsFiniteSet(B)
    BY <2>1, FS_Subset
  <2> QED BY <2>2, FS_CardinalityType
<1>10. PICK c : c = [n EXCEPT !.posts = n.posts + Cardinality(A),
                             !.comments = n.comments + Cardinality(B),
                             !.lastPost = Max(P), !.lastComment = Max(C)]
  OBVIOUS
<1>11. CountedToday(s, ws) = c
  <2>1. {w \in ws : Day(s.pending[w]) = Day(now)} \cap Posts = A
    BY <1>7 DEF Of
  <2>2. {w \in ws : Day(s.pending[w]) = Day(now)} \cap Comments = B
    BY <1>8 DEF Of
  <2> QED BY <1>1, <1>3, <1>4, <1>10, <2>1, <2>2 DEF CountedToday
<1>12. Max(P) \in Never .. now /\ Max(C) \in Never .. now
  BY <1>5, <1>6
<1>13. Max(P) \in Int /\ Max(C) \in Int
  BY <1>12 DEF Never
<1>14. n.posts + Cardinality(A) \in Nat /\ n.comments + Cardinality(B) \in Nat
  BY <1>9 DEF AgentState
<1>15. /\ c \in AgentState
       /\ c.date = n.date /\ c.posts = n.posts + Cardinality(A)
       /\ c.comments = n.comments + Cardinality(B)
       /\ c.lastPost = Max(P) /\ c.lastComment = Max(C)
       /\ c.queue = n.queue /\ c.running = n.running /\ c.stale = n.stale
       /\ c.pending = n.pending /\ c.done = n.done
  BY <1>10, <1>13, <1>14 DEF AgentState
<1>16. s.lastPost \in P /\ \A w \in ws \cap Posts : s.pending[w] \in P
  BY <1>1, <1>3
<1>17. c.lastPost >= s.lastPost /\ \A w \in ws \cap Posts : s.pending[w] <= c.lastPost
  <2>1. s.lastPost <= Max(P) /\ s.lastPost \in Int
    BY <1>6, <1>16 DEF Never
  <2> QED BY <1>6, <1>13, <1>15, <1>16, <2>1
<1> QED BY <1>1, <1>7, <1>8, <1>11, <1>12, <1>15, <1>17

LEMMA RecordIs ==
  ASSUME now \in Nat, NEW s \in AgentState, NEW ws, ws \subseteq DOMAIN s.pending, IsFiniteSet(ws),
         s.lastPost \in Never .. now, s.lastComment \in Never .. now,
         \A w \in ws : s.pending[w] <= now
  PROVE  /\ RecordWrites(s, ws) \in AgentState /\ RecordWrites(s, ws).date = Day(now)
         /\ RecordWrites(s, ws).posts
              = NormalState(s).posts + Cardinality(Of(s, ws, Posts, Day(now)))
         /\ RecordWrites(s, ws).comments
              = NormalState(s).comments + Cardinality(Of(s, ws, Comments, Day(now)))
         /\ RecordWrites(s, ws).lastPost \in Never .. now
         /\ RecordWrites(s, ws).lastPost >= s.lastPost
         /\ \A w \in ws \cap Posts : s.pending[w] <= RecordWrites(s, ws).lastPost
         /\ RecordWrites(s, ws).lastComment \in Never .. now
         /\ RecordWrites(s, ws).queue = s.queue \ ws
         /\ RecordWrites(s, ws).running = s.running \ ws
         /\ RecordWrites(s, ws).stale = s.stale \ ws
         /\ DOMAIN RecordWrites(s, ws).pending = DOMAIN s.pending \ ws
         /\ \A w \in DOMAIN s.pending \ ws : RecordWrites(s, ws).pending[w] = s.pending[w]
         /\ RecordWrites(s, ws).done = s.done \cup ws
<1>1. PICK c : c = CountedToday(s, ws)
  OBVIOUS
<1>2. /\ c \in AgentState /\ c.date = Day(now)
      /\ c.posts = NormalState(s).posts + Cardinality(Of(s, ws, Posts, Day(now)))
      /\ c.comments = NormalState(s).comments + Cardinality(Of(s, ws, Comments, Day(now)))
      /\ c.lastPost \in Never .. now /\ c.lastPost >= s.lastPost
      /\ \A w \in ws \cap Posts : s.pending[w] <= c.lastPost
      /\ c.lastComment \in Never .. now
      /\ c.queue = s.queue /\ c.running = s.running /\ c.stale = s.stale
      /\ c.pending = s.pending /\ c.done = s.done
  BY <1>1, CountedIs
<1>3. PICK l : l = Leave(c, ws)
  OBVIOUS
<1>4. /\ l \in AgentState /\ l.queue = c.queue \ ws /\ l.running = c.running \ ws
      /\ l.stale = c.stale \ ws /\ DOMAIN l.pending = DOMAIN c.pending \ ws
      /\ \A w \in DOMAIN c.pending \ ws : l.pending[w] = c.pending[w]
      /\ l.done = c.done /\ l.date = c.date
      /\ l.posts = c.posts /\ l.comments = c.comments
      /\ l.lastPost = c.lastPost /\ l.lastComment = c.lastComment
  BY <1>2, <1>3, LeaveIs
<1>5. PICK r : r = [l EXCEPT !.done = l.done \cup ws]
  OBVIOUS
<1>6. RecordWrites(s, ws) = r
  BY <1>1, <1>3, <1>5 DEF RecordWrites
<1>7. ws \subseteq Items
  <2>1. s.pending \in Pendings
    BY DEF AgentState
  <2> QED BY <2>1, PendingIs
<1>8. /\ r \in AgentState /\ r.done = l.done \cup ws
      /\ r.queue = l.queue /\ r.running = l.running /\ r.stale = l.stale
      /\ r.pending = l.pending /\ r.date = l.date
      /\ r.posts = l.posts /\ r.comments = l.comments
      /\ r.lastPost = l.lastPost /\ r.lastComment = l.lastComment
  BY <1>4, <1>5, <1>7 DEF AgentState
<1> QED BY <1>2, <1>4, <1>6, <1>8

----------------------------------------------------------------------------
\* Counting.

LEMMA AtMost ==
  ASSUME NEW T, IsFiniteSet(T), NEW S, S \subseteq T
  PROVE  /\ IsFiniteSet(S) /\ Cardinality(S) \in Nat /\ Cardinality(T) \in Nat
         /\ Cardinality(S) <= Cardinality(T)
<1>1. IsFiniteSet(S) /\ Cardinality(S) <= Cardinality(T)
  BY FS_Subset
<1> QED BY <1>1, FS_CardinalityType

LEMMA OneMore ==
  ASSUME NEW T, IsFiniteSet(T), NEW w, NEW S, S \subseteq T \cup {w}
  PROVE  /\ IsFiniteSet(S) /\ Cardinality(S) \in Nat /\ Cardinality(T) \in Nat
         /\ Cardinality(S) <= Cardinality(T) + 1
<1>1. IsFiniteSet(T \cup {w}) /\ Cardinality(T) \in Nat
  BY FS_AddElement, FS_CardinalityType
<1>2. Cardinality(T \cup {w}) <= Cardinality(T) + 1
  <2>1. Cardinality(T \cup {w}) = IF w \in T THEN Cardinality(T) ELSE Cardinality(T) + 1
    BY FS_AddElement
  <2> QED BY <1>1, <2>1
<1>3. /\ IsFiniteSet(S) /\ Cardinality(S) \in Nat /\ Cardinality(T \cup {w}) \in Nat
      /\ Cardinality(S) <= Cardinality(T \cup {w})
  BY <1>1, AtMost
<1> QED BY <1>1, <1>2, <1>3

LEMMA SumAtMost ==
  ASSUME NEW S, IsFiniteSet(S), NEW T, IsFiniteSet(T)
  PROVE  /\ IsFiniteSet(S \cup T) /\ Cardinality(S \cup T) \in Nat
         /\ Cardinality(S) \in Nat /\ Cardinality(T) \in Nat
         /\ Cardinality(S \cup T) <= Cardinality(S) + Cardinality(T)
<1>1. /\ IsFiniteSet(S \cup T)
      /\ Cardinality(S \cup T) = Cardinality(S) + Cardinality(T) - Cardinality(S \cap T)
  BY FS_Union
<1>2. IsFiniteSet(S \cap T)
  BY FS_Intersection
<1>3. /\ Cardinality(S \cup T) \in Nat /\ Cardinality(S) \in Nat /\ Cardinality(T) \in Nat
      /\ Cardinality(S \cap T) \in Nat
  BY <1>1, <1>2, FS_CardinalityType
<1> QED BY <1>1, <1>3

\* Whatever is counted is finite.
LEMMA CountedAreFinite ==
  ASSUME NEW t, NEW a, NEW ps, AgentOK(t, a), KnownOK(t, a, ps), NEW items, NEW d
  PROVE  /\ IsFiniteSet(PublishedOn(ps, items, d)) /\ IsFiniteSet(RecordedOn(a, ps, items, d))
         /\ IsFiniteSet(RecordedOn(a, ps, items, d) \cup AttemptedOn(a, items, d))
         /\ IsFiniteSet(RecordedOn(a, ps, items, d) \cup (a.queue \cap items))
<1>1. IsFiniteSet(a.done) /\ IsFiniteSet(a.queue) /\ IsFiniteSet(DOMAIN a.pending)
  BY DEF AgentOK
<1>2. IsFiniteSet(a.done \cup DOMAIN a.pending) /\ IsFiniteSet(a.done \cup a.queue)
  BY <1>1, FS_Union
<1>3. PublishedOn(ps, items, d) \subseteq a.done \cup DOMAIN a.pending
  BY DEF PublishedOn, KnownOK, UnderWay
<1>4. RecordedOn(a, ps, items, d) \subseteq a.done
  BY DEF RecordedOn
<1>5. RecordedOn(a, ps, items, d) \cup AttemptedOn(a, items, d) \subseteq a.done \cup a.queue
  BY <1>4 DEF AttemptedOn
<1>6. RecordedOn(a, ps, items, d) \cup (a.queue \cap items) \subseteq a.done \cup a.queue
  BY <1>4
<1> QED BY <1>1, <1>2, <1>3, <1>4, <1>5, <1>6, FS_Subset

\* Nothing was published on a day that is still to come.
LEMMA NoneLater ==
  ASSUME NEW t \in Nat, NEW a, NEW ps, KnownOK(t, a, ps), NEW d \in Nat, d > Day(t), NEW items
  PROVE  PublishedOn(ps, items, d) = {} /\ RecordedOn(a, ps, items, d) = {}
<1>1. ASSUME NEW p \in ps PROVE Day(p.created) # d
  <2>1. p.created \in Nat /\ p.time \in Nat /\ p.created <= t
    BY DEF KnownOK, Publication
  <2>2. Day(p.created) <= Day(t) /\ Day(p.created) \in Nat /\ Day(t) \in Nat
    BY <2>1, DayIs
  <2> QED BY <2>2
<1> QED BY <1>1 DEF PublishedOn, RecordedOn

\* Room for a post stays, unless one is recorded.
LEMMA RoomLater ==
  ASSUME NEW t \in Nat, NEW u \in Nat, t <= u, NEW a, NEW ps,
         AgentOK(t, a), KnownOK(t, a, ps), Room(t, a, ps)
  PROVE  Room(u, a, ps)
<1>1. Day(t) \in Nat /\ Day(u) \in Nat /\ Day(t) <= Day(u)
  BY DayIs
<1>2. Cardinality(RecordedOn(a, ps, Posts, Day(t))) \in Nat
  BY CountedAreFinite, FS_CardinalityType
<1>3. Most(PostsPerDay) \in Nat
  BY MostIs, BudgetConstants
<1>4. Cardinality(RecordedOn(a, ps, Posts, Day(u))) < Most(PostsPerDay)
  <2>1. CASE Day(u) = Day(t)
    BY <2>1 DEF Room
  <2>2. CASE Day(u) # Day(t)
    <3>1. RecordedOn(a, ps, Posts, Day(u)) = {}
      BY <1>1, <2>2, NoneLater
    <3>2. Cardinality(RecordedOn(a, ps, Posts, Day(u))) = 0
      BY <3>1, FS_EmptySet
    <3>3. Cardinality(RecordedOn(a, ps, Posts, Day(t))) < Most(PostsPerDay)
      BY DEF Room
    <3> QED BY <1>2, <1>3, <3>2, <3>3
  <2> QED BY <2>1, <2>2
<1>5. ASSUME NEW p \in ps, p.item \in Posts \cap a.done PROVE p.created + LeastSpacing <= u
  <2>1. p.created + LeastSpacing <= t
    BY <1>5 DEF Room
  <2>2. p.created \in Nat /\ LeastSpacing \in Nat
    BY LeastIs DEF KnownOK, Publication
  <2> QED BY <2>1, <2>2
<1> QED BY <1>4, <1>5 DEF Room

----------------------------------------------------------------------------
\* The moves.

\* A period passes.
LEMMA CoreLater ==
  ASSUME NEW t, NEW a, NEW ps, Core(t, a, ps)
  PROVE  Core(t + 1, a, ps)
<1>1. /\ t \in Nat /\ AgentOK(t, a) /\ QueueOK(a) /\ KnownOK(t, a, ps)
      /\ CountsOK(a, ps) /\ PostsOK(t, a, ps) /\ CommentsOK(t, a, ps)
  BY DEF Core, AgentOK
<1>2. PICK u \in Nat : u = t + 1
  BY <1>1
<1>3. Day(t) \in Nat /\ Day(u) \in Nat /\ Day(t) <= Day(u) /\ a.date \in Nat
  BY <1>1, <1>2, DayIs DEF AgentOK, AgentState
<1>4. AgentOK(u, a)
  <2>1. a.date <= Day(u)
    BY <1>1, <1>3 DEF AgentOK
  <2>2. a.lastPost \in Never .. u /\ a.lastComment \in Never .. u
    BY <1>1, <1>2 DEF AgentOK, Never
  <2>3. \A w \in DOMAIN a.pending : a.pending[w] <= u
    <3>1. a.pending \in Pendings
      BY <1>1 DEF AgentOK, AgentState
    <3>2. \A w \in DOMAIN a.pending : a.pending[w] \in Nat /\ a.pending[w] <= t
      BY <1>1, <3>1, PendingIs DEF AgentOK
    <3> QED BY <1>1, <1>2, <3>2
  <2> QED BY <1>1, <2>1, <2>2, <2>3 DEF AgentOK
<1>5. KnownOK(u, a, ps)
  <2>1. \A p \in ps : p.time \in Nat /\ p.time <= t
    BY <1>1 DEF KnownOK, Publication
  <2>2. \A p \in ps : p.time <= u
    BY <1>1, <1>2, <2>1
  <2> QED BY <1>1, <2>2 DEF KnownOK
<1>6. PostsOK(u, a, ps)
  <2>1. Room(t, a, ps) => Room(u, a, ps)
    BY <1>1, <1>2, RoomLater
  <2> QED BY <1>1, <2>1 DEF PostsOK
<1>7. CommentsOK(u, a, ps)
  <2>1. PICK m \in Nat : m = Most(CommentsPerDay)
    BY MostIs, BudgetConstants
  <2>2. QueueLimit \in Nat /\ QueueLimit > 0
    BY BudgetConstants
  <2>3. Cardinality(RecordedOn(a, ps, Comments, Day(u)) \cup (a.queue \cap Comments)) < m + QueueLimit
    <3>1. CASE Day(u) = Day(t)
      BY <1>1, <2>1, <3>1 DEF CommentsOK
    <3>2. CASE Day(u) # Day(t)
      <4>1. RecordedOn(a, ps, Comments, Day(u)) = {}
        BY <1>1, <1>3, <3>2, NoneLater
      <4>2. PICK q : q = a.queue \cap Comments
        OBVIOUS
      <4>3. IsFiniteSet(a.queue) /\ Cardinality(a.queue) <= QueueLimit
        BY <1>1 DEF AgentOK
      <4>4. q \subseteq a.queue
        BY <4>2
      <4>5. Cardinality(q) \in Nat /\ Cardinality(a.queue) \in Nat /\ Cardinality(q) <= Cardinality(a.queue)
        BY <4>3, <4>4, AtMost
      <4>6. Cardinality(q) < m + QueueLimit
        <5>1. CASE m = 0
          <6>1. q = {}
            BY <1>1, <2>1, <4>2, <5>1 DEF CommentsOK
          <6>2. Cardinality(q) = 0
            BY <6>1, FS_EmptySet
          <6> QED BY <2>1, <2>2, <6>2
        <5>2. CASE m # 0
          BY <2>1, <2>2, <4>3, <4>5, <5>2
        <5> QED BY <5>1, <5>2
      <4>7. RecordedOn(a, ps, Comments, Day(u)) \cup (a.queue \cap Comments) = q
        BY <4>1, <4>2
      <4> QED BY <4>6, <4>7
    <3> QED BY <3>1, <3>2
  <2> QED BY <1>1, <2>1, <2>3 DEF CommentsOK
<1> QED BY <1>1, <1>2, <1>4, <1>5, <1>6, <1>7 DEF Core

\* Publications turn out to be lost: less is recorded, and nothing else changes.
LEMMA CoreFewer ==
  ASSUME NEW t, NEW a, NEW ps, Core(t, a, ps), NEW qs, qs \subseteq ps
  PROVE  Core(t, a, qs)
<1>1. /\ t \in Nat /\ AgentOK(t, a) /\ QueueOK(a) /\ KnownOK(t, a, ps)
      /\ CountsOK(a, ps) /\ PostsOK(t, a, ps) /\ CommentsOK(t, a, ps)
  BY DEF Core, AgentOK
<1>2. KnownOK(t, a, qs)
  BY <1>1 DEF KnownOK
<1>3. ASSUME NEW items, NEW d
      PROVE  /\ PublishedOn(qs, items, d) \subseteq PublishedOn(ps, items, d)
             /\ RecordedOn(a, qs, items, d) \subseteq RecordedOn(a, ps, items, d)
  BY DEF PublishedOn, RecordedOn
<1>4. ASSUME NEW items, NEW d
      PROVE  /\ Cardinality(PublishedOn(qs, items, d)) \in Nat
             /\ Cardinality(PublishedOn(ps, items, d)) \in Nat
             /\ Cardinality(PublishedOn(qs, items, d)) <= Cardinality(PublishedOn(ps, items, d))
             /\ Cardinality(RecordedOn(a, qs, items, d)) \in Nat
             /\ Cardinality(RecordedOn(a, ps, items, d)) \in Nat
             /\ Cardinality(RecordedOn(a, qs, items, d)) <= Cardinality(RecordedOn(a, ps, items, d))
  <2>1. IsFiniteSet(PublishedOn(ps, items, d)) /\ IsFiniteSet(RecordedOn(a, ps, items, d))
    BY <1>1, CountedAreFinite
  <2> QED BY <1>3, <2>1, AtMost
<1>5. Most(PostsPerDay) \in Nat /\ Most(CommentsPerDay) \in Nat /\ QueueLimit \in Nat
  BY MostIs, BudgetConstants
<1>6. CountsOK(a, qs)
  <2>1. a.posts \in Nat /\ a.comments \in Nat
    BY <1>1 DEF AgentOK, AgentState
  <2>2. /\ Cardinality(RecordedOn(a, ps, Posts, a.date)) <= a.posts
        /\ Cardinality(RecordedOn(a, ps, Comments, a.date)) <= a.comments
    BY <1>1 DEF CountsOK
  <2>3. /\ Cardinality(RecordedOn(a, qs, Posts, a.date)) <= a.posts
        /\ Cardinality(RecordedOn(a, qs, Comments, a.date)) <= a.comments
    BY <1>4, <2>1, <2>2
  <2>4. \A p \in qs : p.item \in Posts \cap a.done => p.created <= a.lastPost
    BY <1>1 DEF CountsOK
  <2> QED BY <2>3, <2>4 DEF CountsOK
<1>7. ASSUME NEW u, Room(u, a, ps) PROVE Room(u, a, qs)
  <2>1. Cardinality(RecordedOn(a, ps, Posts, Day(u))) < Most(PostsPerDay)
    BY <1>7 DEF Room
  <2>2. Cardinality(RecordedOn(a, qs, Posts, Day(u))) < Most(PostsPerDay)
    BY <1>4, <1>5, <2>1
  <2> QED BY <1>7, <2>2 DEF Room
<1>8. PostsOK(t, a, qs)
  <2>1. \A d \in Nat : Cardinality(PublishedOn(qs, Posts, d)) <= Most(PostsPerDay)
    <3> TAKE d \in Nat
    <3>1. Cardinality(PublishedOn(ps, Posts, d)) <= Most(PostsPerDay)
      BY <1>1 DEF PostsOK
    <3> QED BY <1>4, <1>5, <3>1
  <2>2. \A p, q \in qs :
          {p.item, q.item} \subseteq Posts /\ p # q /\ p.created <= q.created
            => p.created + LeastSpacing <= q.created
    BY <1>1 DEF PostsOK
  <2>3. /\ \A v, w \in Afoot(a) \cap Posts : v = w
        /\ Afoot(a) \cap Posts # {} => Room(t, a, ps)
        /\ \A w \in DOMAIN a.pending \cap Posts : Room(a.pending[w], a, ps)
    BY <1>1 DEF PostsOK
  <2>4. Afoot(a) \cap Posts # {} => Room(t, a, qs)
    BY <1>7, <2>3
  <2>5. \A w \in DOMAIN a.pending \cap Posts : Room(a.pending[w], a, qs)
    BY <1>7, <2>3
  <2> QED BY <2>1, <2>2, <2>3, <2>4, <2>5 DEF PostsOK
<1>9. CommentsOK(t, a, qs)
  <2>1. ASSUME NEW d, NEW S, IsFiniteSet(RecordedOn(a, ps, Comments, d) \cup S),
               Cardinality(RecordedOn(a, ps, Comments, d) \cup S) < Most(CommentsPerDay) + QueueLimit
        PROVE  Cardinality(RecordedOn(a, qs, Comments, d) \cup S) < Most(CommentsPerDay) + QueueLimit
    <3>1. RecordedOn(a, qs, Comments, d) \cup S \subseteq RecordedOn(a, ps, Comments, d) \cup S
      BY <1>3
    <3>2. /\ Cardinality(RecordedOn(a, qs, Comments, d) \cup S) \in Nat
          /\ Cardinality(RecordedOn(a, ps, Comments, d) \cup S) \in Nat
          /\ Cardinality(RecordedOn(a, qs, Comments, d) \cup S)
               <= Cardinality(RecordedOn(a, ps, Comments, d) \cup S)
      BY <2>1, <3>1, AtMost
    <3> QED BY <1>5, <2>1, <3>2
  <2>2. Cardinality(RecordedOn(a, qs, Comments, Day(t)) \cup (a.queue \cap Comments))
          < Most(CommentsPerDay) + QueueLimit
    <3>1. IsFiniteSet(RecordedOn(a, ps, Comments, Day(t)) \cup (a.queue \cap Comments))
      BY <1>1, CountedAreFinite
    <3> QED BY <1>1, <2>1, <3>1 DEF CommentsOK
  <2>3. ASSUME NEW d \in Nat
        PROVE  Cardinality(RecordedOn(a, qs, Comments, d) \cup AttemptedOn(a, Comments, d))
                 < Most(CommentsPerDay) + QueueLimit
    <3>1. IsFiniteSet(RecordedOn(a, ps, Comments, d) \cup AttemptedOn(a, Comments, d))
      BY <1>1, CountedAreFinite
    <3> QED BY <1>1, <2>1, <3>1 DEF CommentsOK
  <2> QED BY <1>1, <2>2, <2>3 DEF CommentsOK
<1> QED BY <1>1, <1>2, <1>6, <1>8, <1>9 DEF Core

\* Writes leave the queue or are not pending any more, but for those that were published.
Shrunk(a, b, ps) ==
  /\ b \in AgentState /\ b.done = a.done /\ b.date = a.date
  /\ b.posts = a.posts /\ b.comments = a.comments
  /\ b.lastPost = a.lastPost /\ b.lastComment = a.lastComment
  /\ b.queue \subseteq a.queue /\ b.running \subseteq b.queue /\ b.stale \subseteq b.running
  /\ DOMAIN b.pending \subseteq DOMAIN a.pending
  /\ \A w \in DOMAIN b.pending : b.pending[w] = a.pending[w]
  /\ DOMAIN b.pending \cap b.queue \subseteq b.running
  /\ \A p \in ps : p.item \notin a.done => p.item \in UnderWay(b)

LEMMA CoreShrunk ==
  ASSUME NEW t, NEW a, NEW b, NEW ps, Core(t, a, ps), Shrunk(a, b, ps)
  PROVE  Core(t, b, ps)
<1>1. /\ t \in Nat /\ AgentOK(t, a) /\ QueueOK(a) /\ KnownOK(t, a, ps)
      /\ CountsOK(a, ps) /\ PostsOK(t, a, ps) /\ CommentsOK(t, a, ps)
  BY DEF Core, AgentOK
<1>2. AgentOK(t, b)
  <2>1. IsFiniteSet(a.queue) /\ IsFiniteSet(DOMAIN a.pending)
    BY <1>1 DEF AgentOK
  <2>2. b.queue \subseteq a.queue /\ DOMAIN b.pending \subseteq DOMAIN a.pending
    BY DEF Shrunk
  <2>3. IsFiniteSet(b.queue) /\ IsFiniteSet(DOMAIN b.pending)
    BY <2>1, <2>2, AtMost
  <2>4. /\ Cardinality(b.queue) \in Nat /\ Cardinality(a.queue) \in Nat
        /\ Cardinality(b.queue) <= Cardinality(a.queue)
    BY <2>1, <2>2, AtMost
  <2>5. Cardinality(b.queue) <= QueueLimit
    BY <1>1, <2>4, BudgetConstants DEF AgentOK
  <2> QED BY <1>1, <2>3, <2>5 DEF AgentOK, Shrunk
<1>3. QueueOK(b)
  BY <1>1 DEF QueueOK, Shrunk, Afoot
<1>4. KnownOK(t, b, ps)
  <2>1. \A p \in ps : p.item \notin b.done => p.item \in UnderWay(b) /\ b.pending[p.item] = p.created
    BY <1>1 DEF KnownOK, Shrunk, UnderWay
  <2> QED BY <1>1, <2>1 DEF KnownOK, Shrunk
<1>5. \A items, d : RecordedOn(b, ps, items, d) = RecordedOn(a, ps, items, d)
  BY DEF RecordedOn, Shrunk
<1>6. CountsOK(b, ps)
  BY <1>1, <1>5 DEF CountsOK, Shrunk
<1>7. \A u : Room(u, a, ps) => Room(u, b, ps)
  BY <1>5 DEF Room, Shrunk
<1>8. PostsOK(t, b, ps)
  <2>1. Afoot(b) \subseteq Afoot(a)
    BY DEF Afoot, Shrunk
  <2>2. \A w \in DOMAIN b.pending \cap Posts : Room(b.pending[w], b, ps)
    BY <1>1, <1>7 DEF PostsOK, Shrunk
  <2> QED BY <1>1, <1>7, <2>1, <2>2 DEF PostsOK
<1>9. CommentsOK(t, b, ps)
  <2>1. b.queue \subseteq a.queue
    BY DEF Shrunk
  <2>2. Most(CommentsPerDay) \in Nat /\ QueueLimit \in Nat
    BY MostIs, BudgetConstants
  <2>3. ASSUME NEW S, NEW T, IsFiniteSet(T), S \subseteq T,
               Cardinality(T) < Most(CommentsPerDay) + QueueLimit
        PROVE  Cardinality(S) < Most(CommentsPerDay) + QueueLimit
    <3>1. Cardinality(S) \in Nat /\ Cardinality(T) \in Nat /\ Cardinality(S) <= Cardinality(T)
      BY <2>3, AtMost
    <3> QED BY <2>2, <2>3, <3>1
  <2>4. Cardinality(RecordedOn(b, ps, Comments, Day(t)) \cup (b.queue \cap Comments))
          < Most(CommentsPerDay) + QueueLimit
    <3>1. RecordedOn(b, ps, Comments, Day(t)) \cup (b.queue \cap Comments)
            \subseteq RecordedOn(a, ps, Comments, Day(t)) \cup (a.queue \cap Comments)
      BY <1>5, <2>1
    <3>2. IsFiniteSet(RecordedOn(a, ps, Comments, Day(t)) \cup (a.queue \cap Comments))
      BY <1>1, CountedAreFinite
    <3>3. Cardinality(RecordedOn(a, ps, Comments, Day(t)) \cup (a.queue \cap Comments))
            < Most(CommentsPerDay) + QueueLimit
      BY <1>1 DEF CommentsOK
    <3> QED BY <2>3, <3>1, <3>2, <3>3
  <2>5. ASSUME NEW d \in Nat
        PROVE  Cardinality(RecordedOn(b, ps, Comments, d) \cup AttemptedOn(b, Comments, d))
                 < Most(CommentsPerDay) + QueueLimit
    <3>1. AttemptedOn(b, Comments, d) \subseteq AttemptedOn(a, Comments, d)
      BY DEF AttemptedOn, Shrunk
    <3>2. RecordedOn(b, ps, Comments, d) \cup AttemptedOn(b, Comments, d)
            \subseteq RecordedOn(a, ps, Comments, d) \cup AttemptedOn(a, Comments, d)
      BY <1>5, <3>1
    <3>3. IsFiniteSet(RecordedOn(a, ps, Comments, d) \cup AttemptedOn(a, Comments, d))
      BY <1>1, CountedAreFinite
    <3>4. Cardinality(RecordedOn(a, ps, Comments, d) \cup AttemptedOn(a, Comments, d))
            < Most(CommentsPerDay) + QueueLimit
      BY <1>1 DEF CommentsOK
    <3> QED BY <2>3, <3>2, <3>3, <3>4
  <2>6. Most(CommentsPerDay) = 0 => b.queue \cap Comments = {}
    BY <1>1, <2>1 DEF CommentsOK
  <2> QED BY <2>4, <2>5, <2>6 DEF CommentsOK
<1> QED BY <1>2, <1>3, <1>4, <1>6, <1>8, <1>9 DEF Core

\* A new day begins: nothing of it is recorded.
LEMMA CoreNormal ==
  ASSUME NEW a, NEW ps, Core(now, a, ps)
  PROVE  Core(now, NormalState(a), ps)
<1>1. /\ now \in Nat /\ AgentOK(now, a) /\ QueueOK(a) /\ KnownOK(now, a, ps)
      /\ CountsOK(a, ps) /\ PostsOK(now, a, ps) /\ CommentsOK(now, a, ps) /\ a \in AgentState
  BY DEF Core, AgentOK
<1>2. PICK b : b = NormalState(a)
  OBVIOUS
<1>3. /\ b \in AgentState /\ b.date = Day(now)
      /\ b.queue = a.queue /\ b.running = a.running /\ b.stale = a.stale
      /\ b.pending = a.pending /\ b.done = a.done
      /\ b.lastPost = a.lastPost /\ b.lastComment = a.lastComment
      /\ (b = a \/ (a.date # Day(now) /\ b.posts = 0 /\ b.comments = 0))
  BY <1>1, <1>2, NormalIs
<1>4. Day(now) \in Nat /\ a.date \in Nat /\ a.date <= Day(now)
  BY <1>1, DayIs DEF AgentOK, AgentState
<1>5. CASE b = a
  BY <1>2, <1>5
<1>6. CASE a.date # Day(now) /\ b.posts = 0 /\ b.comments = 0
  <2>1. AgentOK(now, b)
    BY <1>1, <1>3, <1>4 DEF AgentOK
  <2>2. QueueOK(b)
    BY <1>1, <1>3 DEF QueueOK, Afoot
  <2>3. ASSUME NEW p \in ps, p.item \in a.done PROVE Day(p.created) < Day(now)
    <3>1. Day(p.created) <= a.date
      BY <1>1, <2>3 DEF KnownOK
    <3>2. p.created \in Nat
      BY <1>1 DEF KnownOK, Publication
    <3>3. Day(p.created) \in Nat
      BY <3>2, DayIs
    <3> QED BY <1>4, <1>6, <3>1, <3>3
  <2>4. KnownOK(now, b, ps)
    <3>1. \A p \in ps : p.item \in b.done => Day(p.created) <= b.date
      <4> TAKE p \in ps
      <4> HAVE p.item \in b.done
      <4>1. Day(p.created) < Day(now)
        BY <1>3, <2>3
      <4>2. p.created \in Nat
        BY <1>1 DEF KnownOK, Publication
      <4>3. Day(p.created) \in Nat
        BY <4>2, DayIs
      <4> QED BY <1>3, <1>4, <4>1, <4>3
    <3>2. \A p \in ps :
            p.item \notin b.done => p.item \in UnderWay(b) /\ b.pending[p.item] = p.created
      BY <1>1, <1>3 DEF KnownOK, UnderWay
    <3> QED BY <1>1, <3>1, <3>2 DEF KnownOK
  <2>5. \A items, d : RecordedOn(b, ps, items, d) = RecordedOn(a, ps, items, d)
    BY <1>3 DEF RecordedOn
  <2>6. CountsOK(b, ps)
    <3>1. ASSUME NEW items PROVE RecordedOn(b, ps, items, b.date) = {}
      BY <1>3, <1>4, <2>3 DEF RecordedOn, PublishedOn
    <3>2. Cardinality({}) = 0
      BY FS_EmptySet
    <3>3. \A p \in ps : p.item \in Posts \cap b.done => p.created <= b.lastPost
      BY <1>1, <1>3 DEF CountsOK
    <3>4. RecordedOn(b, ps, Posts, b.date) = {} /\ RecordedOn(b, ps, Comments, b.date) = {}
      BY <3>1
    <3> QED BY <1>6, <3>2, <3>3, <3>4 DEF CountsOK
  <2>7. \A u : Room(u, a, ps) => Room(u, b, ps)
    BY <1>3, <2>5 DEF Room
  <2>8. PostsOK(now, b, ps)
    <3>1. Afoot(b) = Afoot(a)
      BY <1>3 DEF Afoot
    <3> QED BY <1>1, <1>3, <2>7, <3>1 DEF PostsOK
  <2>9. CommentsOK(now, b, ps)
    <3>1. \A d : AttemptedOn(b, Comments, d) = AttemptedOn(a, Comments, d)
      BY <1>3 DEF AttemptedOn
    <3> QED BY <1>1, <1>3, <2>5, <3>1 DEF CommentsOK
  <2> QED BY <1>2, <2>1, <2>2, <2>4, <2>6, <2>8, <2>9 DEF Core
<1> QED BY <1>3, <1>5, <1>6

\* A write is picked: its attempt begins now.
IsPicked(t, a, b, w) ==
  /\ b \in AgentState /\ b.done = a.done /\ b.date = a.date
  /\ b.posts = a.posts /\ b.comments = a.comments
  /\ b.lastPost = a.lastPost /\ b.lastComment = a.lastComment
  /\ b.queue = a.queue /\ b.running = a.running \cup {w} /\ b.stale = a.stale \ {w}
  /\ DOMAIN b.pending = DOMAIN a.pending \cup {w} /\ b.pending[w] = t
  /\ \A v \in DOMAIN a.pending : v # w => b.pending[v] = a.pending[v]

LEMMA CorePicked ==
  ASSUME NEW t, NEW a, NEW b, NEW ps, Core(t, a, ps),
         NEW w \in a.queue \ (a.running \ a.stale), IsPicked(t, a, b, w)
  PROVE  /\ Core(t, b, ps) /\ w \in UnderWay(b)
         /\ \A p \in ps : p.item # w
<1>1. /\ t \in Nat /\ AgentOK(t, a) /\ QueueOK(a) /\ KnownOK(t, a, ps)
      /\ CountsOK(a, ps) /\ PostsOK(t, a, ps) /\ CommentsOK(t, a, ps)
  BY DEF Core, AgentOK
<1>2. AgentOK(t, b)
  <2>1. IsFiniteSet(DOMAIN b.pending)
    <3>1. IsFiniteSet(DOMAIN a.pending \cup {w})
      BY <1>1, FS_AddElement DEF AgentOK
    <3> QED BY <3>1 DEF IsPicked
  <2>2. \A v \in DOMAIN b.pending : b.pending[v] <= t
    BY <1>1 DEF AgentOK, IsPicked
  <2> QED BY <1>1, <2>1, <2>2 DEF AgentOK, IsPicked
<1>3. QueueOK(b)
  BY <1>1 DEF QueueOK, IsPicked, Afoot
<1>4. \A p \in ps : p.item # w
  <2> TAKE p \in ps
  <2>1. CASE p.item \in a.done
    BY <1>1, <2>1 DEF QueueOK, Afoot
  <2>2. CASE p.item \notin a.done
    BY <1>1, <2>2 DEF KnownOK, UnderWay
  <2> QED BY <2>1, <2>2
<1>5. KnownOK(t, b, ps)
  <2>1. \A p \in ps : p.item \notin b.done => p.item \in UnderWay(b) /\ b.pending[p.item] = p.created
    BY <1>1, <1>4 DEF KnownOK, IsPicked, UnderWay
  <2> QED BY <1>1, <2>1 DEF KnownOK, IsPicked
<1>6. \A items, d : RecordedOn(b, ps, items, d) = RecordedOn(a, ps, items, d)
  BY DEF RecordedOn, IsPicked
<1>7. CountsOK(b, ps)
  BY <1>1, <1>6 DEF CountsOK, IsPicked
<1>8. \A u : Room(u, a, ps) => Room(u, b, ps)
  BY <1>6 DEF Room, IsPicked
<1>9. PostsOK(t, b, ps)
  <2>1. Afoot(b) = Afoot(a)
    BY DEF Afoot, IsPicked
  <2>2. ASSUME NEW v \in DOMAIN b.pending \cap Posts PROVE Room(b.pending[v], b, ps)
    <3>1. CASE v = w
      <4>1. Afoot(a) \cap Posts # {}
        BY <3>1 DEF Afoot
      <4>2. Room(t, a, ps)
        BY <1>1, <4>1 DEF PostsOK
      <4> QED BY <1>8, <3>1, <4>2 DEF IsPicked
    <3>2. CASE v # w
      BY <1>1, <1>8, <3>2 DEF PostsOK, IsPicked
    <3> QED BY <3>1, <3>2
  <2> QED BY <1>1, <1>8, <2>1, <2>2 DEF PostsOK
<1>10. CommentsOK(t, b, ps)
  <2>1. b.queue = a.queue
    BY DEF IsPicked
  <2>2. Most(CommentsPerDay) \in Nat /\ QueueLimit \in Nat
    BY MostIs, BudgetConstants
  <2>3. ASSUME NEW S, NEW T, IsFiniteSet(T), S \subseteq T,
               Cardinality(T) < Most(CommentsPerDay) + QueueLimit
        PROVE  Cardinality(S) < Most(CommentsPerDay) + QueueLimit
    <3>1. Cardinality(S) \in Nat /\ Cardinality(T) \in Nat /\ Cardinality(S) <= Cardinality(T)
      BY <2>3, AtMost
    <3> QED BY <2>2, <2>3, <3>1
  <2>4. ASSUME NEW d \in Nat
        PROVE  Cardinality(RecordedOn(b, ps, Comments, d) \cup AttemptedOn(b, Comments, d))
                 < Most(CommentsPerDay) + QueueLimit
    <3>1. CASE d = Day(t)
      <4>1. RecordedOn(b, ps, Comments, d) \cup AttemptedOn(b, Comments, d)
              \subseteq RecordedOn(a, ps, Comments, Day(t)) \cup (a.queue \cap Comments)
        BY <1>6, <2>1, <3>1 DEF AttemptedOn
      <4>2. IsFiniteSet(RecordedOn(a, ps, Comments, Day(t)) \cup (a.queue \cap Comments))
        BY <1>1, CountedAreFinite
      <4>3. Cardinality(RecordedOn(a, ps, Comments, Day(t)) \cup (a.queue \cap Comments))
              < Most(CommentsPerDay) + QueueLimit
        BY <1>1 DEF CommentsOK
      <4> QED BY <2>3, <4>1, <4>2, <4>3
    <3>2. CASE d # Day(t)
      <4>1. AttemptedOn(b, Comments, d) \subseteq AttemptedOn(a, Comments, d)
        BY <3>2 DEF AttemptedOn, IsPicked
      <4>2. RecordedOn(b, ps, Comments, d) \cup AttemptedOn(b, Comments, d)
              \subseteq RecordedOn(a, ps, Comments, d) \cup AttemptedOn(a, Comments, d)
        BY <1>6, <4>1
      <4>3. IsFiniteSet(RecordedOn(a, ps, Comments, d) \cup AttemptedOn(a, Comments, d))
        BY <1>1, CountedAreFinite
      <4>4. Cardinality(RecordedOn(a, ps, Comments, d) \cup AttemptedOn(a, Comments, d))
              < Most(CommentsPerDay) + QueueLimit
        BY <1>1 DEF CommentsOK
      <4> QED BY <2>3, <4>2, <4>3, <4>4
    <3> QED BY <3>1, <3>2
  <2>5. Cardinality(RecordedOn(b, ps, Comments, Day(t)) \cup (b.queue \cap Comments))
          < Most(CommentsPerDay) + QueueLimit
    <3>1. RecordedOn(b, ps, Comments, Day(t)) = RecordedOn(a, ps, Comments, Day(t))
      BY <1>6
    <3> QED BY <1>1, <2>1, <3>1 DEF CommentsOK
  <2>6. Most(CommentsPerDay) = 0 => b.queue \cap Comments = {}
    BY <1>1, <2>1 DEF CommentsOK
  <2> QED BY <2>4, <2>5, <2>6 DEF CommentsOK
<1>11. w \in UnderWay(b)
  BY DEF UnderWay, IsPicked
<1> QED BY <1>2, <1>3, <1>4, <1>5, <1>7, <1>9, <1>10, <1>11 DEF Core

\* What is under way is published.
LEMMA CorePublished ==
  ASSUME NEW t, NEW a, NEW ps, Core(t, a, ps), NEW w \in UnderWay(a), \A q \in ps : q.item # w,
         NEW p, p = [item |-> w, created |-> a.pending[w], time |-> t]
  PROVE  Core(t, a, ps \cup {p})
<1>1. /\ t \in Nat /\ AgentOK(t, a) /\ QueueOK(a) /\ KnownOK(t, a, ps)
      /\ CountsOK(a, ps) /\ PostsOK(t, a, ps) /\ CommentsOK(t, a, ps)
  BY DEF Core, AgentOK
<1>2. /\ w \in Items /\ w \in DOMAIN a.pending /\ w \in a.running \ a.stale
      /\ a.pending[w] \in Nat /\ a.pending[w] <= t
  <2>1. a.pending \in Pendings
    BY <1>1 DEF AgentOK, AgentState
  <2> QED BY <1>1, <2>1, PendingIs DEF UnderWay, AgentOK
<1>3. w \notin a.done /\ w \in Afoot(a)
  BY <1>1, <1>2 DEF QueueOK, Afoot
<1>4. p \in Publication /\ p.item = w /\ p.created = a.pending[w] /\ p.time = t
  BY <1>1, <1>2 DEF Publication
<1>5. PICK qs : qs = ps \cup {p}
  OBVIOUS
<1>6. KnownOK(t, a, qs)
  <2>1. qs \subseteq Publication
    BY <1>1, <1>4, <1>5 DEF KnownOK
  <2>2. \A q \in qs : q.created <= q.time /\ q.time <= t
    BY <1>1, <1>2, <1>4, <1>5 DEF KnownOK
  <2>3. \A q \in qs : q.item \in a.done => Day(q.created) <= a.date
    BY <1>1, <1>3, <1>4, <1>5 DEF KnownOK
  <2>4. \A q \in qs :
          q.item \notin a.done => q.item \in UnderWay(a) /\ a.pending[q.item] = q.created
    BY <1>1, <1>4, <1>5 DEF KnownOK
  <2>5. \A q, r \in qs : q.item = r.item => q = r
    BY <1>1, <1>4, <1>5 DEF KnownOK
  <2> QED BY <2>1, <2>2, <2>3, <2>4, <2>5 DEF KnownOK
<1>7. ASSUME NEW items, NEW d PROVE RecordedOn(a, qs, items, d) = RecordedOn(a, ps, items, d)
  BY <1>3, <1>4, <1>5 DEF RecordedOn, PublishedOn
<1>8. CountsOK(a, qs)
  <2>1. \A q \in qs : q.item \in Posts \cap a.done => q.created <= a.lastPost
    BY <1>1, <1>3, <1>4, <1>5 DEF CountsOK
  <2> QED BY <1>1, <1>7, <2>1 DEF CountsOK
<1>9. ASSUME NEW u, Room(u, a, ps) PROVE Room(u, a, qs)
  <2>1. \A q \in qs : q.item \in Posts \cap a.done => q.created + LeastSpacing <= u
    BY <1>3, <1>4, <1>5, <1>9 DEF Room
  <2> QED BY <1>7, <1>9, <2>1 DEF Room
<1>10. ASSUME w \in Posts, NEW q \in ps, q.item \in Posts PROVE q.item \in a.done
  <2>1. SUFFICES ASSUME q.item \notin a.done PROVE FALSE
    OBVIOUS
  <2>2. q.item \in Afoot(a) \cap Posts
    BY <1>1, <1>10, <2>1 DEF KnownOK, UnderWay, Afoot
  <2>3. w \in Afoot(a) \cap Posts
    BY <1>3, <1>10
  <2> QED BY <1>1, <2>2, <2>3 DEF PostsOK
<1>11. ASSUME w \in Posts PROVE Room(p.created, a, ps)
  BY <1>1, <1>2, <1>4, <1>11 DEF PostsOK
<1>12. \A d \in Nat : Cardinality(PublishedOn(qs, Posts, d)) <= Most(PostsPerDay)
  <2> TAKE d \in Nat
  <2>1. CASE w \in Posts /\ Day(p.created) = d
    <3>1. PublishedOn(qs, Posts, d) \subseteq RecordedOn(a, ps, Posts, d) \cup {w}
      BY <1>4, <1>5, <1>10, <2>1 DEF PublishedOn, RecordedOn
    <3>2. IsFiniteSet(RecordedOn(a, ps, Posts, d))
      BY <1>1, CountedAreFinite
    <3>3. /\ Cardinality(PublishedOn(qs, Posts, d)) \in Nat
          /\ Cardinality(RecordedOn(a, ps, Posts, d)) \in Nat
          /\ Cardinality(PublishedOn(qs, Posts, d)) <= Cardinality(RecordedOn(a, ps, Posts, d)) + 1
      BY <3>1, <3>2, OneMore
    <3>4. Cardinality(RecordedOn(a, ps, Posts, d)) < Most(PostsPerDay)
      BY <1>11, <2>1 DEF Room
    <3>5. Most(PostsPerDay) \in Nat
      BY MostIs, BudgetConstants
    <3> QED BY <3>3, <3>4, <3>5
  <2>2. CASE ~(w \in Posts /\ Day(p.created) = d)
    <3>1. PublishedOn(qs, Posts, d) = PublishedOn(ps, Posts, d)
      BY <1>4, <1>5, <2>2 DEF PublishedOn
    <3> QED BY <1>1, <3>1 DEF PostsOK
  <2> QED BY <2>1, <2>2
<1>13. ASSUME NEW q \in qs, NEW r \in qs, q.item \in Posts, r.item \in Posts, q # r,
              q.created <= r.created
       PROVE  q.created + LeastSpacing <= r.created
  <2>1. q.created \in Nat /\ r.created \in Nat /\ LeastSpacing \in Nat
    BY <1>6, LeastIs DEF KnownOK, Publication
  <2>2. CASE q \in ps /\ r \in ps
    BY <1>1, <1>13, <2>2 DEF PostsOK
  <2>3. CASE q \in ps /\ r = p
    <3>1. w \in Posts
      BY <1>4, <1>13, <2>3
    <3>2. q.item \in Posts \cap a.done
      BY <1>10, <1>13, <2>3, <3>1
    <3> QED BY <1>11, <2>3, <3>1, <3>2 DEF Room
  <2>4. CASE q = p /\ r \in ps
    <3>1. w \in Posts
      BY <1>4, <1>13, <2>4
    <3>2. r.item \in Posts \cap a.done
      BY <1>10, <1>13, <2>4, <3>1
    <3>3. r.created + LeastSpacing <= q.created
      BY <1>11, <2>4, <3>1, <3>2 DEF Room
    <3> QED BY <1>13, <2>1, <3>3
  <2> QED BY <1>5, <1>13, <2>2, <2>3, <2>4
<1>14. PostsOK(t, a, qs)
  <2>1. /\ \A v, x \in Afoot(a) \cap Posts : v = x
        /\ Afoot(a) \cap Posts # {} => Room(t, a, qs)
        /\ \A v \in DOMAIN a.pending \cap Posts : Room(a.pending[v], a, qs)
    BY <1>1, <1>9 DEF PostsOK
  <2>2. \A q, r \in qs :
          {q.item, r.item} \subseteq Posts /\ q # r /\ q.created <= r.created
            => q.created + LeastSpacing <= r.created
    BY <1>13
  <2> QED BY <1>12, <2>1, <2>2 DEF PostsOK
<1>15. CommentsOK(t, a, qs)
  BY <1>1, <1>7 DEF CommentsOK
<1> QED BY <1>1, <1>5, <1>6, <1>8, <1>14, <1>15 DEF Core

\* Pending writes are recorded.
LEMMA CoreRecorded ==
  ASSUME NEW a, NEW ps, Core(now, a, ps), NEW ws, ws \subseteq DOMAIN a.pending
  PROVE  Core(now, RecordWrites(a, ws), ps)
<1>1. /\ now \in Nat /\ AgentOK(now, a) /\ QueueOK(a) /\ KnownOK(now, a, ps)
      /\ CountsOK(a, ps) /\ PostsOK(now, a, ps) /\ CommentsOK(now, a, ps) /\ a \in AgentState
  BY DEF Core, AgentOK
<1>2. IsFiniteSet(ws)
  BY <1>1, AtMost DEF AgentOK
<1>3. PICK b : b = RecordWrites(a, ws)
  OBVIOUS
<1>4. PICK n : n = NormalState(a)
  OBVIOUS
<1>5. /\ b \in AgentState /\ b.date = Day(now)
      /\ b.posts = n.posts + Cardinality(Of(a, ws, Posts, Day(now)))
      /\ b.comments = n.comments + Cardinality(Of(a, ws, Comments, Day(now)))
      /\ b.lastPost \in Never .. now /\ b.lastPost >= a.lastPost
      /\ \A w \in ws \cap Posts : a.pending[w] <= b.lastPost
      /\ b.lastComment \in Never .. now
      /\ b.queue = a.queue \ ws /\ b.running = a.running \ ws /\ b.stale = a.stale \ ws
      /\ DOMAIN b.pending = DOMAIN a.pending \ ws
      /\ \A w \in DOMAIN a.pending \ ws : b.pending[w] = a.pending[w]
      /\ b.done = a.done \cup ws
  <2>1. /\ a.lastPost \in Never .. now /\ a.lastComment \in Never .. now
        /\ \A w \in ws : a.pending[w] <= now
    BY <1>1 DEF AgentOK
  <2> QED BY <1>1, <1>2, <1>3, <1>4, <2>1, RecordIs
<1>6. Core(now, n, ps) /\ n.date = Day(now) /\ n.done = a.done /\ n \in AgentState
  BY <1>1, <1>4, CoreNormal, NormalIs
<1>7. Day(now) \in Nat
  BY <1>1, DayIs
<1>8. \A p \in ps : p.item \in ws => p.item \in UnderWay(a) /\ a.pending[p.item] = p.created
  BY <1>1 DEF KnownOK, QueueOK, Afoot
<1>9. AgentOK(now, b)
  <2>1. IsFiniteSet(a.queue) /\ IsFiniteSet(a.done) /\ IsFiniteSet(DOMAIN a.pending)
    BY <1>1 DEF AgentOK
  <2>2. b.queue \subseteq a.queue /\ DOMAIN b.pending \subseteq DOMAIN a.pending
    BY <1>5
  <2>3. /\ IsFiniteSet(b.queue) /\ IsFiniteSet(DOMAIN b.pending)
        /\ Cardinality(b.queue) \in Nat /\ Cardinality(a.queue) \in Nat
        /\ Cardinality(b.queue) <= Cardinality(a.queue)
    BY <2>1, <2>2, AtMost
  <2>4. IsFiniteSet(b.done)
    <3>1. IsFiniteSet(a.done \cup ws)
      BY <1>2, <2>1, FS_Union
    <3> QED BY <1>5, <3>1
  <2>5. Cardinality(b.queue) <= QueueLimit
    BY <1>1, <2>3, BudgetConstants DEF AgentOK
  <2>6. \A w \in DOMAIN b.pending : b.pending[w] <= now
    BY <1>1, <1>5 DEF AgentOK
  <2>7. b.date <= Day(now)
    BY <1>5, <1>7
  <2> QED BY <1>1, <1>5, <2>3, <2>4, <2>5, <2>6, <2>7 DEF AgentOK
<1>10. QueueOK(b)
  <2>1. b.done \cap Afoot(b) = {}
    BY <1>1, <1>5 DEF QueueOK, Afoot
  <2> QED BY <1>1, <1>5, <2>1 DEF QueueOK
<1>11. KnownOK(now, b, ps)
  <2>1. \A p \in ps : p.item \in b.done => Day(p.created) <= b.date
    <3> TAKE p \in ps
    <3>1. p.created \in Nat /\ p.time \in Nat /\ p.created <= p.time /\ p.time <= now
      BY <1>1 DEF KnownOK, Publication
    <3>2. Day(p.created) <= Day(now)
      BY <1>1, <3>1, DayIs
    <3> QED BY <1>5, <3>2
  <2>2. \A p \in ps :
          p.item \notin b.done => p.item \in UnderWay(b) /\ b.pending[p.item] = p.created
    BY <1>1, <1>5 DEF KnownOK, UnderWay
  <2> QED BY <1>1, <2>1, <2>2 DEF KnownOK
<1>12. ASSUME NEW items, NEW d
       PROVE  /\ RecordedOn(b, ps, items, d) \subseteq RecordedOn(a, ps, items, d) \cup Of(a, ws, items, d)
              /\ ws \cap items = {} => RecordedOn(b, ps, items, d) = RecordedOn(a, ps, items, d)
  BY <1>5, <1>8 DEF RecordedOn, PublishedOn, Of
<1>13. CountsOK(b, ps)
  <2>1. ASSUME NEW items, NEW k \in Nat, Cardinality(RecordedOn(a, ps, items, Day(now))) <= k
        PROVE  Cardinality(RecordedOn(b, ps, items, Day(now)))
                 <= k + Cardinality(Of(a, ws, items, Day(now)))
    <3>1. PICK R : R = RecordedOn(a, ps, items, Day(now))
      OBVIOUS
    <3>2. PICK O : O = Of(a, ws, items, Day(now))
      OBVIOUS
    <3>3. IsFiniteSet(R)
      BY <1>1, <3>1, CountedAreFinite
    <3>4. O \subseteq ws
      BY <3>2 DEF Of
    <3>5. IsFiniteSet(O)
      BY <1>2, <3>4, AtMost
    <3>6. /\ IsFiniteSet(R \cup O) /\ Cardinality(R \cup O) \in Nat
          /\ Cardinality(R) \in Nat /\ Cardinality(O) \in Nat
          /\ Cardinality(R \cup O) <= Cardinality(R) + Cardinality(O)
      BY <3>3, <3>5, SumAtMost
    <3>7. PICK B : B = RecordedOn(b, ps, items, Day(now))
      OBVIOUS
    <3>8. B \subseteq R \cup O
      BY <1>12, <3>1, <3>2, <3>7
    <3>9. Cardinality(B) \in Nat /\ Cardinality(B) <= Cardinality(R \cup O)
      BY <3>6, <3>8, AtMost
    <3>10. Cardinality(B) <= k + Cardinality(O)
      BY <2>1, <3>1, <3>6, <3>9
    <3> QED BY <3>2, <3>7, <3>10
  <2>2. n.posts \in Nat /\ n.comments \in Nat
    BY <1>6 DEF AgentState
  <2>3. \A items, d : RecordedOn(n, ps, items, d) = RecordedOn(a, ps, items, d)
    BY <1>6 DEF RecordedOn
  <2>4. /\ Cardinality(RecordedOn(a, ps, Posts, Day(now))) <= n.posts
        /\ Cardinality(RecordedOn(a, ps, Comments, Day(now))) <= n.comments
    BY <1>6, <2>3 DEF Core, CountsOK
  <2>5. Cardinality(RecordedOn(b, ps, Posts, b.date)) <= b.posts
    BY <1>5, <2>1, <2>2, <2>4
  <2>6. Cardinality(RecordedOn(b, ps, Comments, b.date)) <= b.comments
    BY <1>5, <2>1, <2>2, <2>4
  <2>7. ASSUME NEW p \in ps, p.item \in Posts \cap b.done PROVE p.created <= b.lastPost
    <3>1. CASE p.item \in a.done
      <4>1. p.created <= a.lastPost
        BY <1>1, <2>7, <3>1 DEF CountsOK
      <4>2. p.created \in Nat /\ a.lastPost \in Int /\ b.lastPost \in Int
        BY <1>1, <1>5 DEF KnownOK, Publication, AgentState
      <4> QED BY <1>5, <4>1, <4>2
    <3>2. CASE p.item \in ws
      BY <1>5, <1>8, <2>7, <3>2
    <3> QED BY <1>5, <2>7, <3>1, <3>2
  <2> QED BY <2>5, <2>6, <2>7 DEF CountsOK
<1>14. PostsOK(now, b, ps)
  <2>1. Afoot(b) = Afoot(a) \ ws
    BY <1>5 DEF Afoot
  <2>2. ASSUME NEW u, Room(u, a, ps), Afoot(b) \cap Posts # {} PROVE Room(u, b, ps)
    <3>1. ws \cap Posts = {}
      <4>1. ws \subseteq Afoot(a)
        BY DEF Afoot
      <4>2. \A v, w \in Afoot(a) \cap Posts : v = w
        BY <1>1 DEF PostsOK
      <4> QED BY <2>1, <2>2, <4>1, <4>2
    <3>2. \A d : RecordedOn(b, ps, Posts, d) = RecordedOn(a, ps, Posts, d)
      BY <1>12, <3>1
    <3>3. Posts \cap b.done = Posts \cap a.done
      BY <1>5, <3>1
    <3> QED BY <2>2, <3>2, <3>3 DEF Room
  <2>3. \A v, w \in Afoot(b) \cap Posts : v = w
    BY <1>1, <2>1 DEF PostsOK
  <2>4. Afoot(b) \cap Posts # {} => Room(now, b, ps)
    BY <1>1, <2>1, <2>2 DEF PostsOK
  <2>5. \A w \in DOMAIN b.pending \cap Posts : Room(b.pending[w], b, ps)
    <3> TAKE w \in DOMAIN b.pending \cap Posts
    <3>1. Afoot(b) \cap Posts # {}
      BY DEF Afoot
    <3>2. b.pending[w] = a.pending[w] /\ Room(a.pending[w], a, ps)
      BY <1>1, <1>5 DEF PostsOK
    <3> QED BY <2>2, <3>1, <3>2
  <2> QED BY <1>1, <2>3, <2>4, <2>5 DEF PostsOK
<1>15. CommentsOK(now, b, ps)
  <2>1. Most(CommentsPerDay) \in Nat /\ QueueLimit \in Nat
    BY MostIs, BudgetConstants
  <2>2. ASSUME NEW S, NEW T, IsFiniteSet(T), S \subseteq T,
               Cardinality(T) < Most(CommentsPerDay) + QueueLimit
        PROVE  Cardinality(S) < Most(CommentsPerDay) + QueueLimit
    <3>1. Cardinality(S) \in Nat /\ Cardinality(T) \in Nat /\ Cardinality(S) <= Cardinality(T)
      BY <2>2, AtMost
    <3> QED BY <2>1, <2>2, <3>1
  <2>3. ASSUME NEW v \in Comments, NEW p \in ps, p.item = v, v \in ws
        PROVE  v \in a.queue /\ v \in AttemptedOn(a, Comments, Day(p.created))
    <3>1. v \in UnderWay(a) /\ a.pending[v] = p.created
      BY <1>8, <2>3
    <3>2. v \in a.queue /\ v \in DOMAIN a.pending
      BY <1>1, <3>1 DEF QueueOK, UnderWay
    <3> QED BY <2>3, <3>1, <3>2 DEF AttemptedOn
  <2>4. Cardinality(RecordedOn(b, ps, Comments, Day(now)) \cup (b.queue \cap Comments))
          < Most(CommentsPerDay) + QueueLimit
    <3>1. RecordedOn(b, ps, Comments, Day(now)) \subseteq RecordedOn(a, ps, Comments, Day(now)) \cup (a.queue \cap Comments)
      BY <1>5, <2>3 DEF RecordedOn, PublishedOn
    <3>2. RecordedOn(b, ps, Comments, Day(now)) \cup (b.queue \cap Comments)
            \subseteq RecordedOn(a, ps, Comments, Day(now)) \cup (a.queue \cap Comments)
      BY <1>5, <3>1
    <3>3. IsFiniteSet(RecordedOn(a, ps, Comments, Day(now)) \cup (a.queue \cap Comments))
      BY <1>1, CountedAreFinite
    <3>4. Cardinality(RecordedOn(a, ps, Comments, Day(now)) \cup (a.queue \cap Comments))
            < Most(CommentsPerDay) + QueueLimit
      BY <1>1 DEF CommentsOK
    <3> QED BY <2>2, <3>2, <3>3, <3>4
  <2>5. ASSUME NEW d \in Nat
        PROVE  Cardinality(RecordedOn(b, ps, Comments, d) \cup AttemptedOn(b, Comments, d))
                 < Most(CommentsPerDay) + QueueLimit
    <3>1. RecordedOn(b, ps, Comments, d) \subseteq RecordedOn(a, ps, Comments, d) \cup AttemptedOn(a, Comments, d)
      BY <1>5, <2>3 DEF RecordedOn, PublishedOn
    <3>2. AttemptedOn(b, Comments, d) \subseteq AttemptedOn(a, Comments, d)
      BY <1>5 DEF AttemptedOn
    <3>3. RecordedOn(b, ps, Comments, d) \cup AttemptedOn(b, Comments, d)
            \subseteq RecordedOn(a, ps, Comments, d) \cup AttemptedOn(a, Comments, d)
      BY <3>1, <3>2
    <3>4. IsFiniteSet(RecordedOn(a, ps, Comments, d) \cup AttemptedOn(a, Comments, d))
      BY <1>1, CountedAreFinite
    <3>5. Cardinality(RecordedOn(a, ps, Comments, d) \cup AttemptedOn(a, Comments, d))
            < Most(CommentsPerDay) + QueueLimit
      BY <1>1 DEF CommentsOK
    <3> QED BY <2>2, <3>3, <3>4, <3>5
  <2>6. Most(CommentsPerDay) = 0 => b.queue \cap Comments = {}
    BY <1>1, <1>5 DEF CommentsOK
  <2> QED BY <2>4, <2>5, <2>6 DEF CommentsOK
<1> QED BY <1>3, <1>9, <1>10, <1>11, <1>13, <1>14, <1>15 DEF Core

\* A write joins the queue.
IsQueued(a, b, w) ==
  /\ b \in AgentState /\ b.done = a.done /\ b.date = a.date
  /\ b.posts = a.posts /\ b.comments = a.comments
  /\ b.lastPost = a.lastPost /\ b.lastComment = a.lastComment
  /\ b.queue = a.queue \cup {w} /\ b.running = a.running /\ b.stale = a.stale
  /\ b.pending = a.pending

LEMMA CoreJoined ==
  ASSUME NEW t, NEW a, NEW b, NEW ps, Core(t, a, ps), NEW w \in Items, IsQueued(a, b, w),
         w \notin a.done \cup DOMAIN a.pending, Cardinality(a.queue) < QueueLimit,
         w \in Posts => Afoot(a) \cap Posts = {} /\ Room(t, a, ps),
         w \in Comments =>
           Cardinality(RecordedOn(a, ps, Comments, Day(t))) < Most(CommentsPerDay)
  PROVE  Core(t, b, ps)
<1>1. /\ t \in Nat /\ AgentOK(t, a) /\ QueueOK(a) /\ KnownOK(t, a, ps)
      /\ CountsOK(a, ps) /\ PostsOK(t, a, ps) /\ CommentsOK(t, a, ps)
  BY DEF Core, AgentOK
<1>2. PICK q : q = a.queue \cup {w}
  OBVIOUS
<1>3. /\ IsFiniteSet(q) /\ Cardinality(q) \in Nat /\ Cardinality(a.queue) \in Nat
      /\ Cardinality(q) <= Cardinality(a.queue) + 1
  <2>1. q \subseteq a.queue \cup {w} /\ IsFiniteSet(a.queue)
    BY <1>1, <1>2 DEF AgentOK
  <2> QED BY <2>1, OneMore
<1>4. b.queue = q /\ Cardinality(q) <= QueueLimit
  BY <1>2, <1>3, BudgetConstants DEF IsQueued
<1>5. AgentOK(t, b)
  BY <1>1, <1>3, <1>4 DEF AgentOK, IsQueued
<1>6. QueueOK(b)
  <2>1. b.done \cap Afoot(b) = {}
    BY <1>1 DEF QueueOK, IsQueued, Afoot
  <2>2. DOMAIN b.pending \cap b.queue \subseteq b.running
    BY <1>1 DEF QueueOK, IsQueued
  <2> QED BY <1>1, <2>1, <2>2 DEF QueueOK, IsQueued
<1>7. KnownOK(t, b, ps)
  BY <1>1 DEF KnownOK, IsQueued, UnderWay
<1>8. \A items, d : RecordedOn(b, ps, items, d) = RecordedOn(a, ps, items, d)
  BY DEF RecordedOn, IsQueued
<1>9. CountsOK(b, ps)
  BY <1>1, <1>8 DEF CountsOK, IsQueued
<1>10. \A u : Room(u, a, ps) => Room(u, b, ps)
  BY <1>8 DEF Room, IsQueued
<1>11. PostsOK(t, b, ps)
  <2>1. Afoot(b) = Afoot(a) \cup {w}
    BY DEF Afoot, IsQueued
  <2>2. \A v, x \in Afoot(b) \cap Posts : v = x
    BY <1>1, <2>1 DEF PostsOK
  <2>3. Afoot(b) \cap Posts # {} => Room(t, b, ps)
    BY <1>1, <1>10, <2>1 DEF PostsOK
  <2>4. \A v \in DOMAIN b.pending \cap Posts : Room(b.pending[v], b, ps)
    BY <1>1, <1>10 DEF PostsOK, IsQueued
  <2> QED BY <1>1, <2>2, <2>3, <2>4 DEF PostsOK
<1>12. CommentsOK(t, b, ps)
  <2>1. PICK m \in Nat : m = Most(CommentsPerDay)
    BY MostIs, BudgetConstants
  <2>2. PICK R : R = RecordedOn(a, ps, Comments, Day(t))
    OBVIOUS
  <2>3. IsFiniteSet(R) /\ Cardinality(R) \in Nat
    BY <1>1, <2>2, CountedAreFinite, FS_CardinalityType
  <2>4. PICK qc : qc = q \cap Comments
    OBVIOUS
  <2>5. Cardinality(R \cup qc) < m + QueueLimit
    <3>1. CASE w \in Comments
      <4>1. IsFiniteSet(qc) /\ Cardinality(qc) \in Nat /\ Cardinality(qc) <= Cardinality(q)
        <5>1. qc \subseteq q
          BY <2>4
        <5> QED BY <1>3, <5>1, AtMost
      <4>2. Cardinality(R \cup qc) \in Nat /\ Cardinality(R \cup qc) <= Cardinality(R) + Cardinality(qc)
        BY <2>3, <4>1, SumAtMost
      <4>3. Cardinality(R) < m
        BY <2>1, <2>2, <3>1
      <4> QED BY <1>3, <1>4, <2>1, <2>3, <4>1, <4>2, <4>3, BudgetConstants
    <3>2. CASE w \notin Comments
      <4>1. qc = a.queue \cap Comments
        BY <1>2, <2>4, <3>2
      <4> QED BY <1>1, <2>1, <2>2, <4>1 DEF CommentsOK
    <3> QED BY <3>1, <3>2
  <2>6. RecordedOn(b, ps, Comments, Day(t)) \cup (b.queue \cap Comments) = R \cup qc
    BY <1>4, <1>8, <2>2, <2>4
  <2>7. ASSUME NEW d \in Nat
        PROVE  Cardinality(RecordedOn(b, ps, Comments, d) \cup AttemptedOn(b, Comments, d))
                 < m + QueueLimit
    <3>1. AttemptedOn(b, Comments, d) = AttemptedOn(a, Comments, d)
      BY DEF AttemptedOn, IsQueued
    <3> QED BY <1>1, <1>8, <2>1, <3>1 DEF CommentsOK
  <2>8. m = 0 => b.queue \cap Comments = {}
    <3>1. SUFFICES ASSUME m = 0 PROVE b.queue \cap Comments = {}
      OBVIOUS
    <3>2. a.queue \cap Comments = {}
      BY <1>1, <2>1, <3>1 DEF CommentsOK
    <3>3. w \notin Comments
      BY <2>1, <2>2, <2>3, <3>1
    <3> QED BY <1>2, <1>4, <3>2, <3>3
  <2> QED BY <2>1, <2>5, <2>6, <2>7, <2>8 DEF CommentsOK
<1> QED BY <1>5, <1>6, <1>7, <1>9, <1>11, <1>12 DEF Core

----------------------------------------------------------------------------
\* The initial state.

LEMMA BudgetInitInv == BudgetInit => BudgetInv
<1> SUFFICES ASSUME BudgetInit PROVE BudgetInv
  OBVIOUS
<1>1. /\ now = 0 /\ at = "idle" /\ write = {} /\ published = {} /\ lost = {}
      /\ agent = [date |-> 0, posts |-> 0, comments |-> 0,
                  lastPost |-> Never, lastComment |-> Never,
                  queue |-> {}, running |-> {}, stale |-> {},
                  pending |-> [w \in {} |-> 0], done |-> {}]
  BY DEF BudgetInit
<1>2. PICK e : e = [w \in {} |-> 0]
  OBVIOUS
<1>3. DOMAIN e = {} /\ e \in Pendings
  <2>1. DOMAIN e = {} /\ e \in [DOMAIN e -> Nat]
    BY <1>2
  <2> QED BY <2>1, PendingIs
<1>4. PICK a : a = agent
  OBVIOUS
<1>5. /\ a.date = 0 /\ a.posts = 0 /\ a.comments = 0 /\ a.lastPost = Never /\ a.lastComment = Never
      /\ a.queue = {} /\ a.running = {} /\ a.stale = {} /\ a.pending = e /\ a.done = {}
      /\ a \in AgentState
  BY <1>1, <1>2, <1>3, <1>4 DEF AgentState, Never
<1>6. IsFiniteSet({}) /\ Cardinality({}) = 0
  BY FS_EmptySet
<1>7. Day(0) \in Nat
  BY DayIs
<1>8. AgentOK(0, a)
  BY <1>3, <1>5, <1>6, <1>7, BudgetConstants DEF AgentOK, Never
<1>9. QueueOK(a)
  BY <1>3, <1>5 DEF QueueOK, Afoot
<1>10. KnownOK(0, a, {})
  BY DEF KnownOK
<1>11. \A items, d : PublishedOn({}, items, d) = {} /\ RecordedOn(a, {}, items, d) = {}
  BY DEF PublishedOn, RecordedOn
<1>12. CountsOK(a, {})
  BY <1>5, <1>6, <1>11 DEF CountsOK
<1>13. Most(PostsPerDay) \in Nat /\ Most(CommentsPerDay) \in Nat /\ QueueLimit \in Nat /\ QueueLimit > 0
  BY MostIs, BudgetConstants
<1>14. PostsOK(0, a, {})
  <2>1. Afoot(a) = {} /\ DOMAIN a.pending = {}
    BY <1>3, <1>5 DEF Afoot
  <2> QED BY <1>6, <1>11, <1>13, <2>1 DEF PostsOK
<1>15. CommentsOK(0, a, {})
  <2>1. ASSUME NEW d
        PROVE  Cardinality(RecordedOn(a, {}, Comments, d) \cup AttemptedOn(a, Comments, d)) = 0
    <3>1. AttemptedOn(a, Comments, d) = {}
      BY <1>5 DEF AttemptedOn
    <3>2. RecordedOn(a, {}, Comments, d) \cup AttemptedOn(a, Comments, d) = {}
      BY <1>11, <3>1
    <3> QED BY <1>6, <3>2
  <2>2. Cardinality(RecordedOn(a, {}, Comments, Day(0)) \cup (a.queue \cap Comments)) = 0
    <3>1. RecordedOn(a, {}, Comments, Day(0)) \cup (a.queue \cap Comments) = {}
      BY <1>5, <1>11
    <3> QED BY <1>6, <3>1
  <2>3. 0 < Most(CommentsPerDay) + QueueLimit
    BY <1>13
  <2> QED BY <1>5, <2>1, <2>2, <2>3 DEF CommentsOK
<1>16. Core(0, a, {})
  BY <1>8, <1>9, <1>10, <1>12, <1>14, <1>15 DEF Core
<1>17. published \ lost = {}
  BY <1>1
<1> QED BY <1>1, <1>4, <1>16, <1>17 DEF BudgetInv, OneWrite, InHand, Planning

----------------------------------------------------------------------------
\* Each action.

\* What the invariant says of the state, for an agent a and what was published, ps.
LEMMA BudgetInvIs ==
  ASSUME BudgetInv
  PROVE  /\ Core(now, agent, published \ lost) /\ now \in Nat /\ agent \in AgentState
         /\ QueueOK(agent) /\ KnownOK(now, agent, published \ lost)
BY DEF BudgetInv, Core, AgentOK

LEMMA PickKeeps == BudgetInv /\ PickWrite => BudgetInv'
<1> SUFFICES ASSUME BudgetInv, PickWrite PROVE BudgetInv'
  OBVIOUS
<1>1. PICK a, ps : a = agent /\ ps = published \ lost
  OBVIOUS
<1>2. /\ Core(now, a, ps) /\ now \in Nat /\ a \in AgentState /\ QueueOK(a) /\ KnownOK(now, a, ps)
      /\ lost \subseteq published
  BY <1>1, BudgetInvIs DEF BudgetInv
<1>3. PICK l : l = Leave(a, a.running \ DOMAIN a.pending)
  OBVIOUS
<1>4. /\ l \in AgentState
      /\ l.queue = a.queue \ (a.running \ DOMAIN a.pending)
      /\ l.running = a.running \ (a.running \ DOMAIN a.pending)
      /\ l.stale = a.stale \ (a.running \ DOMAIN a.pending)
      /\ DOMAIN l.pending = DOMAIN a.pending \ (a.running \ DOMAIN a.pending)
      /\ \A w \in DOMAIN a.pending \ (a.running \ DOMAIN a.pending) : l.pending[w] = a.pending[w]
      /\ l.done = a.done /\ l.date = a.date /\ l.posts = a.posts /\ l.comments = a.comments
      /\ l.lastPost = a.lastPost /\ l.lastComment = a.lastComment
  BY <1>2, <1>3, LeaveIs
<1>5. Shrunk(a, l, ps)
  BY <1>2, <1>4 DEF Shrunk, QueueOK, KnownOK, UnderWay
<1>6. PICK s : s = NormalState(l)
  OBVIOUS
<1>7. Core(now, s, ps) /\ s \in AgentState
  <2>1. Core(now, l, ps)
    BY <1>2, <1>5, CoreShrunk
  <2>2. Core(now, NormalState(l), ps)
    BY <2>1, CoreNormal
  <2> QED BY <1>6, <2>2 DEF Core, AgentOK
<1>8. PICK w \in s.queue \ (s.running \ s.stale) :
        /\ write' = {w}
        /\ agent' = [s EXCEPT !.running = s.running \cup {w}, !.stale = s.stale \ {w},
                              !.pending = [v \in DOMAIN s.pending \cup {w} |->
                                             IF v = w THEN now ELSE s.pending[v]]]
  <2> DEFINE Picks(x) ==
        \E w \in x.queue \ (x.running \ x.stale) :
          /\ write' = {w}
          /\ agent' = [x EXCEPT !.running = x.running \cup {w}, !.stale = x.stale \ {w},
                                !.pending = [v \in DOMAIN x.pending \cup {w} |->
                                               IF v = w THEN now ELSE x.pending[v]]]
  <2>1. s = NormalState(Leave(agent, agent.running \ DOMAIN agent.pending))
    BY <1>1, <1>3, <1>6
  <2>2. Picks(NormalState(Leave(agent, agent.running \ DOMAIN agent.pending)))
    BY DEF PickWrite
  <2>3. Picks(s)
    <3> HIDE DEF Picks
    <3> QED BY <2>1, <2>2
  <2> QED BY <2>3
<1>9. at' = "publish" /\ now' = now /\ published' \ lost' = ps /\ lost' \subseteq published'
  BY <1>1, <1>2 DEF PickWrite
<1>10. PICK f : f = [v \in DOMAIN s.pending \cup {w} |-> IF v = w THEN now ELSE s.pending[v]]
  OBVIOUS
<1>11. /\ DOMAIN f = DOMAIN s.pending \cup {w} /\ f[w] = now
       /\ \A v \in DOMAIN s.pending : v # w => f[v] = s.pending[v]
  BY <1>10
<1>12. f \in Pendings /\ w \in Items
  <2>1. s.pending \in Pendings /\ w \in Items
    BY <1>7, <1>8 DEF AgentState
  <2>2. DOMAIN s.pending \subseteq Items /\ s.pending \in [DOMAIN s.pending -> Nat]
    BY <2>1, PendingIs
  <2>3. PICK D : D = DOMAIN s.pending \cup {w}
    OBVIOUS
  <2>4. \A v \in D : (IF v = w THEN now ELSE s.pending[v]) \in Nat
    BY <1>2, <2>2, <2>3
  <2>5. f \in [D -> Nat] /\ D \in SUBSET Items
    BY <1>10, <2>1, <2>2, <2>3, <2>4
  <2> QED BY <2>1, <2>5 DEF Pendings
<1>13. PICK b : b = agent'
  OBVIOUS
<1>14. b = [s EXCEPT !.running = s.running \cup {w}, !.stale = s.stale \ {w}, !.pending = f]
  BY <1>8, <1>10, <1>13
<1>15. IsPicked(now, s, b, w)
  <2>1. /\ b \in AgentState /\ b.done = s.done /\ b.date = s.date
        /\ b.posts = s.posts /\ b.comments = s.comments
        /\ b.lastPost = s.lastPost /\ b.lastComment = s.lastComment
        /\ b.queue = s.queue /\ b.running = s.running \cup {w} /\ b.stale = s.stale \ {w}
        /\ b.pending = f
    BY <1>7, <1>12, <1>14 DEF AgentState
  <2> QED BY <1>11, <2>1 DEF IsPicked
<1>16. Core(now, b, ps) /\ w \in UnderWay(b) /\ \A p \in ps : p.item # w
  BY <1>7, <1>8, <1>15, CorePicked
<1>17. PICK p2, x2, ws2 : p2 = published' \ lost' /\ x2 = at' /\ ws2 = write'
  OBVIOUS
<1>18. Core(now, b, p2) /\ OneWrite(x2, ws2) /\ InHand(b, x2, ws2, p2)
       /\ Planning(now, b, x2, ws2, p2)
  BY <1>8, <1>9, <1>12, <1>16, <1>17 DEF OneWrite, InHand, Planning
<1> QED BY <1>9, <1>13, <1>17, <1>18 DEF BudgetInv

LEMMA PublishKeeps == BudgetInv /\ PublishWrite => BudgetInv'
<1> SUFFICES ASSUME BudgetInv, PublishWrite PROVE BudgetInv'
  OBVIOUS
<1>1. PICK a, ps : a = agent /\ ps = published \ lost
  OBVIOUS
<1>2. /\ Core(now, a, ps) /\ now \in Nat /\ a \in AgentState /\ at = "publish"
      /\ OneWrite(at, write) /\ lost \subseteq published
      /\ InHand(a, at, write, ps)
  BY <1>1, BudgetInvIs DEF BudgetInv, PublishWrite
<1>3. PICK w \in Items : write = {w}
  BY <1>2 DEF OneWrite
<1>4. w \in UnderWay(a) /\ \A q \in ps : q.item # w
  BY <1>2, <1>3 DEF InHand
<1>5. PICK p : p = [item |-> w, created |-> a.pending[w], time |-> now]
  OBVIOUS
<1>6. /\ published' = published \cup {p} /\ at' = "answer"
      /\ now' = now /\ agent' = agent /\ write' = write /\ lost' = lost
  BY <1>1, <1>3, <1>5 DEF PublishWrite
<1>7. Core(now, a, ps \cup {p})
  BY <1>2, <1>4, <1>5, CorePublished
<1>8. published' \ lost' = ps \/ published' \ lost' = ps \cup {p}
  BY <1>1, <1>6
<1>9. Core(now, a, published' \ lost')
  BY <1>2, <1>7, <1>8
<1>10. OneWrite(at', write') /\ InHand(a, at', write', published' \ lost')
       /\ Planning(now, a, at', write', published' \ lost') /\ lost' \subseteq published'
  BY <1>2, <1>3, <1>4, <1>6 DEF OneWrite, InHand, Planning
<1> QED BY <1>1, <1>6, <1>9, <1>10 DEF BudgetInv

LEMMA RecordKeeps == BudgetInv /\ RecordAnswer => BudgetInv'
<1> SUFFICES ASSUME BudgetInv, RecordAnswer PROVE BudgetInv'
  OBVIOUS
<1>1. PICK a, ps, ws : a = agent /\ ps = published \ lost /\ ws = write
  OBVIOUS
<1>2. /\ Core(now, a, ps) /\ at = "answer" /\ lost \subseteq published
      /\ InHand(a, at, ws, ps)
  BY <1>1, BudgetInvIs DEF BudgetInv, RecordAnswer
<1>3. ws \subseteq DOMAIN a.pending
  BY <1>2 DEF InHand, UnderWay
<1>4. PICK b : b = RecordWrites(a, ws)
  OBVIOUS
<1>5. Core(now, b, ps)
  BY <1>2, <1>3, <1>4, CoreRecorded
<1>6. /\ agent' = b /\ at' = "idle" /\ write' = {} /\ now' = now
      /\ published' \ lost' = ps /\ lost' \subseteq published'
  BY <1>1, <1>2, <1>4 DEF RecordAnswer
<1>7. PICK p2, x2, ws2 : p2 = published' \ lost' /\ x2 = at' /\ ws2 = write'
  OBVIOUS
<1>8. Core(now, b, p2) /\ OneWrite(x2, ws2) /\ InHand(b, x2, ws2, p2)
      /\ Planning(now, b, x2, ws2, p2)
  BY <1>5, <1>6, <1>7 DEF OneWrite, InHand, Planning
<1> QED BY <1>6, <1>7, <1>8 DEF BudgetInv

LEMMA KillKeeps == BudgetInv /\ KillRun => BudgetInv'
<1> SUFFICES ASSUME BudgetInv, KillRun PROVE BudgetInv'
  OBVIOUS
<1>1. Core(now, agent, published \ lost) /\ lost \subseteq published
  BY BudgetInvIs DEF BudgetInv
<1>2. /\ at' = "idle" /\ write' = {} /\ now' = now /\ agent' = agent
      /\ published' = published /\ lost' = lost
  BY DEF KillRun
<1>3. OneWrite("idle", {}) /\ InHand(agent, "idle", {}, published \ lost)
      /\ Planning(now, agent, "idle", {}, published \ lost)
  BY DEF OneWrite, InHand, Planning
<1> QED BY <1>1, <1>2, <1>3 DEF BudgetInv

LEMMA PlanNoneKeeps == BudgetInv /\ PlanNone => BudgetInv'
<1> SUFFICES ASSUME BudgetInv, PlanNone PROVE BudgetInv'
  OBVIOUS
<1>1. Core(now, agent, published \ lost) /\ lost \subseteq published /\ OneWrite(at, write)
  BY BudgetInvIs DEF BudgetInv
<1>2. /\ at = "plan" /\ at' = "idle" /\ now' = now /\ agent' = agent
      /\ write' = write /\ published' = published /\ lost' = lost
  BY DEF PlanNone
<1>3. write = {}
  BY <1>1, <1>2 DEF OneWrite
<1>4. OneWrite("idle", {}) /\ InHand(agent, "idle", {}, published \ lost)
      /\ Planning(now, agent, "idle", {}, published \ lost)
  BY DEF OneWrite, InHand, Planning
<1> QED BY <1>1, <1>2, <1>3, <1>4 DEF BudgetInv

LEMMA PeriodKeeps == BudgetInv /\ PassPeriod => BudgetInv'
<1> SUFFICES ASSUME BudgetInv, PassPeriod PROVE BudgetInv'
  OBVIOUS
<1>1. PICK a, ps : a = agent /\ ps = published \ lost
  OBVIOUS
<1>2. /\ Core(now, a, ps) /\ now \in Nat /\ lost \subseteq published /\ OneWrite(at, write)
      /\ InHand(a, at, write, ps) /\ Planning(now, a, at, write, ps)
      /\ AgentOK(now, a) /\ KnownOK(now, a, ps)
  BY <1>1, BudgetInvIs DEF BudgetInv, Core
<1>3. /\ now' = now + 1 /\ agent' = a /\ at' = at /\ write' = write
      /\ published' \ lost' = ps /\ lost' \subseteq published'
  BY <1>1, <1>2 DEF PassPeriod
<1>4. PICK t \in Nat : t = now + 1 /\ now <= t
  BY <1>2
<1>5. Core(t, a, ps)
  BY <1>2, <1>4, CoreLater
<1>6. Room(now, a, ps) => Room(t, a, ps)
  BY <1>2, <1>4, RoomLater
<1>7. ASSUME Cardinality(RecordedOn(a, ps, Comments, Day(now))) < Most(CommentsPerDay)
      PROVE  Cardinality(RecordedOn(a, ps, Comments, Day(t))) < Most(CommentsPerDay)
  <2>1. Day(now) \in Nat /\ Day(t) \in Nat /\ Day(now) <= Day(t)
    BY <1>2, <1>4, DayIs
  <2>2. CASE Day(t) = Day(now)
    BY <1>7, <2>2
  <2>3. CASE Day(t) > Day(now)
    <3>1. RecordedOn(a, ps, Comments, Day(t)) = {}
      BY <1>2, <2>1, <2>3, NoneLater
    <3>2. Cardinality(RecordedOn(a, ps, Comments, Day(t))) = 0
      BY <3>1, FS_EmptySet
    <3>3. IsFiniteSet(RecordedOn(a, ps, Comments, Day(now)))
      BY <1>2, CountedAreFinite
    <3>4. Cardinality(RecordedOn(a, ps, Comments, Day(now))) \in Nat
      BY <3>3, FS_CardinalityType
    <3>5. Most(CommentsPerDay) \in Nat
      BY MostIs, BudgetConstants
    <3> QED BY <1>7, <3>2, <3>4, <3>5
  <2> QED BY <2>1, <2>2, <2>3
<1>8. Planning(t, a, at, write, ps)
  BY <1>2, <1>6, <1>7 DEF Planning
<1>9. PICK p2 : p2 = published' \ lost'
  OBVIOUS
<1> QED BY <1>2, <1>3, <1>4, <1>5, <1>8, <1>9 DEF BudgetInv

LEMMA FailKeeps == BudgetInv /\ FailWrite => BudgetInv'
<1> SUFFICES ASSUME BudgetInv, FailWrite PROVE BudgetInv'
  OBVIOUS
<1>1. PICK a, ps, qs : a = agent /\ ps = published \ lost /\ qs = published' \ lost'
  OBVIOUS
<1>2. /\ Core(now, a, ps) /\ now \in Nat /\ a \in AgentState /\ QueueOK(a) /\ KnownOK(now, a, ps)
      /\ lost \subseteq published /\ InHand(a, at, write, ps) /\ OneWrite(at, write)
      /\ at \in {"publish", "answer"}
  BY <1>1, BudgetInvIs DEF BudgetInv, FailWrite
<1>3. PICK w \in write, again \in BOOLEAN :
        /\ agent' = LET s == NormalState(Leave(agent, {w}))
                    IN IF again THEN [s EXCEPT !.queue = @ \cup {w}] ELSE s
        /\ lost' = lost \cup {p \in published : at = "answer" /\ p.item = w}
  BY DEF FailWrite
<1>4. /\ at' = "idle" /\ write' = {} /\ now' = now /\ published' = published
  BY DEF FailWrite
<1>5. w \in UnderWay(a) /\ lost' \subseteq published' /\ qs \subseteq ps
      /\ \A q \in qs : q.item # w
  BY <1>1, <1>2, <1>3, <1>4 DEF InHand
<1>6. PICK l, s : l = Leave(a, {w}) /\ s = NormalState(l)
  OBVIOUS
<1>7. PICK n : n = NormalState(a)
  OBVIOUS
<1>8. /\ n \in AgentState /\ n.date = Day(now)
      /\ n.queue = a.queue /\ n.running = a.running /\ n.stale = a.stale /\ n.pending = a.pending
      /\ n.done = a.done /\ n.lastPost = a.lastPost /\ n.lastComment = a.lastComment
      /\ n.posts = IF a.date = Day(now) THEN a.posts ELSE 0
      /\ n.comments = IF a.date = Day(now) THEN a.comments ELSE 0
  BY <1>2, <1>7, NormalIs
<1>9. /\ l \in AgentState
      /\ l.queue = a.queue \ {w} /\ l.running = a.running \ {w} /\ l.stale = a.stale \ {w}
      /\ DOMAIN l.pending = DOMAIN a.pending \ {w}
      /\ \A v \in DOMAIN a.pending \ {w} : l.pending[v] = a.pending[v]
      /\ l.done = a.done /\ l.date = a.date /\ l.posts = a.posts /\ l.comments = a.comments
      /\ l.lastPost = a.lastPost /\ l.lastComment = a.lastComment
  BY <1>2, <1>6, LeaveIs
<1>10. /\ s \in AgentState /\ s.date = Day(now)
       /\ s.queue = l.queue /\ s.running = l.running /\ s.stale = l.stale /\ s.pending = l.pending
       /\ s.done = l.done /\ s.lastPost = l.lastPost /\ s.lastComment = l.lastComment
       /\ s.posts = IF l.date = Day(now) THEN l.posts ELSE 0
       /\ s.comments = IF l.date = Day(now) THEN l.comments ELSE 0
  BY <1>2, <1>6, <1>9, NormalIs
<1>11. PICK b : b = IF again THEN [s EXCEPT !.queue = s.queue \cup {w}] ELSE s
  OBVIOUS
<1>12. agent' = b
  <2> DEFINE Failed(x) == IF again THEN [x EXCEPT !.queue = x.queue \cup {w}] ELSE x
  <2>1. agent' = Failed(NormalState(Leave(agent, {w})))
    BY <1>3
  <2>2. NormalState(Leave(agent, {w})) = s
    BY <1>1, <1>6
  <2>3. agent' = Failed(s)
    <3> HIDE DEF Failed
    <3> QED BY <2>1, <2>2
  <2> QED BY <1>11, <2>3
<1>13. w \in a.running /\ w \in a.queue /\ w \in Items
  BY <1>2, <1>5 DEF UnderWay, QueueOK, AgentState
<1>14. /\ b \in AgentState /\ b.queue \subseteq s.queue \cup {w} /\ s.queue \subseteq b.queue
       /\ b.date = s.date /\ b.running = s.running /\ b.stale = s.stale /\ b.pending = s.pending
       /\ b.done = s.done /\ b.lastPost = s.lastPost /\ b.lastComment = s.lastComment
       /\ b.posts = s.posts /\ b.comments = s.comments
  BY <1>10, <1>11, <1>13 DEF AgentState
<1>15. Shrunk(n, b, qs)
  <2>1. b.queue \subseteq n.queue /\ b.running = n.running \ {w} /\ b.stale = n.stale \ {w}
        /\ DOMAIN b.pending = DOMAIN n.pending \ {w}
        /\ \A v \in DOMAIN b.pending : b.pending[v] = n.pending[v]
    BY <1>8, <1>9, <1>10, <1>13, <1>14
  <2>2. n.stale \subseteq n.running /\ n.running \subseteq n.queue
        /\ DOMAIN n.pending \cap n.queue \subseteq n.running
    BY <1>2, <1>8 DEF QueueOK
  <2>3. b.running \subseteq b.queue
    BY <1>8, <1>9, <1>10, <1>14, <2>1, <2>2
  <2>4. \A p \in qs : p.item \notin n.done => p.item \in UnderWay(b)
    BY <1>2, <1>5, <1>8, <2>1 DEF KnownOK, UnderWay
  <2>5. b.stale \subseteq b.running /\ DOMAIN b.pending \subseteq DOMAIN n.pending
        /\ DOMAIN b.pending \cap b.queue \subseteq b.running
    BY <2>1, <2>2
  <2>6. b \in AgentState /\ b.done = n.done /\ b.date = n.date
        /\ b.posts = n.posts /\ b.comments = n.comments
        /\ b.lastPost = n.lastPost /\ b.lastComment = n.lastComment
    BY <1>8, <1>9, <1>10, <1>14
  <2> QED BY <2>1, <2>3, <2>4, <2>5, <2>6 DEF Shrunk
<1>16. Core(now, n, qs)
  <2>1. Core(now, a, qs)
    BY <1>2, <1>5, CoreFewer
  <2> QED BY <1>7, <2>1, CoreNormal
<1>17. Core(now, b, qs)
  BY <1>15, <1>16, CoreShrunk
<1>18. OneWrite("idle", {}) /\ InHand(b, "idle", {}, qs) /\ Planning(now, b, "idle", {}, qs)
  BY DEF OneWrite, InHand, Planning
<1> QED BY <1>1, <1>4, <1>5, <1>12, <1>17, <1>18 DEF BudgetInv

LEMMA ReconcileKeeps == BudgetInv /\ ReconcileWrites => BudgetInv'
<1> SUFFICES ASSUME BudgetInv, ReconcileWrites PROVE BudgetInv'
  OBVIOUS
<1>1. PICK a, ps : a = agent /\ ps = published \ lost
  OBVIOUS
<1>2. /\ Core(now, a, ps) /\ now \in Nat /\ a \in AgentState /\ QueueOK(a) /\ KnownOK(now, a, ps)
      /\ lost \subseteq published /\ OneWrite(at, write) /\ at = "idle"
      /\ AgentOK(now, a)
  BY <1>1, BudgetInvIs DEF BudgetInv, Core, ReconcileWrites
<1>3. PICK out : out = {w \in DOMAIN a.pending :
                          \E p \in published : p.item = w /\ p.created = a.pending[w]}
  OBVIOUS
<1>4. PICK r : r = RecordWrites(a, out)
  OBVIOUS
<1>5. PICK expired \in SUBSET DOMAIN a.pending :
        agent' = [r EXCEPT !.pending = [w \in DOMAIN r.pending \ expired |-> r.pending[w]],
                           !.stale = r.running \ expired]
  <2> DEFINE Out == {w \in DOMAIN agent.pending :
                       \E p \in published : p.item = w /\ p.created = agent.pending[w]}
             Reconciled(x) ==
               \E expired \in SUBSET DOMAIN agent.pending :
                 agent' = [x EXCEPT !.pending = [w \in DOMAIN x.pending \ expired |-> x.pending[w]],
                                    !.stale = x.running \ expired]
  <2>1. Reconciled(RecordWrites(agent, Out))
    BY DEF ReconcileWrites
  <2>2. Out = out
    BY <1>1, <1>3
  <2>3. RecordWrites(agent, Out) = r
    <3> HIDE DEF Out
    <3> QED BY <1>1, <1>4, <2>2
  <2>4. Reconciled(r)
    <3> HIDE DEF Out, Reconciled
    <3> QED BY <2>1, <2>3
  <2> QED BY <1>1, <2>4
<1>6. /\ at' = "plan" /\ now' = now /\ write' = write /\ published' \ lost' = ps
      /\ lost' \subseteq published' /\ write = {}
  BY <1>1, <1>2 DEF ReconcileWrites, OneWrite
<1>7. out \subseteq DOMAIN a.pending
  BY <1>3
<1>8. Core(now, r, ps)
  BY <1>2, <1>4, <1>7, CoreRecorded
<1>9. r \in AgentState /\ QueueOK(r) /\ r.done = a.done \cup out
  <2>1. IsFiniteSet(out)
    BY <1>2, <1>7, FS_Subset DEF AgentOK
  <2>2. a.lastPost \in Never .. now /\ a.lastComment \in Never .. now
        /\ \A w \in out : a.pending[w] <= now
    BY <1>2, <1>7 DEF AgentOK
  <2>3. r.done = a.done \cup out
    BY <1>2, <1>4, <1>7, <2>1, <2>2, RecordIs
  <2> QED BY <1>8, <2>3 DEF Core, AgentOK
<1>10. \A p \in ps : p.item \in r.done
  <2> SUFFICES ASSUME NEW p \in ps, p.item \notin a.done PROVE p.item \in out
    BY <1>9
  <2>1. p.item \in DOMAIN a.pending /\ a.pending[p.item] = p.created
    BY <1>2 DEF KnownOK, UnderWay
  <2> QED BY <1>1, <1>3, <2>1
<1>11. PICK f : f = [w \in DOMAIN r.pending \ expired |-> r.pending[w]]
  OBVIOUS
<1>12. /\ f \in Pendings /\ DOMAIN f = DOMAIN r.pending \ expired
       /\ \A w \in DOMAIN f : f[w] = r.pending[w]
  <2>1. PICK D : D = DOMAIN r.pending \ expired
    OBVIOUS
  <2>2. D \subseteq DOMAIN r.pending /\ r.pending \in Pendings /\ f = [w \in D |-> r.pending[w]]
    BY <1>9, <1>11, <2>1 DEF AgentState
  <2>3. f \in Pendings /\ DOMAIN f = D /\ \A w \in D : f[w] = r.pending[w]
    BY <2>2, PendingLess
  <2> QED BY <2>1, <2>3
<1>13. PICK b : b = [r EXCEPT !.pending = f, !.stale = r.running \ expired]
  OBVIOUS
<1>14. agent' = b
  BY <1>5, <1>11, <1>13
<1>15. /\ b \in AgentState /\ b.done = r.done /\ b.date = r.date
       /\ b.posts = r.posts /\ b.comments = r.comments
       /\ b.lastPost = r.lastPost /\ b.lastComment = r.lastComment
       /\ b.queue = r.queue /\ b.running = r.running /\ b.stale = r.running \ expired
       /\ b.pending = f
  BY <1>9, <1>12, <1>13 DEF AgentState
<1>16. Shrunk(r, b, ps)
  BY <1>9, <1>10, <1>12, <1>15 DEF Shrunk, QueueOK
<1>17. Core(now, b, ps)
  BY <1>8, <1>16, CoreShrunk
<1>18. OneWrite("plan", {}) /\ InHand(b, "plan", {}, ps) /\ Planning(now, b, "plan", {}, ps)
  BY <1>10, <1>15 DEF OneWrite, InHand, Planning
<1> QED BY <1>6, <1>14, <1>17, <1>18 DEF BudgetInv

\* Posts keep to their spacing and both to their limits when they are planned.
LEMMA PlannedFits ==
  ASSUME now \in Nat, NEW a, NEW ps, Core(now, a, ps), NEW w \in Plans(NormalState(a))
  PROVE  /\ w \in Items /\ w \notin a.done \cup DOMAIN a.pending
         /\ w \in Posts => DOMAIN a.pending \cap Posts = {} /\ Room(now, a, ps)
         /\ w \in Comments =>
              Cardinality(RecordedOn(a, ps, Comments, Day(now))) < Most(CommentsPerDay)
<1>1. PICK n : n = NormalState(a)
  OBVIOUS
<1>2. Core(now, n, ps) /\ a \in AgentState /\ n \in AgentState
  BY <1>1, CoreNormal, NormalIs DEF Core, AgentOK
<1>3. n.date = Day(now) /\ n.done = a.done /\ n.queue = a.queue /\ n.pending = a.pending
  BY <1>1, <1>2, NormalIs
<1>4. AgentOK(now, n) /\ KnownOK(now, n, ps) /\ CountsOK(n, ps)
  BY <1>2 DEF Core
<1>5. \A items : RecordedOn(n, ps, items, Day(now)) = RecordedOn(a, ps, items, Day(now))
  BY <1>3 DEF RecordedOn
<1>6. New \in BOOLEAN
  BY DEF New
<1>7. /\ w \in Items \ (n.done \cup n.queue \cup DOMAIN n.pending)
      /\ IF w \in Posts THEN CanPost(n) ELSE CanComment(n)
  BY <1>1 DEF Plans
<1>8. /\ n.posts \in Nat /\ n.comments \in Nat /\ n.lastPost \in Never .. now
      /\ \A items : Cardinality(RecordedOn(a, ps, items, Day(now))) \in Nat
  <2>1. \A items : IsFiniteSet(RecordedOn(n, ps, items, Day(now)))
    BY <1>4, CountedAreFinite
  <2> QED BY <1>2, <1>4, <1>5, <2>1, FS_CardinalityType DEF AgentState, AgentOK
<1>9. ASSUME w \in Posts PROVE DOMAIN a.pending \cap Posts = {} /\ Room(now, a, ps)
  <2>1. /\ n.posts < PostsPerDay[New]
        /\ n.lastPost = Never \/ now - n.lastPost >= PostSpacing[New]
        /\ DOMAIN n.pending \cap Posts = {}
    BY <1>7, <1>9 DEF CanPost
  <2>2. PostsPerDay[New] \in Nat /\ PostsPerDay[New] <= Most(PostsPerDay) /\ Most(PostsPerDay) \in Nat
    BY <1>6, MostIs, BudgetConstants
  <2>3. PostSpacing[New] \in Nat /\ LeastSpacing <= PostSpacing[New] /\ LeastSpacing \in Nat
    BY <1>6, LeastIs, BudgetConstants
  <2>4. Cardinality(RecordedOn(a, ps, Posts, Day(now))) <= n.posts
    BY <1>3, <1>4, <1>5 DEF CountsOK
  <2>5. Cardinality(RecordedOn(a, ps, Posts, Day(now))) < Most(PostsPerDay)
    <3>1. PICK c \in Nat : c = Cardinality(RecordedOn(a, ps, Posts, Day(now)))
      BY <1>8
    <3> QED BY <1>8, <2>1, <2>2, <2>4, <3>1
  <2>6. ASSUME NEW p \in ps, p.item \in Posts \cap a.done PROVE p.created + LeastSpacing <= now
    <3>1. p.created <= n.lastPost /\ p.created \in Nat
      BY <1>3, <1>4, <2>6 DEF CountsOK, KnownOK, Publication
    <3>2. n.lastPost # Never /\ n.lastPost \in Int
      BY <1>8, <3>1 DEF Never
    <3> QED BY <2>1, <2>3, <3>1, <3>2
  <2> QED BY <1>3, <2>1, <2>5, <2>6 DEF Room
<1>10. ASSUME w \in Comments
       PROVE  Cardinality(RecordedOn(a, ps, Comments, Day(now))) < Most(CommentsPerDay)
  <2>1. w \notin Posts
    BY <1>10, BudgetConstants
  <2>2. n.comments < CommentsPerDay[New]
    BY <1>7, <2>1 DEF CanComment
  <2>3. /\ CommentsPerDay[New] \in Nat /\ CommentsPerDay[New] <= Most(CommentsPerDay)
        /\ Most(CommentsPerDay) \in Nat
    BY <1>6, MostIs, BudgetConstants
  <2>4. Cardinality(RecordedOn(a, ps, Comments, Day(now))) <= n.comments
    BY <1>3, <1>4, <1>5 DEF CountsOK
  <2>5. PICK c \in Nat : c = Cardinality(RecordedOn(a, ps, Comments, Day(now)))
    BY <1>8
  <2> QED BY <1>8, <2>2, <2>3, <2>4, <2>5
<1> QED BY <1>3, <1>7, <1>9, <1>10

LEMMA PlanOneKeeps == BudgetInv /\ PlanOne => BudgetInv'
<1> SUFFICES ASSUME BudgetInv, PlanOne PROVE BudgetInv'
  OBVIOUS
<1>1. PICK a, ps : a = agent /\ ps = published \ lost
  OBVIOUS
<1>2. /\ Core(now, a, ps) /\ now \in Nat /\ lost \subseteq published
      /\ Planning(now, a, at, write, ps) /\ at = "plan"
  BY <1>1, BudgetInvIs DEF BudgetInv, PlanOne
<1>3. PICK w \in Plans(NormalState(a)) : write' = {w}
  BY <1>1 DEF PlanOne
<1>4. /\ at' = "draft" /\ now' = now /\ agent' = a /\ published' \ lost' = ps
      /\ lost' \subseteq published'
  BY <1>1, <1>2 DEF PlanOne
<1>5. /\ w \in Items /\ w \notin a.done \cup DOMAIN a.pending
      /\ w \in Posts => DOMAIN a.pending \cap Posts = {} /\ Room(now, a, ps)
      /\ w \in Comments =>
           Cardinality(RecordedOn(a, ps, Comments, Day(now))) < Most(CommentsPerDay)
  BY <1>2, PlannedFits
<1>6. OneWrite("draft", {w}) /\ InHand(a, "draft", {w}, ps)
  BY <1>5 DEF OneWrite, InHand
<1>7. Planning(now, a, "draft", {w}, ps)
  BY <1>2, <1>5 DEF Planning
<1> QED BY <1>2, <1>3, <1>4, <1>6, <1>7 DEF BudgetInv

LEMMA EnqueueKeeps == BudgetInv /\ EnqueueWrite => BudgetInv'
<1> SUFFICES ASSUME BudgetInv, EnqueueWrite PROVE BudgetInv'
  OBVIOUS
<1>1. PICK a, ps : a = agent /\ ps = published \ lost
  OBVIOUS
<1>2. /\ Core(now, a, ps) /\ now \in Nat /\ a \in AgentState /\ lost \subseteq published
      /\ Planning(now, a, at, write, ps) /\ OneWrite(at, write) /\ at = "draft"
  BY <1>1, BudgetInvIs DEF BudgetInv, EnqueueWrite
<1>3. PICK w \in Items : write = {w}
  BY <1>2 DEF OneWrite
<1>4. PICK n : n = NormalState(a)
  OBVIOUS
<1>5. Core(now, n, ps) /\ QueueOK(n) /\ n \in AgentState
      /\ IsFiniteSet(n.queue) /\ Cardinality(n.queue) <= QueueLimit
  BY <1>2, <1>4, CoreNormal DEF Core, AgentOK
<1>6. n.done = a.done /\ n.pending = a.pending
  BY <1>2, <1>4, NormalIs
<1>7. /\ \A p \in ps : p.item \in n.done
      /\ w \notin n.done \cup DOMAIN n.pending
      /\ w \in Posts => DOMAIN n.pending \cap Posts = {} /\ Room(now, a, ps)
      /\ w \in Comments =>
           Cardinality(RecordedOn(a, ps, Comments, Day(now))) < Most(CommentsPerDay)
  BY <1>2, <1>3, <1>6 DEF Planning
<1>8. PICK excess : excess = Max({0, Cardinality(n.queue) + 1 - QueueLimit})
  OBVIOUS
<1>9. IF Queued(n, w) THEN agent' = n
      ELSE \E cut \in kSubset(excess, n.queue) :
             agent' = [n EXCEPT !.queue = (n.queue \ cut) \cup {w},
                                !.running = n.running \ cut, !.stale = n.stale \ cut]
  <2> DEFINE Enqueued(x, v) ==
        IF Queued(x, v) THEN agent' = x
        ELSE \E cut \in kSubset(Max({0, Cardinality(x.queue) + 1 - QueueLimit}), x.queue) :
               agent' = [x EXCEPT !.queue = (x.queue \ cut) \cup {v},
                                  !.running = x.running \ cut, !.stale = x.stale \ cut]
  <2>1. \E v \in write : Enqueued(NormalState(agent), v)
    BY DEF EnqueueWrite
  <2>2. Enqueued(n, w)
    <3> HIDE DEF Enqueued
    <3> QED BY <1>1, <1>3, <1>4, <2>1
  <2> QED BY <1>8, <2>2
<1>10. /\ at' = "idle" /\ write' = {} /\ now' = now
       /\ published' \ lost' = ps /\ lost' \subseteq published'
  BY <1>1, <1>2 DEF EnqueueWrite
<1>11. \A b : /\ OneWrite("idle", {}) /\ InHand(b, "idle", {}, ps)
              /\ Planning(now, b, "idle", {}, ps)
  BY DEF OneWrite, InHand, Planning
<1>12. CASE Queued(n, w)
  <2>1. agent' = n
    BY <1>9, <1>12
  <2> QED BY <1>5, <1>10, <1>11, <2>1 DEF BudgetInv
<1>13. CASE ~Queued(n, w)
  <2>1. PICK cut \in kSubset(excess, n.queue) :
          agent' = [n EXCEPT !.queue = (n.queue \ cut) \cup {w},
                             !.running = n.running \ cut, !.stale = n.stale \ cut]
    BY <1>9, <1>13
  <2>2. cut \subseteq n.queue /\ Cardinality(cut) = excess
    BY <2>1 DEF kSubset
  <2>3. PICK c : c = [n EXCEPT !.queue = n.queue \ cut,
                               !.running = n.running \ cut, !.stale = n.stale \ cut]
    OBVIOUS
  <2>4. /\ c \in AgentState /\ c.done = n.done /\ c.date = n.date
        /\ c.posts = n.posts /\ c.comments = n.comments
        /\ c.lastPost = n.lastPost /\ c.lastComment = n.lastComment
        /\ c.queue = n.queue \ cut /\ c.running = n.running \ cut /\ c.stale = n.stale \ cut
        /\ c.pending = n.pending
    BY <1>5, <2>3 DEF AgentState
  <2>5. Shrunk(n, c, ps)
    BY <1>5, <1>7, <2>4 DEF Shrunk, QueueOK
  <2>6. Core(now, c, ps)
    BY <1>5, <2>5, CoreShrunk
  <2>7. PICK b : b = [n EXCEPT !.queue = (n.queue \ cut) \cup {w},
                               !.running = n.running \ cut, !.stale = n.stale \ cut]
    OBVIOUS
  <2>8. IsQueued(c, b, w)
    <3>1. /\ b \in AgentState /\ b.done = n.done /\ b.date = n.date
          /\ b.posts = n.posts /\ b.comments = n.comments
          /\ b.lastPost = n.lastPost /\ b.lastComment = n.lastComment
          /\ b.queue = (n.queue \ cut) \cup {w}
          /\ b.running = n.running \ cut /\ b.stale = n.stale \ cut /\ b.pending = n.pending
      BY <1>5, <2>7 DEF AgentState
    <3> QED BY <2>4, <3>1 DEF IsQueued
  <2>9. Cardinality(c.queue) < QueueLimit
    <3>1. Cardinality(n.queue) \in Nat
      BY <1>5, FS_CardinalityType
    <3>2. PICK x \in Int : x = Cardinality(n.queue) + 1 - QueueLimit /\ x <= 1
      BY <1>5, <3>1, BudgetConstants
    <3>3. excess \in {0, x} /\ excess >= x /\ excess >= 0
      <4>1. \E m \in {0, x} : \A y \in {0, x} : m >= y
        BY <3>2
      <4>2. Max({0, x}) \in {0, x} /\ \A y \in {0, x} : Max({0, x}) >= y
        BY <4>1 DEF Max
      <4> QED BY <1>8, <3>2, <4>2
    <3>4. Cardinality(n.queue \ cut) = Cardinality(n.queue) - Cardinality(n.queue \cap cut)
      BY <1>5, FS_Difference
    <3>5. n.queue \cap cut = cut
      BY <2>2
    <3>6. Cardinality(c.queue) = Cardinality(n.queue) - excess
      BY <2>2, <2>4, <3>4, <3>5
    <3> QED BY <3>1, <3>2, <3>3, <3>6, BudgetConstants
  <2>10. \A d : RecordedOn(c, ps, Comments, d) = RecordedOn(a, ps, Comments, d)
    BY <1>6, <2>4 DEF RecordedOn
  <2>11. Room(now, a, ps) => Room(now, c, ps)
    BY <1>6, <2>4 DEF Room, RecordedOn
  <2>12. ASSUME w \in Posts PROVE Afoot(c) \cap Posts = {}
    <3>1. n.queue \cap Posts = {}
      BY <1>13, <2>12 DEF Queued
    <3> QED BY <1>7, <2>4, <2>12, <3>1 DEF Afoot
  <2>13. Core(now, b, ps)
    <3>1. w \notin c.done \cup DOMAIN c.pending
      BY <1>7, <2>4
    <3>2. w \in Posts => Afoot(c) \cap Posts = {} /\ Room(now, c, ps)
      BY <1>7, <2>11, <2>12
    <3>3. w \in Comments =>
            Cardinality(RecordedOn(c, ps, Comments, Day(now))) < Most(CommentsPerDay)
      BY <1>7, <2>10
    <3> QED BY <2>6, <2>8, <2>9, <3>1, <3>2, <3>3, CoreJoined
  <2> QED BY <1>10, <1>11, <2>1, <2>7, <2>13 DEF BudgetInv
<1> QED BY <1>12, <1>13

----------------------------------------------------------------------------
\* The invariant and the property.

LEMMA BudgetNextKeeps == BudgetInv /\ [BudgetNext]_budgetVars => BudgetInv'
<1> SUFFICES ASSUME BudgetInv, [BudgetNext]_budgetVars PROVE BudgetInv'
  OBVIOUS
<1>1. CASE UNCHANGED budgetVars
  <2>1. now' = now /\ agent' = agent /\ at' = at /\ write' = write
        /\ published' = published /\ lost' = lost
    BY <1>1 DEF budgetVars
  <2> QED BY <2>1 DEF BudgetInv
<1> QED
  BY <1>1, PickKeeps, PublishKeeps, RecordKeeps, FailKeeps, ReconcileKeeps, PlanOneKeeps,
     PlanNoneKeeps, EnqueueKeeps, KillKeeps, PeriodKeeps DEF BudgetNext

\* What was published on a day is one publication per write, but for those whose attempt
\* began on an earlier day.
LEMMA DayIsCounted ==
  ASSUME BudgetInv, NEW items, NEW d \in Nat
  PROVE  /\ Cardinality(On(d, items)) \in Nat
         /\ Cardinality(Straddling(On(d, items))) \in Nat
         /\ Cardinality(PublishedOn(published \ lost, items, d)) \in Nat
         /\ Cardinality(On(d, items))
              <= Cardinality(PublishedOn(published \ lost, items, d))
                   + Cardinality(Straddling(On(d, items)))
<1>1. PICK a, ps : a = agent /\ ps = published \ lost
  OBVIOUS
<1>2. AgentOK(now, a) /\ KnownOK(now, a, ps) /\ now \in Nat
  BY <1>1, BudgetInvIs DEF Core
<1>3. PICK S, T, W : S = On(d, items) /\ T = Straddling(S) /\ W = PublishedOn(ps, items, d)
  OBVIOUS
<1>4. S \subseteq ps /\ T \subseteq S
  BY <1>1, <1>3 DEF On, Straddling
<1>5. IsFiniteSet(ps)
  <2>1. PICK D : D = a.done \cup DOMAIN a.pending
    OBVIOUS
  <2>2. IsFiniteSet(D)
    BY <1>2, <2>1, FS_Union DEF AgentOK
  <2>3. PICK f : f = [p \in ps |-> p.item]
    OBVIOUS
  <2>4. f \in [ps -> D] /\ \A p, q \in ps : f[p] = f[q] => p = q
    BY <1>2, <2>1, <2>3 DEF KnownOK, UnderWay
  <2>5. f \in Injection(ps, D)
    BY <2>4 DEF Injection, IsInjective
  <2> QED BY <2>2, <2>5, FS_Injection
<1>6. IsFiniteSet(S) /\ IsFiniteSet(T) /\ Cardinality(S) \in Nat /\ Cardinality(T) \in Nat
  BY <1>4, <1>5, FS_Subset, FS_CardinalityType
<1>7. IsFiniteSet(W) /\ Cardinality(W) \in Nat
  BY <1>2, <1>3, CountedAreFinite, FS_CardinalityType
<1>8. Cardinality(S \ T) <= Cardinality(W)
  <2>1. PICK f : f = [p \in S \ T |-> p.item]
    OBVIOUS
  <2>2. ASSUME NEW p \in S \ T PROVE p.item \in W
    <3>1. p \in ps /\ Day(p.time) = d /\ p.item \in items /\ ~(Day(p.created) < Day(p.time))
      BY <1>1, <1>3 DEF On, Straddling
    <3>2. p.created \in Nat /\ p.time \in Nat /\ p.created <= p.time
      BY <1>2, <3>1 DEF KnownOK, Publication
    <3>3. Day(p.created) \in Nat /\ Day(p.created) <= Day(p.time) /\ Day(p.time) \in Nat
      BY <3>2, DayIs
    <3>4. Day(p.created) = d
      BY <3>1, <3>3
    <3> QED BY <1>3, <3>1, <3>4 DEF PublishedOn
  <2>3. \A p, q \in S \ T : f[p] = f[q] => p = q
    BY <1>2, <1>4, <2>1 DEF KnownOK
  <2>4. f \in Injection(S \ T, W)
    BY <2>1, <2>2, <2>3 DEF Injection, IsInjective
  <2> QED BY <1>7, <2>4, FS_Injection
<1>9. Cardinality(S \ T) = Cardinality(S) - Cardinality(T)
  <2>1. S \cap T = T
    BY <1>4
  <2>2. Cardinality(S \ T) = Cardinality(S) - Cardinality(S \cap T)
    BY <1>6, FS_Difference
  <2> QED BY <2>1, <2>2
<1>10. Cardinality(S) <= Cardinality(W) + Cardinality(T)
  BY <1>6, <1>7, <1>8, <1>9
<1> QED BY <1>1, <1>3, <1>6, <1>7, <1>10

LEMMA BudgetInvImplies == BudgetInv => BudgetsAreKept
<1> SUFFICES ASSUME BudgetInv PROVE BudgetsAreKept
  OBVIOUS
<1>1. PICK a, ps : a = agent /\ ps = published \ lost
  OBVIOUS
<1>2. /\ AgentOK(now, a) /\ QueueOK(a) /\ KnownOK(now, a, ps) /\ PostsOK(now, a, ps)
      /\ CommentsOK(now, a, ps)
  BY <1>1, BudgetInvIs DEF Core
<1>3. Most(PostsPerDay) \in Nat /\ Most(CommentsPerDay) \in Nat /\ QueueLimit \in Nat /\ QueueLimit > 0
  BY MostIs, BudgetConstants
<1>4. ASSUME NEW d
      PROVE  /\ Cardinality(On(d, Posts))
                  <= Most(PostsPerDay) + Cardinality(Straddling(On(d, Posts)))
             /\ Cardinality(On(d, Comments))
                  < Most(CommentsPerDay) + QueueLimit + Cardinality(Straddling(On(d, Comments)))
  <2>1. CASE d \in Nat
    <3>1. PICK s \in Nat, r \in Nat, m \in Nat :
            /\ s = Cardinality(On(d, Posts)) /\ r = Cardinality(Straddling(On(d, Posts)))
            /\ m = Cardinality(PublishedOn(ps, Posts, d)) /\ s <= m + r
      BY <1>1, <2>1, DayIsCounted
    <3>2. m <= Most(PostsPerDay)
      BY <1>2, <2>1, <3>1 DEF PostsOK
    <3>3. PICK cs \in Nat, cr \in Nat, cm \in Nat :
            /\ cs = Cardinality(On(d, Comments)) /\ cr = Cardinality(Straddling(On(d, Comments)))
            /\ cm = Cardinality(PublishedOn(ps, Comments, d)) /\ cs <= cm + cr
      BY <1>1, <2>1, DayIsCounted
    <3>4. PublishedOn(ps, Comments, d)
            \subseteq RecordedOn(a, ps, Comments, d) \cup AttemptedOn(a, Comments, d)
      BY <1>2 DEF PublishedOn, RecordedOn, AttemptedOn, KnownOK, UnderWay, QueueOK
    <3>5. PICK k \in Nat :
            /\ k = Cardinality(RecordedOn(a, ps, Comments, d) \cup AttemptedOn(a, Comments, d))
            /\ cm <= k
      BY <1>2, <3>3, <3>4, CountedAreFinite, AtMost
    <3>6. k < Most(CommentsPerDay) + QueueLimit
      BY <1>2, <2>1, <3>5 DEF CommentsOK
    <3> QED BY <1>3, <3>1, <3>2, <3>3, <3>5, <3>6
  <2>2. CASE d \notin Nat
    <3>1. ASSUME NEW items PROVE On(d, items) = {} /\ Straddling(On(d, items)) = {}
      <4>1. \A p \in ps : p.time \in Nat
        BY <1>2 DEF KnownOK, Publication
      <4>2. \A p \in ps : Day(p.time) \in Nat
        BY <4>1, DayIs
      <4>3. On(d, items) = {}
        BY <1>1, <2>2, <4>2 DEF On
      <4>4. Straddling({}) = {}
        BY DEF Straddling
      <4> QED BY <4>3, <4>4
    <3>2. /\ Cardinality(On(d, Posts)) = 0 /\ Cardinality(Straddling(On(d, Posts))) = 0
          /\ Cardinality(On(d, Comments)) = 0 /\ Cardinality(Straddling(On(d, Comments))) = 0
      BY <3>1, FS_EmptySet
    <3>3. 0 <= Most(PostsPerDay) + 0 /\ 0 < Most(CommentsPerDay) + QueueLimit + 0
      BY <1>3
    <3> QED BY <3>2, <3>3
  <2> QED BY <2>1, <2>2
<1>5. ASSUME NEW p \in ps, NEW q \in ps, {p.item, q.item} \subseteq Posts, p # q,
             p.created <= q.created
      PROVE  q.time - p.created >= LeastSpacing
  <2>1. p.created + LeastSpacing <= q.created
    BY <1>2, <1>5 DEF PostsOK
  <2>2. p.created \in Nat /\ q.created \in Nat /\ q.time \in Nat /\ q.created <= q.time
    BY <1>2 DEF KnownOK, Publication
  <2> QED BY <2>1, <2>2, LeastIs
<1> QED BY <1>1, <1>4, <1>5 DEF BudgetsAreKept, LeastSpacing

\* Whatever runs are killed, whatever answers are lost and whenever a day ends, the posts
\* of a day keep to their budget and their spacing, and its comments exceed theirs by
\* no more than the queue holds.
THEOREM BudgetsCorrect == BudgetSpec => []BudgetsAreKept
<1>1. BudgetInit => BudgetInv
  BY BudgetInitInv
<1>2. BudgetInv /\ [BudgetNext]_budgetVars => BudgetInv'
  BY BudgetNextKeeps
<1>3. BudgetInv => BudgetsAreKept
  BY BudgetInvImplies
<1> QED BY <1>1, <1>2, <1>3, PTL DEF BudgetSpec

\* The state has its type: what runs is queued, only what was picked is pending, and
\* nothing that is recorded is queued or pending.
THEOREM BudgetTypeCorrect == BudgetSpec => []BudgetTypeOK
<1> DEFINE I == BudgetInv /\ now <= MaxTime
<1>1. BudgetInit => I
  <2>1. BudgetInit => now = 0
    BY DEF BudgetInit
  <2> QED BY <2>1, BudgetInitInv, BudgetConstants
<1>2. I /\ [BudgetNext]_budgetVars => I'
  <2> SUFFICES ASSUME BudgetInv, now <= MaxTime, [BudgetNext]_budgetVars
               PROVE  BudgetInv' /\ now' <= MaxTime
    OBVIOUS
  <2>1. BudgetInv' /\ now \in Nat
    BY BudgetNextKeeps, BudgetInvIs
  <2>2. now' = now \/ PassPeriod
    BY DEF BudgetNext, budgetVars, PickWrite, PublishWrite, RecordAnswer, FailWrite,
           ReconcileWrites, PlanOne, PlanNone, EnqueueWrite, KillRun
  <2>3. PassPeriod => now < MaxTime /\ now' = now + 1
    BY DEF PassPeriod
  <2> QED BY <2>1, <2>2, <2>3, BudgetConstants
<1>3. I => BudgetTypeOK
  <2> SUFFICES ASSUME BudgetInv, now <= MaxTime PROVE BudgetTypeOK
    OBVIOUS
  <2>1. PICK a : a = agent
    OBVIOUS
  <2>2. AgentOK(now, a) /\ QueueOK(a) /\ OneWrite(at, write) /\ lost \subseteq published
    BY <2>1 DEF BudgetInv, Core
  <2>3. now \in 0 .. MaxTime /\ now \in Nat
    BY <2>2, BudgetConstants DEF AgentOK
  <2>4. a.date \in 0 .. Day(now) /\ {a.posts, a.comments} \subseteq Nat
    BY <2>2, <2>3, DayIs DEF AgentOK, AgentState
  <2>5. /\ at \in {"idle", "publish", "answer", "plan", "draft"}
        /\ write \subseteq Items /\ (write = {} <=> at \in {"idle", "plan"})
    BY <2>2 DEF OneWrite
  <2>6. {a.lastPost, a.lastComment} \subseteq Never .. now
    BY <2>2 DEF AgentOK
  <2>7. a.queue \subseteq Items /\ Cardinality(a.queue) <= QueueLimit
        /\ a.stale \subseteq a.running /\ a.running \subseteq a.queue
        /\ a.done \cap (a.queue \cup DOMAIN a.pending) = {}
    BY <2>2 DEF AgentOK, AgentState, QueueOK, Afoot
  <2>8. a.pending \in [DOMAIN a.pending -> 0 .. now]
    <3>1. PICK f : f = a.pending
      OBVIOUS
    <3>2. f \in Pendings /\ \A w \in DOMAIN f : f[w] <= now
      BY <2>2, <3>1 DEF AgentOK, AgentState
    <3>3. f \in [DOMAIN f -> Nat]
      BY <3>2, PendingIs
    <3>4. \A w \in DOMAIN f : f[w] \in 0 .. now
      BY <2>3, <3>2, <3>3
    <3> QED BY <3>1, <3>3, <3>4
  <2> QED BY <2>1, <2>2, <2>3, <2>4, <2>5, <2>6, <2>7, <2>8 DEF BudgetTypeOK
<1> HIDE DEF I
<1> QED BY <1>1, <1>2, <1>3, PTL DEF BudgetSpec

----------------------------------------------------------------------------
\* The verification of a write at Moltbook.

Copy == [challenge : Challenges \cup {NoChallenge}, shown : BOOLEAN, answers : 0..3]

ClientTyped ==
  /\ copies \in Seq(Copy) /\ lostOutcomes \in 0..MaxLostOutcomes
  /\ challenge \in Challenges \cup {NoChallenge}
  /\ attempt \in 1..JobAttempts /\ answers \in 0..3
  /\ step \in {"publish", "solve", "ask", "verify", "posted", "failed", "end"}
  /\ outcome \in {None, "posted", "failed"} /\ (step = "end" <=> outcome # None)

\* The attempt has a copy of its own once it has published, with a challenge as long as
\* that is worked on, to which at most two answers were given.
OwnCopy ==
  /\ Len(copies) <= attempt
  /\ step = "publish" => Len(copies) < attempt
  /\ step \in {"solve", "ask", "verify"} =>
       /\ copies # <<>> /\ ~Current.shown /\ Current.answers = answers /\ answers < 3
       /\ Current.challenge = challenge /\ challenge # NoChallenge

\* Only the copy of the last attempt may be shown without an answer, or the record of a
\* success, having been lost.
ShownIsCounted ==
  /\ Cardinality(Shown) <= IF step \in {"posted", "end"} THEN 1 + lostOutcomes ELSE lostOutcomes
  /\ step = "posted" /\ config.autoVerify => copies # <<>> /\ Current.shown
  /\ outcome = "posted" /\ config.autoVerify => copies # <<>> /\ Current.shown
  /\ outcome = "failed" => Cardinality(Shown) <= lostOutcomes

ClientInv == ClientTyped /\ OwnCopy /\ ShownIsCounted

\* What Verify or PublishContent do to the copies.
LEMMA ShownFinite ==
  ASSUME copies \in Seq(Copy)
  PROVE  IsFiniteSet(Shown) /\ Cardinality(Shown) \in Nat
<1>1. IsFiniteSet(1..Len(copies))
  BY FS_Interval
<1>2. Shown \in SUBSET (1..Len(copies))
  BY DEF Shown
<1>3. IsFiniteSet(Shown)
  BY <1>1, <1>2, FS_Subset
<1> QED BY <1>3, FS_CardinalityType

\* A new copy counts if it is shown.
LEMMA PublishCopy ==
  ASSUME ClientInv, NEW c \in Challenges \cup {NoChallenge},
         copies' = Append(copies, [challenge |-> c, shown |-> c = NoChallenge, answers |-> 0])
  PROVE  /\ copies' \in Seq(Copy) /\ Len(copies') = Len(copies) + 1 /\ copies' # <<>>
         /\ Current'.challenge = c /\ Current'.answers = 0
         /\ Current'.shown <=> c = NoChallenge
         /\ Cardinality(Shown') \in Nat
         /\ Cardinality(Shown') <= Cardinality(Shown) + 1
         /\ c # NoChallenge => Cardinality(Shown') = Cardinality(Shown)
<1> DEFINE new == [challenge |-> c, shown |-> c = NoChallenge, answers |-> 0]
<1>1. copies \in Seq(Copy)
  BY DEF ClientInv, ClientTyped
<1>2. new \in Copy
  BY DEF Copy
<1>3. copies' = Append(copies, new)
  OBVIOUS
<1>4. new.shown <=> c = NoChallenge
  OBVIOUS
<1>5. new.challenge = c /\ new.answers = 0
  OBVIOUS
<1> HIDE DEF new
<1>6. /\ copies' \in Seq(Copy) /\ Len(copies') = Len(copies) + 1 /\ copies' # <<>>
      /\ Len(copies) \in Nat /\ copies'[Len(copies) + 1] = new
      /\ \A i \in 1..Len(copies) : copies'[i] = copies[i]
      /\ DOMAIN copies = 1..Len(copies) /\ DOMAIN copies' = 1..(Len(copies) + 1)
  BY <1>1, <1>2, <1>3
<1>7. Current' = new
  BY <1>6 DEF Current
<1>8. Shown' = IF c = NoChallenge THEN Shown \cup {Len(copies) + 1} ELSE Shown
  <2>1. \A i \in 1..Len(copies) + 1 :
          copies'[i].shown <=> IF i = Len(copies) + 1 THEN c = NoChallenge ELSE copies[i].shown
    BY <1>4, <1>6
  <2> QED BY <1>6, <2>1 DEF Shown
<1>9. IsFiniteSet(Shown) /\ Cardinality(Shown) \in Nat
  BY <1>1, ShownFinite
<1>10. Cardinality(Shown \cup {Len(copies) + 1}) \in {Cardinality(Shown), Cardinality(Shown) + 1}
  BY <1>9, FS_AddElement
<1>11. /\ Cardinality(Shown') \in Nat /\ Cardinality(Shown') <= Cardinality(Shown) + 1
       /\ c # NoChallenge => Cardinality(Shown') = Cardinality(Shown)
  BY <1>8, <1>9, <1>10
<1> QED BY <1>4, <1>5, <1>6, <1>7, <1>11

\* An answer may show the copy that was hidden.
LEMMA AnswerCopy ==
  ASSUME ClientInv, step = "verify", NEW right \in BOOLEAN,
         copies' = [copies EXCEPT ![Len(copies)].shown = right, ![Len(copies)].answers = @ + 1]
  PROVE  /\ copies' \in Seq(Copy) /\ Len(copies') = Len(copies) /\ copies' # <<>>
         /\ Current'.shown = right /\ Current'.answers = answers + 1
         /\ Current'.challenge = Current.challenge
         /\ Cardinality(Shown') \in Nat
         /\ Cardinality(Shown') <= Cardinality(Shown) + 1
         /\ ~right => Cardinality(Shown') = Cardinality(Shown)
<1>1. /\ copies \in Seq(Copy) /\ copies # <<>> /\ ~Current.shown
      /\ Current.answers = answers /\ answers \in 0..2
  BY DEF ClientInv, ClientTyped, OwnCopy
<1> DEFINE n == Len(copies)
           new == [copies[n] EXCEPT !.shown = right, !.answers = @ + 1]
<1>2. n \in Nat /\ n \in DOMAIN copies /\ DOMAIN copies = 1..n /\ copies[n] \in Copy
  BY <1>1
<1>3. /\ new \in Copy /\ new.shown = right /\ new.answers = answers + 1
      /\ new.challenge = copies[n].challenge
  BY <1>1, <1>2 DEF Copy, Current
<1>4. copies' = [copies EXCEPT ![n] = new]
  BY <1>1, <1>2
<1> HIDE DEF new
<1>5. /\ copies' \in Seq(Copy) /\ Len(copies') = n /\ copies' # <<>>
      /\ copies'[n] = new /\ DOMAIN copies' = 1..n
      /\ \A i \in 1..n : i # n => copies'[i] = copies[i]
  <2>1. PICK e \in Copy : e = new
    BY <1>3
  <2>2. PICK s \in Seq(Copy) : s = copies
    BY <1>1
  <2>3. n \in 1..Len(s) /\ Len(s) = n
    BY <1>2, <2>2
  <2>4. /\ [s EXCEPT ![n] = e] \in Seq(Copy) /\ Len([s EXCEPT ![n] = e]) = n
        /\ \A i \in 1..n : [s EXCEPT ![n] = e][i] = IF i = n THEN e ELSE s[i]
    <3> HIDE DEF n
    <3> QED BY ONLY <2>3, s \in Seq(Copy), e \in Copy, ExceptSeq
  <2>5. copies' = [s EXCEPT ![n] = e]
    BY <1>4, <2>1, <2>2
  <2>6. copies' \in Seq(Copy) /\ Len(copies') = n /\ n \in Nat /\ n \in 1..n
    BY <1>2, <2>4, <2>5
  <2>7. copies' # <<>> /\ DOMAIN copies' = 1..n
    BY <2>6
  <2> QED BY <2>1, <2>2, <2>4, <2>5, <2>6, <2>7
<1>6. Current' = new
  BY <1>5 DEF Current
<1>7. ~copies[n].shown
  BY <1>1 DEF Current
<1>8. Shown' = IF right THEN Shown \cup {n} ELSE Shown
  BY <1>2, <1>3, <1>5, <1>7 DEF Shown
<1>9. IsFiniteSet(Shown) /\ Cardinality(Shown) \in Nat
  BY <1>1, ShownFinite
<1>10. Cardinality(Shown \cup {n}) \in {Cardinality(Shown), Cardinality(Shown) + 1}
  BY <1>9, FS_AddElement
<1>11. /\ Cardinality(Shown') \in Nat /\ Cardinality(Shown') <= Cardinality(Shown) + 1
       /\ ~right => Cardinality(Shown') = Cardinality(Shown)
  BY <1>8, <1>9, <1>10
<1> QED BY <1>3, <1>5, <1>6, <1>11 DEF Current

\* Nothing is published at first.
LEMMA ClientInitial == ClientInit => ClientInv
<1> SUFFICES ASSUME ClientInit PROVE ClientInv
  OBVIOUS
<1>1. Shown = {}
  BY DEF ClientInit, Shown
<1>2. Cardinality(Shown) = 0
  BY <1>1, FS_EmptySet
<1>3. ClientTyped
  BY VerificationAssumption DEF ClientInit, ClientTyped, None
<1> QED
  BY <1>2, <1>3 DEF ClientInit, ClientInv, OwnCopy, ShownIsCounted, None

\* What is published is hidden until its challenge is answered, unless it has none; if
\* the answer of the site is lost it may be shown.
LEMMA PublishContentInv == ClientInv /\ PublishContent => ClientInv'
<1> SUFFICES ASSUME ClientInv, PublishContent PROVE ClientInv'
  OBVIOUS
<1>1. PICK c \in Challenges \cup {NoChallenge} :
        /\ copies' = Append(copies, [challenge |-> c, shown |-> c = NoChallenge, answers |-> 0])
        /\ \/ /\ challenge' = c /\ answers' = 0
              /\ step' = IF config.autoVerify /\ c # NoChallenge THEN "solve" ELSE "posted"
              /\ lostOutcomes' = lostOutcomes
           \/ /\ step' = "failed" /\ UNCHANGED <<challenge, answers>>
              /\ lostOutcomes < MaxLostOutcomes /\ lostOutcomes' = lostOutcomes + 1
  BY DEF PublishContent, Fails
<1>2. step = "publish" /\ UNCHANGED <<config, attempt, outcome>>
  BY DEF PublishContent
<1>3. /\ copies' \in Seq(Copy) /\ Len(copies') = Len(copies) + 1 /\ copies' # <<>>
      /\ Current'.challenge = c /\ Current'.answers = 0
      /\ Current'.shown <=> c = NoChallenge
      /\ Cardinality(Shown') \in Nat
      /\ Cardinality(Shown') <= Cardinality(Shown) + 1
      /\ c # NoChallenge => Cardinality(Shown') = Cardinality(Shown)
  BY <1>1, PublishCopy
<1>4. Len(copies) \in Nat /\ Cardinality(Shown) \in Nat
  BY ShownFinite DEF ClientInv, ClientTyped
<1>5. ClientTyped'
  BY <1>1, <1>2, <1>3, VerificationAssumption DEF ClientInv, ClientTyped
<1>6. OwnCopy'
  BY <1>1, <1>2, <1>3, <1>4 DEF ClientInv, ClientTyped, OwnCopy
<1>7. ShownIsCounted'
  <2>1. outcome = None /\ None \notin {"posted", "failed"}
    BY <1>2 DEF ClientInv, ClientTyped, None
  <2>2. Cardinality(Shown) <= lostOutcomes /\ lostOutcomes \in Nat
    BY <1>2, VerificationAssumption DEF ClientInv, ShownIsCounted, ClientTyped
  <2>3. Cardinality(Shown') <= IF step' = "posted" THEN 1 + lostOutcomes' ELSE lostOutcomes'
    BY <1>1, <1>3, <1>4, <2>2
  <2>4. step' = "posted" /\ config.autoVerify => Current'.shown
    BY <1>1, <1>3
  <2>5. step' # "end" /\ outcome' = None
    BY <1>1, <1>2, <2>1
  <2> QED BY <1>2, <1>3, <2>1, <2>3, <2>4, <2>5 DEF ShownIsCounted
<1> QED BY <1>5, <1>6, <1>7 DEF ClientInv

\* A right answer shows the copy, and no copy gets a fourth one.
LEMMA VerifyInv == ClientInv /\ Verify => ClientInv'
<1> SUFFICES ASSUME ClientInv, Verify PROVE ClientInv'
  OBVIOUS
<1> DEFINE right == answer = challenge.truth
<1>1. step = "verify" /\ UNCHANGED <<config, attempt, outcome>>
  BY DEF Verify
<1>2. /\ copies # <<>> /\ ~Current.shown /\ Current.answers = answers /\ answers \in 0..2
      /\ Current.challenge = challenge /\ challenge # NoChallenge
      /\ Cardinality(Shown) <= lostOutcomes /\ lostOutcomes \in Nat
      /\ outcome = None /\ None \notin {"posted", "failed"}
      /\ copies \in Seq(Copy) /\ Len(copies) <= attempt
  BY <1>1, VerificationAssumption
     DEF ClientInv, ClientTyped, OwnCopy, ShownIsCounted, None
<1>3. Cardinality(Shown) \in Nat
  BY <1>2, ShownFinite
<1>4. CASE UNCHANGED copies
  <2>1. step' = "failed" /\ UNCHANGED <<challenge, answers>>
    <3>1. CASE step' = "failed" /\ UNCHANGED <<challenge, answers>>
      BY <3>1
    <3>2. CASE copies' = [copies EXCEPT ![Len(copies)].shown = right, ![Len(copies)].answers = @ + 1]
      <4>1. Current'.answers = answers + 1
        BY <1>1, <3>2, AnswerCopy
      <4>2. Current' = Current
        BY <1>4 DEF Current
      <4> QED BY <1>2, <4>1, <4>2
    <3> QED BY <3>1, <3>2 DEF Verify, Fails
  <2>2. lostOutcomes' = lostOutcomes \/ (lostOutcomes < MaxLostOutcomes /\ lostOutcomes' = lostOutcomes + 1)
    BY DEF Verify
  <2>3. Shown' = Shown
    BY <1>4 DEF Shown
  <2>4. ClientTyped'
    BY <1>1, <1>2, <1>4, <2>1, <2>2, VerificationAssumption DEF ClientInv, ClientTyped
  <2> QED BY <1>1, <1>2, <1>3, <1>4, <2>1, <2>2, <2>3, <2>4
          DEF ClientInv, OwnCopy, ShownIsCounted
<1>5. CASE copies' # copies
  <2>1. copies' = [copies EXCEPT ![Len(copies)].shown = right, ![Len(copies)].answers = @ + 1]
    BY <1>5 DEF Verify
  <2>2. /\ copies' \in Seq(Copy) /\ Len(copies') = Len(copies) /\ copies' # <<>>
        /\ Current'.shown = right /\ Current'.answers = answers + 1
        /\ Current'.challenge = Current.challenge
        /\ Cardinality(Shown') \in Nat
        /\ Cardinality(Shown') <= Cardinality(Shown) + 1
        /\ ~right => Cardinality(Shown') = Cardinality(Shown)
    BY <1>1, <2>1, AnswerCopy
  <2>3. \/ /\ answers' = answers + 1 /\ UNCHANGED <<challenge, lostOutcomes>>
           /\ step' = IF right THEN "posted" ELSE IF Again THEN "ask" ELSE "failed"
        \/ /\ step' = "failed" /\ UNCHANGED <<challenge, answers>>
           /\ lostOutcomes < MaxLostOutcomes /\ lostOutcomes' = lostOutcomes + 1
    BY <1>5 DEF Verify, Fails
  <2> HIDE DEF right
  <2>4. ClientTyped'
    BY <1>1, <1>2, <2>2, <2>3, VerificationAssumption DEF ClientInv, ClientTyped
  <2>5. OwnCopy'
    BY <1>1, <1>2, <2>2, <2>3 DEF OwnCopy, Again
  <2>6. Cardinality(Shown') <= IF step' = "posted" THEN 1 + lostOutcomes' ELSE lostOutcomes'
    BY <1>2, <1>3, <2>2, <2>3
  <2>7. ShownIsCounted'
    BY <1>1, <1>2, <2>2, <2>3, <2>6 DEF ShownIsCounted
  <2> QED BY <2>4, <2>5, <2>7 DEF ClientInv
<1> QED BY <1>4, <1>5

\* The invariant is preserved by every step.
LEMMA ClientStep == ClientInv /\ [ClientNext]_clientVars => ClientInv'
<1> SUFFICES ASSUME ClientInv, [ClientNext]_clientVars PROVE ClientInv'
  OBVIOUS
<1>1. CASE PublishContent
  BY <1>1, PublishContentInv
<1>2. CASE Verify
  BY <1>2, VerifyInv
<1>3. ASSUME UNCHANGED <<config, copies, lostOutcomes, answers, challenge>>,
             ClientTyped', OwnCopy',
             \/ UNCHANGED outcome /\ step' \notin {"posted", "end"} /\ step \notin {"posted", "end"}
             \/ UNCHANGED <<outcome, step>>
             \/ step = "posted" /\ step' = "end" /\ outcome' = "posted"
             \/ step = "failed" /\ step' = "end" /\ outcome' = "failed"
      PROVE  ClientInv'
  <2>1. Shown' = Shown /\ Current' = Current
    BY <1>3 DEF Shown, Current
  <2>2. Cardinality(Shown) \in Nat /\ lostOutcomes \in Nat
    BY ShownFinite, VerificationAssumption DEF ClientInv, ClientTyped
  <2>3. ShownIsCounted'
    BY <1>3, <2>1, <2>2 DEF ClientInv, ShownIsCounted
  <2> QED BY <1>3, <2>3 DEF ClientInv
<1>4. CASE PublishRefused \/ Solve \/ Unsolved \/ Ask
  <2>1. /\ UNCHANGED <<config, copies, lostOutcomes, answers, challenge, attempt, outcome>>
        /\ \/ step = "publish" /\ step' = "failed"
           \/ step = "solve" /\ step' \in {"verify", "ask", "failed"}
           \/ step = "ask" /\ step' \in {"verify", "failed"}
    BY <1>4 DEF PublishRefused, Solve, Unsolved, Ask, Fails
  <2>2. ClientTyped'
    BY <2>1 DEF ClientInv, ClientTyped
  <2>3. Current' = Current
    BY <2>1 DEF Current
  <2>4. OwnCopy'
    BY <2>1, <2>3 DEF ClientInv, OwnCopy
  <2> QED BY <1>3, <2>1, <2>2, <2>4
<1>5. CASE RecordOutcome
  <2>1. step = "posted" /\ UNCHANGED <<config, copies, answers, challenge, attempt>>
    BY <1>5 DEF RecordOutcome
  <2>2. CASE step' = "end" /\ outcome' = "posted" /\ UNCHANGED lostOutcomes
    <3>1. ClientTyped' /\ OwnCopy'
      BY <2>1, <2>2 DEF ClientInv, ClientTyped, OwnCopy, None
    <3> QED BY <1>3, <2>1, <2>2, <3>1
  <2>3. CASE /\ step' = "failed" /\ UNCHANGED outcome
             /\ lostOutcomes < MaxLostOutcomes /\ lostOutcomes' = lostOutcomes + 1
    <3>1. ClientTyped' /\ OwnCopy'
      BY <2>1, <2>3, VerificationAssumption DEF ClientInv, ClientTyped, OwnCopy, None
    <3>2. Shown' = Shown /\ Cardinality(Shown) <= 1 + lostOutcomes /\ outcome' = None
      BY <2>1, <2>3 DEF Shown, ClientInv, ClientTyped, ShownIsCounted
    <3>3. ShownIsCounted'
      BY <2>1, <2>3, <3>2, VerificationAssumption DEF ShownIsCounted, ClientInv, ClientTyped, None
    <3> QED BY <3>1, <3>3 DEF ClientInv
  <2> QED BY <1>5, <2>2, <2>3 DEF RecordOutcome
<1>6. CASE RecordFailure
  <2>1. /\ step = "failed" /\ UNCHANGED <<config, copies, lostOutcomes, answers, challenge>>
        /\ \/ /\ attempt < JobAttempts /\ attempt' = attempt + 1 /\ step' = "publish"
              /\ outcome' = outcome
           \/ outcome' = "failed" /\ step' = "end" /\ attempt' = attempt
    BY <1>6 DEF RecordFailure
  <2>2. ClientTyped'
    BY <2>1, VerificationAssumption DEF ClientInv, ClientTyped, None
  <2>3. OwnCopy'
    BY <2>1 DEF ClientInv, ClientTyped, OwnCopy
  <2> QED BY <1>3, <2>1, <2>2, <2>3
<1>7. CASE End \/ UNCHANGED clientVars
  <2>1. UNCHANGED <<config, copies, lostOutcomes, answers, challenge, attempt, outcome, step>>
    BY <1>7 DEF End, clientVars
  <2>2. ClientTyped'
    BY <2>1 DEF ClientInv, ClientTyped
  <2>3. OwnCopy'
    BY <2>1 DEF ClientInv, OwnCopy, Current
  <2> QED BY <1>3, <2>1, <2>2, <2>3
<1> QED BY <1>1, <1>2, <1>4, <1>5, <1>6, <1>7 DEF ClientNext

\* Copies, answers and outcome agree in every reachable state.
LEMMA ClientInvariant == ClientSpec => []ClientInv
BY ClientInitial, ClientStep, PTL DEF ClientSpec

\* An attempt has at most one copy, and works on the challenge of that one.
THEOREM ClientTypeCorrect == ClientSpec => []ClientTypeOK
<1>1. ClientInv => ClientTypeOK
  BY DEF ClientInv, ClientTyped, OwnCopy, ClientTypeOK
<1> QED BY <1>1, ClientInvariant, PTL

\* For any challenges and any number of attempts, whatever the client reads in a
\* challenge: copies that are shown, answers and the outcome on record agree but for
\* the answers of the site, and the records of a success, that are lost.
THEOREM OutcomeCorrect == ClientSpec => []OutcomeIsTrue
<1>1. ClientInv => OutcomeIsTrue
  <2> SUFFICES ASSUME ClientInv PROVE OutcomeIsTrue
    OBVIOUS
  <2>1. Cardinality(Shown) \in Nat /\ lostOutcomes \in Nat
    BY ShownFinite, VerificationAssumption DEF ClientInv, ClientTyped
  <2>2. \A i \in DOMAIN copies : copies[i].answers <= 3
    <3> SUFFICES ASSUME NEW i \in DOMAIN copies PROVE copies[i].answers <= 3
      OBVIOUS
    <3>1. copies[i] \in Copy
      BY DEF ClientInv, ClientTyped
    <3> QED BY <3>1 DEF Copy
  <2> QED BY <2>1, <2>2 DEF ClientInv, OwnCopy, ShownIsCounted, OutcomeIsTrue
<1> QED BY <1>1, ClientInvariant, PTL

----------------------------------------------------------------------------
\* How the client reads a challenge.

\* What holds for 0 and passes on holds up to m.
LEMMA PassedOn ==
  ASSUME NEW K, NEW m \in Nat, 0 \in K, \A k \in Nat : k < m /\ k \in K => k + 1 \in K
  PROVE  m \in K
<1> SUFFICES ASSUME m \notin K PROVE FALSE
  OBVIOUS
<1> DEFINE B == {k \in Nat : k <= m /\ k \notin K}
<1>1. B \subseteq Nat /\ B # {}
  OBVIOUS
<1> HIDE DEF B
<1>2. PICK n \in B : \A k \in B : ~ (<<k, n>> \in OpToRel(<, Nat))
  BY <1>1, WFMin, NatLessThanWellFounded
<1>3. n \in Nat /\ n <= m /\ n \notin K /\ n # 0
  BY <1>2 DEF B
<1>4. n - 1 \in Nat /\ n - 1 < n /\ (n - 1) + 1 = n
  BY <1>3
<1>5. n - 1 \notin B
  BY <1>1, <1>2, <1>4 DEF OpToRel
<1>6. n - 1 \in K
  BY <1>3, <1>4, <1>5 DEF B
<1> QED BY <1>3, <1>4, <1>6

\* The rules.  Table says that g is a table of what is read from each place on.
ReadFrom(g, words, i) ==
  LET first == NumberAt(words, i)
      second == NumberAt(words, i + first.consumed)
  IN IF first.found /\ Joined(first, second)
     THEN <<first.value + second.value>> \o g[i + first.consumed + second.consumed]
     ELSE (IF first.found THEN <<first.value>> ELSE <<>>) \o g[i + first.consumed]

Table(g, words) ==
  g = [i \in 1..Len(words) + 6 |-> IF i > Len(words) THEN <<>> ELSE ReadFrom(g, words, i)]

LEMMA NumbersAreRead ==
  ASSUME NEW words
  PROVE  ExtractNumbers(words) = (CHOOSE g : Table(g, words))[1]
BY DEF ExtractNumbers, Table, ReadFrom

\* The widest of some widths.
LEMMA WidestIs ==
  ASSUME NEW W, W \subseteq 1..3, W # {}
  PROVE  Widest(W) \in W /\ Widest(W) \in 1..3 /\ \A m \in W : m <= Widest(W)
<1>1. \E n \in W : \A m \in W : m <= n
  <2>1. CASE 3 \in W
    BY <2>1
  <2>2. CASE 3 \notin W /\ 2 \in W
    BY <2>2
  <2>3. CASE 3 \notin W /\ 2 \notin W
    <3>1. PICK n \in W : TRUE
      OBVIOUS
    <3>2. \A m \in W : m = 1
      BY <2>3
    <3> QED BY <3>1, <3>2
  <2> QED BY <2>1, <2>2, <2>3
<1> QED BY <1>1 DEF Widest

\* From one word to three are read at a place.
LEMMA ConsumedIs ==
  ASSUME NEW words, NEW i
  PROVE  NumberAt(words, i).consumed \in 1..3
<1>1. Widths(words, i) \subseteq 1..3
  BY DEF Widths
<1>2. Widths(words, i) # {} => Widest(Widths(words, i)) \in 1..3
  BY <1>1, WidestIs
<1> QED BY <1>2 DEF NumberAt

\* There is such a table: it is filled from the end.
Filled(g, words, k) ==
  g = [i \in k..Len(words) + 6 |-> IF i > Len(words) THEN <<>> ELSE ReadFrom(g, words, i)]

LEMMA TableExists ==
  ASSUME NEW words, Len(words) \in Nat
  PROVE  \E g : Table(g, words)
<1> DEFINE L == Len(words)
           K == {k \in Nat : k <= L + 6 /\ \E g : Filled(g, words, L + 7 - k)}
<1>1. 0 \in K
  <2>1. Filled([i \in {} |-> <<>>], words, L + 7)
    <3>1. (L + 7)..(L + 6) = {}
      OBVIOUS
    <3> QED BY <3>1 DEF Filled
  <2> QED BY <2>1
<1>2. ASSUME NEW k \in K, k < L + 6 PROVE k + 1 \in K
  <2> DEFINE p == L + 6 - k
  <2>1. p \in 1..L + 6 /\ p + 1 = L + 7 - k /\ p = L + 7 - (k + 1) /\ k \in Nat
    BY <1>2
  <2>2. PICK g : Filled(g, words, p + 1)
    BY <1>2, <2>1
  <2> DEFINE At(i) == IF i > L THEN <<>> ELSE ReadFrom(g, words, i)
             h == [i \in p..L + 6 |-> IF i = p THEN At(p) ELSE g[i]]
  <2>3. \A i \in p + 1..L + 6 : h[i] = g[i]
    BY <2>1
  <2>4. \A i \in p + 1..L + 6 : g[i] = At(i)
    BY <2>2 DEF Filled
  <2>5. ASSUME NEW i \in p..L, i <= L PROVE ReadFrom(h, words, i) = ReadFrom(g, words, i)
    <3>1. PICK c \in 1..3 : c = NumberAt(words, i).consumed
      BY ConsumedIs
    <3>2. PICK d \in 1..3 : d = NumberAt(words, i + c).consumed
      BY ConsumedIs
    <3>3. h[i + c] = g[i + c] /\ h[i + c + d] = g[i + c + d]
      BY <2>1, <2>3, <2>5
    <3> HIDE DEF h
    <3> QED BY <3>1, <3>2, <3>3 DEF ReadFrom
  <2>6. \A i \in p..L + 6 : h[i] = IF i > L THEN <<>> ELSE ReadFrom(h, words, i)
    <3> SUFFICES ASSUME NEW i \in p..L + 6
                 PROVE  h[i] = IF i > L THEN <<>> ELSE ReadFrom(h, words, i)
      OBVIOUS
    <3>1. h[i] = At(i)
      <4>1. CASE i = p
        BY <4>1, <2>1
      <4>2. CASE i # p
        BY <4>2, <2>1, <2>3, <2>4
      <4> QED BY <4>1, <4>2
    <3> HIDE DEF h
    <3>2. CASE i > L
      BY <3>1, <3>2
    <3>3. CASE ~(i > L)
      <4>1. i \in p..L /\ i <= L
        BY <2>1, <3>3
      <4> QED BY <3>1, <3>3, <4>1, <2>5
    <3> QED BY <3>2, <3>3
  <2>7. h = [i \in p..L + 6 |-> h[i]]
    OBVIOUS
  <2> HIDE DEF h
  <2>8. Filled(h, words, p)
    BY <2>6, <2>7 DEF Filled
  <2> QED BY <1>2, <2>1, <2>8
<1>3. L + 6 \in K
  <2>1. L + 6 \in Nat
    OBVIOUS
  <2> HIDE DEF K
  <2> QED BY <1>1, <1>2, <2>1, PassedOn
<1>4. PICK g : Filled(g, words, 1)
  BY <1>3
<1> QED BY <1>4 DEF Filled, Table

\* What such a table holds: nothing beyond the end.
Reads(g, words) ==
  /\ ExtractNumbers(words) = g[1]
  /\ \A i \in 1..Len(words) : g[i] = ReadFrom(g, words, i)
  /\ g[Len(words) + 1] = <<>>

LEMMA TableReads ==
  ASSUME NEW words, Len(words) \in Nat
  PROVE  \E g : Reads(g, words)
<1>1. PICK g : g = CHOOSE h : Table(h, words)
  OBVIOUS
<1>2. Table(g, words)
  BY <1>1, TableExists
<1>3. ExtractNumbers(words) = g[1]
  BY <1>1, NumbersAreRead
<1>4. \A i \in 1..Len(words) + 6 : g[i] = IF i > Len(words) THEN <<>> ELSE ReadFrom(g, words, i)
  BY <1>2 DEF Table
<1>5. \A i \in 1..Len(words) : g[i] = ReadFrom(g, words, i)
  BY <1>4
<1>6. g[Len(words) + 1] = <<>>
  BY <1>4
<1> QED BY <1>3, <1>5, <1>6 DEF Reads

\* A number of n words, and of no more, stands at place i.
StandsAt(words, i, v, n) ==
  /\ words \in Seq(Word) /\ i \in Nat \ {0} /\ n \in 1..3
  /\ i + n - 1 <= Len(words) /\ n \in DOMAIN words[i] /\ words[i][n] = v
  /\ \A m \in DOMAIN words[i] : m <= n

LEMMA StandsInside ==
  ASSUME NEW words, NEW i, NEW n, NEW v, StandsAt(words, i, v, n)
  PROVE  i \in 1..Len(words)
BY DEF StandsAt

\* It is read in full and no further.
LEMMA ReadsNumber ==
  ASSUME NEW words, NEW i, NEW n, NEW v, StandsAt(words, i, v, n)
  PROVE  NumberAt(words, i) = [found |-> TRUE, value |-> v, consumed |-> n]
<1>0. words \in Seq(Word) /\ i \in Nat \ {0} /\ n \in 1..3
  BY DEF StandsAt
<1> USE <1>0
<1>1. i <= Len(words) /\ Len(words) \in Nat
  BY DEF StandsAt
<1>2. Widths(words, i) = {m \in 1..3 : m \in DOMAIN words[i] /\ i + m - 1 <= Len(words)}
  BY <1>1 DEF Widths
<1>3. n \in Widths(words, i) /\ Widths(words, i) \subseteq 1..3
  BY <1>2 DEF StandsAt
<1>4. \A m \in Widths(words, i) : m <= n
  BY <1>2 DEF StandsAt
<1>5. Widest(Widths(words, i)) = n
  <2>1. /\ Widest(Widths(words, i)) \in Widths(words, i) /\ Widest(Widths(words, i)) \in 1..3
        /\ n <= Widest(Widths(words, i))
    BY <1>3, WidestIs
  <2> QED BY <1>4, <2>1
<1> QED BY <1>3, <1>5 DEF NumberAt, StandsAt

\* Nothing is read where no number begins.
LEMMA ReadsNothing ==
  ASSUME NEW words, NEW i, i > Len(words) \/ DOMAIN words[i] = {}
  PROVE  NumberAt(words, i) = [found |-> FALSE, value |-> 0, consumed |-> 1]
BY DEF Widths, NumberAt

LEMMA SilentWord == DOMAIN NotNumber = {} /\ NotNumber \in Word
<1>1. DOMAIN NotNumber = {}
  BY DEF NotNumber
<1>2. NotNumber \in [{} -> Nat] /\ {} \in SUBSET (1..3)
  BY DEF NotNumber
<1> QED BY <1>1, <1>2 DEF Word

\* What a word is.
LEMMA WordIs ==
  ASSUME NEW x \in Word
  PROVE  DOMAIN x \subseteq 1..3 /\ \A m \in DOMAIN x : x[m] \in Nat
BY DEF Word

LEMMA ThreeParts ==
  ASSUME NEW x \in Seq(Nat), NEW y \in Seq(Nat), NEW z \in Seq(Nat)
  PROVE  (x \o y) \o z = x \o (y \o z)
BY ConcatAssociative

\* Other words stand from place p to before q.
GapAt(words, p, q, n) ==
  p <= q /\ q <= Len(words) + 1 /\ \A k \in p..q - 1 : words[k] \in Beside(n)

\* From place i on, small counts are read and then what is read from q on.
CountsTo(g, i, q, n) == \E s \in Seq(0..n) : g[i] = s \o g[q]

\* Of these the small counts are read.
LEMMA ReadsGap ==
  ASSUME NEW words \in Seq(Word), NEW g, Reads(g, words), NEW n \in 0..19,
         NEW p \in Nat \ {0}, NEW q \in Nat, GapAt(words, p, q, n), g[q] \in Seq(Nat)
  PROVE  CountsTo(g, p, q, n)
<1> DEFINE K == {d \in Nat : d <= q - p /\ CountsTo(g, q - d, q, n)}
<1>1. 0 \in K
  <2>1. <<>> \in Seq(0..n) /\ g[q] = <<>> \o g[q]
    BY ConcatEmptySeq
  <2>2. CountsTo(g, q, q, n)
    BY <2>1 DEF CountsTo
  <2>3. p <= q /\ q - 0 = q
    BY DEF GapAt
  <2> QED BY <2>2, <2>3
<1>2. ASSUME NEW d \in Nat, d < q - p, d \in K PROVE d + 1 \in K
  <2>1. PICK s \in Seq(0..n) : g[q - d] = s \o g[q]
    BY <1>2 DEF CountsTo
  <2>0. s \in Seq(Nat) /\ s \o g[q] \in Seq(Nat)
    <3>1. 0..n \subseteq Nat
      OBVIOUS
    <3> QED BY <3>1, SeqMonotonic, ConcatProperties
  <2> DEFINE i == q - (d + 1)
  <2>2. i \in p..q - 1 /\ i \in 1..Len(words) /\ i + 1 = q - d /\ i \in Nat \ {0}
    BY <1>2 DEF GapAt
  <2>3. g[i] = ReadFrom(g, words, i)
    BY <2>2 DEF Reads
  <2>4. words[i] \in Beside(n)
    BY <2>2 DEF GapAt
  <2> HIDE DEF i
  <2>5. ASSUME DOMAIN words[i] = {} PROVE CountsTo(g, i, q, n)
    <3>1. NumberAt(words, i) = [found |-> FALSE, value |-> 0, consumed |-> 1]
      BY <2>2, <2>5, ReadsNothing
    <3>2. ReadFrom(g, words, i) = <<>> \o g[i + 1]
      BY <3>1 DEF ReadFrom
    <3>3. g[i + 1] = s \o g[q]
      BY <2>1, <2>2
    <3>4. g[i] = s \o g[q]
      BY <2>0, <2>3, <3>2, <3>3, ConcatEmptySeq
    <3> QED BY <3>4 DEF CountsTo
  <2>6. ASSUME DOMAIN words[i] # {} PROVE CountsTo(g, i, q, n)
    <3>1. PICK v \in 0..n : DOMAIN words[i] = {1} /\ words[i][1] = v
      <4>1. /\ words[i] \in Word /\ DOMAIN words[i] \subseteq {1}
            /\ \A m \in DOMAIN words[i] : words[i][m] <= n
        BY <2>4 DEF Beside
      <4>2. DOMAIN words[i] = {1}
        BY <2>6, <4>1
      <4>3. words[i][1] \in Nat /\ words[i][1] <= n
        BY <4>1, <4>2, WordIs
      <4> QED BY <4>2, <4>3
    <3>2. StandsAt(words, i, v, 1)
      BY <2>2, <3>1 DEF StandsAt
    <3>3. NumberAt(words, i) = [found |-> TRUE, value |-> v, consumed |-> 1]
      BY <2>2, <3>2, ReadsNumber
    <3>4. ReadFrom(g, words, i) = <<v>> \o g[i + 1]
      BY <3>3 DEF ReadFrom, Joined
    <3>5. <<v>> \in Seq(0..n) /\ <<v>> \in Seq(Nat)
      OBVIOUS
    <3>6. <<v>> \o s \in Seq(0..n)
      BY <3>5, ConcatProperties
    <3>7. <<v>> \o (s \o g[q]) = (<<v>> \o s) \o g[q]
      <4>1. PICK e \in Seq(Nat), r \in Seq(Nat) : e = <<v>> /\ r = g[q]
        BY <3>5
      <4>2. (e \o s) \o r = e \o (s \o r)
        BY <2>0, ThreeParts
      <4> QED BY <4>1, <4>2
    <3>8. g[i] = (<<v>> \o s) \o g[q]
      BY <2>1, <2>2, <2>3, <3>4, <3>7
    <3> QED BY <3>6, <3>8 DEF CountsTo
  <2>7. CountsTo(g, q - (d + 1), q, n)
    BY <2>5, <2>6 DEF i
  <2>8. d + 1 \in Nat /\ d + 1 <= q - p
    BY <1>2 DEF GapAt
  <2> QED BY <2>7, <2>8
<1>3. q - p \in Nat
  BY DEF GapAt
<1>4. q - p \in K
  <2> HIDE DEF K
  <2> QED BY <1>1, <1>2, <1>3, PassedOn
<1>5. q - (q - p) = p
  OBVIOUS
<1> QED BY <1>4, <1>5

\* The elements of a sequence put behind another.
LEMMA ConcatAfter ==
  ASSUME NEW S, NEW y \in Seq(S), NEW z \in Seq(S), NEW t \in Nat, t = Len(y),
         NEW k \in 1..Len(z)
  PROVE  (y \o z)[t + k] = z[k]
<1>1. t + k \in 1..Len(y) + Len(z) /\ ~(t + k <= Len(y)) /\ t + k - Len(y) = k
  OBVIOUS
<1> QED BY <1>1, ConcatProperties

\* The words y stand in w from place i on.
Occurs(w, y, i) == i + Len(y) - 1 <= Len(w) /\ \A k \in 1..Len(y) : w[i + k - 1] = y[k]

LEMMA FirstOf ==
  ASSUME NEW S, NEW y \in Seq(S), y # <<>>, NEW w, NEW i \in Nat \ {0}, Occurs(w, y, i)
  PROVE  w[i] = y[1]
<1>1. 1 \in 1..Len(y) /\ i + 1 - 1 = i
  OBVIOUS
<1> QED BY <1>1 DEF Occurs

\* The parts of words that stand in others stand there too.
LEMMA OccursParts ==
  ASSUME NEW S, NEW w \in Seq(S), NEW y \in Seq(S), NEW z \in Seq(S), NEW i \in Nat \ {0},
         Occurs(w, y \o z, i)
  PROVE  Occurs(w, y, i) /\ Occurs(w, z, i + Len(y)) /\ Len(y \o z) = Len(y) + Len(z)
<1>1. /\ Len(y \o z) = Len(y) + Len(z)
      /\ \A k \in 1..Len(y) + Len(z) : (y \o z)[k] = IF k <= Len(y) THEN y[k] ELSE z[k - Len(y)]
  BY ConcatProperties
<1>2. PICK a \in Nat, b \in Nat, c \in Nat : a = Len(y) /\ b = Len(z) /\ c = Len(w)
  OBVIOUS
<1>3. i + (a + b) - 1 <= c /\ \A k \in 1..a + b : w[i + k - 1] = (y \o z)[k]
  BY <1>1, <1>2 DEF Occurs
<1>4. ASSUME NEW k \in 1..a PROVE w[i + k - 1] = y[k]
  <2>1. k \in 1..a + b /\ k <= a
    OBVIOUS
  <2> QED BY <1>1, <1>2, <1>3, <2>1
<1>5. ASSUME NEW k \in 1..b PROVE w[i + a + k - 1] = z[k]
  <2>1. a + k \in 1..a + b /\ ~(a + k <= a) /\ a + k - a = k /\ i + (a + k) - 1 = i + a + k - 1
    OBVIOUS
  <2> QED BY <1>1, <1>2, <1>3, <2>1
<1> QED BY <1>1, <1>2, <1>3, <1>4, <1>5 DEF Occurs

\* Words that are one number are so wherever they stand.
LEMMA NumberStands ==
  ASSUME NEW words \in Seq(Word), NEW x \in Seq(Word), NEW v, IsNumber(x, v),
         NEW i \in Nat \ {0}, Occurs(words, x, i)
  PROVE  Len(x) \in 1..3 /\ v \in Nat /\ StandsAt(words, i, v, Len(x))
<1>1. x # <<>> /\ DOMAIN x[1] # {} /\ Widest(DOMAIN x[1]) = Len(x) /\ x[1][Len(x)] = v
  BY DEF IsNumber
<1>2. words[i] = x[1] /\ x[1] \in Word
  BY <1>1, FirstOf
<1>3. DOMAIN x[1] \subseteq 1..3 /\ \A m \in DOMAIN x[1] : x[1][m] \in Nat
  BY <1>2, WordIs
<1>4. Len(x) \in DOMAIN x[1] /\ Len(x) \in 1..3 /\ \A m \in DOMAIN x[1] : m <= Len(x)
  BY <1>1, <1>3, WidestIs
<1>5. i + Len(x) - 1 <= Len(words)
  BY DEF Occurs
<1> QED BY <1>1, <1>2, <1>3, <1>4, <1>5 DEF StandsAt

\* From place i on it is read and then what is read from j on.
OperandTo(g, i, j, v) == g[i] = <<v>> \o g[j]

\* It is read as one number, however it is written.
LEMMA ReadsOperand ==
  ASSUME NEW words \in Seq(Word), NEW g, Reads(g, words), NEW v, NEW x \in Seq(Word),
         Spelled(x, v), NEW i \in Nat \ {0}, NEW j \in Nat, Occurs(words, x, i),
         j = i + Len(x), j > Len(words) \/ words[j] = NotNumber
  PROVE  OperandTo(g, i, j, v) /\ v \in Nat
<1>1. NumberAt(words, j) = [found |-> FALSE, value |-> 0, consumed |-> 1]
  BY ReadsNothing, SilentWord
<1>2. CASE IsNumber(x, v)
  <2>1. PICK n \in 1..3 : n = Len(x) /\ v \in Nat /\ StandsAt(words, i, v, n)
    BY <1>2, NumberStands
  <2>2. NumberAt(words, i) = [found |-> TRUE, value |-> v, consumed |-> n]
    BY <2>1, ReadsNumber
  <2>3. ReadFrom(g, words, i) = <<v>> \o g[j]
    BY <1>1, <2>1, <2>2 DEF ReadFrom, Joined
  <2>4. i \in 1..Len(words)
    BY <2>1, StandsInside
  <2> QED BY <2>1, <2>3, <2>4 DEF Reads, OperandTo
<1>3. CASE ~IsNumber(x, v)
  <2>1. PICK y \in Seq(Word), z \in Seq(Word), t \in Nat, u \in 1..9 :
          /\ x = y \o z /\ v = t + u
          /\ IsNumber(y, t) /\ t >= 20 /\ t % 10 = 0 /\ IsNumber(z, u)
    BY <1>3 DEF Spelled
  <2>2. PICK m \in Nat \ {0} : m = i + Len(y)
    OBVIOUS
  <2>3. Occurs(words, y, i) /\ Occurs(words, z, m) /\ Len(x) = Len(y) + Len(z)
    BY <2>1, <2>2, OccursParts
  <2>4. PICK a \in 1..3 : a = Len(y) /\ StandsAt(words, i, t, a)
    BY <2>1, <2>3, NumberStands
  <2>5. i + a = m
    BY <2>2, <2>4
  <2>6. PICK b \in 1..3 : b = Len(z) /\ StandsAt(words, m, u, b)
    BY <2>1, <2>2, <2>3, NumberStands
  <2>7. NumberAt(words, i) = [found |-> TRUE, value |-> t, consumed |-> a]
    BY <2>4, ReadsNumber
  <2>8. NumberAt(words, m) = [found |-> TRUE, value |-> u, consumed |-> b]
    BY <2>6, ReadsNumber
  <2>9. PICK first : first = NumberAt(words, i)
    OBVIOUS
  <2>10. first.found /\ first.value = t /\ first.consumed = a
    BY <2>7, <2>9
  <2>13. i + first.consumed = m
    BY <2>5, <2>10
  <2>14. PICK second : second = NumberAt(words, m)
    OBVIOUS
  <2>15. second.found /\ second.value = u /\ second.consumed = b
    BY <2>8, <2>14
  <2>16. m + second.consumed = j
    <3>1. PICK d \in Nat : d = Len(x)
      OBVIOUS
    <3>2. Len(y) + Len(z) = a + b
      BY <2>4, <2>6, Zenon
    <3>3. d = a + b
      BY <2>3, <3>1, <3>2, Zenon
    <3>4. j = i + d
      BY <3>1, Zenon
    <3>5. m + b = j
      BY ONLY i \in Nat \ {0}, a \in 1..3, b \in 1..3, <2>5, <3>1, <3>3, <3>4
    <3> QED BY <2>15, <3>5, Zenon
  <2>17. Joined(first, second)
    BY <2>1, <2>10, <2>15 DEF Joined
  <2>18. first.value + second.value = v
    BY <2>1, <2>10, <2>15
  <2>19. ReadFrom(g, words, i) = <<first.value + second.value>> \o g[m + second.consumed]
    <3>1. ReadFrom(g, words, i) =
            IF first.found /\ Joined(first, NumberAt(words, i + first.consumed))
            THEN <<first.value + NumberAt(words, i + first.consumed).value>>
                   \o g[i + first.consumed + NumberAt(words, i + first.consumed).consumed]
            ELSE (IF first.found THEN <<first.value>> ELSE <<>>) \o g[i + first.consumed]
      BY <2>9 DEF ReadFrom
    <3>2. ReadFrom(g, words, i) =
            IF first.found /\ Joined(first, second)
            THEN <<first.value + second.value>> \o g[m + second.consumed]
            ELSE (IF first.found THEN <<first.value>> ELSE <<>>) \o g[m]
      BY <2>13, <2>14, <3>1, Zenon
    <3> QED BY <2>10, <2>17, <3>2
  <2>11. i \in 1..Len(words)
    BY <2>4, StandsInside
  <2>12. v \in Nat
    BY <2>1
  <2>20. ReadFrom(g, words, i) = <<v>> \o g[j]
    BY <2>16, <2>18, <2>19
  <2> QED BY <2>11, <2>12, <2>20 DEF Reads, OperandTo
<1> QED BY <1>2, <1>3

LEMMA OccursBefore ==
  ASSUME NEW S, NEW w \in Seq(S), NEW z \in Seq(S), NEW y \in Seq(S), NEW i \in Nat \ {0},
         Occurs(w, y, i)
  PROVE  Occurs(w \o z, y, i)
<1>1. /\ Len(w \o z) = Len(w) + Len(z)
      /\ \A j \in 1..Len(w) + Len(z) : (w \o z)[j] = IF j <= Len(w) THEN w[j] ELSE z[j - Len(w)]
  BY ConcatProperties
<1>2. Len(w) \in Nat /\ Len(z) \in Nat /\ Len(y) \in Nat /\ i + Len(y) - 1 <= Len(w)
  BY DEF Occurs
<1>3. ASSUME NEW k \in 1..Len(y) PROVE (w \o z)[i + k - 1] = y[k]
  <2>1. i + k - 1 \in 1..Len(w) + Len(z) /\ i + k - 1 <= Len(w)
    BY <1>2
  <2> QED BY <1>1, <2>1 DEF Occurs
<1> QED BY <1>1, <1>2, <1>3 DEF Occurs

LEMMA OccursLast ==
  ASSUME NEW S, NEW w \in Seq(S), NEW z \in Seq(S), NEW i, i = Len(w) + 1
  PROVE  Occurs(w \o z, z, i) /\ w \o z \in Seq(S) /\ Len(w \o z) = Len(w) + Len(z)
<1>1. /\ w \o z \in Seq(S) /\ Len(w \o z) = Len(w) + Len(z)
      /\ \A j \in 1..Len(w) + Len(z) : (w \o z)[j] = IF j <= Len(w) THEN w[j] ELSE z[j - Len(w)]
  BY ConcatProperties
<1>2. Len(w) \in Nat /\ Len(z) \in Nat
  OBVIOUS
<1>3. ASSUME NEW k \in 1..Len(z) PROVE (w \o z)[i + k - 1] = z[k]
  <2>1. i + k - 1 \in 1..Len(w) + Len(z) /\ ~(i + k - 1 <= Len(w)) /\ i + k - 1 - Len(w) = k
    BY <1>2
  <2> QED BY <1>1, <2>1
<1> QED BY <1>1, <1>2, <1>3 DEF Occurs

\* The words z are put behind w, from place i on.
Behind(S, w, z, e, i) ==
  w \in Seq(S) /\ z \in Seq(S) /\ e = w \o z /\ i \in Nat \ {0} /\ i = 1 + Len(w)

LEMMA OccursNext ==
  ASSUME NEW S, NEW w, NEW z, NEW e, NEW i, Behind(S, w, z, e, i)
  PROVE  e \in Seq(S) /\ Len(e) = Len(w) + Len(z) /\ Occurs(e, z, i)
<1>1. w \in Seq(S) /\ z \in Seq(S) /\ e = w \o z /\ Len(w) \in Nat /\ i = Len(w) + 1
  BY DEF Behind
<1> QED BY <1>1, OccursLast

LEMMA OccursAgain ==
  ASSUME NEW S, NEW w, NEW z, NEW e, NEW i, Behind(S, w, z, e, i),
         NEW y \in Seq(S), NEW j \in Nat \ {0}, Occurs(w, y, j)
  PROVE  Occurs(e, y, j)
BY OccursBefore DEF Behind

\* Five parts, one after the other.
Five(S, v, w, x, y, z, all) ==
  {v, w, x, y, z} \subseteq Seq(S) /\ all = v \o w \o x \o y \o z

FivePlaces(v, w, x, y, z, all) ==
  \E i, j, k, l, m \in Nat \ {0} :
    /\ i = 1 + Len(v) /\ j = i + Len(w) /\ k = j + Len(x) /\ l = k + Len(y) /\ m = l + Len(z)
    /\ Occurs(all, v, 1) /\ Occurs(all, w, i) /\ Occurs(all, x, j) /\ Occurs(all, y, k)
    /\ Occurs(all, z, l) /\ m = Len(all) + 1

LEMMA FiveParts ==
  ASSUME NEW S, NEW v, NEW w, NEW x, NEW y, NEW z, NEW all, Five(S, v, w, x, y, z, all)
  PROVE  all \in Seq(S) /\ FivePlaces(v, w, x, y, z, all)
<1>0. /\ v \in Seq(S) /\ w \in Seq(S) /\ x \in Seq(S) /\ y \in Seq(S) /\ z \in Seq(S)
      /\ all = v \o w \o x \o y \o z
  BY DEF Five
<1>1. Occurs(v, v, 1) /\ 1 \in Nat \ {0}
  BY <1>0 DEF Occurs
<1>2. PICK a \in Nat, b \in Nat, c \in Nat, d \in Nat, e \in Nat :
        a = Len(v) /\ b = Len(w) /\ c = Len(x) /\ d = Len(y) /\ e = Len(z)
  BY <1>0
<1>3. PICK i \in Nat \ {0}, j \in Nat \ {0}, k \in Nat \ {0}, l \in Nat \ {0}, m \in Nat \ {0} :
        i = 1 + a /\ j = i + b /\ k = j + c /\ l = k + d /\ m = l + e
  <2>1. /\ 1 + a \in Nat \ {0} /\ 1 + a + b \in Nat \ {0} /\ 1 + a + b + c \in Nat \ {0}
        /\ 1 + a + b + c + d \in Nat \ {0} /\ 1 + a + b + c + d + e \in Nat \ {0}
    OBVIOUS
  <2> QED BY <2>1
<1>4. PICK vw : vw = v \o w
  OBVIOUS
<1>5. PICK vx : vx = vw \o x
  OBVIOUS
<1>6. PICK vy : vy = vx \o y
  OBVIOUS
<1>7. all = vy \o z
  BY <1>0, <1>4, <1>5, <1>6
<1>8. Behind(S, v, w, vw, i)
  BY <1>0, <1>2, <1>3, <1>4 DEF Behind
<1>9. vw \in Seq(S) /\ Len(vw) = a + b /\ Occurs(vw, v, 1) /\ Occurs(vw, w, i)
  <2>1. Occurs(vw, v, 1)
    BY <1>0, <1>1, <1>8, OccursAgain
  <2> QED BY <1>2, <1>8, <2>1, OccursNext
<1>10. Behind(S, vw, x, vx, j)
  BY <1>0, <1>3, <1>5, <1>9 DEF Behind
<1>11. vx \in Seq(S) /\ Len(vx) = a + b + c /\ Occurs(vx, v, 1) /\ Occurs(vx, w, i) /\ Occurs(vx, x, j)
  <2>1. Occurs(vx, v, 1)
    BY <1>0, <1>1, <1>9, <1>10, OccursAgain
  <2>2. Occurs(vx, w, i)
    BY <1>0, <1>9, <1>10, OccursAgain
  <2> QED BY <1>2, <1>9, <1>10, <2>1, <2>2, OccursNext
<1>12. Behind(S, vx, y, vy, k)
  BY <1>0, <1>3, <1>6, <1>11 DEF Behind
<1>13. /\ vy \in Seq(S) /\ Len(vy) = a + b + c + d
       /\ Occurs(vy, v, 1) /\ Occurs(vy, w, i) /\ Occurs(vy, x, j) /\ Occurs(vy, y, k)
  <2>1. Occurs(vy, v, 1)
    BY <1>0, <1>1, <1>11, <1>12, OccursAgain
  <2>2. Occurs(vy, w, i)
    BY <1>0, <1>11, <1>12, OccursAgain
  <2>3. Occurs(vy, x, j)
    BY <1>0, <1>11, <1>12, OccursAgain
  <2>4. vy \in Seq(S) /\ Len(vy) = Len(vx) + Len(y) /\ Occurs(vy, y, k)
    BY <1>12, OccursNext
  <2> QED BY <1>2, <1>11, <2>1, <2>2, <2>3, <2>4
<1>14. Behind(S, vy, z, all, l)
  BY <1>0, <1>3, <1>7, <1>13 DEF Behind
<1>15. all \in Seq(S) /\ Len(all) = a + b + c + d + e /\ Occurs(all, z, l)
  BY <1>2, <1>13, <1>14, OccursNext
<1>16. Occurs(all, v, 1)
  BY <1>0, <1>1, <1>13, <1>14, OccursAgain
<1>17. Occurs(all, w, i) /\ Occurs(all, x, j)
  <2>1. Occurs(all, w, i)
    BY <1>0, <1>13, <1>14, OccursAgain
  <2>2. Occurs(all, x, j)
    BY <1>0, <1>13, <1>14, OccursAgain
  <2> QED BY <2>1, <2>2
<1>18. Occurs(all, y, k)
  BY <1>0, <1>13, <1>14, OccursAgain
<1>19. m = Len(all) + 1
  BY <1>3, <1>15
<1>20. /\ i = 1 + Len(v) /\ j = i + Len(w) /\ k = j + Len(x) /\ l = k + Len(y) /\ m = l + Len(z)
  BY <1>2, <1>3
<1> QED BY <1>15, <1>16, <1>17, <1>18, <1>19, <1>20 DEF FivePlaces

\* The numbers z are small counts before the numbers y, or an operand before them.
Counts(n, z, y) == z \in Seq(Nat) /\ \E s \in Seq(0..n) : z = s \o y
Operand(v, z, y) == z \in Seq(Nat) /\ z = <<v>> \o y

LEMMA ReadsCounts ==
  ASSUME NEW words \in Seq(Word), NEW g, Reads(g, words), NEW n \in 0..19, NEW x \in Seq(Beside(n)),
         NEW p \in Nat \ {0}, NEW q \in Nat \ {0}, Occurs(words, x, p), q = p + Len(x),
         g[q] \in Seq(Nat)
  PROVE  Counts(n, g[p], g[q])
<1>1. Len(x) \in Nat /\ p <= q /\ q <= Len(words) + 1
  BY DEF Occurs
<1>2. ASSUME NEW o \in p..q - 1 PROVE words[o] \in Beside(n)
  <2>1. PICK f \in 1..Len(x) : p + f - 1 = o
    <3>1. o - p + 1 \in 1..Len(x) /\ p + (o - p + 1) - 1 = o
      BY <1>1
    <3> QED BY <3>1
  <2>2. words[o] = x[f]
    BY <2>1 DEF Occurs
  <2> QED BY <2>2
<1>3. GapAt(words, p, q, n)
  BY <1>1, <1>2 DEF GapAt
<1>4. PICK s \in Seq(0..n) : g[p] = s \o g[q]
  <2>1. q \in Nat
    OBVIOUS
  <2>2. CountsTo(g, p, q, n)
    BY <1>3, <2>1, ReadsGap
  <2> QED BY <2>2 DEF CountsTo
<1>5. s \in Seq(Nat)
  <2>1. 0..n \subseteq Nat
    OBVIOUS
  <2> QED BY <2>1, SeqMonotonic
<1>6. s \o g[q] \in Seq(Nat)
  BY <1>5, ConcatProperties
<1> QED BY <1>4, <1>6 DEF Counts

LEMMA ReadsSpelled ==
  ASSUME NEW words \in Seq(Word), NEW g, Reads(g, words), NEW v, NEW x \in Seq(Word),
         Spelled(x, v), NEW p \in Nat \ {0}, NEW q \in Nat \ {0}, Occurs(words, x, p),
         q = p + Len(x), q > Len(words) \/ words[q] = NotNumber, g[q] \in Seq(Nat)
  PROVE  Operand(v, g[p], g[q])
<1>1. OperandTo(g, p, q, v) /\ v \in Nat
  BY ReadsOperand
<1>2. g[p] = <<v>> \o g[q]
  BY <1>1 DEF OperandTo
<1>3. <<v>> \in Seq(Nat)
  BY <1>1
<1>4. <<v>> \o g[q] \in Seq(Nat)
  BY <1>3, ConcatProperties
<1> QED BY <1>2, <1>4 DEF Operand

\* The numbers z are two operands, with smaller counts around them.
AmongCounts(z, a, b) ==
  \E n \in 0..19 : n < a /\ n < b /\
    \E l, m, r \in Seq(0..n) : z = l \o (<<a>> \o (m \o (<<b>> \o r)))

\* Of a text that asks for the result of two operands these are read, in their order, and
\* besides them smaller counts at most.
LEMMA ReadsAsked ==
  ASSUME NEW words, NEW a, NEW b, Asks(words, a, b)
  PROVE  AmongCounts(ExtractNumbers(words), a, b)
<1>1. PICK n \in 0..19 :
        /\ n < a /\ n < b
        /\ \E left, between, right \in Seq(Beside(n)), x, y \in Seq(Word) :
             /\ words = left \o x \o between \o y \o right
             /\ Spelled(x, a) /\ Spelled(y, b)
             /\ between # <<>> /\ between[1] = NotNumber
             /\ right = <<>> \/ right[1] = NotNumber
  BY DEF Asks
<1>2. PICK left \in Seq(Beside(n)), between \in Seq(Beside(n)), right \in Seq(Beside(n)),
           A \in Seq(Word), B \in Seq(Word) :
        /\ words = left \o A \o between \o B \o right
        /\ Spelled(A, a) /\ Spelled(B, b)
        /\ between # <<>> /\ between[1] = NotNumber
        /\ right = <<>> \/ right[1] = NotNumber
  BY <1>1
<1>4. Beside(n) \subseteq Word
  BY DEF Beside
<1>5. left \in Seq(Word) /\ between \in Seq(Word) /\ right \in Seq(Word)
  BY <1>4, SeqMonotonic
<1>50. Five(Word, left, A, between, B, right, words)
  BY <1>2, <1>5 DEF Five
<1>6. words \in Seq(Word)
  BY <1>50, FiveParts
<1>7. PICK i \in Nat \ {0}, j \in Nat \ {0}, k \in Nat \ {0}, l \in Nat \ {0}, end \in Nat \ {0} :
        /\ i = 1 + Len(left) /\ j = i + Len(A) /\ k = j + Len(between) /\ l = k + Len(B)
        /\ end = l + Len(right)
        /\ Occurs(words, left, 1) /\ Occurs(words, A, i) /\ Occurs(words, between, j)
        /\ Occurs(words, B, k) /\ Occurs(words, right, l) /\ end = Len(words) + 1
  <2>1. FivePlaces(left, A, between, B, right, words)
    BY <1>50, FiveParts
  <2> QED BY <2>1 DEF FivePlaces
<1>8. words[j] = NotNumber
  BY <1>2, <1>7, FirstOf
<1>9. l > Len(words) \/ words[l] = NotNumber
  <2>1. CASE right = <<>>
    BY <1>6, <1>7, <2>1
  <2>2. CASE right # <<>>
    <3>1. words[l] = right[1]
      BY <1>7, <2>2, FirstOf
    <3> QED BY <1>2, <2>2, <3>1
  <2> QED BY <2>1, <2>2
<1>10. PICK g : Reads(g, words)
  <2>1. Len(words) \in Nat
    BY <1>6
  <2> QED BY <2>1, TableReads
<1>11. g[end] = <<>> /\ ExtractNumbers(words) = g[1]
  BY <1>7, <1>10 DEF Reads
<1>12. g[end] \in Seq(Nat)
  BY <1>11
<1>13. Counts(n, g[l], g[end])
  BY <1>2, <1>6, <1>7, <1>10, <1>12, ReadsCounts
<1>14. Operand(b, g[k], g[l])
  <2>1. g[l] \in Seq(Nat)
    BY <1>13 DEF Counts
  <2> QED BY <1>2, <1>6, <1>7, <1>9, <1>10, <2>1, ReadsSpelled
<1>15. Counts(n, g[j], g[k])
  <2>1. g[k] \in Seq(Nat)
    BY <1>14 DEF Operand
  <2> QED BY <1>2, <1>6, <1>7, <1>10, <2>1, ReadsCounts
<1>16. Operand(a, g[i], g[j])
  <2>1. g[j] \in Seq(Nat)
    BY <1>15 DEF Counts
  <2> QED BY <1>2, <1>6, <1>7, <1>8, <1>10, <2>1, ReadsSpelled
<1>17. Counts(n, g[1], g[i])
  <2>1. g[i] \in Seq(Nat) /\ 1 \in Nat \ {0}
    BY <1>16 DEF Operand
  <2> QED BY <1>2, <1>6, <1>7, <1>10, <2>1, ReadsCounts
<1>18. PICK r \in Seq(0..n) : g[l] = r \o <<>>
  BY <1>11, <1>13 DEF Counts
<1>19. g[l] = r
  BY <1>18, ConcatEmptySeq
<1>20. PICK m \in Seq(0..n) : g[j] = m \o g[k]
  BY <1>15 DEF Counts
<1>21. PICK h \in Seq(0..n) : g[1] = h \o g[i]
  BY <1>17 DEF Counts
<1>22. g[k] = <<b>> \o r /\ g[i] = <<a>> \o g[j]
  BY <1>14, <1>16, <1>19 DEF Operand
<1>23. ExtractNumbers(words) = h \o (<<a>> \o (m \o (<<b>> \o r)))
  BY <1>11, <1>20, <1>21, <1>22
<1> QED BY <1>1, <1>23 DEF AmongCounts

\* A set of two elements at least.
LEMMA TwoElements ==
  ASSUME NEW S, IsFiniteSet(S), NEW p \in S, NEW q \in S, p # q
  PROVE  Cardinality(S) >= 2
<1> DEFINE R == S \ {p}
<1>1. IsFiniteSet(R) /\ Cardinality(R) = Cardinality(S) - 1
  BY FS_RemoveElement
<1>2. q \in R
  OBVIOUS
<1> HIDE DEF R
<1>3. Cardinality(R) # 0
  BY <1>1, <1>2, FS_EmptySet
<1>4. Cardinality(R) \in Nat /\ Cardinality(S) \in Nat
  BY <1>1, FS_CardinalityType
<1> QED BY <1>1, <1>3, <1>4

\* The two largest numbers are selected, in their order.
LEMMA LargestTwo ==
  ASSUME NEW z \in Seq(Nat), NEW p \in 1..Len(z), NEW q \in 1..Len(z), p < q,
         \A i \in 1..Len(z) : i = p \/ i = q \/ (z[i] < z[p] /\ z[i] < z[q])
  PROVE  SelectOperands(z) = <<z[p], z[q]>>
<1> DEFINE before(i, j) == z[i] > z[j] \/ (z[i] = z[j] /\ i < j)
           Above(i) == {j \in DOMAIN z : before(j, i)}
           chosen == {i \in DOMAIN z : Cardinality(Above(i)) < 2}
           first == CHOOSE i \in chosen : \A j \in chosen : i <= j
           second == CHOOSE i \in chosen : \A j \in chosen : i >= j
<1>1. SelectOperands(z) = <<z[first], z[second]>>
  BY DEF SelectOperands
<1>2. DOMAIN z = 1..Len(z) /\ Len(z) \in Nat /\ \A i \in 1..Len(z) : z[i] \in Nat
  OBVIOUS
<1>3. \A i : IsFiniteSet(Above(i)) /\ Cardinality(Above(i)) \in Nat
  <2> TAKE i
  <2>1. IsFiniteSet(1..Len(z))
    BY <1>2, FS_Interval
  <2>2. Above(i) \subseteq 1..Len(z)
    BY <1>2
  <2> HIDE DEF Above
  <2> QED BY <2>1, <2>2, FS_Subset, FS_CardinalityType
<1>4. ASSUME NEW i \in 1..Len(z), i = p \/ i = q PROVE i \in chosen
  <2>1. PICK k \in 1..Len(z) : Above(i) \subseteq {k}
    <3>1. Above(i) \subseteq {p, q} /\ i \notin Above(i)
      BY <1>2, <1>4
    <3> HIDE DEF Above
    <3>2. Above(i) \subseteq {p} \/ Above(i) \subseteq {q}
      BY <1>4, <3>1
    <3> QED BY <3>2
  <2> HIDE DEF Above
  <2>2. IsFiniteSet({k}) /\ Cardinality({k}) = 1
    BY FS_Singleton
  <2>3. Cardinality(Above(i)) <= Cardinality({k})
    BY <2>1, <2>2, FS_Subset
  <2> QED BY <1>2, <1>3, <2>2, <2>3
<1>5. ASSUME NEW i \in chosen PROVE i = p \/ i = q
  <2> SUFFICES ASSUME ~(i = p \/ i = q) PROVE FALSE
    OBVIOUS
  <2>1. i \in 1..Len(z) /\ Cardinality(Above(i)) < 2
    BY <1>2
  <2>2. p \in Above(i) /\ q \in Above(i) /\ p # q
    BY <1>2, <2>1
  <2> HIDE DEF Above
  <2>3. Cardinality(Above(i)) >= 2
    BY <1>3, <2>2, TwoElements
  <2> QED BY <1>3, <2>1, <2>3
<1>6. chosen = {p, q}
  <2> HIDE DEF chosen
  <2> QED BY <1>4, <1>5
<1> HIDE DEF chosen
<1>7. first = p /\ second = q
  BY <1>6
<1> QED BY <1>1, <1>7

\* So are two that others of small counts surround.
\* Five sequences of numbers, put together from the end or from the front.
Numbers(x) == x \in Seq(Nat)

LEMMA NumbersJoined ==
  ASSUME NEW x, NEW y, Numbers(x), Numbers(y)
  PROVE  Numbers(x \o y)
BY ConcatProperties DEF Numbers

AllNumbers(x, y, z) == Numbers(x) /\ Numbers(y) /\ Numbers(z)

LEMMA ThreeJoined ==
  ASSUME NEW x, NEW y, NEW z, AllNumbers(x, y, z)
  PROVE  (x \o y) \o z = x \o (y \o z)
BY ThreeParts DEF Numbers, AllNumbers

FromTheEnd(v, w, x, y, z, e) ==
  AllNumbers(v, w, x) /\ AllNumbers(x, y, z) /\ e = v \o (w \o (x \o (y \o z)))

LEMMA FiveJoined ==
  ASSUME NEW v, NEW w, NEW x, NEW y, NEW z, NEW e, FromTheEnd(v, w, x, y, z, e)
  PROVE  Five(Nat, v, w, x, y, z, e)
<1>0. Numbers(v) /\ Numbers(w) /\ Numbers(x) /\ Numbers(y) /\ Numbers(z)
  BY DEF FromTheEnd, AllNumbers
<1>1. PICK yz : yz = y \o z /\ Numbers(yz)
  BY <1>0, NumbersJoined
<1>2. PICK xyz : xyz = x \o yz /\ Numbers(xyz)
  BY <1>0, <1>1, NumbersJoined
<1>3. PICK vw : vw = v \o w /\ Numbers(vw)
  BY <1>0, NumbersJoined
<1>4. PICK vwx : vwx = vw \o x /\ Numbers(vwx)
  BY <1>0, <1>3, NumbersJoined
<1>5. (v \o w) \o xyz = v \o (w \o xyz)
  <2>1. AllNumbers(v, w, xyz)
    BY <1>0, <1>2 DEF AllNumbers
  <2> QED BY <2>1, ThreeJoined
<1>6. (vw \o x) \o yz = vw \o (x \o yz)
  <2>1. AllNumbers(vw, x, yz)
    BY <1>0, <1>1, <1>3 DEF AllNumbers
  <2> QED BY <2>1, ThreeJoined
<1>7. (vwx \o y) \o z = vwx \o (y \o z)
  <2>1. AllNumbers(vwx, y, z)
    BY <1>0, <1>4 DEF AllNumbers
  <2> QED BY <2>1, ThreeJoined
<1>8. v \o (w \o xyz) = vw \o xyz
  BY <1>3, <1>5
<1>9. vw \o xyz = vwx \o yz
  BY <1>2, <1>4, <1>6
<1>10. vwx \o yz = (vwx \o y) \o z
  BY <1>1, <1>7
<1>11. v \o (w \o (x \o (y \o z))) = v \o w \o x \o y \o z
  BY <1>1, <1>2, <1>3, <1>4, <1>8, <1>9, <1>10
<1>12. e = v \o w \o x \o y \o z
  BY <1>11 DEF FromTheEnd
<1>13. {v, w, x, y, z} \subseteq Seq(Nat)
  BY <1>0 DEF Numbers
<1> QED BY <1>12, <1>13 DEF Five

LEMMA TwoAmongCounts ==
  ASSUME NEW a \in Nat, NEW b \in Nat, NEW z, AmongCounts(z, a, b)
  PROVE  Len(z) >= 2 /\ SelectOperands(z) = <<a, b>> /\ b # 0
<1>0. PICK n \in 0..19 : n < a /\ n < b /\
        \E l, m, r \in Seq(0..n) : z = l \o (<<a>> \o (m \o (<<b>> \o r)))
  BY DEF AmongCounts
<1>1. PICK s \in Seq(Nat), t \in Seq(Nat) : s = <<a>> /\ t = <<b>>
  <2>1. <<a>> \in Seq(Nat) /\ <<b>> \in Seq(Nat)
    OBVIOUS
  <2> QED BY <2>1
<1>2. PICK l \in Seq(0..n), m \in Seq(0..n), r \in Seq(0..n) : z = l \o (s \o (m \o (t \o r)))
  BY <1>0, <1>1
<1>3. l \in Seq(Nat) /\ m \in Seq(Nat) /\ r \in Seq(Nat)
  <2>1. 0..n \subseteq Nat
    OBVIOUS
  <2> QED BY <2>1, SeqMonotonic
<1>4. FromTheEnd(l, s, m, t, r, z)
  BY <1>2, <1>3 DEF FromTheEnd, AllNumbers, Numbers
<1>5. Five(Nat, l, s, m, t, r, z)
  BY <1>4, FiveJoined
<1>6. z \in Seq(Nat) /\ FivePlaces(l, s, m, t, r, z)
  BY <1>5, FiveParts
<1>7. PICK i \in Nat \ {0}, j \in Nat \ {0}, k \in Nat \ {0}, o \in Nat \ {0}, end \in Nat \ {0} :
        /\ i = 1 + Len(l) /\ j = i + Len(s) /\ k = j + Len(m) /\ o = k + Len(t) /\ end = o + Len(r)
        /\ Occurs(z, l, 1) /\ Occurs(z, s, i) /\ Occurs(z, m, j) /\ Occurs(z, t, k)
        /\ Occurs(z, r, o) /\ end = Len(z) + 1
  BY <1>6 DEF FivePlaces
<1>8. PICK dm \in Nat, dr \in Nat, dz \in Nat : dm = Len(m) /\ dr = Len(r) /\ dz = Len(z)
  BY <1>3, <1>6
<1>9. Len(s) = 1 /\ Len(t) = 1 /\ s[1] = a /\ t[1] = b
  BY <1>1
<1>10. j = i + 1 /\ k = j + dm /\ o = k + 1 /\ end = o + dr /\ end = dz + 1
  BY <1>7, <1>8, <1>9
<1>11. i \in 1..dz /\ k \in 1..dz /\ i < k /\ dz >= 2
  BY <1>10
<1>12. z[i] = a /\ z[k] = b
  <2>1. 1 \in 1..Len(s) /\ 1 \in 1..Len(t) /\ i + 1 - 1 = i /\ k + 1 - 1 = k
    BY <1>9
  <2>2. z[i + 1 - 1] = s[1]
    BY <1>7, <2>1 DEF Occurs
  <2>3. z[k + 1 - 1] = t[1]
    BY <1>7, <2>1 DEF Occurs
  <2> QED BY <1>9, <2>1, <2>2, <2>3
<1>13. ASSUME NEW y \in Seq(0..n), NEW p \in Nat \ {0}, Occurs(z, y, p), NEW h \in 1..dz,
              p <= h, h < p + Len(y)
       PROVE  z[h] \in 0..n
  <2>1. PICK f \in 1..Len(y) : p + f - 1 = h
    <3>1. PICK d \in Nat : d = Len(y)
      OBVIOUS
    <3>2. h - p + 1 \in 1..d /\ p + (h - p + 1) - 1 = h
      BY <1>13, <3>1
    <3> QED BY <3>1, <3>2
  <2>2. z[h] = y[f]
    BY <1>13, <2>1 DEF Occurs
  <2>3. y[f] \in 0..n
    OBVIOUS
  <2> QED BY <2>2, <2>3
<1>14. ASSUME NEW h \in 1..dz, h # i, h # k PROVE z[h] < z[i] /\ z[h] < z[k]
  <2>1. h < i \/ (j <= h /\ h < k) \/ (o <= h /\ h < end)
    BY <1>10, <1>14
  <2>2. z[h] \in 0..n
    <3>1. CASE h < i
      <4>1. 1 <= h /\ h < 1 + Len(l) /\ 1 \in Nat \ {0}
        BY <1>7, <3>1
      <4>2. Occurs(z, l, 1)
        BY <1>7
      <4> QED BY <1>13, <4>1, <4>2
    <3>2. CASE j <= h /\ h < k
      <4>1. Occurs(z, m, j) /\ h < j + Len(m)
        BY <1>7, <3>2
      <4> QED BY <1>13, <3>2, <4>1
    <3>3. CASE o <= h /\ h < end
      <4>1. Occurs(z, r, o) /\ h < o + Len(r)
        BY <1>7, <3>3
      <4> QED BY <1>13, <3>3, <4>1
    <3> QED BY <2>1, <3>1, <3>2, <3>3
  <2>3. PICK e \in 0..n : e = z[h]
    BY <2>2
  <2>4. e < a /\ e < b
    BY <1>0
  <2> QED BY <1>12, <2>3, <2>4
<1>15. SelectOperands(z) = <<z[i], z[k]>>
  <2>1. i \in 1..Len(z) /\ k \in 1..Len(z) /\ i < k
    BY <1>8, <1>11
  <2>2. \A h \in 1..Len(z) : h = i \/ h = k \/ (z[h] < z[i] /\ z[h] < z[k])
    BY <1>8, <1>14
  <2> QED BY <1>6, <2>1, <2>2, LargestTwo
<1>16. Len(z) >= 2
  BY <1>8, <1>11
<1>17. b # 0
  BY <1>0
<1> QED BY <1>12, <1>15, <1>16, <1>17

\* A regular challenge is read rightly.
LEMMA ReadsRegular ==
  ASSUME NEW c, Regular(c)
  PROVE  Variants(c) # {} /\ Solution(c) = c.truth
<1>1. PICK i \in 1..Len(c.texts), operation \in Operations, a \in Nat, b \in Nat :
        /\ Asks(c.texts[i].words, a, b) /\ c.texts[i].said = {operation}
        /\ c.truth = Apply(operation, a, b)
        /\ \A j \in 1..i - 1 : c.texts[j].said = {}
  BY DEF Regular
<1>2. DOMAIN c.texts = 1..Len(c.texts) /\ Len(c.texts) \in Nat
  BY DEF Regular
<1>3. PICK words : words = c.texts[i].words
  OBVIOUS
<1>4. AmongCounts(ExtractNumbers(words), a, b)
  BY <1>1, <1>3, ReadsAsked
<1>5. /\ Len(ExtractNumbers(words)) >= 2 /\ SelectOperands(ExtractNumbers(words)) = <<a, b>>
      /\ b # 0
  BY <1>4, TwoAmongCounts
<1>6. DetectOperation(c.texts[i].said) = operation
  BY <1>1 DEF DetectOperation, Operations
<1>7. i \in Variants(c)
  <2>1. operation # None
    BY DEF Operations, None
  <2>2. PICK numbers : numbers = ExtractNumbers(words)
    OBVIOUS
  <2>3. Len(numbers) >= 2 /\ SelectOperands(numbers) = <<a, b>> /\ SelectOperands(numbers)[2] # 0
    BY <1>5, <2>2
  <2>4. Readable(c.texts[i])
    BY <1>3, <1>6, <2>1, <2>2, <2>3 DEF Readable
  <2> QED BY <1>2, <2>4 DEF Variants
<1>8. \A j \in Variants(c) : i <= j
  <2> SUFFICES ASSUME NEW j \in Variants(c), ~(i <= j) PROVE FALSE
    OBVIOUS
  <2>1. j \in 1..Len(c.texts) /\ DetectOperation(c.texts[j].said) # None
    BY <1>2 DEF Variants, Readable
  <2>2. j \in 1..i - 1
    BY <2>1
  <2> QED BY <1>1, <2>1, <2>2 DEF DetectOperation
<1>9. i = CHOOSE k \in Variants(c) : \A j \in Variants(c) : k <= j
  <2>1. Variants(c) \subseteq 1..Len(c.texts)
    BY <1>2 DEF Variants
  <2> QED BY <1>7, <1>8, <2>1
<1>10. Solution(c) = Apply(operation, a, b)
  BY <1>3, <1>5, <1>6, <1>9 DEF Solution, Solved
<1> QED BY <1>1, <1>7, <1>10

\* For any challenges that are written the way the site is known to write them when they
\* are marked so, with operands of any size and any of the four operations, the rules of
\* the client find the true answer of any of these.
THEOREM RulesCorrect ==
  ASSUME \A c \in Challenges : c.regular => Regular(c)
  PROVE  ClientSpec => []RulesAreRight
<1>1. ClientTypeOK => RulesAreRight
  <2> SUFFICES ASSUME ClientTypeOK, NEW c \in {challenge} \ {NoChallenge}, c.regular
               PROVE  Variants(c) # {} /\ Solution(c) = c.truth
    BY DEF RulesAreRight
  <2>1. c \in Challenges
    BY DEF ClientTypeOK
  <2> QED BY <2>1, ReadsRegular
<1> QED BY <1>1, ClientTypeCorrect, PTL
=============================================================================
