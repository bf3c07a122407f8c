---------------------------- MODULE ClientProofs ----------------------------
(***************************************************************************)
(* Theorems about the bridge of files to the Reddit browser worker, for    *)
(* any workers and any requests, and about the drafting of what is         *)
(* published, for any drafts, pools and limits.                            *)
(***************************************************************************)
EXTENDS RedditBridge, Drafting, WellFoundedInduction, FiniteSetTheorems,
        SequenceTheorems, TLAPS

Steps == {"down", "locking", "restoring", "polling", "reading", "fulfilling",
          "submitted", "unlinking"}

\* The type invariant with the program counters of the workers.
Typed == TypeOK /\ pc \in [Worker -> Steps]

\* As long as workers have not raced for the lock it is held by the one that serves.
Exclusive == ~raced => \A w \in Serving : lock = w

\* It has what is being processed, once it has restored the rest, and no request
\* that waits is older than the one it works on.
Processing ==
  ~raced => \A w \in Serving :
    /\ held[w] # 0 => held[w] \in processing /\ \A j \in requests : held[w] <= j
    /\ pc[w] # "restoring" => processing \subseteq {held[w]}

\* A request is carried out before the answer says so.
Honest ==
  /\ \A w \in Worker : pc[w] = "submitted" => done[held[w]] >= 1
  /\ \A i \in DOMAIN responses : responses[i] = "ok" => done[i] >= 1
  /\ OkIsDone

\* What was answered is older than all that is open, and nothing is before it is sent.
Ordered ==
  /\ \A i \in DOMAIN responses : raced \/ \A j \in Open : j >= i
  /\ \A i \in Ids : i > sent => verdict[i] = "none"
  /\ AnsweredInOrder

\* A request of no killed worker is not carried out before it is held, and it is
\* processed by the worker that holds it.
Fresh ==
  ~raced => \A i \in Ids \ orphans :
    /\ done[i] <= 1
    /\ \/ i > sent
       \/ i \in requests
       \/ \E w \in Worker : held[w] = i /\ pc[w] \in {"reading", "fulfilling"}
       => done[i] = 0
    /\ i \in processing => \E w \in Worker : held[w] = i

BridgeInv == Typed /\ Exclusive /\ Processing /\ Honest /\ Ordered /\ Fresh

----------------------------------------------------------------------------
\* The least number of a set that is not empty.
LEMMA Least ==
  ASSUME NEW S, S \subseteq Nat, S # {}
  PROVE  Min(S) \in S /\ \A y \in S : Min(S) <= y
<1>1. PICK n \in S : \A m \in S : ~ (<<m, n>> \in OpToRel(<, Nat))
  BY WFMin, NatLessThanWellFounded
<1>2. \A m \in S : n <= m
  <2> SUFFICES ASSUME NEW m \in S, m < n PROVE FALSE
    OBVIOUS
  <2>1. <<m, n>> \in OpToRel(<, Nat)
    BY Zenon DEF OpToRel
  <2> QED BY <2>1, <1>1
<1> QED BY <1>2 DEF Min

\* The bounds are numbers, and requests are numbered from one.
LEMMA Bounds == MaxSends \in Nat \ {0} /\ MaxDone \in Nat \ {0} /\ MaxFaults \in Nat
BY BridgeAssumption

\* Requests that were sent are numbered.
LEMMA SentIsId == TypeOK => 1..sent \subseteq Ids /\ Ids \subseteq Nat /\ sent \in Nat
BY Bounds DEF TypeOK, Ids

\* A worker that holds a request serves.
LEMMA HoldersServe ==
  ASSUME Typed, NEW w \in Worker, held[w] # 0
  PROVE  w \in Serving /\ held[w] \in 1..sent
BY SentIsId DEF Typed, TypeOK, Serving

----------------------------------------------------------------------------
\* Types.

\* Initially.
LEMMA TypeInit == Init => Typed
<1> SUFFICES ASSUME Init PROVE Typed
  OBVIOUS
<1> USE Bounds DEF Init
<1>1. DOMAIN responses = {} /\ 0 \in 0..MaxSends /\ 0 \in 0..MaxDone
  BY DEF NoResponses
<1>2. /\ client \in {"idle", "waiting", "leaving", "clearing"} /\ sent \in 0..MaxSends
      /\ requests \subseteq 1..sent /\ processing \subseteq 1..sent
      /\ requests \cap processing = {} /\ faults \in 0..MaxFaults
  OBVIOUS
<1>3. verdict \in [Ids -> Verdict] /\ done \in [Ids -> 0..MaxDone]
  BY <1>1 DEF Verdict
<1>4. /\ held \in [Worker -> 0..sent] /\ closing \in [Worker -> BOOLEAN]
      /\ pc \in [Worker -> Steps]
      /\ \A w \in Worker : held[w] = 0 /\ pc[w] = "down"
  BY DEF Steps
<1> QED BY <1>1, <1>2, <1>3, <1>4 DEF Typed, TypeOK

\* At the steps of the agent run.
LEMMA RunType == Typed /\ (Run \/ KillRun) => Typed'
<1> SUFFICES ASSUME Typed PROVE (Run \/ KillRun) => Typed'
  OBVIOUS
<1> USE Bounds, SentIsId DEF Typed, TypeOK
<1>1. Send => Typed' BY DEF Send, workers, history, Ids
<1>2. Receive => Typed' BY DEF Receive, Learn, dirs, workers, history, Verdict
<1>3. TimeOut => Typed' BY DEF TimeOut, Learn, dirs, workers, history, Verdict
<1>4. RemoveRequest => Typed' BY DEF RemoveRequest, workers, history
<1>5. RemoveResponse => Typed' BY DEF RemoveResponse, Without, workers, history
<1>6. KillRun => Typed' BY DEF KillRun, dirs, workers
<1> QED BY <1>1, <1>2, <1>3, <1>4, <1>5, <1>6 DEF Run

\* At the steps of a worker.
LEMMA WorkerType ==
  ASSUME Typed, NEW w \in Worker, Work(w) \/ Signal(w) \/ Kill(w)
  PROVE  Typed'
<1> USE Bounds, SentIsId DEF Typed, TypeOK, Steps, Goto, agent, dirs, history
<1>1. Start(w) => Typed' BY DEF Start
<1>2. TakeLock(w) => Typed' BY DEF TakeLock
<1>3. Restore(w) => Typed' BY DEF Restore
<1>4. Claim(w) => Typed'
  <2> SUFFICES ASSUME Claim(w) PROVE Typed'
    OBVIOUS
  <2>1. PICK i \in NextOf(requests) :
          /\ requests' = requests \ {i} /\ processing' = processing \cup {i}
          /\ held' = [held EXCEPT ![w] = i]
    BY DEF Claim
  <2>2. requests \subseteq Nat /\ requests # {}
    BY DEF Claim
  <2>3. i = Min(requests)
    BY <2>1 DEF NextOf
  <2>4. i \in requests
    BY <2>2, <2>3, Least
  <2> QED BY <2>1, <2>4 DEF Claim
<1>5. Read(w) => Typed' BY DEF Read
<1>6. Submit(w) => Typed'
  <2> SUFFICES ASSUME Submit(w) PROVE Typed'
    OBVIOUS
  <2>1. done' \in [Ids -> 0..MaxDone]
    BY DEF Submit
  <2> QED BY <2>1 DEF Submit
<1>7. Succeed(w) => Typed' BY DEF Succeed, Respond
<1>8. Fail(w) => Typed' BY DEF Fail, Respond
<1>9. Unlink(w) => Typed'
  <2> SUFFICES ASSUME Unlink(w) PROVE Typed'
    OBVIOUS
  <2>1. \A x \in Worker : x # w => held'[x] = held[x] /\ pc'[x] = pc[x]
    BY DEF Unlink
  <2>2. held'[w] = 0 /\ pc'[w] = "polling" /\ held' \in [Worker -> 0..sent]
    BY DEF Unlink
  <2>3. \A x \in Worker :
          held'[x] # 0 <=> pc'[x] \in {"reading", "fulfilling", "submitted", "unlinking"}
    BY <2>1, <2>2
  <2> QED BY <2>2, <2>3 DEF Unlink
<1>10. Close(w) => Typed' BY DEF Close, Down
<1>11. Signal(w) => Typed' BY DEF Signal
<1>12. Kill(w) => Typed'
  <2> SUFFICES ASSUME Kill(w) PROVE Typed'
    OBVIOUS
  <2>1. \A x \in Worker : x # w => held'[x] = held[x] /\ pc'[x] = pc[x]
    BY DEF Kill, Down
  <2>2. held'[w] = 0 /\ pc'[w] = "down" /\ held' \in [Worker -> 0..sent]
    BY DEF Kill, Down
  <2>3. /\ closing' \in [Worker -> BOOLEAN] /\ pc' \in [Worker -> Steps]
        /\ faults' \in 0..MaxFaults
    BY DEF Kill, Down
  <2>4. orphans' \subseteq 1..sent
    <3>1. held[w] = 0 \/ held[w] \in 1..sent
      OBVIOUS
    <3>2. orphans' = orphans \cup ({held[w]} \ {0})
      BY DEF Kill
    <3> QED BY <3>1, <3>2
  <2>5. \A x \in Worker :
          held'[x] # 0 <=> pc'[x] \in {"reading", "fulfilling", "submitted", "unlinking"}
    BY <2>1, <2>2
  <2> QED BY <2>2, <2>3, <2>4, <2>5 DEF Kill
<1> QED BY <1>1, <1>2, <1>3, <1>4, <1>5, <1>6, <1>7, <1>8, <1>9, <1>10, <1>11, <1>12 DEF Work

\* At every step.
LEMMA TypeStep == Typed /\ [Next]_vars => Typed'
<1>1. Typed /\ UNCHANGED vars => Typed'
  BY DEF Typed, TypeOK, vars, agent, dirs, workers, history
<1> QED BY <1>1, RunType, WorkerType DEF Next

\* Requests, responses and workers have their types.
THEOREM TypeCorrect == Spec => []TypeOK
<1>1. Typed => TypeOK
  BY DEF Typed
<1> QED BY <1>1, TypeInit, TypeStep, PTL DEF Spec

----------------------------------------------------------------------------
\* The invariant: initially, and at the steps of the agent run.

\* Initially nothing is open and none serves.
LEMMA BridgeInit == Init => BridgeInv
<1> SUFFICES ASSUME Init PROVE BridgeInv
  OBVIOUS
<1>1. Serving = {} /\ DOMAIN responses = {}
  BY DEF Init, Serving, NoResponses
<1>2. Exclusive /\ Processing
  BY <1>1 DEF Exclusive, Processing
<1>3. Honest /\ Ordered
  BY <1>1 DEF Init, Honest, OkIsDone, Ordered, AnsweredInOrder
<1>4. Fresh
  BY Bounds DEF Init, Fresh, Ids
<1> QED BY <1>2, <1>3, <1>4, TypeInit DEF BridgeInv

\* The agent run changes requests, responses and what it learnt: a new request is
\* the youngest, and it learns what was answered.
LEMMA RunInv ==
  ASSUME BridgeInv, Run \/ KillRun
  PROVE  BridgeInv'
<1>1. Typed /\ Typed'
  BY RunType DEF BridgeInv
<1>2. /\ sent \in Nat /\ sent' \in Nat /\ Ids \subseteq Nat
      /\ 1..sent \subseteq Ids /\ 1..sent' \subseteq Ids
  <2>1. TypeOK /\ TypeOK'
    BY <1>1 DEF Typed
  <2> QED BY <2>1, Bounds DEF TypeOK, Ids
<1>3. UNCHANGED <<processing, lock, pc, held, done, orphans, raced>>
  BY DEF Run, KillRun, Send, Receive, TimeOut, RemoveRequest, RemoveResponse,
         dirs, workers, history
<1>4. \/ sent' = sent /\ requests' \subseteq requests
      \/ sent' = sent + 1 /\ requests' = requests \cup {sent + 1}
  BY DEF Run, KillRun, Send, Receive, TimeOut, RemoveRequest, RemoveResponse, dirs
<1>5. /\ DOMAIN responses' \subseteq DOMAIN responses
      /\ \A i \in DOMAIN responses' : responses'[i] = responses[i]
  BY DEF Run, KillRun, Send, Receive, TimeOut, RemoveRequest, RemoveResponse, Without, dirs
<1>6. \A i \in Ids :
        \/ verdict'[i] = verdict[i]
        \/ verdict'[i] = "late" /\ i = sent /\ sent' = sent
        \/ i \in DOMAIN responses /\ verdict'[i] = responses[i] /\ i = sent /\ sent' = sent
  <2>1. verdict \in [Ids -> Verdict]
    BY <1>1 DEF Typed, TypeOK
  <2>2. CASE Receive
    <3>1. /\ \A i \in Ids : verdict'[i] = IF i = sent THEN responses[sent] ELSE verdict[i]
          /\ sent \in DOMAIN responses /\ sent' = sent
      BY <2>1, <2>2 DEF Receive, Learn
    <3> QED BY <3>1
  <2>3. CASE TimeOut
    <3>1. /\ \A i \in Ids : verdict'[i] = IF i = sent THEN "late" ELSE verdict[i]
          /\ sent' = sent
      BY <2>1, <2>3 DEF TimeOut, Learn
    <3> QED BY <3>1
  <2>4. CASE Send \/ RemoveRequest \/ RemoveResponse \/ KillRun
    BY <2>4 DEF Send, RemoveRequest, RemoveResponse, KillRun
  <2> QED BY <2>2, <2>3, <2>4 DEF Run
<1>7. /\ Serving' = Serving /\ Serving \subseteq Worker
      /\ \A w \in Worker : held[w] \in 0..sent
      /\ requests \subseteq 1..sent /\ processing \subseteq 1..sent
  BY <1>1, <1>3 DEF Serving, Typed, TypeOK
<1>8. \A j \in Open' : j \in Open \/ (j = sent + 1 /\ sent' = sent + 1)
  <2> DEFINE rest == processing \cup ({held[w] : w \in Serving} \ {0})
  <2>1. held' = held /\ processing' = processing /\ Serving' = Serving
    BY <1>3, <1>7
  <2>2. Open' = requests' \cup rest /\ Open = requests \cup rest
    BY <2>1 DEF Open
  <2> HIDE DEF rest
  <2> QED BY <2>2, <1>4
<1>9. Exclusive'
  BY <1>3, <1>7 DEF BridgeInv, Exclusive
<1>10. Processing'
  <2> SUFFICES ASSUME ~raced, NEW w \in Serving
      PROVE  /\ held[w] # 0 => held[w] \in processing /\ \A j \in requests' : held[w] <= j
             /\ pc[w] # "restoring" => processing \subseteq {held[w]}
    BY <1>3, <1>7 DEF Processing
  <2>1. held[w] # 0 => \A j \in requests : held[w] <= j
    BY DEF BridgeInv, Processing
  <2>2. held[w] <= sent + 1
    BY <1>2, <1>7
  <2> QED BY <2>1, <2>2, <1>4 DEF BridgeInv, Processing
<1>11. Honest'
  BY <1>3, <1>5, <1>6 DEF BridgeInv, Honest, OkIsDone
<1>12. Ordered'
  <2>1. \A i \in DOMAIN responses : i \in 1..sent
    BY <1>1 DEF Typed, TypeOK
  <2>2. \A i \in DOMAIN responses : raced \/ \A j \in Open' : j >= i
    BY <1>2, <1>8, <2>1 DEF BridgeInv, Ordered
  <2>3. \A i \in Ids : i > sent' => verdict'[i] = "none"
    BY <1>2, <1>4, <1>6 DEF BridgeInv, Ordered
  <2>4. ASSUME NEW i \in Ids, verdict'[i] \in {"ok", "failed"}, ~raced
        PROVE  \A j \in Open' : j >= i
    <3>1. CASE i \in DOMAIN responses
      BY <2>2, <2>4, <3>1
    <3>2. CASE verdict'[i] = verdict[i]
      <4>1. \A j \in Open : j >= i
        BY <2>4, <3>2 DEF BridgeInv, Ordered, AnsweredInOrder
      <4>2. i <= sent + 1
        BY <1>2, <2>4, <3>2 DEF BridgeInv, Ordered
      <4> QED BY <4>1, <4>2, <1>8
    <3> QED BY <2>4, <3>1, <3>2, <1>6
  <2> QED BY <2>2, <2>3, <2>4, <1>3, <1>5 DEF Ordered, AnsweredInOrder
<1>13. Fresh'
  <2> SUFFICES ASSUME ~raced, NEW i \in Ids \ orphans
      PROVE  /\ done[i] <= 1
             /\ (i > sent' \/ i \in requests'
                 \/ \E w \in Worker : held[w] = i /\ pc[w] \in {"reading", "fulfilling"})
                => done[i] = 0
             /\ i \in processing => \E w \in Worker : held[w] = i
    BY <1>3 DEF Fresh
  <2>1. i > sent' => i > sent
    BY <1>2, <1>4
  <2>2. i \in requests' => i \in requests \/ i > sent
    BY <1>2, <1>4
  <2> QED BY <2>1, <2>2 DEF BridgeInv, Fresh
<1> QED BY <1>1, <1>9, <1>10, <1>11, <1>12, <1>13 DEF BridgeInv

----------------------------------------------------------------------------
\* The invariant at the steps of a worker.

\* Two workers serve only if they have raced.
LEMMA OnlyServer ==
  ASSUME BridgeInv, ~raced, NEW w \in Serving, NEW x \in Serving
  PROVE  x = w
BY DEF BridgeInv, Exclusive

\* A worker that only starts does not serve yet.
LEMMA StartInv ==
  ASSUME BridgeInv, NEW w \in Worker, Start(w)
  PROVE  BridgeInv'
<1>1. Typed /\ Typed'
  BY WorkerType DEF BridgeInv, Work
<1>2. /\ UNCHANGED <<requests, processing, responses, sent, verdict>>
      /\ UNCHANGED <<lock, held, done, orphans, raced>>
      /\ pc[w] = "down" /\ pc'[w] = "locking" /\ \A x \in Worker \ {w} : pc'[x] = pc[x]
  BY <1>1 DEF Start, Goto, agent, dirs, history, Typed
<1>3. Serving' = Serving
  BY <1>2 DEF Serving
<1>4. Open' = Open
  BY <1>2, <1>3 DEF Open
<1>5. \A x \in Serving : pc'[x] = pc[x]
  BY <1>2 DEF Serving
<1>6. Exclusive' /\ Processing'
  BY <1>2, <1>3, <1>5 DEF BridgeInv, Exclusive, Processing
<1>7. Honest'
  BY <1>2 DEF BridgeInv, Honest, OkIsDone
<1>8. Ordered'
  BY <1>2, <1>4 DEF BridgeInv, Ordered, AnsweredInOrder
<1>9. Fresh'
  BY <1>2 DEF BridgeInv, Fresh
<1> QED BY <1>1, <1>6, <1>7, <1>8, <1>9 DEF BridgeInv

\* A worker that takes the lock of none that serves is the only one.
LEMMA TakeLockInv ==
  ASSUME BridgeInv, NEW w \in Worker, TakeLock(w)
  PROVE  BridgeInv'
<1>1. Typed /\ Typed'
  BY WorkerType DEF BridgeInv, Work
<1>2. /\ UNCHANGED <<requests, processing, responses, sent, verdict>>
      /\ UNCHANGED <<held, done, orphans>>
      /\ lock' = w /\ raced' = (raced \/ LockIsTaken(w))
      /\ pc[w] = "locking" /\ pc'[w] = "restoring"
      /\ \A x \in Worker \ {w} : pc'[x] = pc[x]
  BY <1>1 DEF TakeLock, Goto, agent, dirs, history, Typed
<1>3. held[w] = 0
  BY <1>1, <1>2 DEF Typed, TypeOK
<1>4. Serving' = Serving \cup {w}
  BY <1>2 DEF Serving
<1>5. Open' = Open
  BY <1>2, <1>3, <1>4 DEF Open
<1>6. ~raced' => ~raced /\ Serving = {}
  BY <1>2 DEF BridgeInv, Exclusive, Serving, LockIsTaken, Alive
<1>7. Exclusive' /\ Processing'
  BY <1>2, <1>3, <1>4, <1>6 DEF Exclusive, Processing
<1>8. Honest'
  BY <1>2 DEF BridgeInv, Honest, OkIsDone
<1>9. Ordered'
  BY <1>2, <1>5 DEF BridgeInv, Ordered, AnsweredInOrder
<1>10. Fresh'
  BY <1>2, <1>6 DEF BridgeInv, Fresh
<1> QED BY <1>1, <1>7, <1>8, <1>9, <1>10 DEF BridgeInv

\* What the only worker puts back, before it holds anything, was left by killed ones.
LEMMA RestoreInv ==
  ASSUME BridgeInv, NEW w \in Worker, Restore(w)
  PROVE  BridgeInv'
<1>1. Typed /\ Typed'
  BY WorkerType DEF BridgeInv, Work
<1>2. /\ requests' = requests \cup processing /\ processing' = {}
      /\ UNCHANGED <<responses, sent, verdict, lock, held, done, orphans, raced>>
      /\ pc[w] = "restoring" /\ pc'[w] = "polling"
      /\ \A x \in Worker \ {w} : pc'[x] = pc[x]
  BY <1>1 DEF Restore, Goto, agent, dirs, history, Typed
<1>3. held[w] = 0 /\ w \in Serving
  BY <1>1, <1>2 DEF Typed, TypeOK, Serving
<1>4. Serving' = Serving
  BY <1>2 DEF Serving
<1>5. Open' = Open
  BY <1>2, <1>4 DEF Open
<1>6. ~raced => \A x \in Worker : held[x] = 0
  BY <1>1, <1>3, OnlyServer, HoldersServe
<1>7. Exclusive'
  BY <1>2, <1>4 DEF BridgeInv, Exclusive
<1>8. Processing'
  BY <1>2, <1>4, <1>6 DEF Processing, Serving
<1>9. Honest'
  BY <1>2 DEF BridgeInv, Honest, OkIsDone
<1>10. Ordered'
  BY <1>2, <1>5 DEF BridgeInv, Ordered, AnsweredInOrder
<1>11. 0 \notin Ids
  BY Bounds DEF Ids
<1>12. Fresh'
  <2> SUFFICES ASSUME ~raced, NEW i \in Ids \ orphans
      PROVE  /\ done[i] <= 1
             /\ i \notin processing
             /\ i > sent \/ i \in requests => done[i] = 0
    BY <1>2, <1>6, <1>11 DEF Fresh
  <2>1. i \notin processing
    BY <1>6, <1>11 DEF BridgeInv, Fresh
  <2> QED BY <2>1 DEF BridgeInv, Fresh
<1> QED BY <1>1, <1>7, <1>8, <1>9, <1>10, <1>12 DEF BridgeInv

\* The request that is claimed is the oldest one.
LEMMA ClaimInv ==
  ASSUME BridgeInv, NEW w \in Worker, Claim(w)
  PROVE  BridgeInv'
<1>1. Typed /\ Typed'
  BY WorkerType DEF BridgeInv, Work
<1>2. PICK i \in NextOf(requests) :
        /\ requests' = requests \ {i} /\ processing' = processing \cup {i}
        /\ held' = [held EXCEPT ![w] = i]
  BY DEF Claim
<1>3. /\ UNCHANGED <<responses, sent, verdict, lock, done, orphans, raced>>
      /\ pc[w] = "polling" /\ pc'[w] = "reading" /\ held'[w] = i
      /\ \A x \in Worker \ {w} : pc'[x] = pc[x] /\ held'[x] = held[x]
  BY <1>1, <1>2 DEF Claim, Goto, agent, history, Typed, TypeOK
<1>4. i \in requests /\ \A j \in requests : i <= j
  <2>1. requests \subseteq Nat /\ requests # {} /\ i = Min(requests)
    BY <1>1, <1>2, SentIsId DEF Claim, NextOf, Typed, TypeOK
  <2> QED BY <2>1, Least
<1>5. held[w] = 0 /\ w \in Serving /\ Serving' = Serving
  BY <1>1, <1>3 DEF Typed, TypeOK, Serving
<1>6. Open' \subseteq Open
  BY <1>2, <1>3, <1>4, <1>5 DEF Open, Serving
<1>7. Exclusive'
  BY <1>3, <1>5 DEF BridgeInv, Exclusive
<1>8. Processing'
  <2> SUFFICES ASSUME ~raced
      PROVE  /\ i \in processing' /\ \A j \in requests' : i <= j
             /\ processing' \subseteq {i}
    BY <1>3, <1>5, OnlyServer DEF Processing
  <2>1. processing \subseteq {0} /\ 0 \notin processing
    BY <1>1, <1>3, <1>5 DEF BridgeInv, Processing, Typed, TypeOK
  <2> QED BY <2>1, <1>2, <1>4
<1>9. Honest'
  BY <1>3 DEF BridgeInv, Honest, OkIsDone, Serving
<1>10. Ordered'
  BY <1>3, <1>6 DEF BridgeInv, Ordered, AnsweredInOrder
<1>11. Fresh'
  <2> SUFFICES ASSUME ~raced, NEW k \in Ids \ orphans
      PROVE  /\ done[k] <= 1
             /\ (k > sent \/ k \in requests'
                 \/ \E x \in Worker : held'[x] = k /\ pc'[x] \in {"reading", "fulfilling"})
                => done[k] = 0
             /\ k \in processing' => \E x \in Worker : held'[x] = k
    BY <1>3 DEF Fresh
  <2>1. ASSUME NEW x \in Worker, held'[x] = k, pc'[x] \in {"reading", "fulfilling"}
        PROVE  done[k] = 0
    BY <2>1, <1>3, <1>4 DEF BridgeInv, Fresh
  <2>2. k \in processing => \E x \in Worker : x # w /\ held[x] = k
    <3>1. 0 \notin Ids
      BY Bounds DEF Ids
    <3> QED BY <3>1, <1>5 DEF BridgeInv, Fresh
  <2>3. k \in processing' => \E x \in Worker : held'[x] = k
    BY <2>2, <1>2, <1>3
  <2> QED BY <2>1, <2>3, <1>2 DEF BridgeInv, Fresh
<1> QED BY <1>1, <1>7, <1>8, <1>9, <1>10, <1>11 DEF BridgeInv

\* A worker that reads its request changes nothing else.
LEMMA ReadInv ==
  ASSUME BridgeInv, NEW w \in Worker, Read(w)
  PROVE  BridgeInv'
<1>1. Typed /\ Typed'
  BY WorkerType DEF BridgeInv, Work
<1>2. /\ UNCHANGED <<requests, processing, responses, sent, verdict>>
      /\ UNCHANGED <<lock, held, done, orphans, raced>>
      /\ pc[w] = "reading" /\ pc'[w] = "fulfilling"
      /\ \A x \in Worker \ {w} : pc'[x] = pc[x]
  BY <1>1 DEF Read, Goto, agent, dirs, history, Typed
<1>3. Serving' = Serving
  BY <1>2 DEF Serving
<1>4. Open' = Open
  BY <1>2, <1>3 DEF Open
<1>5. Exclusive' /\ Processing'
  BY <1>2, <1>3 DEF BridgeInv, Exclusive, Processing, Serving
<1>6. Honest'
  BY <1>2 DEF BridgeInv, Honest, OkIsDone
<1>7. Ordered'
  BY <1>2, <1>4 DEF BridgeInv, Ordered, AnsweredInOrder
<1>8. Fresh'
  BY <1>2 DEF BridgeInv, Fresh
<1> QED BY <1>1, <1>5, <1>6, <1>7, <1>8 DEF BridgeInv

\* A request that is submitted, unless it is an orphan's, has not been before, and is
\* neither waiting nor held by another worker.
LEMMA SubmitInv ==
  ASSUME BridgeInv, NEW w \in Worker, Submit(w)
  PROVE  BridgeInv'
<1>1. Typed /\ Typed'
  BY WorkerType DEF BridgeInv, Work
<1>2. /\ UNCHANGED <<requests, processing, responses, sent, verdict>>
      /\ UNCHANGED <<lock, held, orphans, raced>>
      /\ pc[w] = "fulfilling" /\ pc'[w] = "submitted"
      /\ \A x \in Worker \ {w} : pc'[x] = pc[x]
  BY <1>1 DEF Submit, Goto, agent, dirs, history, Typed
<1>3. held[w] \in Ids /\ w \in Serving /\ held[w] # 0 /\ held[w] <= sent
  BY <1>1, <1>2, HoldersServe, SentIsId DEF Typed, TypeOK
<1>4. /\ \A i \in Ids \ {held[w]} : done'[i] = done[i]
      /\ done'[held[w]] = IF done[held[w]] < MaxDone THEN done[held[w]] + 1
                          ELSE done[held[w]]
      /\ \A i \in Ids : done[i] \in 0..MaxDone
  BY <1>1, <1>3 DEF Submit, Typed, TypeOK
<1>5. \A i \in Ids : done'[i] >= done[i] /\ done[i] \in Nat
  BY <1>3, <1>4, Bounds
<1>6. done'[held[w]] >= 1 /\ (done[held[w]] = 0 => done'[held[w]] = 1)
  BY <1>3, <1>4, Bounds
<1>7. Serving' = Serving
  BY <1>2 DEF Serving
<1>8. Open' = Open
  BY <1>2, <1>7 DEF Open
<1>9. Exclusive' /\ Processing'
  BY <1>2, <1>7 DEF BridgeInv, Exclusive, Processing, Serving
<1>10. Honest'
  <2>1. ASSUME NEW x \in Worker, pc'[x] = "submitted"
        PROVE  done'[held[x]] >= 1
    <3>1. CASE x = w BY <3>1, <1>6
    <3>2. CASE x # w
      <4>1. pc[x] = "submitted" /\ held[x] \in Ids
        BY <2>1, <3>2, <1>1, <1>2, HoldersServe, SentIsId DEF Typed, TypeOK
      <4>2. done[held[x]] >= 1
        BY <4>1 DEF BridgeInv, Honest
      <4> QED BY <4>1, <4>2, <1>4, <1>5, Bounds
    <3> QED BY <3>1, <3>2
  <2>2. DOMAIN responses \subseteq Ids
    BY <1>1, SentIsId DEF Typed, TypeOK
  <2>3. \A i \in Ids : done[i] >= 1 => done'[i] >= 1
    BY <1>4, <1>5, Bounds
  <2> QED BY <2>1, <2>2, <2>3, <1>2 DEF BridgeInv, Honest, OkIsDone
<1>11. Ordered'
  BY <1>2, <1>8 DEF BridgeInv, Ordered, AnsweredInOrder
<1>12. Fresh'
  <2> SUFFICES ASSUME ~raced, NEW i \in Ids \ orphans
      PROVE  /\ done'[i] <= 1
             /\ (i > sent \/ i \in requests
                 \/ \E x \in Worker : held[x] = i /\ pc'[x] \in {"reading", "fulfilling"})
                => done'[i] = 0
             /\ i \in processing => \E x \in Worker : held[x] = i
    BY <1>2 DEF Fresh
  <2>1. CASE i # held[w]
    BY <2>1, <1>2, <1>4 DEF BridgeInv, Fresh
  <2>2. CASE i = held[w]
    <3>1. done'[i] = 1
      BY <2>2, <1>2, <1>6 DEF BridgeInv, Fresh
    <3>2. i \in processing /\ i \notin requests
      BY <2>2, <1>1, <1>3 DEF BridgeInv, Processing, Typed, TypeOK
    <3>3. ASSUME NEW x \in Worker, held[x] = i PROVE x = w
      BY <3>3, <2>2, <1>1, <1>3, HoldersServe, OnlyServer
    <3>4. ~(i > sent)
      BY <2>2, <1>1, <1>3, SentIsId DEF Typed
    <3> QED BY <3>1, <3>2, <3>3, <3>4, <2>2, <1>2
  <2> QED BY <2>1, <2>2
<1> QED BY <1>1, <1>9, <1>10, <1>11, <1>12 DEF BridgeInv

\* A worker answers the oldest request that is open; it has submitted what it calls
\* published.
LEMMA RespondInv ==
  ASSUME BridgeInv, NEW w \in Worker, Succeed(w) \/ Fail(w)
  PROVE  BridgeInv'
<1>1. Typed /\ Typed'
  BY WorkerType DEF BridgeInv, Work
<1>2. PICK told \in {"ok", "failed"} :
        /\ Respond(w, told)
        /\ pc[w] \in {"reading", "fulfilling", "submitted"}
        /\ told = "ok" => pc[w] = "submitted"
  BY DEF Succeed, Fail
<1>3. /\ UNCHANGED <<requests, processing, sent, verdict>>
      /\ UNCHANGED <<lock, held, done, orphans, raced>>
      /\ pc'[w] = "unlinking" /\ \A x \in Worker \ {w} : pc'[x] = pc[x]
      /\ DOMAIN responses' = DOMAIN responses \cup {held[w]}
      /\ responses'[held[w]] = told
      /\ \A i \in DOMAIN responses \ {held[w]} : responses'[i] = responses[i]
  BY <1>1, <1>2 DEF Respond, Goto, agent, history, Typed
<1>4. held[w] \in Ids /\ w \in Serving /\ held[w] # 0
  BY <1>1, <1>2, HoldersServe, SentIsId DEF Typed, TypeOK
<1>5. Serving' = Serving
  BY <1>2, <1>3 DEF Serving
<1>6. Open' = Open
  BY <1>3, <1>5 DEF Open
<1>7. Exclusive' /\ Processing'
  BY <1>2, <1>3, <1>5 DEF BridgeInv, Exclusive, Processing, Serving
<1>8. Honest'
  BY <1>2, <1>3 DEF BridgeInv, Honest, OkIsDone
<1>9. ~raced => \A j \in Open : j >= held[w]
  <2> SUFFICES ASSUME ~raced, NEW j \in Open PROVE j >= held[w]
    OBVIOUS
  <2>1. \A x \in Serving : x = w
    BY <1>4, OnlyServer
  <2>2. \/ j \in requests
        \/ j \in processing
        \/ j = held[w]
    BY <2>1 DEF Open
  <2>3. processing \subseteq {held[w]} /\ \A k \in requests : held[w] <= k
    BY <1>2, <1>4 DEF BridgeInv, Processing
  <2>4. held[w] \in Nat /\ requests \subseteq Nat
    BY <1>1, <1>4, SentIsId DEF Typed, TypeOK
  <2>5. j = held[w] => j >= held[w]
    BY <2>4
  <2>6. j \in requests => j >= held[w]
    BY <2>3, <2>4
  <2> QED BY <2>2, <2>3, <2>5, <2>6
<1>10. Ordered'
  BY <1>3, <1>6, <1>9 DEF BridgeInv, Ordered, AnsweredInOrder
<1>11. Fresh'
  BY <1>2, <1>3 DEF BridgeInv, Fresh
<1> QED BY <1>1, <1>7, <1>8, <1>10, <1>11 DEF BridgeInv

\* A request that is unlinked is neither open nor carried out again.
LEMMA UnlinkInv ==
  ASSUME BridgeInv, NEW w \in Worker, Unlink(w)
  PROVE  BridgeInv'
<1>1. Typed /\ Typed'
  BY WorkerType DEF BridgeInv, Work
<1>2. /\ UNCHANGED <<requests, responses, sent, verdict, lock, done, orphans, raced>>
      /\ processing' = processing \ {held[w]}
      /\ pc[w] = "unlinking" /\ pc'[w] = "polling" /\ held'[w] = 0
      /\ \A x \in Worker \ {w} : pc'[x] = pc[x] /\ held'[x] = held[x]
  BY <1>1 DEF Unlink, Goto, agent, history, Typed, TypeOK
<1>3. Serving' = Serving /\ w \in Serving
  BY <1>2 DEF Serving
<1>4. Open' \subseteq Open
  BY <1>2, <1>3 DEF Open, Serving
<1>5. Exclusive'
  BY <1>2, <1>3 DEF BridgeInv, Exclusive
<1>6. Processing'
  <2> SUFFICES ASSUME ~raced
      PROVE  held'[w] = 0 /\ processing' \subseteq {0}
    BY <1>2, <1>3, OnlyServer DEF Processing
  <2>1. processing \subseteq {held[w]}
    BY <1>2, <1>3 DEF BridgeInv, Processing
  <2> QED BY <2>1, <1>2
<1>7. Honest'
  BY <1>2 DEF BridgeInv, Honest, OkIsDone
<1>8. Ordered'
  BY <1>2, <1>4 DEF BridgeInv, Ordered, AnsweredInOrder
<1>9. 0 \notin Ids
  BY Bounds DEF Ids
<1>10. Fresh'
  BY <1>2, <1>9 DEF BridgeInv, Fresh
<1> QED BY <1>1, <1>5, <1>6, <1>7, <1>8, <1>10 DEF BridgeInv

\* A signal changes nothing of it.
LEMMA SignalInv ==
  ASSUME BridgeInv, NEW w \in Worker, Signal(w)
  PROVE  BridgeInv'
<1>1. Typed'
  BY WorkerType DEF BridgeInv
<1>2. /\ UNCHANGED <<requests, processing, responses, sent, verdict>>
      /\ UNCHANGED <<lock, pc, held, done, orphans, raced>>
  BY DEF Signal, agent, dirs
<1>3. Serving' = Serving
  BY <1>2 DEF Serving
<1>4. Open' = Open
  BY <1>2, <1>3 DEF Open
<1>5. Exclusive' /\ Processing'
  BY <1>2, <1>3 DEF BridgeInv, Exclusive, Processing
<1>6. Honest'
  BY <1>2 DEF BridgeInv, Honest, OkIsDone
<1>7. Ordered'
  BY <1>2, <1>4 DEF BridgeInv, Ordered, AnsweredInOrder
<1>8. Fresh'
  BY <1>2 DEF BridgeInv, Fresh
<1> QED BY <1>1, <1>5, <1>6, <1>7, <1>8 DEF BridgeInv

\* What holds of the serving workers still holds when one of them ends; of its request
\* nothing is said any more.
LEMMA DownInv ==
  ASSUME BridgeInv, NEW w \in Worker, Close(w) \/ Kill(w)
  PROVE  BridgeInv'
<1>1. Typed /\ Typed'
  BY WorkerType DEF BridgeInv, Work
<1>2. /\ UNCHANGED <<requests, processing, responses, sent, verdict, done, raced>>
      /\ pc'[w] = "down" /\ held'[w] = 0
      /\ \A x \in Worker \ {w} : pc'[x] = pc[x] /\ held'[x] = held[x]
      /\ orphans' = orphans \cup ({held[w]} \ {0})
      /\ lock' = lock \/ (lock = w /\ lock' = NoWorker)
  <2>1. CASE Close(w)
    <3>1. held[w] = 0
      BY <1>1, <2>1 DEF Close, Typed, TypeOK
    <3> QED BY <1>1, <2>1, <3>1 DEF Close, Down, Goto, agent, dirs, history, Typed
  <2>2. CASE Kill(w)
    BY <1>1, <2>2 DEF Kill, Down, Goto, agent, dirs, Typed, TypeOK
  <2> QED BY <2>1, <2>2
<1>3. Serving' = Serving \ {w}
  BY <1>2 DEF Serving
<1>4. Open' \subseteq Open
  BY <1>2, <1>3 DEF Open, Serving
<1>5. Exclusive'
  <2> SUFFICES ASSUME ~raced, NEW x \in Serving \ {w} PROVE lock' = x
    BY <1>2, <1>3 DEF Exclusive
  <2>1. lock = x
    BY DEF BridgeInv, Exclusive
  <2> QED BY <2>1, <1>2
<1>6. Processing'
  BY <1>2, <1>3 DEF BridgeInv, Processing, Serving
<1>7. Honest'
  BY <1>2 DEF BridgeInv, Honest, OkIsDone
<1>8. Ordered'
  BY <1>2, <1>4 DEF BridgeInv, Ordered, AnsweredInOrder
<1>9. 0 \notin Ids
  BY Bounds DEF Ids
<1>10. Fresh'
  <2> SUFFICES ASSUME ~raced, NEW i \in Ids \ orphans, i # held[w]
      PROVE  /\ done[i] <= 1
             /\ (i > sent \/ i \in requests
                 \/ \E x \in Worker : held'[x] = i /\ pc'[x] \in {"reading", "fulfilling"})
                => done[i] = 0
             /\ i \in processing => \E x \in Worker : held'[x] = i
    BY <1>2, <1>9 DEF Fresh
  <2>1. \A x \in Worker : held'[x] = i <=> held[x] = i
    BY <1>2, <1>9
  <2>2. \A x \in Worker : held'[x] = i => pc'[x] = pc[x]
    BY <1>2, <1>9
  <2> QED BY <2>1, <2>2 DEF BridgeInv, Fresh
<1> QED BY <1>1, <1>5, <1>6, <1>7, <1>8, <1>10 DEF BridgeInv

\* The invariant is preserved by every step.
LEMMA BridgeStep == BridgeInv /\ [Next]_vars => BridgeInv'
<1>1. ASSUME BridgeInv, NEW w \in Worker, Work(w) \/ Signal(w) \/ Kill(w)
      PROVE  BridgeInv'
  BY <1>1, StartInv, TakeLockInv, RestoreInv, ClaimInv, ReadInv, SubmitInv, RespondInv,
     UnlinkInv, SignalInv, DownInv DEF Work
<1>2. ASSUME BridgeInv, UNCHANGED vars
      PROVE  BridgeInv'
  <2>1. Typed'
    BY <1>2 DEF BridgeInv, Typed, TypeOK, vars, agent, dirs, workers, history
  <2>2. /\ UNCHANGED <<requests, processing, responses, sent, verdict>>
        /\ UNCHANGED <<lock, pc, held, done, orphans, raced>>
    BY <1>2 DEF vars, agent, dirs, workers, history
  <2>3. Serving' = Serving
    BY <2>2 DEF Serving
  <2>4. Open' = Open
    BY <2>2, <2>3 DEF Open
  <2>5. Exclusive' /\ Processing'
    BY <1>2, <2>2, <2>3 DEF BridgeInv, Exclusive, Processing
  <2>6. Honest'
    BY <1>2, <2>2 DEF BridgeInv, Honest, OkIsDone
  <2>7. Ordered'
    BY <1>2, <2>2, <2>4 DEF BridgeInv, Ordered, AnsweredInOrder
  <2>8. Fresh'
    BY <1>2, <2>2 DEF BridgeInv, Fresh
  <2> QED BY <2>1, <2>5, <2>6, <2>7, <2>8 DEF BridgeInv
<1> QED BY <1>1, <1>2, RunInv DEF Next

\* Lock, directories, answers and executions agree in every reachable state.
THEOREM BridgeCorrect == Spec => []BridgeInv
BY BridgeInit, BridgeStep, PTL DEF Spec

----------------------------------------------------------------------------
\* What follows from it.

\* A form is submitted twice only for a request whose worker was killed while it had it,
\* or after two workers passed the lock at the same time.
THEOREM OnceCorrect == Spec => []OnceUnlessOrphaned
<1>1. BridgeInv => OnceUnlessOrphaned
  BY DEF BridgeInv, Fresh, OnceUnlessOrphaned
<1> QED BY <1>1, BridgeCorrect, PTL

\* A run reports as published only what the browser submitted, races and kills included.
THEOREM OkCorrect == Spec => []OkIsDone
<1>1. BridgeInv => OkIsDone
  BY DEF BridgeInv, Honest
<1> QED BY <1>1, BridgeCorrect, PTL

\* Once a run has an answer nothing that was asked earlier is carried out any more, unless
\* workers raced: also not what an earlier run gave up, or what was put back.
THEOREM OrderCorrect == Spec => []AnsweredInOrder
<1>1. BridgeInv => AnsweredInOrder
  BY DEF BridgeInv, Ordered
<1> QED BY <1>1, BridgeCorrect, PTL

----------------------------------------------------------------------------
\* What is written: the drafts of the heartbeats, and what is remembered of them.

Pieces == {"plain", "proof", "link", "code", "other", "cut"}

Legal(o, text) ==
  IF ActionType[o] = "create_post"
  THEN /\ text.title # "none" /\ HasProof(text)
       /\ Len(text.body) <= MaxPost /\ (tracked => Contains(text.body, "link"))
  ELSE /\ Len(text.body) <= MaxReply
       /\ ~Contains(text.body, "code") /\ ~Contains(text.body, "other")
       /\ Contains(text.body, "link") <=> HasLink(o)

DraftJob == [id : Offerable, wording : Wordings \cup {NoWording}]

IsPost(job) == ActionType[job.id] = "create_post"

\* What there is to remember: only posts are found again.
Known == ((DOMAIN published) \X {"recorded"}) \cup (PostsPublished \X {"found"})

DraftingTyped ==
  /\ published \in Seq(DraftJob) /\ unsent \subseteq DraftJob
  /\ turn \in {"idle", "plan", "enqueue", "draft", "repair"}
  /\ bundle \subseteq Offerable /\ toWrite \subseteq Writing
  /\ artifacts \subseteq Known /\ Cardinality(artifacts) <= MaxArtifacts

\* What was forgotten has given way to what was written later.
MemoryInv ==
  \A i \in DOMAIN published :
    (\E a \in artifacts : a[1] = i) \/ Weight(i + 1 .. Len(published)) >= MaxArtifacts

\* A post of this wording after place k differs from the one at place i.
Differs(wording, i, k) ==
  Sense[published[i].wording] = Sense[wording] =>
    /\ Weight(i + 1 .. k) >= MaxArtifacts
    /\ \/ tracked \/ published[i].wording # wording
       \/ Cardinality(PostsPublished \cap (i + 1 .. k)) >= MaxFingerprints

\* One post waits at most, and it would differ if it were published now.
WaitingInv ==
  \A job \in unsent : IsPost(job) =>
    /\ \A other \in unsent : IsPost(other) => other = job
    /\ \A i \in PostsPublished : Differs(job.wording, i, Len(published))

DraftingInv ==
  /\ DraftingTyped /\ MemoryInv /\ WaitingInv
  /\ TextIsLegal /\ PostsDiffer /\ BundleIsSmall

LEMMA DraftingLimits ==
  /\ {MaxUpvotes, MaxFollows, MinReply, MaxReply, MaxArtifacts, MaxFingerprints} \subseteq Nat
  /\ MaxPost \in Nat /\ MaxPost > 1
  /\ IsFiniteSet(Offerable)
BY DraftingAssumption

----------------------------------------------------------------------------
\* The text.

LEMMA TrimmedLength ==
  ASSUME NEW s \in Seq(Pieces), NEW n \in Nat, n > 0
  PROVE  TrimToLimit(s, n) \in Seq(Pieces) /\ Len(TrimToLimit(s, n)) <= n
<1>1. CASE Len(s) <= n
  BY <1>1 DEF TrimToLimit
<1>2. CASE ~(Len(s) <= n)
  <2>1. PICK t : t = SubSeq(s, 1, n - 1)
    OBVIOUS
  <2>2. t \in Seq(Pieces) /\ Len(t) = n - 1
    BY <1>2, <2>1
  <2>3. "cut" \in Pieces
    BY DEF Pieces
  <2>4. Append(t, "cut") \in Seq(Pieces) /\ Len(Append(t, "cut")) = n
    BY <2>2, <2>3
  <2> QED BY <1>2, <2>1, <2>4 DEF TrimToLimit
<1> QED BY <1>1, <1>2

\* A post fits after it was trimmed, with its link.
LEMMA TrimmedPost ==
  ASSUME NEW o, NEW body \in Seq(Pieces), ActionType[o] = "create_post"
  PROVE  Len(TrimPostContent(o, body)) <= MaxPost
<1>1. MaxPost \in Nat /\ MaxPost - 1 \in Nat /\ MaxPost - 1 > 0 /\ MaxPost > 0
  BY DraftingLimits
<1>2. CASE Len(body) <= MaxPost
  BY <1>2 DEF TrimPostContent
<1>3. CASE ~(Len(body) <= MaxPost) /\ HasLink(o) /\ Contains(body, "link")
  <2>1. PICK s : s = IF Last(body) = "link" THEN Front(body) ELSE body
    OBVIOUS
  <2>2. s \in Seq(Pieces)
    <3>1. Len(body) \in Nat /\ Len(body) > 1
      BY <1>1, <1>3
    <3>2. SubSeq(body, 1, Len(body) - 1) \in Seq(Pieces)
      BY <3>1
    <3> QED BY <2>1, <3>2 DEF Front
  <2>3. PICK t : t = TrimToLimit(s, MaxPost - 1)
    OBVIOUS
  <2>4. t \in Seq(Pieces) /\ Len(t) <= MaxPost - 1
    BY <1>1, <2>2, <2>3, TrimmedLength
  <2>5. TrimPostContent(o, body) = t \o <<"link">>
    BY <1>3, <2>1, <2>3 DEF TrimPostContent
  <2>6. Len(t \o <<"link">>) = Len(t) + 1
    BY <2>4 DEF Pieces
  <2> QED BY <1>1, <2>4, <2>5, <2>6
<1>4. CASE ~(Len(body) <= MaxPost) /\ ~(HasLink(o) /\ Contains(body, "link"))
  <2>1. TrimPostContent(o, body) = TrimToLimit(body, MaxPost)
    BY <1>4 DEF TrimPostContent
  <2> QED BY <1>1, <2>1, TrimmedLength
<1> QED BY <1>2, <1>3, <1>4

\* Where a link is put, a text stays one.
LEMMA CtaApplied ==
  ASSUME NEW o, NEW body \in Seq(Pieces), NEW b \in ApplyCta(o, body)
  PROVE  b \in Seq(Pieces)
<1>1. "link" \in Pieces
  BY DEF Pieces
<1>2. Append(body, "link") \in Seq(Pieces)
  BY <1>1
<1>3. CASE body # <<>>
  <2>1. PICK n \in Nat : n = Len(body) /\ n > 0
    BY <1>3
  <2>2. PICK k \in 1..(n + 1) : k = IF Len(body) > 1 THEN 2 ELSE 1 + Len(body)
    BY <2>1
  <2>3. SubSeq(body, 1, k - 1) \in Seq(Pieces)
    BY <2>1, <2>2
  <2>4. SubSeq(body, k, n) \in Seq(Pieces)
    BY <2>1, <2>2
  <2>5. <<"link">> \in Seq(Pieces)
    BY <1>1
  <2>6. SubSeq(body, 1, k - 1) \o <<"link">> \in Seq(Pieces)
    BY <2>3, <2>5
  <2>7. InsertAt(body, k, "link") \in Seq(Pieces)
    BY <2>1, <2>4, <2>6 DEF InsertAt
  <2> QED BY <1>2, <2>2, <2>7 DEF ApplyCta
<1>4. CASE body = <<>>
  BY <1>4 DEF ApplyCta
<1> QED BY <1>3, <1>4

\* A text that passes the checks is legal.
LEMMA AcceptedText ==
  ASSUME NEW o \in Writing, NEW answer \in Answers(o), NEW result \in Finalized(o, answer),
         result[1] = "ok"
  PROVE  Legal(o, result[2]) /\ result[2].wording \in Wordings /\ "ok" \in Verdicts(o, result[2])
<1>1. PICK text \in Shaped(o, answer) : result \in {<<v, text>> : v \in Verdicts(o, text)}
  BY DEF Finalized
<1>2. result[2] = text /\ "ok" \in Verdicts(o, text)
  BY <1>1
<1>3. PICK t \in TrimTitle(answer.title), b \in ApplyCta(o, NormalizeContent(o, answer.body)) :
        text = [title |-> t, wording |-> answer.wording, body |-> TrimPostContent(o, b)]
  BY <1>1 DEF Shaped
<1>4. answer.wording \in Wordings /\ answer.body \in Bodies(o)
  BY DEF Answers
<1>5. answer.body \in Seq(Pieces)
  BY <1>4 DEF Bodies, Pieces
<1>6. CASE ActionType[o] = "create_post"
  <2>1. b \in Seq(Pieces)
    BY <1>3, <1>5, <1>6, CtaApplied DEF NormalizeContent
  <2>2. Len(text.body) <= MaxPost
    BY <1>3, <1>6, <2>1, TrimmedPost
  <2>3. text.title # "none" /\ HasProof(text) /\ (tracked => Contains(text.body, "link"))
    BY <1>2, <1>6 DEF Verdicts, LinkRequired
  <2> QED BY <1>2, <1>3, <1>4, <1>6, <2>2, <2>3 DEF Legal
<1>7. CASE ActionType[o] # "create_post"
  <2>1. text.body = NormalizeContent(o, answer.body)
    BY <1>3, <1>7 DEF ApplyCta, LinkRequired, TrimPostContent
  <2>2. ~Contains(text.body, "code")
    <3>1. text.body = [i \in DOMAIN answer.body |->
                         IF answer.body[i] = "code" THEN "plain" ELSE answer.body[i]]
      BY <1>7, <2>1 DEF NormalizeContent
    <3>2. DOMAIN answer.body = 1..Len(answer.body) /\ Len(answer.body) \in Nat
      BY <1>5
    <3>3. Len(text.body) = Len(answer.body)
      BY <3>1, <3>2
    <3> QED BY <3>1, <3>2, <3>3 DEF Contains
  <2>3. /\ ~(Len(text.body) > MaxReply)
        /\ ~Contains(text.body, "other") /\ (Contains(text.body, "link") <=> HasLink(o))
    BY <1>2, <1>7 DEF Verdicts
  <2>4. Len(text.body) \in Nat /\ MaxReply \in Nat
    <3>1. \A i \in DOMAIN answer.body : answer.body[i] \in Pieces
      BY <1>5
    <3>2. text.body \in Seq(Pieces)
      BY <1>5, <1>7, <2>1, <3>1 DEF NormalizeContent, Pieces
    <3> QED BY <3>2, DraftingLimits
  <2> QED BY <1>2, <1>3, <1>4, <1>7, <2>2, <2>3, <2>4 DEF Legal
<1> QED BY <1>6, <1>7

----------------------------------------------------------------------------
\* What is remembered.

LEMMA WeightIsNat ==
  ASSUME NEW a \in Int, NEW b \in Int
  PROVE  /\ IsFiniteSet(a .. b) /\ Cardinality(a .. b) \in Nat
         /\ IsFiniteSet(PostsPublished \cap (a .. b))
         /\ Cardinality(PostsPublished \cap (a .. b)) \in Nat
         /\ Weight(a .. b) \in Nat
<1>1. IsFiniteSet(a .. b)
  BY FS_Interval
<1>2. IsFiniteSet((a .. b) \cap PostsPublished) /\ IsFiniteSet(PostsPublished \cap (a .. b))
  BY <1>1, FS_Intersection
<1>3. Cardinality(a .. b) \in Nat
  BY <1>1, FS_CardinalityType
<1>4. Cardinality((a .. b) \cap PostsPublished) \in Nat
  BY <1>2, FS_CardinalityType
<1>5. Cardinality(PostsPublished \cap (a .. b)) \in Nat
  BY <1>2, FS_CardinalityType
<1>6. Weight(a .. b) \in Nat
  BY <1>3, <1>4 DEF Weight
<1> QED BY <1>1, <1>2, <1>3, <1>5, <1>6

\* Places that are added, and posts that are published, only add to a weight.
LEMMA WeightGrows ==
  ASSUME NEW a \in Int, NEW b \in Int, NEW c \in Int, b <= c, PostsPublished \subseteq PostsPublished'
  PROVE  /\ Weight(a .. b) <= Weight(a .. c)'
         /\ Cardinality(PostsPublished \cap (a .. b)) <= Cardinality(PostsPublished' \cap (a .. c))
<1>1. IsFiniteSet(a .. c) /\ a .. b \subseteq a .. c
  BY FS_Interval
<1>2. IsFiniteSet((a .. c) \cap PostsPublished')
  BY <1>1, FS_Intersection
<1>3. (a .. b) \cap PostsPublished \subseteq (a .. c) \cap PostsPublished'
  BY <1>1
<1>4. Cardinality(a .. b) <= Cardinality(a .. c) /\ IsFiniteSet(a .. b)
  BY <1>1, FS_Subset
<1>5. /\ Cardinality((a .. b) \cap PostsPublished) <= Cardinality((a .. c) \cap PostsPublished')
      /\ IsFiniteSet((a .. b) \cap PostsPublished)
  BY <1>2, <1>3, FS_Subset
<1>6. /\ Cardinality(a .. b) \in Nat /\ Cardinality(a .. c) \in Nat
      /\ Cardinality((a .. b) \cap PostsPublished) \in Nat
      /\ Cardinality((a .. c) \cap PostsPublished') \in Nat
  BY <1>1, <1>2, <1>4, <1>5, FS_CardinalityType
<1>7. Weight(a .. b) <= Weight(a .. c)'
  BY <1>4, <1>5, <1>6 DEF Weight
<1>8. /\ (a .. b) \cap PostsPublished = PostsPublished \cap (a .. b)
      /\ (a .. c) \cap PostsPublished' = PostsPublished' \cap (a .. c)
  OBVIOUS
<1> QED BY <1>5, <1>7, <1>8

\* The newest of some artifacts are all of them, or as many as are kept.
LEMMA NewestIs ==
  ASSUME NEW S, IsFiniteSet(S), NEW T \in Newest(S)
  PROVE  /\ T \subseteq S /\ IsFiniteSet(T)
         /\ Cardinality(T) <= MaxArtifacts /\ Cardinality(T) \in Nat
         /\ T = S \/ Cardinality(T) = MaxArtifacts
         /\ \A a \in T, b \in S \ T : a[1] >= b[1]
<1>1. PICK n : n = IF Cardinality(S) < MaxArtifacts THEN Cardinality(S) ELSE MaxArtifacts
  OBVIOUS
<1>2. T \in kSubset(n, S) /\ \A a \in T, b \in S \ T : a[1] >= b[1]
  BY <1>1 DEF Newest
<1>3. T \in SUBSET S /\ Cardinality(T) = n
  BY <1>2 DEF kSubset
<1>4. IsFiniteSet(T) /\ (Cardinality(S) = Cardinality(T) => S = T)
  BY <1>3, FS_Subset
<1>5. Cardinality(S) \in Nat /\ MaxArtifacts \in Nat
  BY FS_CardinalityType, DraftingLimits
<1> QED BY <1>1, <1>2, <1>3, <1>4, <1>5

LEMMA MemoryIsFinite ==
  ASSUME NEW n \in Nat, NEW posts \in SUBSET (1 .. n)
  PROVE  IsFiniteSet(((1 .. n) \X {"recorded"}) \cup (posts \X {"found"}))
<1>1. IsFiniteSet(1 .. n)
  BY FS_Interval
<1>4. IsFiniteSet({"recorded"}) /\ IsFiniteSet({"found"})
  BY FS_Singleton
<1>2. IsFiniteSet(posts)
  BY <1>1, FS_Subset
<1>3. IsFiniteSet((1 .. n) \X {"recorded"}) /\ IsFiniteSet(posts \X {"found"})
  BY <1>1, <1>2, <1>4, FS_Product
<1> QED BY <1>3, FS_Union

\* What gives way was written before all that is kept.
LEMMA Displaced ==
  ASSUME NEW n \in Nat, NEW P \in SUBSET (1 .. n),
         NEW S \in SUBSET (((1 .. n) \X {"recorded"}) \cup (P \X {"found"})),
         NEW T \in Newest(S), NEW i \in 1 .. n, \E a \in S : a[1] = i, \A a \in T : a[1] # i
  PROVE  Cardinality(i + 1 .. n) + Cardinality((i + 1 .. n) \cap P) >= MaxArtifacts
<1> DEFINE later == i + 1 .. n
           posts == later \cap P
           kept == (later \X {"recorded"}) \cup (posts \X {"found"})
<1>1. IsFiniteSet(S)
  BY MemoryIsFinite, FS_Subset
<1>2. PICK b \in S : b[1] = i
  OBVIOUS
<1>3. b \notin T
  BY <1>2
<1>4. /\ T \subseteq S /\ IsFiniteSet(T) /\ Cardinality(T) = MaxArtifacts
      /\ \A a \in T : a[1] >= i
  BY <1>1, <1>2, <1>3, NewestIs
<1>5. T \subseteq kept
  <2> SUFFICES ASSUME NEW a \in T PROVE a \in kept
    OBVIOUS
  <2>1. a \in S /\ a[1] >= i /\ a[1] # i
    BY <1>4
  <2>2. CASE a \in (1 .. n) \X {"recorded"}
    <3>1. PICK j \in 1 .. n : a = <<j, "recorded">>
      BY <2>2
    <3>2. j \in later
      BY <2>1, <3>1
    <3> QED BY <3>1, <3>2
  <2>3. CASE a \in P \X {"found"}
    <3>1. a[1] \in P /\ a[1] \in 1 .. n
      BY <2>3
    <3>2. a[1] \in posts
      BY <2>1, <3>1
    <3> HIDE DEF later, posts
    <3> QED BY <2>3, <3>2
  <2> QED BY <2>1, <2>2, <2>3
<1>6. IsFiniteSet(later) /\ IsFiniteSet(posts)
      /\ Cardinality(later) \in Nat /\ Cardinality(posts) \in Nat
  <2>1. IsFiniteSet(later)
    BY FS_Interval
  <2>2. IsFiniteSet(posts)
    BY <2>1, FS_Intersection
  <2> HIDE DEF later, posts
  <2> QED BY <2>1, <2>2, FS_CardinalityType
<1>7. /\ IsFiniteSet({"recorded"}) /\ Cardinality({"recorded"}) = 1
      /\ IsFiniteSet({"found"}) /\ Cardinality({"found"}) = 1
  BY FS_Singleton
<1>8. /\ IsFiniteSet(later \X {"recorded"}) /\ IsFiniteSet(posts \X {"found"})
      /\ Cardinality(later \X {"recorded"}) = Cardinality(later)
      /\ Cardinality(posts \X {"found"}) = Cardinality(posts)
  <2> HIDE DEF later, posts
  <2>1. /\ IsFiniteSet(later \X {"recorded"})
        /\ Cardinality(later \X {"recorded"}) = Cardinality(later) * Cardinality({"recorded"})
    BY <1>6, <1>7, FS_Product
  <2>2. /\ IsFiniteSet(posts \X {"found"})
        /\ Cardinality(posts \X {"found"}) = Cardinality(posts) * Cardinality({"found"})
    BY <1>6, <1>7, FS_Product
  <2>3. \A k \in Nat : k * 1 = k
    OBVIOUS
  <2> QED BY <1>6, <1>7, <2>1, <2>2, <2>3
<1>9. (later \X {"recorded"}) \cap (posts \X {"found"}) = {}
  OBVIOUS
<1>10. IsFiniteSet(kept) /\ Cardinality(kept) = Cardinality(later) + Cardinality(posts)
  <2> HIDE DEF later, posts
  <2>1. /\ IsFiniteSet(kept)
        /\ Cardinality(kept) = Cardinality(later \X {"recorded"}) + Cardinality(posts \X {"found"})
                               - Cardinality((later \X {"recorded"}) \cap (posts \X {"found"}))
    BY <1>8, FS_Union
  <2>2. Cardinality({}) = 0
    BY FS_EmptySet
  <2>3. Cardinality((later \X {"recorded"}) \cap (posts \X {"found"})) = 0
    BY <1>9, <2>2
  <2>4. Cardinality(kept) = Cardinality(later) + Cardinality(posts) - 0
    BY <1>8, <2>1, <2>3
  <2> HIDE DEF kept
  <2> QED BY <1>6, <2>1, <2>4
<1>11. Cardinality(T) <= Cardinality(kept)
  BY <1>5, <1>10, FS_Subset
<1> HIDE DEF kept
<1> QED BY <1>4, <1>6, <1>10, <1>11, DraftingLimits

LEMMA PublishedPlaces ==
  ASSUME DraftingTyped
  PROVE  /\ Len(published) \in Nat /\ DOMAIN published = 1 .. Len(published)
         /\ PostsPublished \in SUBSET (1 .. Len(published))
         /\ PostsPublished = {i \in 1 .. Len(published) : IsPost(published[i])}
         /\ \A i \in 1 .. Len(published) : published[i] \in DraftJob
         /\ IsFiniteSet(Known) /\ IsFiniteSet(artifacts)
<1>1. DOMAIN published = 1 .. Len(published) /\ Len(published) \in Nat
  BY DEF DraftingTyped
<1>2. /\ PostsPublished \in SUBSET (1 .. Len(published))
      /\ PostsPublished = {i \in 1 .. Len(published) : IsPost(published[i])}
  BY <1>1 DEF PostsPublished, IsPost
<1>3. IsFiniteSet(Known)
  BY <1>1, <1>2, MemoryIsFinite DEF Known
<1>4. IsFiniteSet(artifacts)
  BY <1>3, FS_Subset DEF DraftingTyped
<1> QED BY <1>1, <1>2, <1>3, <1>4 DEF DraftingTyped

\* The newest of what was remembered, and of what is added, remember enough.
LEMMA MemoryKept ==
  ASSUME DraftingTyped, MemoryInv, NEW S, artifacts \subseteq S, S \subseteq Known',
         artifacts' \in Newest(S), published' \in Seq(DraftJob),
         Len(published) <= Len(published'), PostsPublished \subseteq PostsPublished',
         \A i \in 1 .. Len(published') : i > Len(published) => \E a \in S : a[1] = i
  PROVE  artifacts' \subseteq Known' /\ Cardinality(artifacts') <= MaxArtifacts /\ MemoryInv'
<1>1. PICK n \in Nat : n = Len(published') /\ DOMAIN published' = 1 .. n
  OBVIOUS
<1>2. PICK P \in SUBSET (1 .. n) : P = PostsPublished'
  BY <1>1 DEF PostsPublished
<1>3. Known' = ((1 .. n) \X {"recorded"}) \cup (P \X {"found"})
  BY <1>1, <1>2 DEF Known
<1>4. IsFiniteSet(S)
  BY <1>3, MemoryIsFinite, FS_Subset
<1>5. artifacts' \subseteq S /\ Cardinality(artifacts') <= MaxArtifacts
  BY <1>4, NewestIs
<1>6. MemoryInv'
  <2> SUFFICES ASSUME NEW i \in 1 .. n, \A a \in artifacts' : a[1] # i
               PROVE  Weight(i + 1 .. n)' >= MaxArtifacts
    BY <1>1 DEF MemoryInv
  <2>1. CASE \E a \in S : a[1] = i
    <3>1. Cardinality(i + 1 .. n) + Cardinality((i + 1 .. n) \cap P) >= MaxArtifacts
      BY <1>3, <2>1, Displaced
    <3> QED BY <1>2, <3>1 DEF Weight
  <2>2. CASE ~ \E a \in S : a[1] = i
    <3>1. i \in DOMAIN published /\ ~ \E a \in artifacts : a[1] = i
      BY <1>1, <2>2, PublishedPlaces
    <3>2. Weight(i + 1 .. Len(published)) >= MaxArtifacts
      BY <3>1 DEF MemoryInv
    <3>3. i + 1 \in Int /\ Len(published) \in Int /\ n \in Int
      BY PublishedPlaces
    <3>4. Weight(i + 1 .. Len(published)) <= Weight(i + 1 .. n)'
      BY <1>1, <3>3, WeightGrows
    <3>5. Weight(i + 1 .. Len(published)) \in Nat /\ MaxArtifacts \in Nat
      BY <3>3, WeightIsNat, DraftingLimits
    <3>6. Weight(i + 1 .. n)' \in Int
      <4>1. IsFiniteSet(i + 1 .. n)
        BY FS_Interval
      <4>2. IsFiniteSet((i + 1 .. n) \cap P)
        BY <4>1, FS_Intersection
      <4>3. Cardinality(i + 1 .. n) \in Nat /\ Cardinality((i + 1 .. n) \cap P) \in Nat
        BY <4>1, <4>2, FS_CardinalityType
      <4> QED BY <1>2, <4>3 DEF Weight
    <3> QED BY <3>2, <3>4, <3>5, <3>6
  <2> QED BY <2>1, <2>2
<1> QED BY <1>5, <1>6

\* As long as nothing is published and no post is queued, what waits stays new.
LEMMA NothingPublished ==
  ASSUME DraftingInv, UNCHANGED <<tracked, published>>,
         \A job \in unsent' : IsPost(job) => job \in unsent
  PROVE  WaitingInv' /\ PostsDiffer' /\ PostsPublished' = PostsPublished /\ Known' = Known
<1>1. PostsPublished' = PostsPublished
  BY DEF PostsPublished
<1>2. \A wording, i, k : Differs(wording, i, k)' = Differs(wording, i, k)
  BY <1>1 DEF Differs, Weight
<1>3. WaitingInv'
  BY <1>1, <1>2 DEF DraftingInv, WaitingInv
<1>4. PostsDiffer'
  BY <1>1 DEF DraftingInv, PostsDiffer, Weight
<1> QED BY <1>1, <1>3, <1>4 DEF Known

\* Nothing is remembered, forgotten or published.
LEMMA MemoryUnchanged ==
  ASSUME DraftingInv, UNCHANGED <<published, artifacts>>
  PROVE  MemoryInv' /\ artifacts' \subseteq Known' /\ Cardinality(artifacts') <= MaxArtifacts
         /\ published' \in Seq(DraftJob)
<1>1. PostsPublished' = PostsPublished
  BY DEF PostsPublished
<1> QED BY <1>1 DEF DraftingInv, DraftingTyped, MemoryInv, Weight, Known

----------------------------------------------------------------------------
\* The steps of the heartbeats.

LEMMA SyncAccountHealthKeeps == DraftingInv /\ SyncAccountHealth => DraftingInv'
<1> SUFFICES ASSUME DraftingInv, SyncAccountHealth PROVE DraftingInv'
  OBVIOUS
<1>1. /\ turn' = "plan" /\ drafted' = {}
      /\ UNCHANGED <<bundle, toWrite, unsent, tracked, published>>
  BY DEF SyncAccountHealth, Keep
<1>2. WaitingInv' /\ PostsDiffer' /\ PostsPublished' = PostsPublished /\ Known' = Known
  BY <1>1, NothingPublished
<1>3. PICK S : /\ artifacts' \in Newest(S)
               /\ S \in {artifacts, artifacts \cup LastPosts(MaxBackfill) \X {"found"}}
  BY DEF SyncAccountHealth
<1>4. artifacts \subseteq S /\ S \subseteq Known
  BY <1>3 DEF DraftingInv, DraftingTyped, Known, LastPosts
<1>5. artifacts' \subseteq Known' /\ Cardinality(artifacts') <= MaxArtifacts /\ MemoryInv'
  <2>1. DraftingTyped /\ MemoryInv /\ published' \in Seq(DraftJob) /\ Len(published) \in Nat
    BY <1>1, PublishedPlaces DEF DraftingInv, DraftingTyped
  <2> QED BY <1>1, <1>2, <1>3, <1>4, <2>1, MemoryKept
<1>6. TextIsLegal' /\ BundleIsSmall'
  BY <1>1 DEF DraftingInv, TextIsLegal, BundleIsSmall
<1>7. DraftingTyped'
  BY <1>1, <1>5 DEF DraftingInv, DraftingTyped
<1> QED BY <1>2, <1>5, <1>6, <1>7 DEF DraftingInv

\* Steps that only change what the heartbeat is about.
LEMMA OnlyTurn ==
  ASSUME DraftingInv, drafted' = {}, turn' \in {"idle", "plan", "enqueue", "draft", "repair"},
         unsent' \subseteq DraftJob, \A job \in unsent' : IsPost(job) => job \in unsent,
         UNCHANGED <<tracked, published, artifacts>>,
         bundle' \subseteq Offerable, toWrite' \subseteq Writing, BundleIsSmall'
  PROVE  DraftingInv'
<1>1. WaitingInv' /\ PostsDiffer' /\ PostsPublished' = PostsPublished /\ Known' = Known
  BY NothingPublished
<1>2. MemoryInv' /\ artifacts' \subseteq Known' /\ Cardinality(artifacts') <= MaxArtifacts
      /\ published' \in Seq(DraftJob)
  BY MemoryUnchanged
<1>3. TextIsLegal'
  BY DEF TextIsLegal
<1>4. DraftingTyped'
  BY <1>2 DEF DraftingTyped
<1> QED BY <1>1, <1>2, <1>3, <1>4 DEF DraftingInv

LEMMA EmptyBundle == ASSUME bundle' = {} PROVE BundleIsSmall'
<1>1. bundle' \cap Writing = {} /\ bundle' \cap OfType({"follow_agent"}) = {}
  OBVIOUS
<1>2. Cardinality(bundle' \cap Writing) = 0 /\ Cardinality(bundle' \cap OfType({"follow_agent"})) = 0
  BY <1>1, FS_EmptySet
<1>3. MaxFollows \in Nat
  BY DraftingLimits
<1> QED BY <1>2, <1>3 DEF BundleIsSmall, Writing, OfType

LEMMA GiveUpWritingKeeps == DraftingInv /\ GiveUpWriting => DraftingInv'
<1> SUFFICES ASSUME DraftingInv, GiveUpWriting PROVE DraftingInv'
  OBVIOUS
<1>1. /\ turn' = "idle" /\ bundle' = {} /\ toWrite' = {} /\ drafted' = {}
      /\ UNCHANGED <<unsent, artifacts, tracked, published>>
  BY DEF GiveUpWriting, EndHeartbeat, Keep
<1>2. unsent' \subseteq DraftJob
  BY <1>1 DEF DraftingInv, DraftingTyped
<1>3. BundleIsSmall'
  BY <1>1, EmptyBundle
<1> QED BY <1>1, <1>2, <1>3, OnlyTurn

LEMMA DropUnsentKeeps == DraftingInv /\ DropUnsent => DraftingInv'
<1> SUFFICES ASSUME DraftingInv, DropUnsent PROVE DraftingInv'
  OBVIOUS
<1>1. /\ turn' = turn /\ drafted' = {} /\ unsent' \subseteq unsent
      /\ UNCHANGED <<bundle, toWrite, artifacts, tracked, published>>
  BY DEF DropUnsent, Keep
<1>2. unsent' \subseteq DraftJob /\ turn' \in {"idle", "plan", "enqueue", "draft", "repair"}
      /\ bundle' \subseteq Offerable /\ toWrite' \subseteq Writing
  BY <1>1 DEF DraftingInv, DraftingTyped
<1>3. BundleIsSmall'
  BY <1>1 DEF DraftingInv, BundleIsSmall
<1> QED BY <1>1, <1>2, <1>3, OnlyTurn

LEMMA CappedIs ==
  ASSUME NEW S \in SUBSET Offerable, NEW type, NEW limit \in Nat, NEW U \in Capped(S, type, limit)
  PROVE  U \subseteq S \cap OfType({type}) /\ Cardinality(U) <= limit
<1>1. PICK all : all = S \cap OfType({type})
  OBVIOUS
<1>2. PICK n : n = IF Cardinality(all) < limit THEN Cardinality(all) ELSE limit
  OBVIOUS
<1>3. U \in kSubset(n, all)
  BY <1>1, <1>2 DEF Capped
<1>4. U \subseteq all /\ Cardinality(U) = n
  BY <1>3 DEF kSubset
<1>5. IsFiniteSet(all)
  BY <1>1, FS_Subset, DraftingLimits
<1>6. Cardinality(all) \in Nat
  BY <1>5, FS_CardinalityType
<1>7. n <= limit
  BY <1>2, <1>6
<1> QED BY <1>1, <1>4, <1>7

\* What needs no content is no write, and follows are capped.
LEMMA WithoutContentIs ==
  ASSUME NEW S \in SUBSET Offerable, NEW N \in WithoutContent(S)
  PROVE  /\ N \subseteq S /\ N \cap Writing = {}
         /\ Cardinality(N \cap OfType({"follow_agent"})) <= MaxFollows
<1>1. PICK U \in Capped(S, "upvote_post", MaxUpvotes), F \in Capped(S, "follow_agent", MaxFollows),
           D \in Capped(S, "inspect_dms", 1) : N = U \cup F \cup D
  BY DEF WithoutContent
<1>2. U \subseteq S \cap OfType({"upvote_post"})
  BY CappedIs, DraftingLimits
<1>3. F \subseteq S \cap OfType({"follow_agent"}) /\ Cardinality(F) <= MaxFollows
  BY CappedIs, DraftingLimits
<1>4. D \subseteq S \cap OfType({"inspect_dms"})
  BY CappedIs
<1>5. N \subseteq S /\ N \cap Writing = {}
  BY <1>1, <1>2, <1>3, <1>4 DEF Writing, OfType, Authored
<1>6. N \cap OfType({"follow_agent"}) = F
  BY <1>1, <1>2, <1>3, <1>4 DEF OfType
<1> QED BY <1>3, <1>5, <1>6

LEMMA SelectedIs ==
  ASSUME NEW offered \in SUBSET Offerable,
         NEW selected \in FallbackBundles(offered) \cup SanitizedBundles(offered)
  PROVE  /\ selected \subseteq Offerable /\ Cardinality(selected \cap Writing) <= 1
         /\ Cardinality(selected \cap OfType({"follow_agent"})) <= MaxFollows
<1>1. CASE selected \in FallbackBundles(offered)
  <2>1. PICK writes : writes = offered \cap OfType(Authored \ {"create_post"})
    OBVIOUS
  <2>2. PICK N \in WithoutContent(offered), W \in OneOf(offered \cap OfType(Authored \ {"create_post"})) :
          selected = N \cup W
    BY <1>1 DEF FallbackBundles
  <2>3. W \subseteq writes /\ Cardinality(W) <= 1
    BY <2>1 DEF OneOf, kSubset
  <2>4. N \subseteq offered /\ N \cap Writing = {}
        /\ Cardinality(N \cap OfType({"follow_agent"})) <= MaxFollows
    BY WithoutContentIs
  <2>5. selected \cap Writing = W /\ selected \subseteq Offerable
    BY <2>1, <2>2, <2>3, <2>4 DEF Writing, OfType
  <2>6. selected \cap OfType({"follow_agent"}) = N \cap OfType({"follow_agent"})
    BY <2>1, <2>2, <2>3 DEF OfType, Authored
  <2> QED BY <2>3, <2>4, <2>5, <2>6
<1>2. CASE selected \in SanitizedBundles(offered)
  <2>1. PICK ids \in SUBSET offered :
          /\ Cardinality(ids \cap Writing) <= 1
          /\ \E N \in WithoutContent(ids) : selected = N \cup (ids \cap Writing)
    BY <1>2 DEF SanitizedBundles
  <2>2. PICK N \in WithoutContent(ids) : selected = N \cup (ids \cap Writing)
    BY <2>1
  <2>3. N \subseteq ids /\ N \cap Writing = {}
        /\ Cardinality(N \cap OfType({"follow_agent"})) <= MaxFollows
    BY WithoutContentIs
  <2>4. selected \cap Writing = ids \cap Writing /\ selected \subseteq Offerable
    BY <2>2, <2>3
  <2>5. selected \cap OfType({"follow_agent"}) = N \cap OfType({"follow_agent"})
    BY <2>2 DEF Writing, OfType, Authored
  <2> QED BY <2>1, <2>3, <2>4, <2>5
<1> QED BY <1>1, <1>2

LEMMA SelectBundleKeeps == DraftingInv /\ SelectBundle => DraftingInv'
<1> SUFFICES ASSUME DraftingInv, SelectBundle PROVE DraftingInv'
  OBVIOUS
<1>1. /\ turn' = "enqueue" /\ drafted' = {} /\ UNCHANGED <<unsent, artifacts, tracked, published>>
  BY DEF SelectBundle, Keep
<1>7. PICK offered \in Offers :
        \E selected \in FallbackBundles(offered) \cup SanitizedBundles(offered) :
          bundle' = selected /\ toWrite' = (offered \ selected) \cap Writing
  BY DEF SelectBundle
<1>2. PICK selected \in FallbackBundles(offered) \cup SanitizedBundles(offered) :
        bundle' = selected /\ toWrite' = (offered \ selected) \cap Writing
  BY <1>7
<1>3. offered \in SUBSET Offerable
  BY DEF Offers
<1>4. /\ bundle' \subseteq Offerable /\ Cardinality(bundle' \cap Writing) <= 1
      /\ Cardinality(bundle' \cap OfType({"follow_agent"})) <= MaxFollows
  BY <1>2, <1>3, SelectedIs
<1>5. BundleIsSmall' /\ toWrite' \subseteq Writing
  BY <1>2, <1>4 DEF BundleIsSmall, Writing, OfType
<1>6. unsent' \subseteq DraftJob
  BY <1>1 DEF DraftingInv, DraftingTyped
<1> QED BY <1>1, <1>4, <1>5, <1>6, OnlyTurn

\* The follows that are added fit into the bundle.
LEMMA FollowsFit ==
  ASSUME DraftingInv, NEW F \in FollowsToo
  PROVE  /\ F \subseteq OfType({"follow_agent"})
         /\ Cardinality((bundle \cup F) \cap OfType({"follow_agent"})) <= MaxFollows
         /\ (bundle \cup F) \cap Writing = bundle \cap Writing
<1>1. PICK B : B = bundle \cap OfType({"follow_agent"})
  OBVIOUS
<1>2. Cardinality(B) <= MaxFollows /\ B \subseteq Offerable /\ MaxFollows \in Nat
  BY <1>1, DraftingLimits DEF DraftingInv, BundleIsSmall, OfType
<1>3. F \subseteq OfType({"follow_agent"}) /\ F \cap B = {}
      /\ (F # {} => Cardinality(F) <= MaxFollows - Cardinality(B))
  BY <1>1 DEF FollowsToo
<1>4. F \subseteq Offerable
  BY <1>3 DEF OfType
<1>5. IsFiniteSet(B) /\ IsFiniteSet(F)
  BY <1>2, <1>4, FS_Subset, DraftingLimits
<1>6. Cardinality(B) \in Nat /\ Cardinality(F) \in Nat
  BY <1>5, FS_CardinalityType
<1>7. (bundle \cup F) \cap OfType({"follow_agent"}) = B \cup F
  BY <1>1, <1>3
<1>8. Cardinality(B \cup F) <= MaxFollows
  <2>1. CASE F = {}
    <3>1. B \cup F = B
      BY <2>1
    <3> QED BY <1>2, <3>1
  <2>2. CASE F # {}
    <3>1. Cardinality(B \cup F) = Cardinality(B) + Cardinality(F) - Cardinality(B \cap F)
      BY <1>5, FS_Union
    <3>2. Cardinality(B \cap F) = 0
      <4>1. B \cap F = {}
        BY <1>3
      <4> QED BY <4>1, FS_EmptySet
    <3> QED BY <1>2, <1>3, <1>6, <2>2, <3>1, <3>2
  <2> QED BY <2>1, <2>2
<1>9. (bundle \cup F) \cap Writing = bundle \cap Writing
  BY <1>3 DEF OfType, Writing, Authored
<1> QED BY <1>3, <1>7, <1>8, <1>9

LEMMA EnqueueJobsKeeps == DraftingInv /\ EnqueueJobs => DraftingInv'
<1> SUFFICES ASSUME DraftingInv, EnqueueJobs PROVE DraftingInv'
  OBVIOUS
<1>1. drafted' = {} /\ UNCHANGED <<artifacts, tracked, published>>
  BY DEF EnqueueJobs, Keep
<1>2. turn' \in {"idle", "plan", "enqueue", "draft", "repair"}
  BY DEF EnqueueJobs
<1>3. toWrite' \subseteq Writing
  BY DEF EnqueueJobs, DraftingInv, DraftingTyped
<1>9. PICK follows \in FollowsToo \cup {{}} : \E ready :
        /\ ready = {o \in (bundle \ Writing) \cup follows : ActionType[o] # "inspect_dms"}
        /\ bundle' = bundle \cup follows
        /\ unsent' = unsent \cup {Unsent(o, NoWording) : o \in {q \in ready : ~Queued(q)}}
  BY DEF EnqueueJobs
<1>4. PICK ready :
        /\ ready = {o \in (bundle \ Writing) \cup follows : ActionType[o] # "inspect_dms"}
        /\ bundle' = bundle \cup follows
        /\ unsent' = unsent \cup {Unsent(o, NoWording) : o \in {q \in ready : ~Queued(q)}}
  BY <1>9
<1>5. follows \subseteq OfType({"follow_agent"}) /\ BundleIsSmall'
  <2>1. CASE follows \in FollowsToo
    <3>1. /\ follows \subseteq OfType({"follow_agent"})
          /\ Cardinality(bundle' \cap OfType({"follow_agent"})) <= MaxFollows
          /\ bundle' \cap Writing = bundle \cap Writing
      BY <1>4, <2>1, FollowsFit
    <3> QED BY <3>1 DEF DraftingInv, BundleIsSmall, OfType, Writing
  <2>2. CASE follows = {}
    <3>1. bundle' = bundle
      BY <1>4, <2>2
    <3> QED BY <2>2, <3>1 DEF DraftingInv, BundleIsSmall
  <2> QED BY <1>4, <2>1, <2>2
<1>6. bundle' \subseteq Offerable /\ ready \subseteq Offerable \ Writing
  BY <1>4, <1>5 DEF DraftingInv, DraftingTyped, OfType, Writing, Authored
<1>7. unsent' \subseteq DraftJob
  BY <1>4, <1>6 DEF DraftingInv, DraftingTyped, DraftJob, Unsent
<1>8. \A job \in unsent' : IsPost(job) => job \in unsent
  BY <1>4, <1>6 DEF IsPost, Unsent, Writing, OfType, Authored
<1> QED BY <1>1, <1>2, <1>3, <1>5, <1>6, <1>7, <1>8, OnlyTurn

LEMMA ChooseAndDraftKeeps == DraftingInv /\ ChooseAndDraft => DraftingInv'
<1> SUFFICES ASSUME DraftingInv, ChooseAndDraft PROVE DraftingInv'
  OBVIOUS
<1>1. UNCHANGED <<artifacts, tracked, published>>
  BY DEF ChooseAndDraft, Keep
<1>2. toWrite \subseteq Writing /\ turn' \in {"idle", "plan", "enqueue", "draft", "repair"}
      /\ bundle \subseteq Offerable /\ unsent \subseteq DraftJob
  BY DEF ChooseAndDraft, EndHeartbeat, DraftingInv, DraftingTyped
<1>3. PICK o \in toWrite : \E answer \in Answers(o) : \E result \in Finalized(o, answer) :
        \/ /\ result[1] = "ok" /\ ~Queued(o)
           /\ unsent' = unsent \cup {Unsent(o, result[2].wording)}
           /\ drafted' = {[id |-> o, text |-> result[2]]}
           /\ EndHeartbeat
        \/ drafted' = {} /\ unsent' = unsent /\ (EndHeartbeat \/ UNCHANGED <<bundle, toWrite>>)
  BY DEF ChooseAndDraft
<1>8. PICK answer \in Answers(o) : \E result \in Finalized(o, answer) :
        \/ /\ result[1] = "ok" /\ ~Queued(o)
           /\ unsent' = unsent \cup {Unsent(o, result[2].wording)}
           /\ drafted' = {[id |-> o, text |-> result[2]]}
           /\ EndHeartbeat
        \/ drafted' = {} /\ unsent' = unsent /\ (EndHeartbeat \/ UNCHANGED <<bundle, toWrite>>)
  BY <1>3
<1>4. PICK result \in Finalized(o, answer) :
        \/ /\ result[1] = "ok" /\ ~Queued(o)
           /\ unsent' = unsent \cup {Unsent(o, result[2].wording)}
           /\ drafted' = {[id |-> o, text |-> result[2]]}
           /\ EndHeartbeat
        \/ drafted' = {} /\ unsent' = unsent /\ (EndHeartbeat \/ UNCHANGED <<bundle, toWrite>>)
  BY <1>8
<1>5. /\ bundle' \subseteq Offerable /\ toWrite' \subseteq Writing /\ BundleIsSmall'
  <2>1. CASE EndHeartbeat
    BY <2>1, EmptyBundle DEF EndHeartbeat
  <2>2. CASE UNCHANGED <<bundle, toWrite>>
    BY <1>2, <2>2 DEF DraftingInv, BundleIsSmall
  <2> QED BY <1>4, <2>1, <2>2
<1>6. CASE drafted' = {} /\ unsent' = unsent
  BY <1>1, <1>2, <1>5, <1>6, OnlyTurn
<1>7. CASE /\ result[1] = "ok" /\ ~Queued(o)
           /\ unsent' = unsent \cup {Unsent(o, result[2].wording)}
           /\ drafted' = {[id |-> o, text |-> result[2]]}
  <2>1. o \in Writing /\ o \in Offerable
    BY <1>2 DEF Writing, OfType
  <2>2. PICK text : text = result[2]
    OBVIOUS
  <2>3. Legal(o, text) /\ text.wording \in Wordings /\ "ok" \in Verdicts(o, text)
    BY <1>7, <2>1, <2>2, AcceptedText
  <2>13. PICK new : new = Unsent(o, text.wording)
    OBVIOUS
  <2>4. new \in DraftJob /\ new.id = o /\ new.wording = text.wording
    BY <2>1, <2>3, <2>13 DEF DraftJob, Unsent
  <2>5. unsent' = unsent \cup {new} /\ unsent' \subseteq DraftJob
    BY <1>2, <1>7, <2>2, <2>4, <2>13
  <2>6. TextIsLegal'
    <3>1. drafted' = {[id |-> o, text |-> text]}
      BY <1>7, <2>2
    <3>2. \A d \in drafted' : d.id = o /\ d.text = text
      BY <3>1
    <3>3. HasLink(o)' = HasLink(o)
      BY <1>1 DEF HasLink
    <3> QED BY <1>1, <2>3, <3>2, <3>3 DEF Legal, TextIsLegal, HasLink
  <2>7. PostsPublished' = PostsPublished /\ Known' = Known
    BY <1>1 DEF PostsPublished, Known
  <2>8. PostsDiffer'
    BY <1>1, <2>7 DEF DraftingInv, PostsDiffer, Weight
  <2>9. MemoryInv' /\ DraftingTyped'
    BY <1>1, <1>2, <1>5, <2>5, MemoryUnchanged DEF DraftingTyped
  <2>10. \A wording, i, k : Differs(wording, i, k)' = Differs(wording, i, k)
    BY <1>1, <2>7 DEF Differs, Weight
  <2>11. CASE ActionType[o] # "create_post"
    <3>1. ~IsPost(new)
      BY <2>4, <2>11 DEF IsPost
    <3>2. WaitingInv'
      BY <1>1, <2>5, <2>7, <2>10, <3>1 DEF DraftingInv, WaitingInv, IsPost
    <3> QED BY <1>5, <2>6, <2>8, <2>9, <3>2 DEF DraftingInv
  <2>12. CASE ActionType[o] = "create_post"
    <3>1. \A job \in unsent : ~IsPost(job)
      <4> SUFFICES ASSUME NEW job \in unsent, IsPost(job) PROVE FALSE
        OBVIOUS
      <4>1. job.id \in Offerable /\ ActionType[job.id] = "create_post"
        BY <1>2 DEF IsPost, DraftJob
      <4>2. job.id = o
        BY <2>1, <2>12, <4>1, DraftingAssumption
      <4> QED BY <1>7, <4>2 DEF Queued
    <3>2. ASSUME NEW i \in PostsPublished PROVE Differs(text.wording, i, Len(published))
      <4> SUFFICES ASSUME Sense[published[i].wording] = Sense[text.wording]
                   PROVE  /\ Weight(i + 1 .. Len(published)) >= MaxArtifacts
                          /\ \/ tracked \/ published[i].wording # text.wording
                             \/ Cardinality(PostsPublished \cap (i + 1 .. Len(published))) >= MaxFingerprints
        BY DEF Differs
      <4>1. ~RepeatsFingerprint(text) /\ ~RepeatsArtifact(o, text)
        BY <2>3, <2>12 DEF Verdicts
      <4>2. \A a \in artifacts : a[1] # i
        BY <2>12, <4>1 DEF RepeatsArtifact
      <4>3. Weight(i + 1 .. Len(published)) >= MaxArtifacts
        BY <3>2, <4>2 DEF DraftingInv, MemoryInv, PostsPublished
      <4>4. ASSUME ~tracked, published[i].wording = text.wording
            PROVE  Cardinality(PostsPublished \cap (i + 1 .. Len(published))) >= MaxFingerprints
        <5>1. i \notin LastPosts(MaxFingerprints)
          BY <4>1, <4>4 DEF RepeatsFingerprint
        <5>2. ~(Cardinality({j \in PostsPublished : j > i}) < MaxFingerprints)
          BY <3>2, <5>1 DEF LastPosts
        <5>3. /\ Len(published) \in Nat /\ PostsPublished \in SUBSET (1 .. Len(published))
          BY PublishedPlaces DEF DraftingInv
        <5>4. i \in Int /\ i + 1 \in Int /\ Len(published) \in Int
          BY <3>2, <5>3
        <5>5. {j \in PostsPublished : j > i} = PostsPublished \cap (i + 1 .. Len(published))
          <6>1. PICK n \in Int : n = Len(published)
            BY <5>4
          <6>4. PICK P : P = PostsPublished
            OBVIOUS
          <6>2. P \subseteq 1 .. n
            BY <5>3, <6>1, <6>4
          <6>3. {j \in P : j > i} = P \cap (i + 1 .. n)
            <7>1. ASSUME NEW j \in P PROVE j > i <=> j \in i + 1 .. n
              BY <5>4, <6>2
            <7> QED BY <7>1
          <6> QED BY <6>1, <6>3, <6>4
        <5>6. Cardinality(PostsPublished \cap (i + 1 .. Len(published))) \in Nat
          BY <5>4, WeightIsNat
        <5>7. ~(Cardinality(PostsPublished \cap (i + 1 .. Len(published))) < MaxFingerprints)
          BY <5>2, <5>5
        <5> QED BY <5>6, <5>7, DraftingLimits
      <4> QED BY <4>3, <4>4
    <3>3. WaitingInv'
      <4>1. \A job \in unsent' : IsPost(job) => job = new
        BY <2>5, <3>1
      <4>2. \A i \in PostsPublished : Differs(new.wording, i, Len(published))
        BY <2>4, <3>2
      <4> QED BY <1>1, <2>7, <2>10, <4>1, <4>2 DEF WaitingInv, IsPost
    <3> QED BY <1>5, <2>6, <2>8, <2>9, <3>3 DEF DraftingInv
  <2> QED BY <2>11, <2>12
<1> QED BY <1>4, <1>6, <1>7

\* The posts before a place, as they were.
LEMMA PublishedThen ==
  ASSUME DraftingTyped, NEW job \in DraftJob, published' = Append(published, job)
  PROVE  /\ published' \in Seq(DraftJob) /\ Len(published') = Len(published) + 1
         /\ published'[Len(published) + 1] = job
         /\ \A i \in 1 .. Len(published) : published'[i] = published[i]
         /\ PostsPublished' = PostsPublished \cup (IF IsPost(job) THEN {Len(published) + 1} ELSE {})
         /\ Known \subseteq Known' /\ <<Len(published) + 1, "recorded">> \in Known'
<1>1. PICK n \in Nat : n = Len(published) /\ DOMAIN published = 1 .. n
  BY DEF DraftingTyped
<1>2. published \in Seq(DraftJob)
  BY DEF DraftingTyped
<1>3. /\ published' \in Seq(DraftJob) /\ Len(published') = n + 1 /\ published'[n + 1] = job
      /\ \A i \in 1 .. n : published'[i] = published[i]
  BY <1>1, <1>2
<1>4. DOMAIN published' = 1 .. n + 1
  BY <1>3
<1>5. PostsPublished' = {i \in 1 .. n + 1 : IsPost(published'[i])}
  BY <1>4 DEF PostsPublished, IsPost
<1>6. PostsPublished = {i \in 1 .. n : IsPost(published[i])}
  BY <1>1 DEF PostsPublished, IsPost
<1>7. \A i \in 1 .. n + 1 : i \in 1 .. n \/ i = n + 1
  OBVIOUS
<1>8. PostsPublished' = PostsPublished \cup (IF IsPost(job) THEN {n + 1} ELSE {})
  BY <1>3, <1>5, <1>6, <1>7
<1>9. Known \subseteq Known' /\ <<n + 1, "recorded">> \in Known'
  BY <1>1, <1>4, <1>8 DEF Known
<1> QED BY <1>1, <1>3, <1>8, <1>9

\* What is published changes no weight of places before it.
LEMMA EarlierWeight ==
  ASSUME NEW n \in Nat, NEW a \in Int, NEW b \in Int, b <= n,
         PostsPublished \subseteq PostsPublished', PostsPublished' \subseteq PostsPublished \cup {n + 1}
  PROVE  /\ Weight(a .. b)' = Weight(a .. b)
         /\ PostsPublished' \cap (a .. b) = PostsPublished \cap (a .. b)
<1>1. PostsPublished' \cap (a .. b) = PostsPublished \cap (a .. b)
  BY DEF PostsPublished
<1>2. (a .. b) \cap PostsPublished' = (a .. b) \cap PostsPublished
  BY <1>1
<1> QED BY <1>1, <1>2 DEF Weight

LEMMA PublishWritingKeeps == DraftingInv /\ PublishWriting => DraftingInv'
<1> SUFFICES ASSUME DraftingInv, PublishWriting PROVE DraftingInv'
  OBVIOUS
<1>1. drafted' = {} /\ UNCHANGED <<tracked, turn, bundle, toWrite>>
  BY DEF PublishWriting
<1>2. PICK job \in unsent :
        /\ unsent' = unsent \ {job}
        /\ IF job.id \in Writing
           THEN /\ published' = Append(published, job)
                /\ artifacts' \in Newest(artifacts \cup {<<Len(published'), "recorded">>})
           ELSE UNCHANGED <<published, artifacts>>
  BY DEF PublishWriting
<1>3. /\ DraftingTyped /\ MemoryInv /\ WaitingInv /\ PostsDiffer
      /\ job \in DraftJob /\ unsent' \subseteq DraftJob
  BY <1>2 DEF DraftingInv, DraftingTyped
<1>4. BundleIsSmall' /\ TextIsLegal'
  BY <1>1 DEF DraftingInv, BundleIsSmall, TextIsLegal
<1>5. CASE job.id \notin Writing
  <2>1. /\ UNCHANGED <<tracked, published, artifacts>> /\ \A j \in unsent' : j \in unsent
        /\ turn' \in {"idle", "plan", "enqueue", "draft", "repair"}
        /\ bundle' \subseteq Offerable /\ toWrite' \subseteq Writing
    BY <1>1, <1>2, <1>3, <1>5 DEF DraftingTyped
  <2> QED BY <1>1, <1>3, <1>4, <2>1, OnlyTurn
<1>6. CASE job.id \in Writing
  <2>11. Len(published) \in Nat
    BY <1>3, PublishedPlaces
  <2>1. PICK n \in Nat : n = Len(published)
    BY <2>11
  <2>2. published' = Append(published, job)
    BY <1>2, <1>6
  <2>3. /\ published' \in Seq(DraftJob) /\ Len(published') = n + 1 /\ published'[n + 1] = job
        /\ \A i \in 1 .. n : published'[i] = published[i]
        /\ PostsPublished' = PostsPublished \cup (IF IsPost(job) THEN {n + 1} ELSE {})
        /\ Known \subseteq Known' /\ <<n + 1, "recorded">> \in Known'
    BY <1>3, <2>1, <2>2, PublishedThen
  <2>4. PICK S : S = artifacts \cup {<<n + 1, "recorded">>}
    OBVIOUS
  <2>5. artifacts' \in Newest(S)
    BY <1>2, <1>6, <2>3, <2>4
  <2>6. PostsPublished \subseteq 1 .. n
    BY <1>3, <2>1, PublishedPlaces
  <2>12. \A k \in PostsPublished' : (k \in PostsPublished /\ k \in 1 .. n) \/ (k = n + 1 /\ IsPost(job))
    BY <2>3, <2>6
  <2>7. artifacts' \subseteq Known' /\ Cardinality(artifacts') <= MaxArtifacts /\ MemoryInv'
    <3>1. artifacts \subseteq S /\ S \subseteq Known'
      BY <1>3, <2>3, <2>4 DEF DraftingTyped
    <3>2. <<n + 1, "recorded">> \in S /\ <<n + 1, "recorded">>[1] = n + 1
      BY <2>4
    <3>3. \A i \in 1 .. n + 1 : i > n => \E a \in S : a[1] = i
      BY <3>2
    <3>4. Len(published) <= Len(published') /\ PostsPublished \subseteq PostsPublished'
      BY <2>1, <2>3
    <3> QED BY <1>3, <2>1, <2>3, <2>5, <3>1, <3>3, <3>4, MemoryKept
  <2>8. DraftingTyped'
    BY <1>1, <1>3, <2>3, <2>7 DEF DraftingTyped
  <2>9. WaitingInv'
    <3> SUFFICES ASSUME NEW job2 \in unsent', IsPost(job2)
                 PROVE  /\ \A other \in unsent' : IsPost(other) => other = job2
                        /\ \A i \in PostsPublished' : Differs(job2.wording, i, Len(published))'
      BY DEF WaitingInv, IsPost
    <3>1. job2 \in unsent /\ job2 # job /\ \A other \in unsent' : other \in unsent
      BY <1>2
    <3>2. ~IsPost(job) /\ \A other \in unsent' : IsPost(other) => other = job2
      BY <1>3, <3>1 DEF WaitingInv
    <3>3. PostsPublished' = PostsPublished
      BY <2>3, <3>2
    <3>4. ASSUME NEW i \in PostsPublished PROVE Differs(job2.wording, i, Len(published))'
      <4>1. i \in 1 .. n /\ i + 1 \in Int /\ n \in Int /\ n + 1 \in Int /\ n <= n + 1
        BY <2>6, <3>4
      <4>2. /\ Weight(i + 1 .. n) <= Weight(i + 1 .. n + 1)'
            /\ Cardinality(PostsPublished \cap (i + 1 .. n))
                 <= Cardinality(PostsPublished' \cap (i + 1 .. n + 1))
        BY <3>3, <4>1, WeightGrows
      <4>3. Weight(i + 1 .. n) \in Nat /\ Cardinality(PostsPublished \cap (i + 1 .. n)) \in Nat
        BY <4>1, WeightIsNat
      <4>4. Weight(i + 1 .. n + 1)' \in Nat /\ Cardinality(PostsPublished' \cap (i + 1 .. n + 1)) \in Nat
        <5>1. Weight(i + 1 .. n + 1)' = Weight(i + 1 .. n + 1)
          BY <3>3 DEF Weight
        <5> QED BY <3>3, <4>1, <5>1, WeightIsNat
      <4>5. Differs(job2.wording, i, n)
        BY <1>3, <2>1, <3>1 DEF WaitingInv
      <4>7. /\ MaxArtifacts \in Nat /\ MaxFingerprints \in Nat
        BY DraftingLimits
      <4>8. published'[i] = published[i] /\ Len(published') = n + 1
        BY <2>3, <4>1
      <4>9. ASSUME Sense[published[i].wording] = Sense[job2.wording]
            PROVE  /\ Weight(i + 1 .. n + 1)' >= MaxArtifacts
                   /\ \/ tracked \/ published[i].wording # job2.wording
                      \/ Cardinality(PostsPublished' \cap (i + 1 .. n + 1)) >= MaxFingerprints
        <5>1. /\ Weight(i + 1 .. n) >= MaxArtifacts
              /\ \/ tracked \/ published[i].wording # job2.wording
                 \/ Cardinality(PostsPublished \cap (i + 1 .. n)) >= MaxFingerprints
          BY <4>5, <4>9 DEF Differs
        <5> QED BY <4>2, <4>3, <4>4, <4>7, <5>1
      <4> QED BY <1>1, <4>8, <4>9 DEF Differs
    <3> QED BY <3>2, <3>3, <3>4
  <2>10. PostsDiffer'
    <3> SUFFICES ASSUME NEW i \in PostsPublished', NEW j \in PostsPublished', i < j,
                        Sense[published'[i].wording] = Sense[published'[j].wording]
                 PROVE  /\ Weight(i + 1 .. j - 1)' >= MaxArtifacts
                        /\ \/ tracked' \/ published'[i].wording # published'[j].wording
                           \/ Cardinality(PostsPublished' \cap (i + 1 .. j - 1)) >= MaxFingerprints
      BY DEF PostsDiffer
    <3>1. i \in 1 .. n + 1 /\ j \in 1 .. n + 1
      BY <2>12
    <3>2. i \in 1 .. n /\ i \in PostsPublished /\ published'[i] = published[i]
      BY <2>3, <2>12, <3>1
    <3>3. i + 1 \in Int /\ j - 1 \in Int /\ j - 1 <= n
      BY <3>1
    <3>4. /\ Weight(i + 1 .. j - 1)' = Weight(i + 1 .. j - 1)
          /\ PostsPublished' \cap (i + 1 .. j - 1) = PostsPublished \cap (i + 1 .. j - 1)
      BY <2>3, <3>3, EarlierWeight
    <3>5. CASE j \in PostsPublished
      <4>1. published'[j] = published[j]
        BY <2>3, <2>6, <3>5
      <4> QED BY <1>1, <1>3, <3>2, <3>4, <3>5, <4>1 DEF PostsDiffer
    <3>6. CASE j \notin PostsPublished
      <4>1. IsPost(job) /\ j = n + 1
        BY <2>12, <3>6
      <4>4. j - 1 = n
        BY <4>1
      <4>2. Differs(job.wording, i, n)
        BY <1>3, <2>1, <3>2, <4>1 DEF WaitingInv
      <4>3. published'[j] = job
        BY <2>3, <4>1
      <4> QED BY <1>1, <3>2, <3>4, <4>2, <4>3, <4>4 DEF Differs
    <3> QED BY <3>5, <3>6
  <2> QED BY <1>4, <2>7, <2>8, <2>9, <2>10 DEF DraftingInv
<1> QED BY <1>5, <1>6

LEMMA DraftingInitial == DraftingInit => DraftingInv
<1> SUFFICES ASSUME DraftingInit PROVE DraftingInv
  OBVIOUS
<1>1. /\ turn = "idle" /\ bundle = {} /\ toWrite = {} /\ drafted = {}
      /\ unsent = {} /\ published = <<>> /\ artifacts = {}
  BY DEF DraftingInit
<1>2. Cardinality({}) = 0 /\ MaxArtifacts \in Nat /\ MaxFollows \in Nat
  BY FS_EmptySet, DraftingLimits
<1>3. published \in Seq(DraftJob) /\ DOMAIN published = {} /\ PostsPublished = {}
  BY <1>1 DEF PostsPublished
<1>4. DraftingTyped /\ MemoryInv /\ WaitingInv /\ TextIsLegal /\ PostsDiffer
  BY <1>1, <1>2, <1>3 DEF DraftingTyped, MemoryInv, WaitingInv, TextIsLegal, PostsDiffer
<1>5. Cardinality(bundle \cap Writing) = 0 /\ Cardinality(bundle \cap OfType({"follow_agent"})) = 0
  BY <1>1, FS_EmptySet
<1>6. BundleIsSmall
  BY <1>2, <1>5 DEF BundleIsSmall
<1> QED BY <1>4, <1>6 DEF DraftingInv

LEMMA DraftingStep == DraftingInv /\ [DraftingNext]_draftVars => DraftingInv'
<1> SUFFICES ASSUME DraftingInv, [DraftingNext]_draftVars PROVE DraftingInv'
  OBVIOUS
<1>1. CASE UNCHANGED draftVars
  <2>1. UNCHANGED <<tracked, turn, bundle, toWrite, drafted, unsent, published, artifacts>>
    BY <1>1 DEF draftVars
  <2>2. MemoryInv' /\ artifacts' \subseteq Known' /\ Cardinality(artifacts') <= MaxArtifacts
        /\ published' \in Seq(DraftJob)
    BY <2>1, MemoryUnchanged
  <2>3. WaitingInv' /\ PostsDiffer'
    BY <2>1, NothingPublished
  <2>4. DraftingTyped' /\ BundleIsSmall'
    BY <2>1, <2>2 DEF DraftingInv, DraftingTyped, BundleIsSmall
  <2>5. TextIsLegal'
    BY <2>1 DEF DraftingInv, TextIsLegal, HasLink
  <2> QED BY <2>2, <2>3, <2>4, <2>5 DEF DraftingInv
<1> QED
  BY <1>1, SyncAccountHealthKeeps, SelectBundleKeeps, EnqueueJobsKeeps, ChooseAndDraftKeeps,
     GiveUpWritingKeeps, PublishWritingKeeps, DropUnsentKeeps DEF DraftingNext

LEMMA DraftingIsSound == DraftingInv => WritingIsSound
<1> SUFFICES ASSUME DraftingInv PROVE WritingIsSound
  OBVIOUS
<1>1. artifacts \subseteq Remembered
  <2>1. /\ Len(published) \in Nat /\ DOMAIN published = 1 .. Len(published)
        /\ PostsPublished \subseteq 1 .. Len(published)
    BY PublishedPlaces DEF DraftingInv
  <2> QED BY <2>1 DEF DraftingInv, DraftingTyped, Known, Remembered
<1>2. DraftingTypeOK
  BY <1>1 DEF DraftingInv, DraftingTyped, DraftingTypeOK, DraftJob
<1> QED BY <1>2 DEF DraftingInv, WritingIsSound

\* Whatever the model answers, and however the runs are cut short: a queued text
\* keeps to the rules, a post comes back only when it is forgotten, and a bundle is
\* small.
THEOREM WritingCorrect == DraftingSpec => []WritingIsSound
<1> QED BY DraftingInitial, DraftingStep, DraftingIsSound, PTL DEF DraftingSpec
=============================================================================
