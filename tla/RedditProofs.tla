---------------------------- MODULE RedditProofs ----------------------------
(***************************************************************************)
(* Proofs about the Reddit side.  First the runtime: what its three copies *)
(* of the jobs and of the memory have in common at every step of a run,    *)
(* from which it follows that a recorded reply is final, and how far the   *)
(* limits hold.  Then the way of one reply to Reddit, for every number of  *)
(* answers asked for and of tries.  Then the scan for items to reply to:   *)
(* what its two ledgers remember, for any threads, comments and limits.    *)
(* At the end the three together, as MCReddit puts them beside each other. *)
(***************************************************************************)
EXTENDS MCReddit, QueueLemmas, FunctionTheorems, SequenceTheorems, WellFoundedInduction

----------------------------------------------------------------------------
\* The runtime.  Where a run can be, and what it does after loading or saving.
Loads == {"load", "hydrateFile"}
Saves == {"saveDb", "saveFile", "saveJson"}
Syncs == {"syncDb", "syncFile"}
Planners == {"heartbeat", "session"}
PlanSteps == {"discover", "draft", "enqueue"}
ExecuteSteps == {"execute", "publish", "answer"}

ControlInv ==
  /\ pc \in {"idle", "killSwitch", "health", "plan", "reload", "finish", "snapshot", "end"}
            \cup Loads \cup Saves \cup Syncs \cup PlanSteps \cup ExecuteSteps
  /\ pc \in Loads => \/ then = "killSwitch" /\ run \in Planners
                     \/ then = "health" /\ run = "executor"
                     \/ then = "execute" /\ run = "publishing"
                     \/ then = "snapshot"
  /\ pc \in Saves => \/ then \in {"publish", "finish"}
                     \/ then \in {"plan", "reload"} /\ run = "session"
  /\ pc \in Syncs => then \in {"finish", "end"}
  /\ pc \in {"plan", "reload"} => run = "session"
  /\ pc \in {"killSwitch"} \cup PlanSteps => run \in Planners

\* The run's copy is read and written only between loading and the end.
Live == pc \notin {"idle"} \cup Loads

\* The steps of a run that is about to record a publication.
Recording == pc \in Saves /\ then = "finish"

\* The steps in which a session may still go back to the copy it kept.
Keeping ==
  /\ run = "session"
  /\ pc \in ExecuteSteps \cup {"plan"} \/ (pc \in Saves /\ then \in {"publish", "plan"})

\* The steps of a run that passed the kill switch.
Passed ==
  /\ run \in Planners
  /\ \/ pc \in {"health", "plan"} \cup PlanSteps \cup ExecuteSteps
     \/ pc \in Saves /\ then \in {"publish", "plan"}

\* How the history of one memory relates to that of another.
Level(a, b) == a.touched = b.touched /\ a.today = b.today /\ a.ban = b.ban

Behind(a, b) ==
  /\ a.touched \subseteq b.touched /\ a.today <= b.today /\ a.ban <= b.ban
  /\ a.ban = NeverBanned <=> b.ban = NeverBanned

Room(jobs) == Smaller(Cardinality(DOMAIN jobs), MaxJobs)

\* However many of the jobs are executed: none of them is on record, the ban stays
\* in the window, and the day is not exceeded by more than the queue and a ban.
Fits(m, jobs) ==
  /\ m.touched \cap DOMAIN jobs = {}
  /\ m.ban # NeverBanned => m.ban + Room(jobs) < KillWindow
  /\ m.today + Room(jobs) + (IF m.ban = NeverBanned THEN 1 ELSE 0) <= MaxPerDay + MaxJobs

CopiesInv ==
  /\ Live => IF Recording THEN Behind(json, mem) ELSE Level(json, mem)
  /\ Keeping => Level(mem, ws)
  /\ pc \in {"saveFile", "saveJson", "syncFile"} => db = mem.jobs
  /\ pc = "saveJson" => file = mem.jobs

FitsInv ==
  /\ Fits(json, db) /\ Fits(json, file) /\ Fits(json, json.jobs)
  /\ Live => Fits(mem, mem.jobs)
  /\ Keeping => Fits(ws, ws.jobs)

\* A draft can put one job too many into the queue, which is cut when it is saved.
CutInv ==
  /\ Live /\ pc \notin {"enqueue", "finish", "reload"} =>
       Cardinality(DOMAIN mem.jobs) <= MaxJobs
  /\ Keeping => Cardinality(DOMAIN ws.jobs) <= MaxJobs

\* What a run works on.
TargetInv ==
  /\ pc \in {"publish", "answer"} \/ (pc \in Saves /\ then = "publish") =>
       cur \subseteq DOMAIN mem.jobs
  /\ pc \in {"draft", "enqueue"} =>
       cur \subseteq Writes \ mem.touched /\ ~DayIsFull(mem)
  /\ Passed => mem.ban = NeverBanned

\* A reply that was published once is on record, or about to be.
OnceInv ==
  \A w \in Writes \ interrupted :
    \/ board[w] = 0
    \/ /\ board[w] = 1
       /\ \/ w \in json.touched
          \/ pc = "answer" /\ cur = {w}
          \/ Recording /\ cur = {w} /\ w \in mem.touched

RuntimeInv ==
  /\ TypeOK /\ ControlInv /\ CopiesInv /\ FitsInv /\ CutInv /\ TargetInv /\ OnceInv

----------------------------------------------------------------------------
\* Memories and the jobs that fit them.

LEMMA RedditLimits ==
  /\ MaxPerDay \in Nat /\ MaxPerDay > 0 /\ KillWindow \in Nat /\ MaxJobs < KillWindow
  /\ Slots \in Nat /\ Slots > 0 /\ MaxBoard \in Nat /\ MaxBoard > 0
  /\ MaxCrashes \in Nat /\ Breaker \in Nat /\ Cooldown \in Nat
  /\ MaxJobs \in Nat /\ MaxJobs > 0 /\ NeverBanned = -1
  /\ \A v \in Votes : Thing[v] \in Writes
  BY QueueAssumption, RedditAssumption DEF NeverBanned

LEMMA MemoryParts ==
  ASSUME NEW m, MemoryOK(m)
  PROVE  /\ m \in [jobs : {m.jobs}, touched : SUBSET Writes, voted : SUBSET Writes,
                   ban : NeverBanned..KillWindow, today : Nat,
                   session : 0..Cooldown, rest : [Kinds -> 0..Larger(Cooldown, Breaker)]]
         /\ IsQueue(m.jobs) /\ m.touched \subseteq Writes /\ m.voted \subseteq Writes
         /\ m.ban \in NeverBanned..KillWindow /\ m.today \in Nat
         /\ m.session \in 0..Cooldown /\ m.rest \in [Kinds -> Int]
<1>1. m \in [jobs : {m.jobs}, touched : SUBSET Writes, voted : SUBSET Writes,
             ban : NeverBanned..KillWindow, today : Nat,
             session : 0..Cooldown, rest : [Kinds -> 0..Larger(Cooldown, Breaker)]]
  BY DEF MemoryOK
<1>2. m.rest \in [Kinds -> Int]
  <2>1. m.rest \in [Kinds -> 0..Larger(Cooldown, Breaker)]
    BY <1>1
  <2>2. Larger(Cooldown, Breaker) \in Nat
    BY RedditLimits DEF Larger
  <2> QED BY <2>1, <2>2
<1> QED BY <1>1, <1>2 DEF MemoryOK, IsQueue

\* A memory with other jobs.
LEMMA WithJobs ==
  ASSUME NEW m, MemoryOK(m), NEW jobs, IsQueue(jobs), NEW r, r = [m EXCEPT !.jobs = jobs]
  PROVE  /\ MemoryOK(r) /\ r.jobs = jobs /\ Level(r, m)
         /\ r.voted = m.voted /\ r.session = m.session /\ r.rest = m.rest
  BY MemoryParts DEF MemoryOK, Level, IsQueue

LEMMA NoQueue == IsQueue(NoJobs) /\ DOMAIN NoJobs = {} /\ Cardinality(DOMAIN NoJobs) = 0
  BY FS_EmptySet DEF NoJobs, IsQueue, IsTable

\* What a queue needs depends on the number of its jobs, up to the limit.
LEMMA RoomOK ==
  ASSUME NEW jobs, IsQueue(jobs)
  PROVE  /\ Room(jobs) \in 0..MaxJobs
         /\ Cardinality(DOMAIN jobs) <= MaxJobs => Room(jobs) = Cardinality(DOMAIN jobs)
         /\ \A part : IsQueue(part) /\ DOMAIN part \subseteq DOMAIN jobs =>
                        Room(part) <= Room(jobs)
<1>1. Cardinality(DOMAIN jobs) \in Nat /\ IsFiniteSet(DOMAIN jobs)
  BY QueueFinite
<1>2. ASSUME NEW part, IsQueue(part), DOMAIN part \subseteq DOMAIN jobs
      PROVE  Room(part) <= Room(jobs)
  <2>1. Cardinality(DOMAIN part) \in Nat /\ Cardinality(DOMAIN part) <= Cardinality(DOMAIN jobs)
    BY <1>1, <1>2, SmallerSet
  <2> QED BY <1>1, <2>1, RedditLimits DEF Room, Smaller
<1> QED BY <1>1, <1>2, RedditLimits DEF Room, Smaller

\* What fits a memory fits one with the same history or an earlier one, and so does
\* every part of it.
LEMMA FitsBehind ==
  ASSUME NEW a, MemoryOK(a), NEW b, MemoryOK(b), Behind(a, b) \/ Level(a, b),
         NEW jobs, IsQueue(jobs), Fits(b, jobs),
         NEW part, IsQueue(part), DOMAIN part \subseteq DOMAIN jobs
  PROVE  Fits(a, part)
<1>1. Behind(a, b)
  BY MemoryParts, RedditLimits DEF Behind, Level
<1>2. Room(part) \in Nat /\ Room(jobs) \in Nat /\ Room(part) <= Room(jobs)
  BY RoomOK, RedditLimits
<1>3. a.ban \in Int /\ b.ban \in Int /\ a.today \in Nat /\ b.today \in Nat
  BY MemoryParts, RedditLimits
<1>4. a.touched \cap DOMAIN part = {}
  BY <1>1 DEF Behind, Fits
<1>5. a.ban # NeverBanned => a.ban + Room(part) < KillWindow
  BY <1>1, <1>2, <1>3, RedditLimits DEF Behind, Fits
<1>6. a.today + Room(part) + (IF a.ban = NeverBanned THEN 1 ELSE 0) <= MaxPerDay + MaxJobs
  BY <1>1, <1>2, <1>3, RedditLimits DEF Behind, Fits
<1> QED BY <1>4, <1>5, <1>6 DEF Fits

LEMMA FitsSame ==
  ASSUME NEW a, MemoryOK(a), NEW b, MemoryOK(b), Level(a, b), NEW jobs, IsQueue(jobs),
         Fits(b, jobs)
  PROVE  Fits(a, jobs)
  BY FitsBehind

\* Without jobs a memory has room wherever it has room with some.
LEMMA FitsNone ==
  ASSUME NEW m, MemoryOK(m), NEW jobs, IsQueue(jobs), Fits(m, jobs)
  PROVE  Fits(m, NoJobs)
<1>1. DOMAIN NoJobs \subseteq DOMAIN jobs
  BY NoQueue
<1> QED BY <1>1, NoQueue, FitsBehind DEF Level

\* The jobs of a memory that is not banned and has not reached its cap always fit.
LEMMA FitsToday ==
  ASSUME NEW m, MemoryOK(m), NEW jobs, IsQueue(jobs), m.touched \cap DOMAIN jobs = {},
         m.ban = NeverBanned, m.today < MaxPerDay
  PROVE  Fits(m, jobs)
<1>1. Room(jobs) \in 0..MaxJobs
  BY RoomOK
<1> QED BY <1>1, MemoryParts, RedditLimits DEF Fits

LEMMA LevelOrder ==
  /\ \A a : Level(a, a)
  /\ \A a, b : Level(a, b) => Level(b, a)
  /\ \A a, b, c : Level(a, b) /\ Level(b, c) => Level(a, c)
  /\ \A a, b : MemoryOK(a) /\ MemoryOK(b) /\ Level(a, b) => Behind(a, b)
  /\ \A a, b, c : Level(a, b) /\ Behind(b, c) => Behind(a, c)
<1>1. ASSUME NEW a, NEW b, MemoryOK(a), MemoryOK(b), Level(a, b) PROVE Behind(a, b)
  BY <1>1, MemoryParts, RedditLimits DEF Behind, Level
<1>2. ASSUME NEW a, NEW b, NEW c, Level(a, b), Behind(b, c) PROVE Behind(a, c)
  BY <1>2 DEF Behind, Level
<1>3. \A a, b : Level(a, b) => Level(b, a)
  BY DEF Level
<1>4. \A a, b, c : Level(a, b) /\ Level(b, c) => Level(a, c)
  BY DEF Level
<1> QED BY <1>1, <1>2, <1>3, <1>4 DEF Level

\* Recording a publication: the job goes, the history grows by one entry.
LEMMA RecordedOK ==
  ASSUME NEW m, MemoryOK(m), NEW t \in DOMAIN m.jobs, NEW rest \in {Cooldown, Breaker},
         Fits(m, m.jobs), Cardinality(DOMAIN m.jobs) <= MaxJobs,
         NEW r, r = Recorded(m, t, rest)
  PROVE  /\ MemoryOK(r) /\ DOMAIN r.jobs = DOMAIN m.jobs \ {t} /\ Fits(r, r.jobs)
         /\ Cardinality(DOMAIN r.jobs) <= MaxJobs /\ Behind(m, r)
         /\ r.touched = m.touched \cup ({t} \cap Writes)
<1> DEFINE left == RemoveJob(m.jobs, t)
<1>1. /\ m \in [jobs : {m.jobs}, touched : SUBSET Writes, voted : SUBSET Writes,
                ban : NeverBanned..KillWindow, today : Nat,
                session : 0..Cooldown, rest : [Kinds -> 0..Larger(Cooldown, Breaker)]]
      /\ IsQueue(m.jobs)
  BY MemoryParts
<1>2. IsQueue(left) /\ DOMAIN left = DOMAIN m.jobs \ {t}
  BY <1>1, FewerJobsOK DEF RemoveJob
<1>3. t \in Targets /\ Kind(t) \in Kinds
  BY <1>1, KindType DEF IsQueue, IsTable
<1>4. rest \in 0..Larger(Cooldown, Breaker)
  BY RedditLimits DEF Larger
<1>5. /\ Cardinality(DOMAIN m.jobs) \in Nat
      /\ Cardinality(DOMAIN left) = Cardinality(DOMAIN m.jobs) - 1
      /\ Cardinality(DOMAIN left) \in Nat
  <2>1. IsFiniteSet(DOMAIN m.jobs) /\ Cardinality(DOMAIN m.jobs) \in Nat
    BY <1>1, QueueFinite
  <2>2. Cardinality(DOMAIN left) = Cardinality(DOMAIN m.jobs) - 1
    BY <1>2, <2>1, FS_RemoveElement
  <2> QED BY <1>2, <2>1, <2>2, QueueFinite
<1>6. Room(left) + 1 = Room(m.jobs) /\ Room(left) \in Nat
  BY <1>5, RedditLimits DEF Room, Smaller
<1> HIDE DEF left
<1> DEFINE ban == IF m.ban = NeverBanned THEN m.ban ELSE Smaller(m.ban + 1, KillWindow)
<1>7. /\ ban \in NeverBanned..KillWindow /\ (ban = NeverBanned <=> m.ban = NeverBanned)
      /\ m.ban <= ban /\ (ban # NeverBanned => ban <= m.ban + 1)
  BY <1>1, RedditLimits DEF Smaller
<1> DEFINE touched == m.touched \cup ({t} \cap Writes)
           voted == m.voted \cup {Thing[v] : v \in {t} \cap Votes}
           cooling == IF t \in Writes THEN Cooldown ELSE 0
           rests == [m.rest EXCEPT ![Kind(t)] = rest]
<1>8. r = [m EXCEPT !.jobs = left, !.touched = touched, !.voted = voted, !.ban = ban,
                    !.today = m.today + 1, !.session = cooling, !.rest = rests]
  BY <1>1 DEF Recorded, left
<1>9. /\ touched \in SUBSET Writes /\ voted \in SUBSET Writes /\ cooling \in 0..Cooldown
       /\ rests \in [Kinds -> 0..Larger(Cooldown, Breaker)] /\ m.today + 1 \in Nat
  BY <1>1, <1>3, <1>4, RedditLimits
<1> HIDE DEF ban, touched, voted, cooling, rests
<1>10. /\ r.jobs = left /\ r.touched = m.touched \cup ({t} \cap Writes) /\ r.ban = ban
      /\ r.today = m.today + 1
  BY <1>1, <1>8 DEF touched
<1>11. MemoryOK(r)
  <2>1. r \in [jobs : {left}, touched : SUBSET Writes, voted : SUBSET Writes,
               ban : NeverBanned..KillWindow, today : Nat,
               session : 0..Cooldown, rest : [Kinds -> 0..Larger(Cooldown, Breaker)]]
    BY <1>1, <1>7, <1>8, <1>9
  <2> QED BY <1>2, <1>10, <2>1 DEF MemoryOK, IsQueue
<1>12. Behind(m, r)
  BY <1>1, <1>7, <1>10 DEF Behind
<1>13. Fits(r, r.jobs)
  <2>1. r.touched \cap DOMAIN left = {}
    BY <1>2, <1>10 DEF Fits
  <2>2. m.ban \in Int /\ m.today \in Nat /\ ban \in Int
    BY <1>1, <1>7, RedditLimits
  <2>3. ban # NeverBanned => ban + Room(left) < KillWindow
    BY <1>6, <1>7, <2>2, RedditLimits DEF Fits
  <2>4. m.today + 1 + Room(left) + (IF ban = NeverBanned THEN 1 ELSE 0) <= MaxPerDay + MaxJobs
    BY <1>6, <1>7, <2>2, RedditLimits DEF Fits
  <2> QED BY <1>10, <2>1, <2>3, <2>4 DEF Fits
<1> QED BY <1>2, <1>5, <1>10, <1>11, <1>12, <1>13, RedditLimits

----------------------------------------------------------------------------
\* Saving and loading.

\* A step that begins to save a memory, which it may have changed.
LEMMA SaveStep ==
  ASSUME RuntimeInv, Live, ~Recording,
         NEW s, MemoryOK(s), Fits(s, s.jobs), Cardinality(DOMAIN s.jobs) <= MaxJobs,
         NEW next, Save(s, next),
         UNCHANGED <<stores, ws, run, board, slots, beat, crashes>>,
         cur' \subseteq Targets, Cardinality(cur') <= 1,
         interrupted \subseteq interrupted', interrupted' \subseteq Writes,
         \/ next = "finish" /\ Behind(json, s)
         \/ /\ Level(json, s)
            /\ \/ next = "publish" /\ pc \in ExecuteSteps /\ cur' \subseteq DOMAIN s.jobs
               \/ next = "plan" /\ pc \in ExecuteSteps /\ run = "session"
               \/ next = "reload" /\ run = "session",
         \A w \in Writes \ interrupted' :
           pc = "answer" /\ cur = {w} => next = "finish" /\ cur' = cur /\ w \in s.touched
  PROVE  RuntimeInv'
<1> USE DEF RuntimeInv
<1>1. /\ mem' = s /\ pc' = "saveDb" /\ then' = next /\ ws' = ws /\ run' = run
      /\ db' = db /\ file' = file /\ json' = json /\ board' = board
      /\ next \in {"publish", "finish", "plan", "reload"} /\ run # "none"
  BY DEF Save, stores, Live, TypeOK
<1>2. TypeOK'
  BY <1>1 DEF TypeOK
<1>3. ControlInv'
  BY <1>1 DEF ControlInv, Loads, Saves, Syncs, Planners, PlanSteps, ExecuteSteps
<1>4. Level(json, mem)
  BY DEF CopiesInv
<1>5. Keeping' => Keeping /\ Level(json, s)
  BY <1>1 DEF Keeping, Saves, ExecuteSteps
<1>6. Keeping' => Level(s, ws)
  BY <1>4, <1>5, LevelOrder DEF CopiesInv
<1>7. CopiesInv'
  <2>1. IF Recording' THEN Behind(json, s) ELSE Level(json, s)
    BY <1>1 DEF Recording, Saves
  <2> QED BY <1>1, <1>6, <2>1 DEF CopiesInv
<1>8. FitsInv'
  BY <1>1, <1>5 DEF FitsInv
<1>9. CutInv'
  BY <1>1, <1>5 DEF CutInv
<1>10. TargetInv'
  <2>1. Passed' => s.ban = NeverBanned
    <3> SUFFICES ASSUME Passed' PROVE s.ban = NeverBanned
      OBVIOUS
    <3>1. Passed /\ Level(json, s)
      BY <1>1 DEF Passed, Saves, ExecuteSteps, PlanSteps
    <3> QED BY <1>4, <3>1 DEF TargetInv, Level
  <2> QED BY <1>1, <2>1 DEF TargetInv, Saves
<1>11. OnceInv'
  BY <1>1 DEF OnceInv, Recording, Saves
<1> QED BY <1>2, <1>3, <1>7, <1>8, <1>9, <1>10, <1>11

\* A step that begins to synchronise the jobs.
LEMMA SyncStep ==
  ASSUME RuntimeInv, Live, ~Recording,
         NEW s, MemoryOK(s), Fits(s, s.jobs), Cardinality(DOMAIN s.jobs) <= MaxJobs,
         NEW next \in {"finish", "end"}, Sync(s, next),
         UNCHANGED <<db, file, ws, run, cur, world>>, pc \notin {"answer"},
         json' \in {json, s}, Level(mem, s)
  PROVE  RuntimeInv'
<1> USE DEF RuntimeInv
<1>1. /\ mem' = s /\ pc' = "syncDb" /\ then' = next /\ ws' = ws /\ run' = run
      /\ db' = db /\ file' = file /\ cur' = cur /\ board' = board
      /\ interrupted' = interrupted /\ slots' = slots /\ beat' = beat /\ crashes' = crashes
      /\ run # "none"
  BY DEF Sync, world, Live, TypeOK
<1>2. MemoryOK(json) /\ MemoryOK(mem) /\ MemoryOK(ws) /\ MemoryOK(json')
      /\ IsQueue(db) /\ IsQueue(file)
  BY DEF TypeOK, IsQueue
<1>3. TypeOK'
  BY <1>1, <1>2 DEF TypeOK
<1>4. ControlInv'
  BY <1>1 DEF ControlInv, Loads, Saves, Syncs, Planners, PlanSteps, ExecuteSteps
<1>5. Level(json, mem)
  BY DEF CopiesInv
<1>6. Level(json', s) /\ Level(json', json)
  BY <1>5, LevelOrder
<1>7. ~Keeping' /\ ~Recording' /\ ~Passed'
  BY <1>1 DEF Keeping, Recording, Passed, Saves, ExecuteSteps, PlanSteps
<1>8. CopiesInv'
  BY <1>1, <1>6, <1>7 DEF CopiesInv
<1>9. Fits(json', db) /\ Fits(json', file)
  BY <1>2, <1>6, FitsSame DEF FitsInv
<1>10. Fits(json', json'.jobs)
  BY DEF FitsInv
<1>11. FitsInv'
  BY <1>1, <1>7, <1>9, <1>10 DEF FitsInv
<1>12. CutInv'
  BY <1>1, <1>7 DEF CutInv
<1>13. TargetInv'
  BY <1>1, <1>7 DEF TargetInv, Saves
<1>14. OnceInv'
  <2>1. json'.touched = json.touched
    BY <1>6 DEF Level
  <2> QED BY <1>1, <2>1 DEF OnceInv
<1> QED BY <1>3, <1>4, <1>8, <1>11, <1>12, <1>13, <1>14

LEMMA WriteDbStep == RuntimeInv /\ WriteDb => RuntimeInv'
<1> SUFFICES ASSUME RuntimeInv, WriteDb PROVE RuntimeInv'
  OBVIOUS
<1> USE DEF RuntimeInv
<1>1. /\ pc \in {"saveDb", "syncDb"} /\ db' = mem.jobs /\ then' = then
      /\ pc' = (IF pc = "saveDb" THEN "saveFile" ELSE "syncFile")
      /\ file' = file /\ json' = json /\ mem' = mem /\ ws' = ws /\ run' = run /\ cur' = cur
      /\ board' = board /\ interrupted' = interrupted /\ slots' = slots /\ beat' = beat
      /\ crashes' = crashes /\ run # "none"
  BY DEF WriteDb, Goto, world, TypeOK
<1>2. MemoryOK(json) /\ MemoryOK(mem) /\ IsQueue(mem.jobs) /\ Live
      /\ Cardinality(DOMAIN mem.jobs) <= MaxJobs
  <2>1. Live
    BY <1>1 DEF Live, Loads
  <2> QED BY <1>1, <2>1, MemoryParts DEF TypeOK, CutInv
<1>3. TypeOK'
  BY <1>1, <1>2 DEF TypeOK, IsQueue
<1>4. ControlInv'
  BY <1>1 DEF ControlInv, Loads, Saves, Syncs, Planners, PlanSteps, ExecuteSteps
<1>5. (Recording' <=> Recording) /\ (Keeping' <=> Keeping) /\ (Passed' <=> Passed) /\ Live'
  BY <1>1 DEF Recording, Keeping, Passed, Live, Loads, Saves, ExecuteSteps, PlanSteps
<1>6. CopiesInv'
  BY <1>1, <1>2, <1>5 DEF CopiesInv
<1>7. Fits(json, mem.jobs)
  <2>1. Behind(json, mem) \/ Level(json, mem)
    BY <1>2 DEF CopiesInv
  <2> QED BY <1>2, <2>1, FitsBehind DEF FitsInv
<1>8. FitsInv'
  BY <1>1, <1>2, <1>5, <1>7 DEF FitsInv
<1>9. CutInv'
  BY <1>1, <1>2, <1>5 DEF CutInv
<1>10. TargetInv'
  BY <1>1, <1>5 DEF TargetInv, Saves
<1>11. OnceInv'
  BY <1>1, <1>5 DEF OnceInv
<1> QED BY <1>3, <1>4, <1>6, <1>8, <1>9, <1>10, <1>11

LEMMA WriteFileStep == RuntimeInv /\ WriteFile => RuntimeInv'
<1> SUFFICES ASSUME RuntimeInv, WriteFile PROVE RuntimeInv'
  OBVIOUS
<1> USE DEF RuntimeInv
<1>1. /\ pc \in {"saveFile", "syncFile"} /\ file' = mem.jobs /\ then' = then
      /\ pc' = (IF pc = "saveFile" THEN "saveJson" ELSE then)
      /\ db' = db /\ json' = json /\ mem' = mem /\ ws' = ws /\ run' = run /\ cur' = cur
      /\ board' = board /\ interrupted' = interrupted /\ slots' = slots /\ beat' = beat
      /\ crashes' = crashes /\ run # "none"
  BY DEF WriteFile, Goto, world, TypeOK
<1>2. pc = "syncFile" => then \in {"finish", "end"}
  BY DEF ControlInv, Syncs
<1>3. MemoryOK(json) /\ MemoryOK(mem) /\ IsQueue(mem.jobs) /\ Live
      /\ Cardinality(DOMAIN mem.jobs) <= MaxJobs
  <2>1. Live
    BY <1>1 DEF Live, Loads
  <2> QED BY <1>1, <2>1, MemoryParts DEF TypeOK, CutInv
<1>4. TypeOK'
  BY <1>1, <1>2, <1>3 DEF TypeOK, IsQueue
<1>5. ControlInv'
  BY <1>1, <1>2 DEF ControlInv, Loads, Saves, Syncs, Planners, PlanSteps, ExecuteSteps
<1>6. (Recording' <=> Recording) /\ (Keeping' <=> Keeping) /\ (Passed' <=> Passed) /\ Live'
  BY <1>1, <1>2 DEF Recording, Keeping, Passed, Live, Loads, Saves, ExecuteSteps, PlanSteps
<1>7. CopiesInv'
  BY <1>1, <1>2, <1>3, <1>6 DEF CopiesInv
<1>8. Fits(json, mem.jobs)
  <2>1. Behind(json, mem) \/ Level(json, mem)
    BY <1>3 DEF CopiesInv
  <2> QED BY <1>3, <2>1, FitsBehind DEF FitsInv
<1>9. FitsInv'
  BY <1>1, <1>3, <1>6, <1>8 DEF FitsInv
<1>10. CutInv'
  BY <1>1, <1>3, <1>6 DEF CutInv
<1>11. TargetInv'
  BY <1>1, <1>2, <1>6 DEF TargetInv, Saves
<1>12. OnceInv'
  BY <1>1, <1>2, <1>6 DEF OnceInv
<1> QED BY <1>4, <1>5, <1>7, <1>9, <1>10, <1>11, <1>12

\* The record of the memory is the last copy that is written.
LEMMA WriteJsonStep == RuntimeInv /\ WriteJson => RuntimeInv'
<1> SUFFICES ASSUME RuntimeInv, WriteJson PROVE RuntimeInv'
  OBVIOUS
<1> USE DEF RuntimeInv
<1>1. /\ pc = "saveJson" /\ json' = [mem EXCEPT !.jobs = NoJobs] /\ then' = then /\ pc' = then
      /\ db' = db /\ file' = file /\ mem' = mem /\ ws' = ws /\ run' = run /\ cur' = cur
      /\ board' = board /\ interrupted' = interrupted /\ slots' = slots /\ beat' = beat
      /\ crashes' = crashes /\ run # "none"
  BY DEF WriteJson, Goto, world, TypeOK
<1>2. /\ then \in {"publish", "finish", "plan", "reload"}
      /\ then \in {"plan", "reload"} => run = "session"
  BY <1>1 DEF ControlInv, Saves
<1>3. /\ MemoryOK(json) /\ MemoryOK(mem) /\ IsQueue(mem.jobs) /\ Live
      /\ Cardinality(DOMAIN mem.jobs) <= MaxJobs /\ db = mem.jobs /\ file = mem.jobs
  <2>1. Live
    BY <1>1 DEF Live, Loads
  <2> QED BY <1>1, <2>1, MemoryParts DEF TypeOK, CutInv, CopiesInv
<1>4. MemoryOK(json') /\ json'.jobs = NoJobs /\ Level(json', mem)
  BY <1>1, <1>3, NoQueue, WithJobs
<1>5. TypeOK'
  BY <1>1, <1>2, <1>4 DEF TypeOK
<1>6. ControlInv'
  BY <1>1, <1>2 DEF ControlInv, Loads, Saves, Syncs, Planners, PlanSteps, ExecuteSteps
<1>7. ~Recording' /\ (Keeping' => Keeping) /\ (Passed' => Passed) /\ Live'
  BY <1>1, <1>2 DEF Recording, Keeping, Passed, Live, Loads, Saves, ExecuteSteps, PlanSteps
<1>8. CopiesInv'
  BY <1>1, <1>2, <1>4, <1>7 DEF CopiesInv
<1>9. Fits(mem, mem.jobs)
  BY <1>3 DEF FitsInv
<1>10. Fits(json', mem.jobs) /\ Fits(json', NoJobs)
  BY <1>3, <1>4, <1>9, FitsSame, FitsNone
<1>11. FitsInv'
  BY <1>1, <1>3, <1>4, <1>7, <1>9, <1>10 DEF FitsInv
<1>12. CutInv'
  BY <1>1, <1>3, <1>7 DEF CutInv
<1>13. TargetInv'
  BY <1>1, <1>2, <1>7 DEF TargetInv, Saves
<1>14. OnceInv'
  <2>1. json.touched \subseteq json'.touched /\ mem.touched \subseteq json'.touched
    BY <1>3, <1>4 DEF CopiesInv, Behind, Level
  <2> QED BY <1>1, <2>1 DEF OnceInv
<1> QED BY <1>5, <1>6, <1>8, <1>11, <1>12, <1>13, <1>14

\* Jobs that only reddit-memory.json has are moved to the other two copies.
LEMMA HydrateStep == RuntimeInv /\ (Hydrate \/ HydrateFile) => RuntimeInv'
<1> SUFFICES ASSUME RuntimeInv, Hydrate \/ HydrateFile PROVE RuntimeInv'
  OBVIOUS
<1> USE DEF RuntimeInv
<1>1. /\ pc \in Loads /\ pc' \in Loads /\ then' = then
      /\ json' = json /\ mem' = mem /\ ws' = ws /\ run' = run /\ cur' = cur
      /\ board' = board /\ interrupted' = interrupted /\ slots' = slots /\ beat' = beat
      /\ crashes' = crashes /\ run # "none"
  BY DEF Hydrate, HydrateFile, Goto, world, TypeOK, Loads
<1>2. MemoryOK(json) /\ IsQueue(json.jobs) /\ IsQueue(db) /\ IsQueue(file)
  BY MemoryParts DEF TypeOK, IsQueue
<1>3. \A jobs \in {db', file'} :
        IsQueue(jobs) /\ Cardinality(DOMAIN jobs) <= MaxJobs /\ Fits(json, jobs)
  <2>1. ASSUME NEW jobs \in Cuts(json.jobs)
        PROVE  IsQueue(jobs) /\ Cardinality(DOMAIN jobs) <= MaxJobs /\ Fits(json, jobs)
    <3>1. IsQueue(jobs) /\ DOMAIN jobs \subseteq DOMAIN json.jobs
          /\ Cardinality(DOMAIN jobs) <= MaxJobs
      BY <1>2, CutQueue
    <3> QED BY <1>2, <3>1, FitsBehind, LevelOrder DEF FitsInv
  <2>2. /\ db' \in Cuts(json.jobs) \cup {db} /\ file' \in {db, file}
    BY DEF Hydrate, HydrateFile
  <2>3. \A jobs \in {db, file} :
          IsQueue(jobs) /\ Cardinality(DOMAIN jobs) <= MaxJobs /\ Fits(json, jobs)
    BY <1>2 DEF TypeOK, FitsInv
  <2> QED BY <2>1, <2>2, <2>3
<1>4. TypeOK'
  BY <1>1, <1>3 DEF TypeOK, Loads, IsQueue
<1>5. ControlInv'
  BY <1>1 DEF ControlInv, Loads, Saves, Syncs, Planners, PlanSteps, ExecuteSteps
<1>6. ~Live' /\ ~Recording' /\ ~Recording /\ ~Keeping' /\ ~Passed'
  BY <1>1 DEF Recording, Keeping, Passed, Live, Loads, Saves, ExecuteSteps, PlanSteps
<1>7. pc' \notin Saves \cup Syncs \cup {"publish", "answer", "draft", "enqueue"} /\ pc # "answer"
  BY <1>1 DEF Loads, Saves, Syncs
<1>8. CopiesInv'
  BY <1>6, <1>7 DEF CopiesInv, Saves, Syncs
<1>9. FitsInv'
  BY <1>1, <1>3, <1>6 DEF FitsInv
<1>10. CutInv'
  BY <1>6 DEF CutInv
<1>11. TargetInv'
  BY <1>6, <1>7 DEF TargetInv
<1>12. OnceInv'
  BY <1>1, <1>6, <1>7 DEF OnceInv
<1> QED BY <1>4, <1>5, <1>8, <1>9, <1>10, <1>11, <1>12

\* A run reads the stores, and the memory is stripped of its jobs.
LEMMA LoadStep == RuntimeInv /\ Load => RuntimeInv'
<1> SUFFICES ASSUME RuntimeInv, Load PROVE RuntimeInv'
  OBVIOUS
<1> USE DEF RuntimeInv
<1>1. /\ pc = "load" /\ pc' = then /\ then' = then
      /\ mem' = [json EXCEPT !.jobs = StoredJobs] /\ json' = [json EXCEPT !.jobs = NoJobs]
      /\ db' = db /\ file' = file /\ ws' = ws /\ run' = run /\ cur' = cur
      /\ board' = board /\ interrupted' = interrupted /\ slots' = slots /\ beat' = beat
      /\ crashes' = crashes /\ run # "none"
  BY DEF Load, Goto, world, TypeOK
<1>2. \/ then = "killSwitch" /\ run \in Planners
      \/ then = "health" /\ run = "executor"
      \/ then = "execute" /\ run = "publishing"
      \/ then = "snapshot"
  BY <1>1 DEF ControlInv, Loads
<1>3. MemoryOK(json) /\ IsQueue(db) /\ IsQueue(file) /\ StoredJobs \in {db, file}
  BY DEF TypeOK, IsQueue, StoredJobs
<1>4. IsQueue(StoredJobs) /\ Cardinality(DOMAIN StoredJobs) <= MaxJobs
      /\ Fits(json, StoredJobs)
  BY <1>3 DEF TypeOK, FitsInv
<1>5. /\ MemoryOK(mem') /\ mem'.jobs = StoredJobs /\ Level(mem', json)
      /\ MemoryOK(json') /\ json'.jobs = NoJobs /\ Level(json', json)
  <2>1. MemoryOK(mem') /\ mem'.jobs = StoredJobs /\ Level(mem', json)
    BY <1>1, <1>3, <1>4, WithJobs
  <2>2. MemoryOK(json') /\ json'.jobs = NoJobs /\ Level(json', json)
    BY <1>1, <1>3, NoQueue, WithJobs
  <2> QED BY <2>1, <2>2
<1>6. Level(json', mem')
  BY <1>5, LevelOrder
<1>7. TypeOK'
  BY <1>1, <1>2, <1>5 DEF TypeOK
<1>8. ControlInv'
  BY <1>1, <1>2 DEF ControlInv, Loads, Saves, Syncs, Planners, PlanSteps, ExecuteSteps
<1>9. ~Recording' /\ ~Recording /\ ~Keeping' /\ ~Passed'
  BY <1>1, <1>2 DEF Recording, Keeping, Passed, Saves, Loads, ExecuteSteps, PlanSteps, Planners
<1>10. pc' \notin Saves \cup Syncs \cup {"publish", "answer", "draft", "enqueue"} /\ pc # "answer"
  BY <1>1, <1>2 DEF Saves, Syncs
<1>11. CopiesInv'
  BY <1>6, <1>9, <1>10 DEF CopiesInv, Saves, Syncs
<1>12. FitsInv'
  <2>1. Fits(json', db) /\ Fits(json', file)
    BY <1>3, <1>5, FitsSame DEF FitsInv
  <2>2. Fits(json', NoJobs)
    BY <1>3, <1>5, <2>1, FitsNone
  <2>3. Fits(mem', mem'.jobs)
    BY <1>3, <1>4, <1>5, FitsSame
  <2> QED BY <1>1, <1>5, <1>9, <2>1, <2>2, <2>3 DEF FitsInv
<1>13. CutInv'
  BY <1>4, <1>5, <1>9 DEF CutInv
<1>14. TargetInv'
  BY <1>9, <1>10 DEF TargetInv
<1>15. OnceInv'
  BY <1>1, <1>5, <1>9, <1>10 DEF OnceInv, Level
<1> QED BY <1>7, <1>8, <1>11, <1>12, <1>13, <1>14, <1>15

----------------------------------------------------------------------------
\* Steps that save nothing.

\* A step of a run that leaves its memory as it is.
LEMMA MoveStep ==
  ASSUME RuntimeInv, Live, ~Recording, pc # "answer",
         UNCHANGED <<stores, mem, ws, world>>, run' = run, cur' = cur,
         NEW next, pc' = next, 
         next \in {"finish", "health", "discover", "enqueue", "reload", "execute"},
         next = "reload" => run = "session",
         next = "enqueue" => pc = "draft",
         next = "health" => pc = "killSwitch" /\ mem.ban = NeverBanned,
         next = "discover" => pc = "health" /\ run = "heartbeat",
         next = "execute" => pc = "health" /\ run # "heartbeat" /\ run # "session"
  PROVE  RuntimeInv'
<1> USE DEF RuntimeInv
<1>1. /\ db' = db /\ file' = file /\ json' = json /\ mem' = mem /\ ws' = ws
      /\ board' = board /\ interrupted' = interrupted /\ slots' = slots /\ beat' = beat
      /\ crashes' = crashes /\ run # "none"
  BY DEF stores, world, Live, TypeOK
<1>2. TypeOK'
  BY <1>1 DEF TypeOK
<1>3. ControlInv'
  BY <1>1 DEF ControlInv, Loads, Saves, Syncs, Planners, PlanSteps, ExecuteSteps
<1>4. ~Recording' /\ ~Keeping'
  BY <1>1 DEF Recording, Keeping, Saves, ExecuteSteps
<1>5. CopiesInv'
  BY <1>1, <1>4 DEF CopiesInv
<1>6. FitsInv'
  BY <1>1, <1>4 DEF FitsInv
<1>7. CutInv'
  BY <1>1, <1>4 DEF CutInv
<1>8. TargetInv'
  BY <1>1 DEF TargetInv, Passed, Saves, Planners, ExecuteSteps, PlanSteps
<1>9. OnceInv'
  BY <1>1, <1>4 DEF OnceInv
<1> QED BY <1>2, <1>3, <1>5, <1>6, <1>7, <1>8, <1>9

\* A step to a place where the memory is not looked at.
LEMMA RestStep ==
  ASSUME RuntimeInv, UNCHANGED <<stores, board>>, MemoryOK(mem'), MemoryOK(ws'),
         cur' \subseteq Targets, Cardinality(cur') <= 1,
         interrupted \subseteq interrupted', interrupted' \subseteq Writes,
         \A w \in (Writes \ interrupted') \ json.touched :
           cur = {w} => pc # "answer" /\ ~ (Recording /\ w \in mem.touched),
         slots' \in 0..Slots, beat' \in BOOLEAN, crashes' \in 0..MaxCrashes, run' \in Runs,
         \/ pc' = "idle" /\ run' = "none"
         \/ /\ pc' = "load"
            /\ \/ then' = "killSwitch" /\ run' \in Planners
               \/ then' = "health" /\ run' = "executor"
               \/ then' = "execute" /\ run' = "publishing"
               \/ then' = "snapshot" /\ run' # "none"
  PROVE  RuntimeInv'
<1> USE DEF RuntimeInv
<1>1. db' = db /\ file' = file /\ json' = json /\ board' = board /\ pc' \in {"idle", "load"}
  BY DEF stores
<1>2. TypeOK'
  BY <1>1 DEF TypeOK, Planners
<1>3. ControlInv'
  BY <1>1 DEF ControlInv, Loads, Saves, Syncs, Planners, PlanSteps, ExecuteSteps
<1>4. ~Recording' /\ ~Keeping' /\ ~Live' /\ ~Passed'
  BY <1>1 DEF Recording, Keeping, Live, Passed, Loads, Saves, ExecuteSteps, PlanSteps
<1>5. CopiesInv'
  BY <1>1, <1>4 DEF CopiesInv
<1>6. FitsInv'
  BY <1>1, <1>4 DEF FitsInv
<1>7. CutInv'
  BY <1>1, <1>4 DEF CutInv
<1>8. TargetInv'
  BY <1>1, <1>4 DEF TargetInv, Saves
<1>9. OnceInv'
  BY <1>1, <1>4 DEF OnceInv
<1> QED BY <1>2, <1>3, <1>5, <1>6, <1>7, <1>8, <1>9

\* The empty memory is one, and what is in a run's copy when it ends is forgotten.
LEMMA EmptyOK == MemoryOK(EmptyMemory)
<1>1. /\ Larger(Cooldown, Breaker) \in Nat /\ KillWindow \in Nat /\ Cooldown \in Nat
      /\ NeverBanned \in NeverBanned..KillWindow
  BY RedditLimits DEF Larger
<1>2. [k \in Kinds |-> 0] \in [Kinds -> 0..Larger(Cooldown, Breaker)]
  BY <1>1
<1> HIDE DEF Kinds
<1>3. EmptyMemory \in [jobs : {NoJobs}, touched : SUBSET Writes, voted : SUBSET Writes,
                       ban : NeverBanned..KillWindow, today : Nat,
                       session : 0..Cooldown, rest : [Kinds -> 0..Larger(Cooldown, Breaker)]]
  BY <1>1, <1>2 DEF EmptyMemory
<1>4. EmptyMemory.jobs = NoJobs
  BY DEF EmptyMemory
<1> QED BY <1>3, <1>4, NoQueue DEF MemoryOK, IsQueue

LEMMA StartStep ==
  RuntimeInv /\ (StartExecutor \/ StartPlanner \/ End \/ PublishNow) => RuntimeInv'
<1> SUFFICES ASSUME RuntimeInv, StartExecutor \/ StartPlanner \/ End \/ PublishNow
             PROVE  RuntimeInv'
  OBVIOUS
<1>1. TypeOK /\ slots \in Nat /\ slots <= Slots
  BY RedditLimits DEF RuntimeInv, TypeOK
<1>2. /\ MemoryOK(mem') /\ MemoryOK(ws') /\ cur' \subseteq Targets /\ Cardinality(cur') <= 1
      /\ UNCHANGED <<stores, board, interrupted, beat, slots, crashes>>
         \/ (pc = "idle" /\ UNCHANGED <<stores, board, interrupted, crashes>>)
  BY <1>1, EmptyOK, FS_EmptySet
  DEF StartExecutor, StartPlanner, End, PublishNow, Stopped, Start, LoadThen, TypeOK, world
<1>3. pc \in {"idle", "end", "reload"} /\ UNCHANGED <<stores, board, interrupted, crashes>>
  BY <1>2 DEF StartExecutor, StartPlanner, End, PublishNow
<1>4. slots' \in 0..Slots /\ beat' \in BOOLEAN /\ crashes' \in 0..MaxCrashes
  <2>1. slots' \in {slots, slots - 1} /\ (slots' = slots \/ slots > 0)
        /\ beat' \in {beat, TRUE} /\ crashes' = crashes
    BY DEF StartExecutor, StartPlanner, End, PublishNow, world
  <2>2. slots' \in 0..Slots
    BY <1>1, <2>1, RedditLimits
  <2> QED BY <1>1, <2>1, <2>2 DEF TypeOK
<1>5. /\ run' \in Runs
      /\ \/ pc' = "idle" /\ run' = "none"
         \/ /\ pc' = "load"
            /\ \/ then' = "killSwitch" /\ run' \in Planners
               \/ then' = "health" /\ run' = "executor"
               \/ then' = "execute" /\ run' = "publishing"
               \/ then' = "snapshot" /\ run' # "none"
  BY DEF StartExecutor, StartPlanner, End, PublishNow, Stopped, Start, LoadThen, Planners, Runs
<1>6. interrupted' \subseteq Writes /\ interrupted \subseteq interrupted' /\ ~Recording
  BY <1>1, <1>3 DEF TypeOK, Recording, Saves
<1> QED BY <1>2, <1>3, <1>4, <1>5, <1>6, RestStep

LEMMA FinishStep == RuntimeInv /\ Finish => RuntimeInv'
<1> SUFFICES ASSUME RuntimeInv, Finish PROVE RuntimeInv'
  OBVIOUS
<1>1. TypeOK /\ pc = "finish" /\ ~Recording /\ UNCHANGED <<stores, world>>
  BY DEF RuntimeInv, Finish, Recording, Saves
<1>2. /\ MemoryOK(mem') /\ MemoryOK(ws') /\ cur' \subseteq Targets /\ Cardinality(cur') <= 1
      /\ run' \in Runs
      /\ \/ pc' = "idle" /\ run' = "none"
         \/ pc' = "load" /\ then' = "snapshot" /\ run' # "none"
  BY <1>1, EmptyOK, FS_EmptySet DEF Finish, Stopped, LoadThen, TypeOK, Runs
<1>3. /\ UNCHANGED <<stores, board>> /\ interrupted' = interrupted /\ interrupted \subseteq Writes
      /\ slots' \in 0..Slots /\ beat' \in BOOLEAN /\ crashes' \in 0..MaxCrashes
  BY <1>1 DEF world, TypeOK
<1> QED BY <1>1, <1>2, <1>3, RestStep

\* A killed run loses its copy; what it published without a record is interrupted.
LEMMA CrashStep == RuntimeInv /\ Crash => RuntimeInv'
<1> SUFFICES ASSUME RuntimeInv, Crash PROVE RuntimeInv'
  OBVIOUS
<1>1. TypeOK
  BY DEF RuntimeInv
<1>2. /\ MemoryOK(mem') /\ MemoryOK(ws') /\ cur' \subseteq Targets /\ Cardinality(cur') <= 1
      /\ pc' = "idle" /\ run' = "none" /\ run' \in Runs
  BY EmptyOK, FS_EmptySet DEF Crash, Stopped, Runs
<1>3. UNCHANGED <<stores, board>> /\ slots' \in 0..Slots /\ beat' \in BOOLEAN
  BY <1>1 DEF Crash, TypeOK
<1>4. crashes' \in 0..MaxCrashes
  BY <1>1, RedditLimits DEF Crash, TypeOK
<1>5. interrupted \subseteq interrupted' /\ interrupted' \subseteq Writes
  BY <1>1 DEF Crash, TypeOK
<1>6. \A w \in (Writes \ interrupted') \ json.touched :
        cur = {w} => pc # "answer" /\ ~ (Recording /\ w \in mem.touched)
  BY DEF Crash
<1> QED BY <1>2, <1>3, <1>4, <1>5, <1>6, RestStep

\* Time passes between two runs.
LEMMA AgedMemoryOK ==
  ASSUME NEW m, MemoryOK(m), NEW newDay \in BOOLEAN, Fits(m, m.jobs),
         NEW r, r = AgedMemory(m, newDay)
  PROVE  /\ MemoryOK(r) /\ r.touched = m.touched /\ DOMAIN r.jobs = DOMAIN m.jobs
         /\ \A jobs : IsQueue(jobs) /\ Fits(m, jobs) => Fits(r, jobs)
<1> DEFINE aged == Aged(m.jobs)
           rests == [k \in Kinds |-> Larger(m.rest[k] - 1, 0)]
           cooling == Larger(m.session - 1, 0)
           today == IF newDay THEN 0 ELSE m.today
<1>1. /\ m \in [jobs : {m.jobs}, touched : SUBSET Writes, voted : SUBSET Writes,
                ban : NeverBanned..KillWindow, today : Nat,
                session : 0..Cooldown, rest : [Kinds -> 0..Larger(Cooldown, Breaker)]]
      /\ IsQueue(m.jobs)
  BY MemoryParts
<1>2. IsQueue(aged) /\ DOMAIN aged = DOMAIN m.jobs
  BY <1>1, AgedQueue
<1>3. rests \in [Kinds -> 0..Larger(Cooldown, Breaker)]
  <2>1. Larger(Cooldown, Breaker) \in Nat
    BY RedditLimits DEF Larger
  <2>2. ASSUME NEW k \in Kinds PROVE Larger(m.rest[k] - 1, 0) \in 0..Larger(Cooldown, Breaker)
    <3>1. m.rest[k] \in 0..Larger(Cooldown, Breaker)
      BY <1>1
    <3> QED BY <2>1, <3>1 DEF Larger
  <2> QED BY <2>2
<1>4. cooling \in 0..Cooldown
  BY <1>1, RedditLimits DEF Larger
<1>5. today \in Nat /\ today <= m.today
  BY <1>1
<1>6. r = [m EXCEPT !.jobs = aged, !.rest = rests, !.session = cooling, !.today = today]
  BY <1>1 DEF AgedMemory
<1> HIDE DEF aged, rests, cooling, today
<1>7. r.jobs = aged /\ r.touched = m.touched /\ r.ban = m.ban /\ r.today = today
  BY <1>1, <1>6
<1>8. MemoryOK(r)
  <2>1. r \in [jobs : {aged}, touched : SUBSET Writes, voted : SUBSET Writes,
               ban : NeverBanned..KillWindow, today : Nat,
               session : 0..Cooldown, rest : [Kinds -> 0..Larger(Cooldown, Breaker)]]
    BY <1>1, <1>3, <1>4, <1>5, <1>6
  <2> QED BY <1>2, <1>7, <2>1 DEF MemoryOK, IsQueue
<1>9. Behind(r, m)
  BY <1>1, <1>5, <1>7, RedditLimits DEF Behind
<1>10. \A jobs : IsQueue(jobs) /\ Fits(m, jobs) => Fits(r, jobs)
  BY <1>8, <1>9, FitsBehind
<1> QED BY <1>2, <1>7, <1>8, <1>10

LEMMA TickStep == RuntimeInv /\ Tick => RuntimeInv'
<1> SUFFICES ASSUME RuntimeInv, Tick PROVE RuntimeInv'
  OBVIOUS
<1> USE DEF RuntimeInv
<1>1. /\ pc = "idle" /\ db' = Aged(db) /\ file' = Aged(file) /\ slots' = Slots /\ beat' = FALSE
      /\ mem' = mem /\ ws' = ws /\ run' = run /\ pc' = pc /\ then' = then /\ cur' = cur
      /\ board' = board /\ interrupted' = interrupted /\ crashes' = crashes
  BY DEF Tick
<1>2. PICK newDay \in BOOLEAN : json' = AgedMemory(json, newDay)
  BY DEF Tick
<1>3. MemoryOK(json) /\ IsQueue(json.jobs) /\ IsQueue(db) /\ IsQueue(file)
  BY MemoryParts DEF TypeOK, IsQueue
<1>4. /\ IsQueue(db') /\ DOMAIN db' = DOMAIN db
      /\ IsQueue(file') /\ DOMAIN file' = DOMAIN file
  BY <1>1, <1>3, AgedQueue
<1>5. /\ MemoryOK(json') /\ json'.touched = json.touched
      /\ DOMAIN json'.jobs = DOMAIN json.jobs
      /\ \A jobs : IsQueue(jobs) /\ Fits(json, jobs) => Fits(json', jobs)
  BY <1>2, <1>3, AgedMemoryOK DEF FitsInv
<1>6. TypeOK'
  <2>1. \A jobs \in {db', file'} : IsQueue(jobs) /\ Cardinality(DOMAIN jobs) <= MaxJobs
    BY <1>4 DEF TypeOK
  <2>2. Slots \in 0..Slots
    BY RedditLimits
  <2> QED BY <1>1, <1>5, <2>1, <2>2 DEF TypeOK, IsQueue
<1>7. ControlInv'
  BY <1>1 DEF ControlInv, Loads, Saves, Syncs, Planners, PlanSteps, ExecuteSteps
<1>8. ~Recording' /\ ~Recording /\ ~Keeping' /\ ~Live' /\ ~Passed'
  BY <1>1 DEF Recording, Keeping, Live, Passed, Loads, Saves, ExecuteSteps, PlanSteps
<1>9. CopiesInv'
  BY <1>1, <1>8 DEF CopiesInv
<1>10. FitsInv'
  <2>1. Fits(json', db) /\ Fits(json', file) /\ Fits(json', json.jobs)
    BY <1>3, <1>5 DEF FitsInv
  <2>2. IsQueue(json'.jobs)
    BY <1>5, MemoryParts
  <2>3. Fits(json', db') /\ Fits(json', file') /\ Fits(json', json'.jobs)
    BY <1>3, <1>4, <1>5, <2>1, <2>2, FitsBehind, LevelOrder
  <2> QED BY <1>8, <2>3 DEF FitsInv
<1>11. CutInv'
  BY <1>8 DEF CutInv
<1>12. TargetInv'
  BY <1>1, <1>8 DEF TargetInv, Saves
<1>13. OnceInv'
  BY <1>1, <1>5, <1>8 DEF OnceInv
<1> QED BY <1>6, <1>7, <1>9, <1>10, <1>11, <1>12, <1>13

----------------------------------------------------------------------------
\* The guards on the account.

LEMMA GuardStep == RuntimeInv /\ (CheckKillSwitch \/ Healthy) => RuntimeInv'
<1> SUFFICES ASSUME RuntimeInv, CheckKillSwitch \/ Healthy PROVE RuntimeInv'
  OBVIOUS
<1>1. /\ Live /\ ~Recording /\ pc # "answer" /\ pc \in {"killSwitch", "health"}
      /\ UNCHANGED <<stores, mem, world>> /\ run' = run /\ cur' = cur
  BY DEF CheckKillSwitch, Healthy, Live, Loads, Recording, Saves
<1>2. mem.ban \in NeverBanned..KillWindow /\ Fits(mem, mem.jobs) /\ IsQueue(mem.jobs)
  BY <1>1, MemoryParts DEF RuntimeInv, TypeOK, FitsInv
<1>3. CASE CheckKillSwitch
  <2>1. pc = "killSwitch" /\ pc' \in {"finish", "health"} /\ UNCHANGED ws
    BY <1>3 DEF CheckKillSwitch, Goto
  <2>2. pc' = "health" => mem.ban = NeverBanned
    <3>1. pc' = "health" => ~KillSwitch(mem)
      BY <1>3 DEF CheckKillSwitch, Goto
    <3>2. Room(mem.jobs) \in Nat
      BY <1>2, RoomOK
    <3>3. mem.ban # NeverBanned => mem.ban < KillWindow
      BY <1>2, <3>2, RedditLimits DEF Fits
    <3> QED BY <3>1, <3>3 DEF KillSwitch
  <2> QED BY <1>1, <2>1, <2>2, MoveStep
<1>4. CASE Healthy /\ run # "session"
  <2>1. pc = "health" /\ pc' = (IF run = "heartbeat" THEN "discover" ELSE "execute")
        /\ UNCHANGED ws
    BY <1>4 DEF Healthy, Goto
  <2> QED BY <1>1, <1>4, <2>1, MoveStep
<1>5. CASE Healthy /\ run = "session"
  <2> USE DEF RuntimeInv
  <2>1. /\ pc = "health" /\ pc' = "execute" /\ ws' = mem /\ mem' = mem
        /\ db' = db /\ file' = file /\ json' = json /\ board' = board
        /\ interrupted' = interrupted /\ slots' = slots /\ beat' = beat /\ crashes' = crashes
    BY <1>5 DEF Healthy, Goto, stores, world
  <2>2. TypeOK'
    BY <1>1, <1>5, <2>1 DEF TypeOK
  <2>3. ControlInv'
    BY <1>1, <1>5, <2>1
    DEF ControlInv, Loads, Saves, Syncs, Planners, PlanSteps, ExecuteSteps
  <2>4. Live' /\ ~Recording' /\ (Passed' => Passed)
    BY <1>1, <1>5, <2>1 DEF Live, Recording, Passed, Loads, Saves, ExecuteSteps, PlanSteps
  <2>5. CopiesInv'
    BY <1>1, <2>1, <2>4, LevelOrder DEF CopiesInv
  <2>6. FitsInv'
    BY <1>1, <1>2, <2>1 DEF FitsInv
  <2>7. CutInv'
    BY <1>1, <2>1 DEF CutInv
  <2>8. TargetInv'
    BY <1>1, <2>1, <2>4 DEF TargetInv, Saves
  <2>9. OnceInv'
    BY <1>1, <2>1, <2>4 DEF OnceInv
  <2> QED BY <2>2, <2>3, <2>5, <2>6, <2>7, <2>8, <2>9
<1> QED BY <1>3, <1>4, <1>5

\* The first ban counts as an entry of the day; the queue leaves it room.
LEMMA RecordBanStep == RuntimeInv /\ RecordBan => RuntimeInv'
<1> SUFFICES ASSUME RuntimeInv, RecordBan PROVE RuntimeInv'
  OBVIOUS
<1> USE DEF RuntimeInv
<1>1. /\ pc = "health" /\ mem.ban = NeverBanned /\ pc' = "finish" /\ mem' = json'
      /\ json' = [json EXCEPT !.ban = 0, !.today = json.today + 1, !.session = 0]
      /\ db' = db /\ file' = file /\ ws' = ws /\ run' = run /\ cur' = cur
      /\ board' = board /\ interrupted' = interrupted /\ slots' = slots /\ beat' = beat
      /\ crashes' = crashes /\ run # "none"
  BY DEF RecordBan, Goto, world, TypeOK
<1>2. Live /\ ~Recording /\ Live' /\ ~Recording' /\ ~Keeping' /\ ~Passed'
  BY <1>1 DEF Live, Recording, Keeping, Passed, Loads, Saves, ExecuteSteps, PlanSteps
<1>3. json.ban = NeverBanned
  BY <1>1, <1>2 DEF CopiesInv, Level
<1>4. /\ json \in [jobs : {json.jobs}, touched : SUBSET Writes, voted : SUBSET Writes,
                   ban : NeverBanned..KillWindow, today : Nat,
                   session : 0..Cooldown, rest : [Kinds -> 0..Larger(Cooldown, Breaker)]]
      /\ IsQueue(json.jobs) /\ IsQueue(db) /\ IsQueue(file)
  BY MemoryParts DEF TypeOK, IsQueue
<1>5. /\ json'.jobs = json.jobs /\ json'.touched = json.touched
      /\ json'.ban = 0 /\ json'.today = json.today + 1
  BY <1>1, <1>4
<1>6. MemoryOK(json')
  <2>1. 0 \in NeverBanned..KillWindow /\ json.today + 1 \in Nat /\ 0 \in 0..Cooldown
    BY <1>4, RedditLimits
  <2>2. json' \in [jobs : {json.jobs}, touched : SUBSET Writes, voted : SUBSET Writes,
                   ban : NeverBanned..KillWindow, today : Nat,
                   session : 0..Cooldown, rest : [Kinds -> 0..Larger(Cooldown, Breaker)]]
    BY <1>1, <1>4, <2>1
  <2> QED BY <1>4, <1>5, <2>2 DEF MemoryOK, IsQueue
<1>7. \A jobs : IsQueue(jobs) /\ Fits(json, jobs) => Fits(json', jobs)
  <2> SUFFICES ASSUME NEW jobs, IsQueue(jobs), Fits(json, jobs) PROVE Fits(json', jobs)
    OBVIOUS
  <2>1. Room(jobs) \in 0..MaxJobs
    BY RoomOK
  <2>2. 0 + Room(jobs) < KillWindow
    BY <2>1, RedditLimits
  <2>3. json.today + 1 + Room(jobs) + 0 <= MaxPerDay + MaxJobs
    BY <1>3, <1>4, <2>1, RedditLimits DEF Fits
  <2>4. 0 # NeverBanned
    BY RedditLimits
  <2> QED BY <1>5, <2>2, <2>3, <2>4 DEF Fits
<1>8. TypeOK'
  BY <1>1, <1>6 DEF TypeOK
<1>9. ControlInv'
  BY <1>1 DEF ControlInv, Loads, Saves, Syncs, Planners, PlanSteps, ExecuteSteps
<1>10. CopiesInv'
  BY <1>1, <1>2, LevelOrder DEF CopiesInv
<1>11. FitsInv'
  BY <1>1, <1>2, <1>4, <1>5, <1>7 DEF FitsInv
<1>12. CutInv'
  BY <1>1, <1>2 DEF CutInv
<1>13. TargetInv'
  BY <1>1, <1>2 DEF TargetInv, Saves
<1>14. OnceInv'
  BY <1>1, <1>2, <1>5 DEF OnceInv
<1> QED BY <1>8, <1>9, <1>10, <1>11, <1>12, <1>13, <1>14

LEMMA ClearQueueStep == RuntimeInv /\ ClearQueue => RuntimeInv'
<1> SUFFICES ASSUME RuntimeInv, ClearQueue PROVE RuntimeInv'
  OBVIOUS
<1>1. /\ Live /\ ~Recording /\ pc = "health" /\ MemoryOK(mem) /\ Fits(mem, mem.jobs)
      /\ IsQueue(mem.jobs) /\ UNCHANGED <<db, file, ws, run, cur, world>>
  <2>1. Live /\ ~Recording /\ pc = "health"
    BY DEF ClearQueue, Live, Loads, Recording, Saves
  <2> QED BY <2>1, MemoryParts DEF RuntimeInv, TypeOK, FitsInv, ClearQueue
<1>2. CASE DOMAIN mem.jobs = {}
  <2>1. pc' = "finish" /\ UNCHANGED <<stores, mem, ws, world>> /\ run' = run /\ cur' = cur
    BY <1>1, <1>2 DEF ClearQueue, Goto, stores
  <2> QED BY <1>1, <2>1, MoveStep
<1>3. CASE DOMAIN mem.jobs # {}
  <2>1. PICK s : s = [mem EXCEPT !.jobs = NoJobs]
    OBVIOUS
  <2>2. json' = s /\ Sync(s, "finish")
    BY <1>3, <2>1 DEF ClearQueue
  <2>3. MemoryOK(s) /\ s.jobs = NoJobs /\ Level(s, mem)
    BY <1>1, <2>1, NoQueue, WithJobs
  <2>4. Fits(s, s.jobs) /\ Cardinality(DOMAIN s.jobs) <= MaxJobs /\ Level(mem, s)
    <3>1. Fits(mem, NoJobs)
      BY <1>1, FitsNone
    <3>2. Fits(s, NoJobs)
      BY <1>1, <2>3, <3>1, NoQueue, FitsSame
    <3> QED BY <2>3, <3>2, NoQueue, LevelOrder, RedditLimits
  <2> QED BY <1>1, <2>2, <2>3, <2>4, SyncStep
<1> QED BY <1>2, <1>3

LEMMA SnapshotStep == RuntimeInv /\ Snapshot => RuntimeInv'
<1> SUFFICES ASSUME RuntimeInv, Snapshot PROVE RuntimeInv'
  OBVIOUS
<1>1. Live /\ ~Recording /\ pc = "snapshot" /\ Sync(mem, "end")
      /\ UNCHANGED <<db, file, ws, run, cur, world>> /\ json' = json
  BY DEF Snapshot, Live, Loads, Recording, Saves, stores
<1>2. MemoryOK(mem) /\ Fits(mem, mem.jobs) /\ Cardinality(DOMAIN mem.jobs) <= MaxJobs
      /\ Level(mem, mem)
  BY <1>1, LevelOrder DEF RuntimeInv, TypeOK, FitsInv, CutInv
<1> QED BY <1>1, <1>2, SyncStep

----------------------------------------------------------------------------
\* Executing.

\* A memory whose jobs were changed in place.
LEMMA ChangedInPlace ==
  ASSUME RuntimeInv, Live, ~Recording, pc \notin {"enqueue", "finish", "reload"},
         NEW jobs, IsQueue(jobs), DOMAIN jobs = DOMAIN mem.jobs,
         NEW s, s = [mem EXCEPT !.jobs = jobs]
  PROVE  /\ MemoryOK(s) /\ s.jobs = jobs /\ Fits(s, s.jobs)
         /\ Cardinality(DOMAIN s.jobs) <= MaxJobs
         /\ Level(json, s) /\ Behind(json, s)
<1>1. /\ MemoryOK(mem) /\ MemoryOK(json) /\ IsQueue(mem.jobs) /\ Fits(mem, mem.jobs)
      /\ Cardinality(DOMAIN mem.jobs) <= MaxJobs /\ Level(json, mem)
  BY MemoryParts DEF RuntimeInv, TypeOK, FitsInv, CutInv, CopiesInv
<1>2. MemoryOK(s) /\ s.jobs = jobs /\ Level(s, mem)
  BY <1>1, WithJobs
<1>3. Fits(s, jobs)
  BY <1>1, <1>2, FitsBehind
<1> QED BY <1>1, <1>2, <1>3, LevelOrder

LEMMA ExecuteNoneStep == RuntimeInv /\ ExecuteNone => RuntimeInv'
<1> SUFFICES ASSUME RuntimeInv, ExecuteNone PROVE RuntimeInv'
  OBVIOUS
<1>1. /\ pc = "execute" /\ Live /\ ~Recording
      /\ IsQueue(mem.jobs) /\ mem.rest \in [Kinds -> Int] /\ TypeOK
      /\ UNCHANGED <<stores, ws, run, cur, world>>
  BY MemoryParts DEF ExecuteNone, RuntimeInv, TypeOK, Live, Loads, Recording, Saves
<1>2. PICK jobs : jobs = Postpone(RecoverStale(mem.jobs), Due(RecoverStale(mem.jobs)), mem.rest)
  OBVIOUS
<1>3. IsQueue(jobs) /\ DOMAIN jobs = DOMAIN mem.jobs
  <2>1. IsQueue(RecoverStale(mem.jobs)) /\ DOMAIN RecoverStale(mem.jobs) = DOMAIN mem.jobs
    BY <1>1, RecoverStaleQueue
  <2>2. PICK due : due = Due(RecoverStale(mem.jobs))
    OBVIOUS
  <2> QED BY <1>1, <1>2, <2>1, <2>2, PostponeQueue
<1>4. PICK s : s = [mem EXCEPT !.jobs = jobs]
  OBVIOUS
<1>5. PICK next : next = IF run = "session" THEN "plan" ELSE "finish"
  OBVIOUS
<1>6. Save(s, next)
  BY <1>2, <1>4, <1>5 DEF ExecuteNone, SaveAndGoOn
<1>7. /\ MemoryOK(s) /\ s.jobs = jobs /\ Fits(s, s.jobs)
      /\ Cardinality(DOMAIN s.jobs) <= MaxJobs
      /\ Level(json, s) /\ Behind(json, s)
  BY <1>1, <1>3, <1>4, ChangedInPlace
<1>8. /\ UNCHANGED <<stores, ws, run, board, slots, beat, crashes>> /\ cur' \subseteq Targets
      /\ Cardinality(cur') <= 1 /\ interrupted \subseteq interrupted' /\ interrupted' \subseteq Writes
  BY <1>1 DEF world, TypeOK
<1>9. pc # "answer" /\ pc \in ExecuteSteps
  BY <1>1 DEF ExecuteSteps
<1> QED BY <1>1, <1>5, <1>6, <1>7, <1>8, <1>9, SaveStep

LEMMA ExecuteStep == RuntimeInv /\ Execute => RuntimeInv'
<1> SUFFICES ASSUME RuntimeInv, Execute PROVE RuntimeInv'
  OBVIOUS
<1>1. /\ pc = "execute" /\ Live /\ ~Recording
      /\ IsQueue(mem.jobs) /\ mem.rest \in [Kinds -> Int] /\ TypeOK
      /\ UNCHANGED <<stores, ws, run, world>>
  BY MemoryParts DEF Execute, RuntimeInv, TypeOK, Live, Loads, Recording, Saves
<1>2. PICK p \in Picks(RecoverStale(mem.jobs), mem.rest) :
        /\ Save([mem EXCEPT !.jobs =
                   Select(Postpone(RecoverStale(mem.jobs), p[2], mem.rest), p[1])], "publish")
        /\ cur' = {p[1]}
  BY <1>1, MemoryParts DEF Execute, RuntimeInv, TypeOK
<1>3. PICK old : old = Postpone(RecoverStale(mem.jobs), p[2], mem.rest)
  OBVIOUS
<1>4. IsQueue(old) /\ DOMAIN old = DOMAIN mem.jobs /\ DOMAIN RecoverStale(mem.jobs) = DOMAIN mem.jobs
  <2>1. IsQueue(RecoverStale(mem.jobs)) /\ DOMAIN RecoverStale(mem.jobs) = DOMAIN mem.jobs
    BY <1>1, RecoverStaleQueue
  <2> QED BY <1>1, <1>3, <2>1, PostponeQueue
<1>5. p[1] \in DOMAIN mem.jobs
  BY <1>4 DEF Picks, Due, InStatus
<1>6. PICK jobs : jobs = Select(old, p[1])
  OBVIOUS
<1>7. IsQueue(jobs) /\ DOMAIN jobs = DOMAIN mem.jobs
  BY <1>4, <1>5, <1>6, SelectQueue
<1>8. PICK s : s = [mem EXCEPT !.jobs = jobs]
  OBVIOUS
<1>9. Save(s, "publish")
  BY <1>2, <1>3, <1>6, <1>8
<1>10. /\ MemoryOK(s) /\ s.jobs = jobs /\ Fits(s, s.jobs)
       /\ Cardinality(DOMAIN s.jobs) <= MaxJobs
       /\ Level(json, s) /\ Behind(json, s)
  BY <1>1, <1>7, <1>8, ChangedInPlace
<1>11. /\ UNCHANGED <<stores, ws, run, board, slots, beat, crashes>>
       /\ interrupted \subseteq interrupted' /\ interrupted' \subseteq Writes
  BY <1>1 DEF world, TypeOK
<1>12. cur' \subseteq Targets /\ Cardinality(cur') <= 1 /\ cur' \subseteq DOMAIN s.jobs
  <2>1. p[1] \in Targets /\ p[1] \in DOMAIN s.jobs
    BY <1>1, <1>5, <1>7, <1>10 DEF IsQueue, IsTable
  <2>2. Cardinality({p[1]}) = 1
    BY FS_Singleton
  <2> QED BY <1>2, <2>1, <2>2
<1>13. pc # "answer" /\ pc \in ExecuteSteps
  BY <1>1 DEF ExecuteSteps
<1> QED BY <1>1, <1>9, <1>10, <1>11, <1>12, <1>13, SaveStep

\* A request may be carried out only for a reply that was not published, or whose
\* record was prevented before.
LEMMA PublishStep == RuntimeInv /\ Publish => RuntimeInv'
<1> SUFFICES ASSUME RuntimeInv, Publish PROVE RuntimeInv'
  OBVIOUS
<1> USE DEF RuntimeInv
<1>1. /\ pc = "publish" /\ pc' = "answer"
      /\ board' = [t \in Writes |-> IF t \in cur THEN Smaller(board[t] + 1, MaxBoard) ELSE board[t]]
      /\ db' = db /\ file' = file /\ json' = json /\ mem' = mem /\ ws' = ws /\ run' = run
      /\ cur' = cur /\ interrupted' = interrupted /\ slots' = slots /\ beat' = beat
      /\ crashes' = crashes /\ run # "none"
  BY DEF Publish, Goto, stores, TypeOK
<1>2. Live /\ ~Recording /\ Live' /\ ~Recording' /\ (Keeping' <=> Keeping) /\ (Passed' <=> Passed)
  BY <1>1 DEF Live, Recording, Keeping, Passed, Loads, Saves, ExecuteSteps, PlanSteps
<1>3. board \in [Writes -> 0..MaxBoard] /\ board' \in [Writes -> 0..MaxBoard]
  <2>1. board \in [Writes -> 0..MaxBoard]
    BY DEF TypeOK
  <2>2. ASSUME NEW t \in Writes PROVE Smaller(board[t] + 1, MaxBoard) \in 0..MaxBoard
    BY <2>1, RedditLimits DEF Smaller
  <2> QED BY <1>1, <2>1, <2>2
<1>4. TypeOK'
  BY <1>1, <1>3 DEF TypeOK
<1>5. ControlInv'
  BY <1>1 DEF ControlInv, Loads, Saves, Syncs, Planners, PlanSteps, ExecuteSteps
<1>6. CopiesInv'
  BY <1>1, <1>2 DEF CopiesInv
<1>7. FitsInv'
  BY <1>1, <1>2 DEF FitsInv
<1>8. CutInv'
  BY <1>1, <1>2 DEF CutInv
<1>9. TargetInv'
  BY <1>1, <1>2 DEF TargetInv, Saves
<1>10. cur \cap json.touched = {}
  <2>1. cur \subseteq DOMAIN mem.jobs /\ mem.touched \cap DOMAIN mem.jobs = {}
        /\ json.touched = mem.touched
    BY <1>1, <1>2 DEF TargetInv, FitsInv, Fits, CopiesInv, Level
  <2> QED BY <2>1
<1>11. OnceInv'
  <2> SUFFICES ASSUME NEW w \in Writes \ interrupted
               PROVE  \/ board'[w] = 0
                      \/ board'[w] = 1 /\ (w \in json'.touched \/ (pc' = "answer" /\ cur' = {w}))
    BY <1>1 DEF OnceInv
  <2>1. CASE w \in cur
    <3>1. board[w] = 0
      BY <1>1, <1>2, <1>10, <2>1 DEF OnceInv
    <3>2. board'[w] = 1
      BY <1>1, <2>1, <3>1, RedditLimits DEF Smaller
    <3>3. cur = {w}
      <4>1. cur \subseteq Targets /\ Cardinality(cur) <= 1 /\ IsFiniteSet(cur)
        BY TargetsFinite, SmallerSet DEF TypeOK
      <4>2. ASSUME NEW x \in cur, x # w PROVE FALSE
        <5>1. {x, w} \subseteq cur
          BY <2>1, <4>2
        <5>2. Cardinality({x, w}) = 2
          <6>1. IsFiniteSet({w}) /\ Cardinality({w}) = 1
            BY FS_Singleton
          <6>2. Cardinality({w} \cup {x}) = Cardinality({w}) + 1
            BY <4>2, <6>1, FS_AddElement
          <6>3. {x, w} = {w} \cup {x}
            OBVIOUS
          <6> QED BY <6>1, <6>2, <6>3
        <5>3. Cardinality({x, w}) <= Cardinality(cur) /\ Cardinality(cur) \in Nat
          BY <4>1, <5>1, SmallerSet
        <5> QED BY <4>1, <5>2, <5>3
      <4> QED BY <2>1, <4>2
    <3> QED BY <1>1, <3>2, <3>3
  <2>2. CASE w \notin cur
    <3>1. board'[w] = board[w]
      BY <1>1, <2>2
    <3> QED BY <1>1, <1>2, <3>1 DEF OnceInv
  <2> QED BY <2>1, <2>2
<1> QED BY <1>4, <1>5, <1>6, <1>7, <1>8, <1>9, <1>11

\* The record of a publication, before it is saved.
LEMMA PublishedStep == RuntimeInv /\ Published => RuntimeInv'
<1> SUFFICES ASSUME RuntimeInv, Published PROVE RuntimeInv'
  OBVIOUS
<1>1. /\ pc = "answer" /\ Live /\ ~Recording /\ TypeOK
      /\ UNCHANGED <<stores, ws, run, cur, world>>
  BY DEF Published, RuntimeInv, Live, Loads, Recording, Saves
<1>2. PICK t \in cur, rest \in {Cooldown, Breaker} : Save(Recorded(mem, t, rest), "finish")
  BY DEF Published
<1>3. t \in DOMAIN mem.jobs
  BY <1>1, <1>2 DEF RuntimeInv, TargetInv
<1>4. PICK s : s = Recorded(mem, t, rest)
  OBVIOUS
<1>5. /\ MemoryOK(mem) /\ MemoryOK(json) /\ Fits(mem, mem.jobs) /\ Level(json, mem)
      /\ Cardinality(DOMAIN mem.jobs) <= MaxJobs
  BY <1>1 DEF RuntimeInv, TypeOK, FitsInv, CutInv, CopiesInv
<1>6. /\ MemoryOK(s) /\ Fits(s, s.jobs) /\ Cardinality(DOMAIN s.jobs) <= MaxJobs
      /\ Behind(mem, s) /\ s.touched = mem.touched \cup ({t} \cap Writes)
  BY <1>3, <1>4, <1>5, RecordedOK
<1>7. Behind(json, s)
  BY <1>5, <1>6, LevelOrder
<1>8. Save(s, "finish")
  BY <1>2, <1>4
<1>9. /\ UNCHANGED <<stores, ws, run, board, slots, beat, crashes>> /\ cur' = cur
      /\ cur' \subseteq Targets /\ Cardinality(cur') <= 1
      /\ interrupted \subseteq interrupted' /\ interrupted' \subseteq Writes
  BY <1>1 DEF world, TypeOK
<1>10. \A w \in Writes : cur = {w} => w \in s.touched
  BY <1>2, <1>6
<1> QED BY <1>1, <1>6, <1>7, <1>8, <1>9, <1>10, SaveStep

\* A failed attempt leaves the history as it is.
LEMMA FailedStep == RuntimeInv /\ (Refused \/ AnswerLost) => RuntimeInv'
<1> SUFFICES ASSUME RuntimeInv, Refused \/ AnswerLost PROVE RuntimeInv'
  OBVIOUS
<1>1. /\ pc \in {"publish", "answer"} /\ Live /\ ~Recording /\ TypeOK /\ Failed
      /\ pc \in ExecuteSteps
      /\ UNCHANGED <<stores, ws, run, cur, board, slots, beat, crashes>>
  BY DEF Refused, AnswerLost, RuntimeInv, Live, Loads, Recording, Saves, world, ExecuteSteps
<1>2. PICK t \in cur, retryable \in BOOLEAN :
        \E job \in Requeued(mem.jobs[t], retryable) :
          LET s == [mem EXCEPT !.jobs[t] = job]
          IN IF job.status = "queued" THEN SaveAndGoOn(s) ELSE Save(s, "finish")
  BY <1>1 DEF Failed
<1>3. PICK job \in Requeued(mem.jobs[t], retryable) :
        LET s == [mem EXCEPT !.jobs[t] = job]
        IN IF job.status = "queued" THEN SaveAndGoOn(s) ELSE Save(s, "finish")
  BY <1>2
<1>4. t \in DOMAIN mem.jobs /\ IsQueue(mem.jobs) /\ mem.jobs[t] \in Job
  BY <1>1, MemoryParts DEF RuntimeInv, TargetInv, TypeOK, IsQueue, IsTable
<1>5. job \in Job
  BY <1>4, RequeuedOK
<1>6. PICK jobs : jobs = [mem.jobs EXCEPT ![t] = job]
  OBVIOUS
<1>7. IsQueue(jobs) /\ DOMAIN jobs = DOMAIN mem.jobs
  BY <1>4, <1>5, <1>6, ReplaceQueue
<1>8. PICK s : s = [mem EXCEPT !.jobs = jobs]
  OBVIOUS
<1>9. /\ MemoryOK(s) /\ s.jobs = jobs /\ Fits(s, s.jobs)
      /\ Cardinality(DOMAIN s.jobs) <= MaxJobs
      /\ Level(json, s) /\ Behind(json, s)
  BY <1>1, <1>7, <1>8, ChangedInPlace
<1>10. [mem EXCEPT !.jobs[t] = job] = s
  BY <1>1, <1>6, <1>8, MemoryParts DEF TypeOK
<1>11. Save(s, "finish") \/ (Save(s, "plan") /\ run = "session")
  BY <1>3, <1>10 DEF SaveAndGoOn
<1>12. /\ cur' \subseteq Targets /\ Cardinality(cur') <= 1
       /\ interrupted \subseteq interrupted' /\ interrupted' \subseteq Writes
       /\ pc = "answer" => cur \cap Writes \subseteq interrupted'
  BY <1>1 DEF Refused, AnswerLost, world, TypeOK
<1>13. CASE Save(s, "finish")
  BY <1>1, <1>9, <1>12, <1>13, SaveStep
<1>14. CASE Save(s, "plan") /\ run = "session"
  BY <1>1, <1>9, <1>12, <1>14, SaveStep
<1> QED BY <1>11, <1>13, <1>14

----------------------------------------------------------------------------
\* Planning.

LEMMA NoPlanStep ==
  RuntimeInv /\ (NothingPlanned \/ DraftFails \/ Draft \/ AlreadyQueued) => RuntimeInv'
<1> SUFFICES ASSUME RuntimeInv, NothingPlanned \/ DraftFails \/ Draft \/ AlreadyQueued
             PROVE  RuntimeInv'
  OBVIOUS
<1>1. /\ pc \in PlanSteps /\ UNCHANGED <<stores, mem, ws, world>> /\ run' = run /\ cur' = cur
      /\ pc' \in {"finish", "enqueue", "reload"}
      /\ pc' = "enqueue" => pc = "draft"
      /\ pc' = "reload" => run = "session"
  BY DEF NothingPlanned, DraftFails, Draft, AlreadyQueued, Goto, Queued, PlanSteps
<1>2. Live /\ ~Recording /\ pc # "answer"
  BY <1>1 DEF Live, Loads, Recording, Saves, PlanSteps
<1> QED BY <1>1, <1>2, MoveStep

\* A session that executed nothing plans with the copy it had before.
LEMMA PlanStep == RuntimeInv /\ Plan => RuntimeInv'
<1> SUFFICES ASSUME RuntimeInv, Plan PROVE RuntimeInv'
  OBVIOUS
<1> USE DEF RuntimeInv
<1>1. /\ pc = "plan" /\ pc' = "discover" /\ mem' = ws /\ cur' = {} /\ then' = then
      /\ db' = db /\ file' = file /\ json' = json /\ ws' = ws /\ run' = run /\ board' = board
      /\ interrupted' = interrupted /\ slots' = slots /\ beat' = beat /\ crashes' = crashes
      /\ run = "session"
  BY DEF Plan, Goto, stores, world, ControlInv
<1>2. Live /\ Keeping /\ Passed /\ ~Recording /\ ~Recording' /\ ~Keeping'
  BY <1>1 DEF Live, Keeping, Passed, Recording, Loads, Saves, ExecuteSteps, PlanSteps, Planners
<1>3. Level(json, mem) /\ Level(mem, ws) /\ Level(json, ws) /\ mem.ban = NeverBanned
  BY <1>1, <1>2, LevelOrder DEF CopiesInv, TargetInv
<1>4. TypeOK'
  BY <1>1, FS_EmptySet DEF TypeOK
<1>5. ControlInv'
  BY <1>1 DEF ControlInv, Loads, Saves, Syncs, Planners, PlanSteps, ExecuteSteps
<1>6. CopiesInv'
  BY <1>1, <1>2, <1>3 DEF CopiesInv
<1>7. FitsInv'
  BY <1>1, <1>2 DEF FitsInv
<1>8. CutInv'
  BY <1>1, <1>2 DEF CutInv
<1>9. TargetInv'
  BY <1>1, <1>3 DEF TargetInv, Saves, Level
<1>10. OnceInv'
  BY <1>1, <1>2 DEF OnceInv
<1> QED BY <1>4, <1>5, <1>6, <1>7, <1>8, <1>9, <1>10

LEMMA PlanActionStep == RuntimeInv /\ PlanAction => RuntimeInv'
<1> SUFFICES ASSUME RuntimeInv, PlanAction PROVE RuntimeInv'
  OBVIOUS
<1> USE DEF RuntimeInv
<1>1. /\ pc = "discover" /\ pc' = "draft" /\ then' = then /\ ~DayIsFull(mem)
      /\ db' = db /\ file' = file /\ json' = json /\ mem' = mem /\ ws' = ws /\ run' = run
      /\ board' = board /\ interrupted' = interrupted /\ slots' = slots /\ beat' = beat
      /\ crashes' = crashes /\ run # "none"
  BY DEF PlanAction, Goto, stores, world, TypeOK
<1>2. PICK w \in Writes \ mem.touched : cur' = {w}
  BY DEF PlanAction, Candidates
<1>3. Live /\ ~Recording /\ ~Recording' /\ ~Keeping' /\ (Passed' <=> Passed)
  BY <1>1 DEF Live, Keeping, Passed, Recording, Loads, Saves, ExecuteSteps, PlanSteps, Planners
<1>4. cur' \subseteq Targets /\ Cardinality(cur') <= 1
  <2>1. Cardinality({w}) = 1
    BY FS_Singleton
  <2> QED BY <1>2, <2>1 DEF Targets
<1>5. TypeOK'
  BY <1>1, <1>4 DEF TypeOK
<1>6. ControlInv'
  BY <1>1 DEF ControlInv, Loads, Saves, Syncs, Planners, PlanSteps, ExecuteSteps
<1>7. CopiesInv'
  BY <1>1, <1>3 DEF CopiesInv
<1>8. FitsInv'
  BY <1>1, <1>3 DEF FitsInv
<1>9. CutInv'
  BY <1>1, <1>3 DEF CutInv
<1>10. TargetInv'
  BY <1>1, <1>2, <1>3 DEF TargetInv, Saves, DayIsFull
<1>11. OnceInv'
  BY <1>1, <1>3 DEF OnceInv
<1> QED BY <1>5, <1>6, <1>7, <1>8, <1>9, <1>10, <1>11

\* A new job for a target among the queued jobs.
LEMMA EnqueuedOK ==
  ASSUME NEW jobs, IsQueue(jobs), NEW t \in Targets, NEW delay \in StartDelays,
         NEW rest \in Int, NEW new, new = Enqueued(jobs, t, delay, rest)
  PROVE  IsQueue(new) /\ DOMAIN new = DOMAIN jobs \cup {t}
<1>1. [u \in {t} |-> NewJob(delay, rest)] \in [{t} -> Job]
  BY NewJobOK
<1> QED BY <1>1, MergeQueue DEF Enqueued

LEMMA UpvoteStep == RuntimeInv /\ DraftAndUpvote => RuntimeInv'
<1> SUFFICES ASSUME RuntimeInv, DraftAndUpvote PROVE RuntimeInv'
  OBVIOUS
<1> USE DEF RuntimeInv
<1>1. /\ pc = "draft" /\ pc' = "enqueue" /\ then' = then /\ json' = mem'
      /\ db' = db /\ file' = file /\ ws' = ws /\ run' = run /\ cur' = cur
      /\ board' = board /\ interrupted' = interrupted /\ slots' = slots /\ beat' = beat
      /\ crashes' = crashes /\ run # "none"
  BY DEF DraftAndUpvote, Goto, world, TypeOK
<1>2. /\ MemoryOK(mem) /\ MemoryOK(json) /\ IsQueue(mem.jobs) /\ IsQueue(db) /\ IsQueue(file)
      /\ mem.rest["vote"] \in Int
  BY MemoryParts DEF TypeOK, IsQueue, Kinds
<1>3. PICK v \in Votes \ DOMAIN mem.jobs, delay \in StartDelays :
        mem' = [mem EXCEPT !.jobs = Enqueued(mem.jobs, v, delay, mem.rest["vote"])]
  BY <1>2, MemoryParts DEF DraftAndUpvote
<1>4. PICK jobs : jobs = Enqueued(mem.jobs, v, delay, mem.rest["vote"])
  OBVIOUS
<1>5. v \in Targets /\ v \notin Writes
  BY QueueAssumption DEF Targets
<1>6. IsQueue(jobs) /\ DOMAIN jobs = DOMAIN mem.jobs \cup {v}
  BY <1>2, <1>4, <1>5, EnqueuedOK
<1>7. MemoryOK(mem') /\ mem'.jobs = jobs /\ Level(mem', mem)
  BY <1>2, <1>3, <1>4, <1>6, WithJobs
<1>8. Live /\ ~Recording /\ Live' /\ ~Recording' /\ ~Keeping' /\ (Passed' <=> Passed)
      /\ run \in Planners
  BY <1>1 DEF Live, Keeping, Passed, Recording, Loads, Saves, ExecuteSteps, PlanSteps, ControlInv
<1>9. /\ Level(json, mem) /\ cur \subseteq Writes \ mem.touched /\ ~DayIsFull(mem)
      /\ mem.ban = NeverBanned /\ Fits(mem, mem.jobs)
  BY <1>1, <1>8 DEF CopiesInv, TargetInv, FitsInv, Passed, PlanSteps
<1>10. Level(json', json)
  BY <1>1, <1>7, <1>9, LevelOrder
<1>11. Fits(mem', jobs)
  <2>1. /\ mem'.touched = mem.touched /\ mem'.today = mem.today /\ mem'.ban = mem.ban
        /\ mem.touched \subseteq Writes /\ mem.today \in Nat
    BY <1>2, <1>7, MemoryParts DEF Level
  <2>2. mem'.touched \cap DOMAIN jobs = {}
    BY <1>5, <1>6, <1>9, <2>1 DEF Fits
  <2>3. mem'.today < MaxPerDay
    BY <1>9, <2>1, RedditLimits DEF DayIsFull
  <2> QED BY <1>6, <1>7, <1>9, <2>1, <2>2, <2>3, FitsToday
<1>12. TypeOK'
  BY <1>1, <1>7 DEF TypeOK
<1>13. ControlInv'
  BY <1>1, <1>8 DEF ControlInv, Loads, Saves, Syncs, PlanSteps, ExecuteSteps
<1>14. CopiesInv'
  BY <1>1, <1>8, LevelOrder DEF CopiesInv
<1>15. FitsInv'
  <2>1. Fits(json', db) /\ Fits(json', file)
    BY <1>1, <1>2, <1>7, <1>10, FitsSame DEF FitsInv
  <2> QED BY <1>1, <1>7, <1>8, <1>11, <2>1 DEF FitsInv
<1>16. CutInv'
  BY <1>1, <1>8 DEF CutInv
<1>17. TargetInv'
  BY <1>1, <1>7, <1>9 DEF TargetInv, Saves, Level, DayIsFull
<1>18. OnceInv'
  BY <1>1, <1>8, <1>10 DEF OnceInv, Level
<1> QED BY <1>12, <1>13, <1>14, <1>15, <1>16, <1>17, <1>18

LEMMA EnqueueStep == RuntimeInv /\ Enqueue => RuntimeInv'
<1> SUFFICES ASSUME RuntimeInv, Enqueue PROVE RuntimeInv'
  OBVIOUS
<1>1. /\ pc = "enqueue" /\ Live /\ ~Recording /\ TypeOK /\ run \in Planners /\ Passed
      /\ UNCHANGED <<stores, ws, run, cur, world>>
  BY DEF Enqueue, RuntimeInv, Live, Loads, Recording, Saves, Passed, PlanSteps, ControlInv
<1>2. /\ MemoryOK(mem) /\ MemoryOK(json) /\ IsQueue(mem.jobs) /\ mem.rest["write"] \in Int
      /\ mem.today \in Nat
  BY <1>1, MemoryParts DEF TypeOK, Kinds
<1>3. /\ Level(json, mem) /\ cur \subseteq Writes \ mem.touched /\ ~DayIsFull(mem)
      /\ mem.ban = NeverBanned /\ Fits(mem, mem.jobs)
  BY <1>1 DEF RuntimeInv, CopiesInv, TargetInv, FitsInv
<1>4. PICK t \in cur \ Active(mem.jobs), delay \in StartDelays :
        \E jobs \in Cuts(Enqueued(mem.jobs, t, delay, mem.rest["write"])) :
          \E next \in Queued : Save([mem EXCEPT !.jobs = jobs], next)
  BY DEF Enqueue
<1>5. PICK all : all = Enqueued(mem.jobs, t, delay, mem.rest["write"])
  OBVIOUS
<1>6. PICK left \in Cuts(all), next \in Queued : Save([mem EXCEPT !.jobs = left], next)
  BY <1>4, <1>5
<1>7. t \in Targets /\ t \notin mem.touched
  BY <1>1, <1>3 DEF TypeOK
<1>8. IsQueue(all) /\ DOMAIN all = DOMAIN mem.jobs \cup {t}
  <2>1. t \in Targets /\ delay \in StartDelays /\ IsQueue(mem.jobs) /\ mem.rest["write"] \in Int
    BY <1>2, <1>7
  <2>2. PICK old, rest : old = mem.jobs /\ rest = mem.rest["write"]
    OBVIOUS
  <2>3. t \in Targets /\ delay \in StartDelays /\ IsQueue(old) /\ rest \in Int
        /\ all = Enqueued(old, t, delay, rest)
    BY <1>5, <2>1, <2>2
  <2>4. IsQueue(all) /\ DOMAIN all = DOMAIN old \cup {t}
    BY ONLY <2>3, EnqueuedOK
  <2> QED BY <2>2, <2>4
<1>9. IsQueue(left) /\ DOMAIN left \subseteq DOMAIN all /\ Cardinality(DOMAIN left) <= MaxJobs
  BY <1>8, CutQueue
<1>10. PICK s : s = [mem EXCEPT !.jobs = left]
  OBVIOUS
<1>11. MemoryOK(s) /\ s.jobs = left /\ Level(s, mem)
  BY <1>2, <1>9, <1>10, WithJobs
<1>12. Fits(s, s.jobs)
  <2>1. s.touched = mem.touched /\ s.today = mem.today /\ s.ban = mem.ban
    BY <1>11 DEF Level
  <2>2. s.touched \cap DOMAIN left = {}
    BY <1>3, <1>7, <1>8, <1>9, <2>1 DEF Fits
  <2>3. s.today < MaxPerDay
    BY <1>2, <1>3, <2>1, RedditLimits DEF DayIsFull
  <2> QED BY <1>3, <1>9, <1>11, <2>1, <2>2, <2>3, FitsToday
<1>13. Level(json, s) /\ Behind(json, s)
  BY <1>2, <1>3, <1>11, LevelOrder
<1>14. Save(s, next) /\ (next = "finish" \/ (next = "reload" /\ run = "session"))
  BY <1>6, <1>10 DEF Queued
<1>15. /\ UNCHANGED <<stores, ws, run, board, slots, beat, crashes>> /\ cur' \subseteq Targets
       /\ Cardinality(cur') <= 1 /\ interrupted \subseteq interrupted'
       /\ interrupted' \subseteq Writes /\ pc # "answer"
  BY <1>1 DEF world, TypeOK
<1>16. Cardinality(DOMAIN s.jobs) <= MaxJobs
  BY <1>9, <1>11
<1> QED BY <1>1, <1>11, <1>12, <1>13, <1>14, <1>15, <1>16, SaveStep

----------------------------------------------------------------------------
\* The invariant, and what follows from it.

LEMMA RuntimeInitially == Init => RuntimeInv
<1> SUFFICES ASSUME Init PROVE RuntimeInv
  OBVIOUS
<1>1. MemoryOK(json) /\ MemoryOK(mem) /\ MemoryOK(ws)
  BY EmptyOK DEF Init
<1>2. \A jobs \in {db, file, json.jobs} :
        IsQueue(jobs) /\ Cardinality(DOMAIN jobs) <= MaxJobs /\ jobs = NoJobs
  BY NoQueue, RedditLimits DEF Init, EmptyMemory
<1>3. TypeOK
  <2>1. board \in [Writes -> 0..MaxBoard] /\ slots \in 0..Slots /\ crashes \in 0..MaxCrashes
    BY RedditLimits DEF Init
  <2>2. cur \subseteq Targets /\ Cardinality(cur) <= 1
    BY FS_EmptySet DEF Init
  <2> QED BY <1>1, <1>2, <2>1, <2>2 DEF Init, TypeOK, Runs, IsQueue
<1>4. ControlInv
  BY DEF Init, ControlInv, Loads, Saves, Syncs, PlanSteps, ExecuteSteps
<1>5. ~Live /\ ~Keeping /\ ~Recording /\ ~Passed
  BY DEF Init, Live, Keeping, Recording, Passed, Saves, ExecuteSteps, PlanSteps, Planners
<1>6. CopiesInv
  BY <1>5 DEF Init, CopiesInv
<1>7. FitsInv
  <2>1. json.touched = {} /\ json.ban = NeverBanned /\ json.today = 0
    BY DEF Init, EmptyMemory
  <2>2. Fits(json, NoJobs)
    BY <1>1, <2>1, NoQueue, FitsToday, RedditLimits
  <2> QED BY <1>2, <1>5, <2>2 DEF FitsInv
<1>8. CutInv
  BY <1>5 DEF CutInv
<1>9. TargetInv
  BY <1>5 DEF Init, TargetInv, Saves
<1>10. OnceInv
  BY DEF Init, OnceInv
<1> QED BY <1>3, <1>4, <1>6, <1>7, <1>8, <1>9, <1>10 DEF RuntimeInv

LEMMA RuntimeStutters == RuntimeInv /\ UNCHANGED vars => RuntimeInv'
<1> SUFFICES ASSUME RuntimeInv, UNCHANGED vars PROVE RuntimeInv'
  OBVIOUS
<1> USE DEF RuntimeInv, vars, stores, world
<1>1. TypeOK'
  BY DEF TypeOK
<1>2. ControlInv'
  BY DEF ControlInv
<1>3. CopiesInv'
  BY DEF CopiesInv, Live, Recording, Keeping
<1>4. FitsInv'
  BY DEF FitsInv, Live, Keeping
<1>5. CutInv'
  BY DEF CutInv, Live, Keeping
<1>6. TargetInv'
  BY DEF TargetInv, Passed, DayIsFull
<1>7. OnceInv'
  BY DEF OnceInv, Recording
<1> QED BY <1>1, <1>2, <1>3, <1>4, <1>5, <1>6, <1>7

LEMMA RuntimeStep == RuntimeInv /\ [Next]_vars => RuntimeInv'
<1> SUFFICES ASSUME RuntimeInv, [Next]_vars PROVE RuntimeInv'
  OBVIOUS
<1>1. CASE UNCHANGED vars
  BY <1>1, RuntimeStutters
<1>2. CASE StartExecutor \/ StartPlanner \/ Ending \/ Tick \/ Crash
  BY <1>2, StartStep, FinishStep, SnapshotStep, TickStep, CrashStep DEF Ending
<1>3. CASE Loading \/ Saving
  BY <1>3, HydrateStep, LoadStep, WriteDbStep, WriteFileStep, WriteJsonStep DEF Loading, Saving
<1>4. CASE Guarding
  BY <1>4, GuardStep, RecordBanStep, ClearQueueStep DEF Guarding
<1>5. CASE Executing
  BY <1>5, ExecuteNoneStep, ExecuteStep, PublishStep, PublishedStep, FailedStep DEF Executing
<1>6. CASE Planning
  BY <1>6, PlanStep, NoPlanStep, PlanActionStep, UpvoteStep, EnqueueStep, StartStep
  DEF Planning
<1> QED BY <1>1, <1>2, <1>3, <1>4, <1>5, <1>6 DEF Next, Step

\* The invariant of RedditRuntime with everything it rests on.
THEOREM RuntimeInvariant == Spec => []RuntimeInv
BY RuntimeInitially, RuntimeStep, PTL DEF Spec

\* The copies of the jobs and of the memory stay well formed through kills and
\* moves of the jobs, and what sqlite and state.json keep stays cut.
THEOREM RuntimeTypeCorrect == Spec => []TypeOK
<1>1. RuntimeInv => TypeOK
  BY DEF RuntimeInv
<1> QED BY <1>1, RuntimeInvariant, PTL

\* For any number of kills, posts and upvotes: a reply is published a second time
\* only after a kill or a lost answer prevented the record of the first.
THEOREM OnceCorrect == Spec => []OnceUnlessInterrupted
<1>1. RuntimeInv => OnceUnlessInterrupted
  <2> SUFFICES ASSUME RuntimeInv, NEW w \in Writes, w \notin interrupted
               PROVE  board[w] <= 1
    BY DEF OnceUnlessInterrupted
  <2>1. board[w] \in {0, 1}
    BY DEF RuntimeInv, OnceInv
  <2> QED BY <2>1
<1> QED BY <1>1, RuntimeInvariant, PTL

\* Whatever the limits are, as long as the kill switch looks at more entries than
\* the queue can hold: a ban stays in its window, and the cap of the day is exceeded
\* by no more than the jobs that were queued.
THEOREM LimitsCorrect == Spec => []ReplyLimits
<1>1. RuntimeInv => ReplyLimits
  <2> SUFFICES ASSUME RuntimeInv PROVE ReplyLimits
    OBVIOUS
  <2>1. Fits(json, db) /\ MemoryOK(json) /\ IsQueue(db)
    BY DEF RuntimeInv, FitsInv, TypeOK, IsQueue
  <2>2. Room(db) \in Nat /\ json.ban \in Int /\ json.today \in Nat
    BY <2>1, RoomOK, MemoryParts, RedditLimits
  <2>3. BanIsFinal
    BY <2>1, <2>2, RedditLimits DEF Fits, BanIsFinal
  <2>4. DayBound
    BY <2>1, <2>2, RedditLimits DEF Fits, DayBound
  <2> QED BY <2>3, <2>4 DEF ReplyLimits
<1> QED BY <1>1, RuntimeInvariant, PTL

\* A reply on record is never published again, whichever copy of the jobs a kill
\* leaves behind.
THEOREM RecordedCorrect == Spec => RecordedIsFinal
<1>1. RuntimeInv /\ [Next]_vars => [\A w \in json.touched : board'[w] = board[w]]_vars
  <2> SUFFICES ASSUME RuntimeInv, Next PROVE \A w \in json.touched : board'[w] = board[w]
    OBVIOUS
  <2>1. CASE Publish
    <3>1. pc = "publish" /\ Live /\ ~Recording
      BY <2>1 DEF Publish, Live, Loads, Recording, Saves
    <3>2. /\ cur \subseteq DOMAIN mem.jobs /\ mem.touched \cap DOMAIN mem.jobs = {}
          /\ json.touched = mem.touched
      BY <3>1 DEF RuntimeInv, TargetInv, FitsInv, Fits, CopiesInv, Level
    <3>3. json.touched \subseteq Writes
      BY MemoryParts DEF RuntimeInv, TypeOK
    <3> QED BY <2>1, <3>2, <3>3 DEF Publish
  <2>2. CASE ~Publish
    <3>1. board' = board
      BY <2>2
      DEF Next, Step, StartExecutor, StartPlanner, Loading, Saving, Guarding, Executing, Planning,
          Ending, Hydrate, HydrateFile, Load, WriteDb, WriteFile, WriteJson, CheckKillSwitch,
          Healthy, RecordBan, ClearQueue, ExecuteNone, Execute, Published, Refused, AnswerLost,
          Plan, NothingPlanned, PlanAction, DraftFails, Draft, DraftAndUpvote, AlreadyQueued,
          Enqueue, PublishNow, Finish, Snapshot, End, Tick, Crash, world
    <3> QED BY <3>1
  <2> QED BY <2>1, <2>2
<1> QED BY <1>1, RuntimeInvariant, PTL DEF Spec, RecordedIsFinal

----------------------------------------------------------------------------
\* The types of the variables, and what a step relies on.
ReplyTyped ==
  /\ phase \in {"draft", "undrafted", "queued", "failed", "check", "recorded"}
  /\ requests \in 0..MaxRequests /\ tries \in 0..MaxTries
  /\ content \in Text \cup {NoText} /\ hidden \in BOOLEAN
  /\ copies \in Seq(Copy) /\ doubts \in 0..tries
  /\ setup \in [controller : Controller, hook : BOOLEAN, locked : BOOLEAN]
  /\ target \in [kind : ReplyKind, echo : BOOLEAN]

\* Nothing was tried before a text is queued, and nothing is recorded before a try
\* succeeds.
Untried ==
  /\ phase \in {"draft", "undrafted"} => tries = 0 /\ copies = <<>> /\ doubts = 0
  /\ phase # "check" /\ phase # "recorded" => record = NoRecord
  /\ phase = "queued" => tries < MaxTries

\* What holds while a text is on its way holds when it is tried again.
Hopeful ==
  phase = "queued" =>
    (tries > 0 => setup.controller = "manual" \/ (HasAddress /\ ~VenueRefuses))

\* What a successful try leaves for the record.
Recordable ==
  phase \in {"check", "recorded"} =>
    /\ record.link = "own" => copies # <<>>
    /\ copies # <<>> \/ (setup.controller = "browser" /\ target.echo)
    /\ record \in [status : {"none", "posted", "spam_filtered"}, read : BOOLEAN,
                   link : {"none", "own", "echo", "post"}]

ReplyInv == ReplyTyped /\ Untried /\ Hopeful /\ Recordable /\ ReplyIsSound

----------------------------------------------------------------------------
\* The least element of a nonempty set of the places of rules.
LEMMA FirstPlace ==
  ASSUME NEW S \in SUBSET (1..6), S # {}
  PROVE  \E n \in S : \A m \in S : n <= m
<1>1. CASE 1 \in S
  BY <1>1
<1>2. CASE 1 \notin S /\ 2 \in S
  BY <1>2
<1>3. CASE 1 \notin S /\ 2 \notin S /\ 3 \in S
  BY <1>3
<1>4. CASE 1 \notin S /\ 2 \notin S /\ 3 \notin S /\ 4 \in S
  BY <1>4
<1>5. CASE 1 \notin S /\ 2 \notin S /\ 3 \notin S /\ 4 \notin S /\ 5 \in S
  BY <1>5
<1>6. CASE 1 \notin S /\ 2 \notin S /\ 3 \notin S /\ 4 \notin S /\ 5 \notin S
  <2>1. ASSUME NEW m \in S PROVE m = 6
    <3>1. m \in 1..6
      OBVIOUS
    <3> QED
      BY <1>6, <3>1
  <2>2. 6 \in S
    BY <2>1
  <2> QED
    BY <2>1, <2>2
<1> QED
  BY <1>1, <1>2, <1>3, <1>4, <1>5, <1>6

\* A text without a fault breaks none of the rules, whatever their order.
LEMMA FineText ==
  ASSUME NEW t, Verdict(t) = "fine"
  PROVE  t.words \notin {"link", "draft", "both", "alias"} /\ ~t.long
<1> DEFINE broken == {n \in DOMAIN Rules : Breaks(t)[Rules[n]]}
           first == CHOOSE n \in broken : \A m \in broken : n <= m
<1>1. DOMAIN Rules = 1..6 /\ \A n \in 1..6 : Rules[n] # "fine"
  BY DEF Rules
<1>2. broken = {}
  <2> SUFFICES ASSUME broken # {} PROVE FALSE
    OBVIOUS
  <2>1. broken \in SUBSET (1..6)
    BY <1>1
  <2>2. first \in broken
    BY <2>1, FirstPlace
  <2> QED
    BY <1>1, <2>1, <2>2 DEF Verdict
<1>3. \A n \in 1..6 : ~Breaks(t)[Rules[n]]
  BY <1>1, <1>2
<1>4. ~Breaks(t).link /\ ~Breaks(t).length /\ ~Breaks(t).marketing /\ ~Breaks(t).alias
  <2>1. Rules[1] = "link" /\ Rules[2] = "length" /\ Rules[3] = "marketing" /\ Rules[4] = "alias"
    BY DEF Rules
  <2> QED
    BY <1>3, <2>1
<1> QED
  BY <1>4 DEF Breaks

\* One more copy.
LEMMA SentCopy ==
  ASSUME copies \in Seq(Copy), Sent
  PROVE  copies' \in Seq(Copy) /\ Len(copies') = Len(copies) + 1 /\ copies' # <<>>
BY DEF Sent

----------------------------------------------------------------------------
\* What is sent has been through the checks of the venue, and a try that fails.

\* A text that is queued and not refused has no word of any list.
LEMMA CleanText ==
  ASSUME content \in Text \cup {NoText}, Verdict(content) = "fine", ~VenueRefuses
  PROVE  content.words = "none" /\ ~content.long
<1>1. content.words \in Words
  BY DEF Text, NoText, Words
<1> QED
  BY <1>1, FineText DEF VenueRefuses, Words

\* A try leaves the text, the setup and the target alone.
LEMMA TriedStands ==
  ASSUME ReplyInv, Try
  PROVE  /\ content' = content /\ setup' = setup /\ target' = target /\ hidden' = hidden
         /\ requests' = requests /\ tries' = tries + 1 /\ tries' \in 1..MaxTries
         /\ phase = "queued" /\ Len(copies) = doubts /\ record = NoRecord
         /\ HasAddress' = HasAddress /\ VenueRefuses' = VenueRefuses
         /\ Verdict(content)' = Verdict(content) /\ Verdict(content) = "fine"
<1>1. /\ content' = content /\ setup' = setup /\ target' = target /\ hidden' = hidden
      /\ requests' = requests /\ tries' = tries + 1 /\ phase = "queued"
  BY DEF Try, draftPart, standing
<1>2. tries' \in 1..MaxTries
  BY <1>1, ReplyAssumption DEF ReplyInv, ReplyTyped, Untried
<1>3. Verdict(content)' = Verdict(content)
  BY <1>1 DEF Verdict, Breaks, HookIsRequired
<1> QED
  BY <1>1, <1>2, <1>3
  DEF ReplyInv, Untried, ReplyIsSound, CopiesAreCounted, DraftIsLegal, HasAddress, VenueRefuses

\* A try that fails and is retried, or not, keeps the invariant: either no copy was
\* sent, or one in doubt.
LEMMA FailedTry ==
  ASSUME ReplyInv, Try, NEW again \in BOOLEAN, GiveUpOrRetry(again),
         setup.controller = "manual" \/ (HasAddress /\ ~VenueRefuses) \/ (tries = 0 /\ ~again),
         \/ UNCHANGED <<copies, doubts>>
         \/ ~VenueRefuses /\ Sent /\ doubts' = doubts + 1
  PROVE  ReplyInv'
<1>0. /\ content' = content /\ setup' = setup /\ target' = target /\ hidden' = hidden
      /\ requests' = requests /\ tries' = tries + 1 /\ tries' \in 1..MaxTries
      /\ phase = "queued" /\ Len(copies) = doubts /\ record = NoRecord
      /\ HasAddress' = HasAddress /\ VenueRefuses' = VenueRefuses
      /\ Verdict(content)' = Verdict(content) /\ Verdict(content) = "fine"
  BY TriedStands
<1> USE <1>0
<1>1. phase' \in {"queued", "failed"} /\ record' = record
      /\ (phase' = "queued" => again /\ tries' < MaxTries)
  BY DEF GiveUpOrRetry
<1>2. copies' \in Seq(Copy) /\ Len(copies') = doubts' /\ doubts' \in 0..tries'
  <2>1. CASE UNCHANGED <<copies, doubts>>
    BY <2>1 DEF ReplyInv, ReplyTyped
  <2>2. CASE Sent /\ doubts' = doubts + 1
    BY <2>2, SentCopy DEF ReplyInv, ReplyTyped
  <2> QED
    BY <2>1, <2>2
<1>3. ReplyTyped'
  BY <1>1, <1>2 DEF ReplyInv, ReplyTyped
<1>4. Untried' /\ Recordable'
  BY <1>1 DEF Untried, Recordable, NoRecord
<1>5. Hopeful'
  BY <1>1 DEF Hopeful
<1>6. copies' # <<>> => content'.words = "none" /\ ~content'.long
  <2>1. CASE UNCHANGED copies
    BY <2>1 DEF ReplyInv, ReplyIsSound, DraftIsLegal
  <2>2. CASE ~VenueRefuses
    BY <2>2, CleanText DEF ReplyInv, ReplyTyped
  <2> QED
    BY <2>1, <2>2
<1>7. DraftIsLegal' /\ CopiesAreCounted' /\ RecordIsTrue'
  <2>1. DraftIsLegal'
    <3>1. (Verdict(content) = "fine")'
      BY Zenon
    <3> QED
      BY <1>6, <3>1, Zenon DEF DraftIsLegal
  <2>2. CopiesAreCounted'
    <3>1. MaxTries \in Nat
      BY ReplyAssumption
    <3>2. tries' \in Nat
      BY <3>1
    <3>3. doubts' \in Nat
      BY <1>2, <3>2
    <3>4. \A n \in Nat : n <= n + 1
      OBVIOUS
    <3> QED
      BY <1>2, <3>3, <3>4, Zenon DEF CopiesAreCounted
  <2>3. RecordIsTrue'
    BY <1>1 DEF RecordIsTrue
  <2> QED
    BY <2>1, <2>2, <2>3
<1>8. HopelessIsDropped'
  BY <1>1 DEF HopelessIsDropped, ReplyInv, Hopeful, ReplyTyped
<1> QED
  BY <1>3, <1>4, <1>5, <1>7, <1>8 DEF ReplyInv, ReplyIsSound

\* A try that succeeds keeps the invariant, if the link it learned is of a copy or
\* of another comment with the same opening.
LEMMA DoneTry ==
  ASSUME ReplyInv, Try, ~VenueRefuses, HasAddress,
         NEW link \in {"none", "own", "echo", "post"}, Done(link),
         Sent \/ UNCHANGED copies,
         link = "own" => copies' # <<>>,
         copies' # <<>> \/ (setup.controller = "browser" /\ target.echo)
  PROVE  ReplyInv'
<1>0. /\ content' = content /\ setup' = setup /\ target' = target /\ hidden' = hidden
      /\ requests' = requests /\ tries' = tries + 1 /\ tries' \in 1..MaxTries
      /\ phase = "queued" /\ Len(copies) = doubts /\ record = NoRecord
      /\ HasAddress' = HasAddress /\ VenueRefuses' = VenueRefuses
      /\ Verdict(content)' = Verdict(content) /\ Verdict(content) = "fine"
  BY TriedStands
<1> USE <1>0
<1>1. phase' = "check" /\ record' = [NoRecord EXCEPT !.link = link] /\ doubts' = doubts
  BY DEF Done
<1>2. copies' \in Seq(Copy) /\ Len(copies') <= doubts' + 1 /\ doubts' \in 0..tries'
  <2>1. CASE UNCHANGED copies
    BY <1>1, <2>1 DEF ReplyInv, ReplyTyped
  <2>2. CASE Sent
    BY <1>1, <2>2, SentCopy DEF ReplyInv, ReplyTyped
  <2> QED
    BY <2>1, <2>2
<1>3. ReplyTyped'
  BY <1>1, <1>2 DEF ReplyInv, ReplyTyped
<1>4. Untried' /\ Hopeful'
  BY <1>1 DEF Untried, Hopeful
<1>5. Recordable'
  BY <1>1 DEF Recordable, NoRecord
<1>6. DraftIsLegal'
  BY <1>1, CleanText DEF DraftIsLegal, ReplyInv, ReplyTyped
<1>7. CopiesAreCounted' /\ RecordIsTrue' /\ HopelessIsDropped'
  BY <1>1, <1>2 DEF CopiesAreCounted, RecordIsTrue, HopelessIsDropped
<1> QED
  BY <1>3, <1>4, <1>5, <1>6, <1>7 DEF ReplyInv, ReplyIsSound

----------------------------------------------------------------------------
\* Each step of a reply.

LEMMA ReplyInitially == ReplyInit => ReplyInv
<1> SUFFICES ASSUME ReplyInit PROVE ReplyInv
  OBVIOUS
<1>1. ReplyTyped
  <2>1. MaxRequests \in Nat /\ MaxTries \in Nat
    BY ReplyAssumption
  <2>2. copies \in Seq(Copy)
    BY DEF ReplyInit
  <2>3. requests \in 0..MaxRequests /\ tries \in 0..MaxTries /\ doubts \in 0..tries
    BY <2>1 DEF ReplyInit
  <2> QED
    BY <2>2, <2>3 DEF ReplyInit, ReplyTyped
<1>2. Untried /\ Hopeful /\ Recordable
  BY DEF ReplyInit, Untried, Hopeful, Recordable
<1>3. ReplyIsSound
  BY DEF ReplyInit, ReplyIsSound, DraftIsLegal, CopiesAreCounted, RecordIsTrue, HopelessIsDropped
<1> QED
  BY <1>1, <1>2, <1>3 DEF ReplyInv

\* Drafting leads to a text without a fault or to none.
LEMMA DraftingStep ==
  ASSUME ReplyInv, DraftReply \/ TrimLast
  PROVE  ReplyInv'
<1>1. /\ phase = "draft" /\ requests' \in 0..MaxRequests
      /\ UNCHANGED <<setup, target, hidden, tries, copies, doubts, record>>
  BY ReplyAssumption DEF DraftReply, TrimLast, sentPart, standing, ReplyInv, ReplyTyped
<1>2. /\ content' \in Text \cup {NoText}
      /\ phase' \in {"draft", "undrafted"} \/ (phase' = "queued" /\ Verdict(content)' = "fine")
  <2>1. Verdict(content)' = Verdict(content')
    BY <1>1 DEF Verdict, Breaks, HookIsRequired
  <2>2. CASE DraftReply
    BY <1>1, <2>1, <2>2 DEF DraftReply, ReplyInv, ReplyTyped
  <2>3. CASE TrimLast
    BY <1>1, <2>1, <2>3 DEF TrimLast, Trimmed, ReplyInv, ReplyTyped
  <2> QED
    BY <2>2, <2>3
<1>3. tries = 0 /\ copies = <<>> /\ doubts = 0 /\ record = NoRecord
  BY <1>1 DEF ReplyInv, Untried
<1>4. ReplyTyped'
  BY <1>1, <1>2 DEF ReplyInv, ReplyTyped
<1>5. Untried' /\ Hopeful' /\ Recordable'
  BY <1>1, <1>2, <1>3, ReplyAssumption DEF Untried, Hopeful, Recordable
<1>6. ReplyIsSound'
  BY <1>1, <1>2, <1>3
  DEF ReplyIsSound, DraftIsLegal, CopiesAreCounted, RecordIsTrue, HopelessIsDropped
<1> QED
  BY <1>4, <1>5, <1>6 DEF ReplyInv

\* One try by any of the controllers, or its refusal.
LEMMA SubmitStep ==
  ASSUME ReplyInv, Submit
  PROVE  ReplyInv'
<1>1. CASE RefuseAutopublish
  <2>1. Try /\ GiveUpOrRetry(FALSE) /\ UNCHANGED <<copies, doubts>> /\ VenueRefuses
    BY <1>1 DEF RefuseAutopublish, Fail
  <2>2. setup.controller = "manual" \/ tries = 0
    BY <2>1 DEF ReplyInv, ReplyTyped, Hopeful, Try
  <2> QED
    BY <2>1, <2>2, FailedTry
<1>2. CASE RefuseManually
  BY <1>2, FailedTry DEF RefuseManually, Fail
<1>3. CASE RefuseAddress
  <2>1. Try /\ GiveUpOrRetry(FALSE) /\ UNCHANGED <<copies, doubts>> /\ ~HasAddress
    BY <1>3 DEF RefuseAddress, Fail
  <2>2. setup.controller = "manual" \/ tries = 0
    BY <2>1 DEF ReplyInv, ReplyTyped, Hopeful, Try
  <2> QED
    BY <2>1, <2>2, FailedTry
<1>4. ASSUME NEW c \in Controller, Via(c), Rejected
      PROVE  ReplyInv'
  BY <1>4, FailedTry DEF Via, Rejected, Fail
<1>5. ASSUME NEW c \in Controller, Via(c), NEW again \in BOOLEAN, Doubt(again)
      PROVE  ReplyInv'
  BY <1>5, FailedTry DEF Via, Doubt
<1>6. ASSUME NEW c \in Controller, Via(c), Sent,
             NEW link \in {"none", "own", "echo", "post"}, Done(link)
      PROVE  ReplyInv'
  <2>1. copies' # <<>>
    BY <1>6, SentCopy DEF ReplyInv, ReplyTyped
  <2> QED
    BY <1>6, <2>1, DoneTry DEF Via
<1>7. CASE PublishViaApi
  BY <1>4, <1>5, <1>6, <1>7 DEF PublishViaApi, Controller
<1>8. CASE PublishViaUnofficial
  BY <1>4, <1>5, <1>6, <1>8 DEF PublishViaUnofficial, Controller
<1>9. CASE PublishViaReddapi
  BY <1>4, <1>5, <1>6, <1>9 DEF PublishViaReddapi, Controller
<1>10. CASE PublishViaBrowser
  <2>1. Via("browser") /\ Try /\ ~VenueRefuses /\ HasAddress
    BY <1>10 DEF PublishViaBrowser, Via
  <2>2. target' = target /\ setup.controller = "browser"
    BY <2>1, TriedStands DEF Via
  <2>3. ASSUME NEW again \in BOOLEAN, NEW n \in {0, 1}, doubts' = doubts + n,
               GiveUpOrRetry(again), IF n = 1 THEN Sent ELSE UNCHANGED copies
        PROVE  ReplyInv'
    <3>1. doubts \in Nat
      BY DEF ReplyInv, ReplyTyped
    <3> QED
      BY <2>1, <2>3, <3>1, FailedTry
  <2>4. ASSUME NEW link \in OnPage, Done(link), Sent \/ UNCHANGED copies
        PROVE  ReplyInv'
    BY <2>1, <2>2, <2>4, DoneTry DEF OnPage
  <2>5. CASE Rejected
    BY <1>4, <2>1, <2>5 DEF Controller
  <2>6. CASE Sent /\ FindOnPage(1)
    BY <2>3, <2>4, <2>6 DEF FindOnPage
  <2>7. CASE UNCHANGED copies /\ FindOnPage(0)
    <3>1. CASE \E again \in BOOLEAN : doubts' = doubts + 0 /\ GiveUpOrRetry(again)
      BY <2>3, <2>7, <3>1
    <3>2. CASE \E link \in OnPage : Done(link)
      BY <2>4, <2>7, <3>2
    <3> QED
      BY <2>7, <3>1, <3>2 DEF FindOnPage
  <2> QED
    BY <1>10, <2>5, <2>6, <2>7 DEF PublishViaBrowser
<1> QED
  BY <1>1, <1>2, <1>3, <1>7, <1>8, <1>9, <1>10 DEF Submit

\* The look at the thread, and the next reply.
LEMMA RecordStep ==
  ASSUME ReplyInv, CheckVisibility
  PROVE  ReplyInv'
<1>1. /\ phase = "check" /\ phase' = "recorded"
      /\ UNCHANGED <<setup, target, hidden, requests, content, fault, tries, copies, doubts>>
  BY DEF CheckVisibility, draftPart, sentPart, standing
<1>2. PICK read \in BOOLEAN :
        record' = [record EXCEPT !.read = read,
                                 !.status = IF read /\ ~IsVisible THEN "spam_filtered" ELSE "posted"]
  BY DEF CheckVisibility
<1>3. IsVisible' = IsVisible
  BY <1>1 DEF IsVisible, InThread
<1>4. /\ record \in [status : {"none", "posted", "spam_filtered"}, read : BOOLEAN,
                     link : {"none", "own", "echo", "post"}]
      /\ record.link = "own" => copies # <<>>
      /\ copies # <<>> \/ (setup.controller = "browser" /\ target.echo)
  BY <1>1 DEF ReplyInv, Recordable
<1>5. /\ record'.link = record.link /\ record'.read = read
      /\ record'.status = "posted" <=> ~(read /\ ~IsVisible)
      /\ record' \in [status : {"none", "posted", "spam_filtered"}, read : BOOLEAN,
                      link : {"none", "own", "echo", "post"}]
  BY <1>2, <1>4
<1>6. ReplyTyped' /\ Untried' /\ Hopeful' /\ Recordable'
  BY <1>1, <1>4, <1>5 DEF ReplyInv, ReplyTyped, Untried, Hopeful, Recordable
<1>7. HasAddress' = HasAddress /\ VenueRefuses' = VenueRefuses
  BY <1>1 DEF HasAddress, VenueRefuses
<1>8. ReplyIsSound'
  <2>1. DraftIsLegal' /\ CopiesAreCounted' /\ HopelessIsDropped'
    BY <1>1, <1>7 DEF ReplyInv, ReplyIsSound, DraftIsLegal, CopiesAreCounted, HopelessIsDropped
  <2>2. RecordIsTrue'
    BY <1>1, <1>3, <1>4, <1>5 DEF RecordIsTrue
  <2> QED
    BY <2>1, <2>2 DEF ReplyIsSound
<1> QED
  BY <1>6, <1>8 DEF ReplyInv

LEMMA NextSessionStep ==
  ASSUME ReplyInv, NextSession
  PROVE  ReplyInv'
<1>1. ReplyTyped'
  BY ReplyAssumption DEF NextSession, ReplyInv, ReplyTyped, Recordable, Untried, NoRecord
<1>2. Untried' /\ Hopeful' /\ Recordable'
  BY DEF NextSession, Untried, Hopeful, Recordable
<1>3. ReplyIsSound'
  BY DEF NextSession, ReplyIsSound, DraftIsLegal, CopiesAreCounted, RecordIsTrue, HopelessIsDropped
<1> QED
  BY <1>1, <1>2, <1>3 DEF ReplyInv

LEMMA ReplyStep == ReplyInv /\ [ReplyNext]_replyVars => ReplyInv'
<1> SUFFICES ASSUME ReplyInv, [ReplyNext]_replyVars PROVE ReplyInv'
  OBVIOUS
<1>1. CASE UNCHANGED replyVars
  BY <1>1
  DEF replyVars, ReplyInv, ReplyTyped, Untried, Hopeful, Recordable, ReplyIsSound, DraftIsLegal,
      CopiesAreCounted, RecordIsTrue, HopelessIsDropped, Verdict, Breaks, HookIsRequired,
      HasAddress, VenueRefuses, IsVisible, InThread
<1> QED
  BY <1>1, DraftingStep, SubmitStep, RecordStep, NextSessionStep DEF ReplyNext

\* The invariant of RedditReply with everything it rests on.
THEOREM ReplyInvariant == ReplySpec => []ReplyInv
BY ReplyInitially, ReplyStep, PTL DEF ReplySpec

\* No reply is asked for, or tried, more often than allowed.
THEOREM ReplyTypeCorrect == ReplySpec => []ReplyTypeOK
<1>1. ReplyInv => ReplyTypeOK
  BY DEF ReplyInv, ReplyTyped, ReplyTypeOK
<1> QED
  BY <1>1, ReplyInvariant, PTL

\* Whatever controller is set up and whatever fails in whatever order: nothing that a
\* check forbids reaches Reddit, another copy is sent only after a try in doubt, a
\* record says what a read of the thread showed, and what can never be sent is not
\* tried again.
THEOREM ReplySound == ReplySpec => []ReplyIsSound
<1>1. ReplyInv => ReplyIsSound
  BY DEF ReplyInv
<1> QED
  BY <1>1, ReplyInvariant, PTL

----------------------------------------------------------------------------
\* The scan for items to reply to.  First sets and sequences.

\* Induction over the subsets of a finite set.
LEMMA SubsetInduction ==
  ASSUME NEW S, IsFiniteSet(S), NEW F,
         \A T \in SUBSET S : (\A U \in SUBSET T : U # T => U \in F) => T \in F
  PROVE  \A T \in SUBSET S : T \in F
<1> DEFINE Out == (SUBSET S) \ F
<1> SUFFICES ASSUME Out # {} PROVE FALSE
  OBVIOUS
<1>1. Out \subseteq FiniteSubsetsOf(S)
  BY FS_FiniteSubsetsOfFinite
<1>2. PICK T \in Out : \A U \in Out : ~(<<U, T>> \in StrictSubsetOrdering(S))
  <2> HIDE DEF Out
  <2> QED BY <1>1, WFMin, FS_StrictSubsetOrderingWellFounded
<1>3. \A U \in SUBSET T : U # T => <<U, T>> \in StrictSubsetOrdering(S)
  BY <1>2 DEF StrictSubsetOrdering
<1>4. \A U \in SUBSET T : U # T => U \in F
  <2> SUFFICES ASSUME NEW U \in SUBSET T, U # T, U \notin F PROVE FALSE
    OBVIOUS
  <2>1. U \in Out
    BY <1>2
  <2> HIDE DEF Out
  <2> QED BY <1>2, <1>3, <2>1
<1> QED BY <1>2, <1>4

----------------------------------------------------------------------------
\* What is kept of a sequence.  The fold that Without is takes out the last place first.
KeptStep(s, S, i, q) == IF s[i] \in S THEN q ELSE Append(q, s[i])

Kept(g, s, S, D) ==
  g = [T \in SUBSET D |-> IF T = {} THEN <<>> ELSE KeptStep(s, S, Max(T), g[T \ {Max(T)}])]

\* Without is read from a table of what is kept of the places in each set.
LEMMA WithoutIsChosen ==
  ASSUME NEW s, NEW S
  PROVE  Without(s, S) = (CHOOSE g : Kept(g, s, S, DOMAIN s))[DOMAIN s]
BY DEF Without, FoldLeft, MapThenFoldSet, Kept, KeptStep

\* Finitely many places in a sequence.
Places(D) == D \subseteq Nat /\ IsFiniteSet(D)

\* A part of such places is one, too.
LEMMA PlacesParts ==
  ASSUME NEW D, Places(D), NEW T \in SUBSET D
  PROVE  Places(T)
BY FS_Subset DEF Places

\* The last of them is one of them.
LEMMA MaxIs ==
  ASSUME NEW T, Places(T), T # {}
  PROVE  Max(T) \in T /\ \A y \in T : Max(T) >= y
<1>1. PICK m \in T : \A y \in T : m >= y
  <2> DEFINE F == {U \in SUBSET T : U = {} \/ \E m \in U : \A y \in U : m >= y}
  <2>1. IsFiniteSet(T) /\ T \subseteq Nat
    BY DEF Places
  <2>2. ASSUME NEW U \in SUBSET T, \A V \in SUBSET U : V # U => V \in F PROVE U \in F
    <3>1. CASE U = {}
      BY <3>1
    <3>2. CASE U # {}
      <4>1. PICK x \in U : TRUE
        BY <3>2
      <4>2. U \ {x} \in F
        BY <2>2, <4>1
      <4> QED BY <2>1, <4>1, <4>2
    <3> QED BY <3>1, <3>2
  <2>3. \A U \in SUBSET T : U \in F
    <3> HIDE DEF F
    <3> QED BY <2>1, <2>2, SubsetInduction
  <2> QED BY <2>3
<1> QED BY <1>1 DEF Max

\* Two such tables agree where both are defined.
LEMMA KeptAgree ==
  ASSUME NEW s, NEW S, NEW D, Places(D), NEW T \in SUBSET D
  PROVE  \A g, h : Kept(g, s, S, D) /\ Kept(h, s, S, T) => \A U \in SUBSET T : g[U] = h[U]
<1> SUFFICES ASSUME NEW g, NEW h, Kept(g, s, S, D), Kept(h, s, S, T)
             PROVE  \A U \in SUBSET T : g[U] = h[U]
  OBVIOUS
<1> DEFINE F == {U \in SUBSET T : g[U] = h[U]}
<1>1. \A U \in SUBSET T : g[U] = IF U = {} THEN <<>> ELSE KeptStep(s, S, Max(U), g[U \ {Max(U)}])
  BY DEF Kept
<1>2. \A U \in SUBSET T : h[U] = IF U = {} THEN <<>> ELSE KeptStep(s, S, Max(U), h[U \ {Max(U)}])
  BY DEF Kept
<1>3. ASSUME NEW U \in SUBSET T, \A V \in SUBSET U : V # U => V \in F PROVE U \in F
  <2>1. CASE U = {}
    BY <1>1, <1>2, <2>1
  <2>2. CASE U # {}
    <3>1. U \ {Max(U)} \in F
      BY <1>3, <2>2, PlacesParts, MaxIs
    <3> QED BY <1>1, <1>2, <2>2, <3>1
  <2> QED BY <2>1, <2>2
<1>4. IsFiniteSet(T)
  BY FS_Subset DEF Places
<1>5. \A U \in SUBSET T : U \in F
  <2> HIDE DEF F
  <2> QED BY <1>3, <1>4, SubsetInduction
<1> QED BY <1>5

\* There is such a table: there is one for some places if there is for any fewer.
LEMMA KeptExist ==
  ASSUME NEW s, NEW S, NEW D, Places(D)
  PROVE  \E g : Kept(g, s, S, D)
<1> DEFINE F == {T \in SUBSET D : \E g : Kept(g, s, S, T)}
<1>1. ASSUME NEW T \in SUBSET D, \A U \in SUBSET T : U # T => U \in F PROVE T \in F
  <2> DEFINE G(U) == CHOOSE g : Kept(g, s, S, U)
             V(U) == IF U = T /\ T # {} THEN KeptStep(s, S, Max(T), G(T \ {Max(T)})[T \ {Max(T)}]) ELSE G(U)[U]
             g == [U \in SUBSET T |-> IF U = {} THEN <<>> ELSE V(U)]
  <2>1. \A U \in SUBSET T : U # T => Kept(G(U), s, S, U)
    BY <1>1
  <2>2. \A U \in SUBSET T : U # T => \A W \in SUBSET U : G(U)[W] = G(W)[W]
    <3> SUFFICES ASSUME NEW U \in SUBSET T, U # T, NEW W \in SUBSET U PROVE G(U)[W] = G(W)[W]
      OBVIOUS
    <3>1. Kept(G(U), s, S, U) /\ Kept(G(W), s, S, W)
      <4>1. W \in SUBSET T /\ W # T
        OBVIOUS
      <4> HIDE DEF G
      <4> QED BY <2>1, <4>1
    <3>2. Places(U)
      BY PlacesParts
    <3>3. ASSUME NEW x, NEW y, Kept(x, s, S, U), Kept(y, s, S, W)
          PROVE  x[W] = y[W]
      <4> HIDE DEF F, G, V, g
      <4> QED BY <3>2, <3>3, KeptAgree
    <3> HIDE DEF G
    <3> QED BY <3>1, <3>3
  <2>3. \A U \in SUBSET T : U # {} /\ U # T => G(U)[U] = KeptStep(s, S, Max(U), G(U)[U \ {Max(U)}])
    <3> HIDE DEF G
    <3> QED BY <2>1 DEF Kept
  <2>4. ASSUME NEW U \in SUBSET T, U # {} PROVE g[U] = KeptStep(s, S, Max(U), g[U \ {Max(U)}])
    <3>1. Max(U) \in U
      BY <2>4, PlacesParts, MaxIs
    <3>2. U \ {Max(U)} \in SUBSET T /\ U \ {Max(U)} # T /\ U \ {Max(U)} \in SUBSET U
      BY <3>1
    <3>3. g[U \ {Max(U)}] = IF U \ {Max(U)} = {} THEN <<>> ELSE G(U \ {Max(U)})[U \ {Max(U)}]
      <4> HIDE DEF G
      <4> QED BY <3>2
    <3>4. g[U \ {Max(U)}] = G(U \ {Max(U)})[U \ {Max(U)}]
      <4>1. CASE U \ {Max(U)} = {}
        <5>1. Kept(G({}), s, S, {})
          BY <2>1, <3>2, <4>1
        <5>2. G({})[{}] = <<>>
          <6> HIDE DEF G
          <6> QED BY <5>1 DEF Kept
        <5> HIDE DEF G, g
        <5> QED BY <3>3, <4>1, <5>2
      <4>2. CASE U \ {Max(U)} # {}
        <5> HIDE DEF G, g
        <5> QED BY <3>3, <4>2
      <4> QED BY <4>1, <4>2
    <3>5. CASE U = T
      <4> HIDE DEF G
      <4>1. g[U] = V(U)
        BY <2>4
      <4>2. V(U) = KeptStep(s, S, Max(T), G(T \ {Max(T)})[T \ {Max(T)}])
        BY <3>5, <2>4
      <4> HIDE DEF g, V
      <4> QED BY <3>4, <3>5, <4>1, <4>2
    <3>6. CASE U # T
      <4> HIDE DEF G
      <4>1. g[U] = G(U)[U]
        BY <2>4, <3>6
      <4>2. G(U)[U \ {Max(U)}] = G(U \ {Max(U)})[U \ {Max(U)}]
        BY <2>2, <3>2, <3>6
      <4>3. G(U)[U] = KeptStep(s, S, Max(U), G(U)[U \ {Max(U)}])
        BY <2>3, <2>4, <3>6
      <4> HIDE DEF g, V
      <4> QED BY <3>4, <4>1, <4>2, <4>3
    <3> QED BY <3>5, <3>6
  <2>5. Kept(g, s, S, T)
    <3>1. g[{}] = <<>>
      OBVIOUS
    <3>2. \A U \in SUBSET T : g[U] = IF U = {} THEN <<>> ELSE KeptStep(s, S, Max(U), g[U \ {Max(U)}])
      <4> HIDE DEF g
      <4> QED BY <2>4, <3>1
    <3>3. g = [U \in SUBSET T |-> g[U]]
      OBVIOUS
    <3> HIDE DEF g
    <3> QED BY <3>2, <3>3 DEF Kept
  <2> HIDE DEF g
  <2> QED BY <2>5
<1>2. \A T \in SUBSET D : T \in F
  <2>1. IsFiniteSet(D)
    BY DEF Places
  <2> HIDE DEF F
  <2> QED BY <1>1, <2>1, SubsetInduction
<1> QED BY <1>2

\* No element is at two places.
Distinct(s) == \A i, j \in DOMAIN s : s[i] = s[j] => i = j

\* Appending an element.
LEMMA AppendKeeps ==
  ASSUME NEW X, NEW q \in Seq(X), NEW x \in X
  PROVE  /\ Append(q, x) \in Seq(X) /\ Range(Append(q, x)) = Range(q) \cup {x}
         /\ Distinct(q) /\ x \notin Range(q) => Distinct(Append(q, x))
<1>1. /\ Append(q, x) \in Seq(X) /\ DOMAIN q = 1..Len(q) /\ Len(q) \in Nat
      /\ DOMAIN Append(q, x) = 1..Len(q) + 1
      /\ \A i \in 1..Len(q) : Append(q, x)[i] = q[i]
      /\ Append(q, x)[Len(q) + 1] = x
  OBVIOUS
<1>2. \A i \in 1..Len(q) + 1 : i \in 1..Len(q) \/ i = Len(q) + 1
  BY <1>1
<1> HIDE DEF Distinct
<1>3. Range(Append(q, x)) = Range(q) \cup {x}
  <2>1. ASSUME NEW y \in Range(Append(q, x)) PROVE y \in Range(q) \cup {x}
    BY <1>1, <1>2, <2>1 DEF Range
  <2>2. \A i \in 1..Len(q) : q[i] \in Range(Append(q, x))
    BY <1>1 DEF Range
  <2>3. x \in Range(Append(q, x))
    BY <1>1 DEF Range
  <2> QED BY <1>1, <2>1, <2>2, <2>3 DEF Range
<1>4. ASSUME Distinct(q), x \notin Range(q) PROVE Distinct(Append(q, x))
  BY <1>1, <1>2, <1>4 DEF Distinct, Range
<1> QED BY <1>1, <1>3, <1>4

\* Without keeps the elements that are not in the set, each where it was before the others.
LEMMA WithoutKeeps ==
  ASSUME NEW X, NEW s \in Seq(X), NEW S
  PROVE  /\ Without(s, S) \in Seq(X) /\ Range(Without(s, S)) = Range(s) \ S
         /\ Distinct(s) => Distinct(Without(s, S))
<1> DEFINE n == Len(s)
           D == 1..n
           g == CHOOSE g : Kept(g, s, S, D)
           At(T) == {s[i] : i \in T}
           F == {T \in SUBSET D : /\ g[T] \in Seq(X) /\ Range(g[T]) = At(T) \ S
                                  /\ Distinct(s) => Distinct(g[T])}
<1>1. n \in Nat /\ DOMAIN s = D /\ \A i \in D : s[i] \in X
  OBVIOUS
<1>0. Places(D)
  <2> HIDE DEF n
  <2> QED BY <1>1, FS_Interval DEF Places
<1>2. Kept(g, s, S, D)
  <2> HIDE DEF n, D
  <2> QED BY <1>0, KeptExist
<1> HIDE DEF g
<1>3. \A T \in SUBSET D : g[T] = IF T = {} THEN <<>> ELSE KeptStep(s, S, Max(T), g[T \ {Max(T)}])
  BY <1>2 DEF Kept
<1>4. ASSUME NEW T \in SUBSET D, \A U \in SUBSET T : U # T => U \in F PROVE T \in F
  <2>1. CASE T = {}
    <3>1. g[T] = <<>> /\ At(T) = {}
      BY <1>3, <2>1
    <3>2. <<>> \in Seq(X) /\ Range(<<>>) = {} /\ Distinct(<<>>)
      BY DEF Range, Distinct
    <3> QED BY <3>1, <3>2
  <2>2. CASE T # {}
    <3> DEFINE m == Max(T)
               q == g[T \ {m}]
    <3>1. m \in T
      <4> HIDE DEF D
      <4> QED BY <1>0, <2>2, PlacesParts, MaxIs
    <3>2. T \ {m} \in F /\ g[T] = KeptStep(s, S, m, q) /\ s[m] \in X
      BY <1>1, <1>3, <1>4, <2>2, <3>1
    <3> HIDE DEF m, g
    <3>3. At(T) = At(T \ {m}) \cup {s[m]}
      BY <3>1
    <3>4. /\ q \in Seq(X) /\ Range(q) = At(T \ {m}) \ S
          /\ Distinct(s) => Distinct(q) /\ s[m] \notin At(T \ {m})
      <4>1. Distinct(s) => s[m] \notin At(T \ {m})
        BY <1>1, <3>1 DEF Distinct
      <4> QED BY <3>2, <4>1
    <3> HIDE DEF q, At
    <3>5. CASE s[m] \in S
      BY <3>2, <3>3, <3>4, <3>5 DEF KeptStep
    <3>6. CASE s[m] \notin S
      <4>1. g[T] = Append(q, s[m])
        BY <3>2, <3>6 DEF KeptStep
      <4>2. Append(q, s[m]) \in Seq(X) /\ Range(Append(q, s[m])) = Range(q) \cup {s[m]}
            /\ (Distinct(q) /\ s[m] \notin Range(q) => Distinct(Append(q, s[m])))
        BY <3>2, <3>4, AppendKeeps
      <4> QED BY <3>3, <3>4, <3>6, <4>1, <4>2
    <3> QED BY <3>5, <3>6
  <2> QED BY <2>1, <2>2
<1>5. D \in F
  <2>1. IsFiniteSet(D)
    BY <1>0 DEF Places
  <2>2. \A T \in SUBSET D : T \in F
    <3> HIDE DEF F, D
    <3> QED BY <1>4, <2>1, SubsetInduction
  <2> HIDE DEF F
  <2> QED BY <2>2
<1>6. Without(s, S) = g[D]
  BY <1>1, WithoutIsChosen DEF g
<1>7. Range(s) = At(D)
  BY <1>1 DEF Range
<1> QED BY <1>5, <1>6, <1>7

\* A sequence without repetitions is no longer than its elements are many.
LEMMA DistinctLength ==
  ASSUME NEW X, NEW s \in Seq(X), Distinct(s), NEW C, IsFiniteSet(C), Range(s) \subseteq C
  PROVE  Len(s) <= Cardinality(C)
<1>1. Len(s) \in Nat /\ DOMAIN s = 1..Len(s) /\ s \in [1..Len(s) -> X]
  OBVIOUS
<1>2. s \in Injection(1..Len(s), C)
  <2>1. s \in [1..Len(s) -> C]
    BY <1>1 DEF Range
  <2> QED BY <1>1, <2>1 DEF Injection, IsInjective, Distinct
<1>3. Cardinality(1..Len(s)) = Len(s)
  BY <1>1, FS_Interval
<1> QED BY <1>2, <1>3, FS_Injection

\* One sequence after the other.
LEMMA ConcatKeeps ==
  ASSUME NEW X, NEW p \in Seq(X), NEW q \in Seq(X)
  PROVE  /\ p \o q \in Seq(X) /\ Range(p \o q) = Range(p) \cup Range(q)
         /\ Distinct(p) /\ Distinct(q) /\ Range(p) \cap Range(q) = {} => Distinct(p \o q)
<1> DEFINE m == Len(p)
           n == Len(q)
           c == p \o q
<1>1. /\ m \in Nat /\ n \in Nat /\ DOMAIN p = 1..m /\ DOMAIN q = 1..n /\ c \in Seq(X)
      /\ DOMAIN c = 1..m + n
      /\ \A i \in 1..m : c[i] = p[i]
      /\ \A i \in m + 1..m + n : c[i] = q[i - m]
  OBVIOUS
<1> HIDE DEF c, m, n
<1>2. \A i \in 1..m + n : i \in 1..m \/ (i \in m + 1..m + n /\ i - m \in 1..n)
  BY <1>1
<1>3. \A i \in 1..n : i + m \in m + 1..m + n /\ i + m \in 1..m + n /\ (i + m) - m = i
  BY <1>1
<1>4. \A i \in 1..m : i \in 1..m + n
  BY <1>1
<1>5. Range(c) = Range(p) \cup Range(q)
  <2>1. \A i \in 1..m + n : c[i] \in Range(p) \cup Range(q)
    BY <1>1, <1>2 DEF Range
  <2>2. \A i \in 1..m : p[i] \in Range(c)
    BY <1>1, <1>4 DEF Range
  <2>3. \A i \in 1..n : q[i] \in Range(c)
    <3> SUFFICES ASSUME NEW i \in 1..n PROVE q[i] \in Range(c)
      OBVIOUS
    <3>1. c[i + m] = q[i]
      BY <1>1, <1>3
    <3> QED BY <1>1, <1>3, <3>1 DEF Range
  <2> QED BY <1>1, <2>1, <2>2, <2>3 DEF Range
<1>6. ASSUME Distinct(p), Distinct(q), Range(p) \cap Range(q) = {} PROVE Distinct(c)
  <2> SUFFICES ASSUME NEW i \in 1..m + n, NEW j \in 1..m + n, c[i] = c[j] PROVE i = j
    BY <1>1 DEF Distinct
  <2>1. CASE i \in 1..m /\ j \in 1..m
    BY <1>1, <1>6, <2>1 DEF Distinct
  <2>2. CASE i \notin 1..m /\ j \notin 1..m
    <3>1. c[i] = q[i - m] /\ c[j] = q[j - m] /\ i - m \in 1..n /\ j - m \in 1..n
      BY <1>1, <1>2, <2>2
    <3>2. i - m = j - m
      BY <1>1, <1>6, <3>1 DEF Distinct
    <3> QED BY <1>1, <3>2
  <2>3. ASSUME NEW a \in 1..m, NEW b \in 1..m + n, b \notin 1..m PROVE c[a] # c[b]
    <3>1. c[a] \in Range(p)
      BY <1>1 DEF Range
    <3>2. c[b] \in Range(q)
      BY <1>1, <1>2, <2>3 DEF Range
    <3> QED BY <1>6, <3>1, <3>2
  <2> QED BY <2>1, <2>2, <2>3
<1> QED BY <1>1, <1>5, <1>6 DEF c

\* The end of a sequence.
LEMMA EndKeeps ==
  ASSUME NEW X, NEW s \in Seq(X), NEW k \in Nat, k > 0, Len(s) > k
  PROVE  LET e == SubSeq(s, Len(s) - k + 1, Len(s))
         IN e \in Seq(X) /\ Len(e) = k /\ Range(e) \subseteq Range(s) /\ (Distinct(s) => Distinct(e))
<1> DEFINE n == Len(s)
           a == n - k + 1
           e == SubSeq(s, a, n)
<1>1. n \in Nat /\ a \in Nat /\ a >= 1 /\ a <= n /\ n - a + 1 = k /\ DOMAIN s = 1..n
  OBVIOUS
<1>2. \A i \in a..n : s[i] \in X
  BY <1>1
<1>3. e \in Seq(X) /\ Len(e) = k /\ \A i \in 1..k : e[i] = s[a + i - 1]
  <2> HIDE DEF n, a
  <2> QED BY <1>1, <1>2, SubSeqProperties
<1> HIDE DEF e, a, n
<1>4. DOMAIN e = 1..k /\ \A i \in 1..k : a + i - 1 \in 1..n
  BY <1>1, <1>3
<1>5. Range(e) \subseteq Range(s)
  BY <1>1, <1>3, <1>4 DEF Range
<1>6. Distinct(s) => Distinct(e)
  <2> SUFFICES ASSUME Distinct(s), NEW i \in 1..k, NEW j \in 1..k, e[i] = e[j] PROVE i = j
    BY <1>4 DEF Distinct
  <2>1. a + i - 1 = a + j - 1
    BY <1>1, <1>3, <1>4 DEF Distinct
  <2> QED BY <1>1, <2>1
<1> QED BY <1>3, <1>5, <1>6 DEF e, a, n

\* What was seen of the comments in C and what is read of them, merged: nothing twice, and
\* nothing is forgotten if there is place for all.
LEMMA MergeKeeps ==
  ASSUME NEW C, IsFiniteSet(C), NEW old \in Seq(Remarks), NEW fresh \in Seq(Remarks),
         Distinct(old), Distinct(fresh), Range(old) \subseteq C, Range(fresh) \subseteq C
  PROVE  LET m == MergeSeenCommentIds(old, fresh)
         IN /\ m \in Seq(Remarks) /\ Distinct(m) /\ Len(m) <= MaxSeen
            /\ Range(m) \subseteq Range(old) \cup Range(fresh)
            /\ Cardinality(C) <= MaxSeen => Range(m) = Range(old) \cup Range(fresh)
<1> DEFINE w == Without(fresh, Range(old))
           all == old \o w
           m == MergeSeenCommentIds(old, fresh)
<1>1. w \in Seq(Remarks) /\ Range(w) = Range(fresh) \ Range(old) /\ Distinct(w)
  BY WithoutKeeps
<1> HIDE DEF w
<1>2. all \in Seq(Remarks) /\ Range(all) = Range(old) \cup Range(fresh) /\ Distinct(all)
  <2>1. Range(old) \cap Range(w) = {}
    BY <1>1
  <2> QED BY <1>1, <2>1, ConcatKeeps
<1> HIDE DEF all
<1>3. Len(all) \in Nat /\ Len(all) <= Cardinality(C) /\ Cardinality(C) \in Nat /\ MaxSeen \in Nat /\ MaxSeen > 0
  BY <1>2, DistinctLength, FS_CardinalityType, ScanAssumption
<1>4. m = IF Len(all) <= MaxSeen THEN all ELSE SubSeq(all, Len(all) - MaxSeen + 1, Len(all))
  BY DEF MergeSeenCommentIds, all, w
<1> HIDE DEF m
<1>5. CASE Len(all) <= MaxSeen
  BY <1>2, <1>4, <1>5 DEF m
<1>6. CASE Len(all) > MaxSeen
  <2>1. m = SubSeq(all, Len(all) - MaxSeen + 1, Len(all))
    BY <1>3, <1>4, <1>6
  <2>2. m \in Seq(Remarks) /\ Len(m) = MaxSeen /\ Range(m) \subseteq Range(all) /\ Distinct(m)
    BY <1>2, <1>3, <1>6, <2>1, EndKeeps
  <2> QED BY <1>2, <1>3, <1>6, <2>2 DEF m
<1> QED BY <1>3, <1>5, <1>6

\* Pruning keeps the entries of some threads, and of all if there are not too many.
LEMMA PrunedKeeps ==
  ASSUME NEW f, IsFiniteSet(DOMAIN f), NEW e \in Pruned(f)
  PROVE  /\ DOMAIN e \subseteq DOMAIN f /\ Cardinality(DOMAIN e) <= MaxEntries
         /\ e = [t \in DOMAIN e |-> e[t]] /\ \A t \in DOMAIN e : e[t] = f[t]
         /\ Cardinality(DOMAIN f) <= MaxEntries => DOMAIN e = DOMAIN f
<1> DEFINE k == IF Cardinality(DOMAIN f) <= MaxEntries THEN Cardinality(DOMAIN f) ELSE MaxEntries
<1>1. PICK S \in SUBSET DOMAIN f : Cardinality(S) = k /\ e = [t \in S |-> f[t]]
  BY DEF Pruned, kSubset, Restrict
<1>2. k \in Nat /\ k <= MaxEntries /\ Cardinality(DOMAIN f) \in Nat
  BY FS_CardinalityType, ScanAssumption
<1>3. DOMAIN e = S /\ e = [t \in DOMAIN e |-> e[t]] /\ \A t \in S : e[t] = f[t]
  BY <1>1
<1>4. Cardinality(DOMAIN f) <= MaxEntries => S = DOMAIN f
  BY <1>1, FS_Subset
<1> QED BY <1>1, <1>2, <1>3, <1>4

\* What a snapshot holds of a thread.
ReadOf(t, x) ==
  /\ x.count \in Nat /\ x.got \in Seq(Remarks) /\ Distinct(x.got) /\ Range(x.got) \subseteq Comments(t)

\* The comments under a thread are finitely many.
LEMMA CommentsFinite ==
  ASSUME NEW t
  PROVE  /\ IsFiniteSet(Remarks \cap Comments(t))
         /\ written \subseteq Remarks => IsFiniteSet(Comments(t)) /\ Cardinality(Comments(t)) \in Nat
                                         /\ Comments(t) \subseteq Remarks
<1>1. IsFiniteSet(Remarks \cap Comments(t))
  <2>1. Remarks \cap Comments(t) \subseteq Remarks
    OBVIOUS
  <2> QED BY <2>1, ScanAssumption, FS_Subset
<1>2. written \subseteq Remarks => Remarks \cap Comments(t) = Comments(t)
  BY DEF Comments
<1> QED BY <1>1, <1>2, FS_CardinalityType

\* Whatever is read of some threads, it is snapshots of these.
LEMMA ReadsKeep ==
  ASSUME written \subseteq Remarks, NEW S, NEW own, NEW limit, NEW f \in ReadsOf(S, own, limit)
  PROVE  DOMAIN f \subseteq S /\ \A t \in DOMAIN f : ReadOf(t, f[t])
<1>1. PICK R \in SUBSET S : /\ DOMAIN f = R
                            /\ \A t \in R : f[t] \in Snapshots(t, own, limit)
  BY DEF ReadsOf
<1>2. ASSUME NEW t, NEW x \in Snapshots(t, own, limit) PROVE ReadOf(t, x)
  <2>0. IsFiniteSet(Comments(t)) /\ Cardinality(Comments(t)) \in Nat /\ Comments(t) \subseteq Remarks
    BY CommentsFinite
  <2>a. PICK C \in SUBSET Comments(t) : \E q \in SetToSeqs(C) :
            x = [own |-> own, count |-> Cardinality(Comments(t)), got |-> q]
    BY <1>2 DEF Snapshots, kSubset
  <2>1. PICK q \in SetToSeqs(C) :
            x = [own |-> own, count |-> Cardinality(Comments(t)), got |-> q]
    BY <2>a
  <2>2. IsFiniteSet(C) /\ Cardinality(C) \in Nat
    BY <2>0, FS_Subset, FS_CardinalityType
  <2>3. q \in [1..Cardinality(C) -> C] /\ \A i, j \in 1..Cardinality(C) : i # j => q[i] # q[j]
    BY <2>1 DEF SetToSeqs
  <2>4. q \in Seq(Remarks) /\ DOMAIN q = 1..Cardinality(C) /\ Range(q) \subseteq C
    <3>1. q \in Seq(C)
      BY <2>2, <2>3
    <3> QED BY <2>0, <2>3, <3>1 DEF Range
  <2> QED BY <2>0, <2>1, <2>3, <2>4 DEF ReadOf, Distinct
<1> QED BY <1>1, <1>2

\* The comments under a thread, of those in W.
Under(W, t) == {r \in W : ThreadOf[r] = t}

\* A ledger, saved or not yet, of the threads in N, when the comments in W were written,
\* those in S were offered and those in P answered.  What it says was seen has had its
\* chance, and it has forgotten what had one only if its limits were exceeded.
LedgerFor(entries, N, S, W, P) ==
  /\ N \subseteq Threads /\ S \subseteq Remarks
  /\ entries = [t \in DOMAIN entries |-> entries[t]]
  /\ DOMAIN entries \subseteq N /\ Cardinality(DOMAIN entries) <= MaxEntries
  /\ \A t \in DOMAIN entries :
       /\ entries[t] \in Entry /\ Len(entries[t].seen) <= MaxSeen
       /\ Distinct(entries[t].seen) /\ Range(entries[t].seen) \subseteq Under(W, t)
       /\ \A r \in Range(entries[t].seen) : Length[r] = "long" => r \in S \cup P
  /\ \A r \in S :
       \/ ThreadOf[r] \in DOMAIN entries /\ r \in Range(entries[ThreadOf[r]].seen)
       \/ Cardinality(Under(W, ThreadOf[r])) > MaxSeen
       \/ Cardinality(N) > MaxEntries

\* Both ledgers are such ledgers: the one that was saved, and during a session the one that
\* it would save.
ScanInv ==
  /\ written \subseteq Remarks /\ waiting \subseteq Items
  /\ past \in [replied : SUBSET Items, drafted : SUBSET Items, own : Seq(Threads)]
  /\ LedgerFor(ledger, recorded, given, written, past.replied)
  /\ stage \in {"idle", "plan", "draft", "enqueue"}
  /\ offer \subseteq Items /\ choice \subseteq offer /\ \A i, j \in choice : i = j
  /\ DOMAIN reads \subseteq Threads
  /\ IF stage = "idle" THEN scan = Nothing
     ELSE LedgerFor(scan, recorded \cup DOMAIN reads, given \cup (offer \cap Remarks),
                    written, past.replied)
  /\ ScanIsSound

\* There are finitely many comments under a thread.
LEMMA UnderFinite ==
  ASSUME NEW W \in SUBSET Remarks, NEW t
  PROVE  IsFiniteSet(Under(W, t)) /\ Under(W, t) \subseteq Remarks /\ Cardinality(Under(W, t)) \in Nat
<1>1. Under(W, t) \in SUBSET Remarks
  BY DEF Under
<1> QED BY <1>1, SmallerSet, ScanAssumption

\* Comments that are written and answered later change nothing about a ledger.
LEMMA LedgerStays ==
  ASSUME NEW l, NEW N, NEW S, NEW W, NEW P, LedgerFor(l, N, S, W, P),
         NEW V \in SUBSET Remarks, W \subseteq V, NEW Q, P \subseteq Q
  PROVE  LedgerFor(l, N, S, V, Q)
<1>1. \A t : /\ Under(W, t) \subseteq Under(V, t)
             /\ Cardinality(Under(W, t)) > MaxSeen => Cardinality(Under(V, t)) > MaxSeen
  <2> SUFFICES ASSUME NEW t
               PROVE  /\ Under(W, t) \subseteq Under(V, t)
                      /\ Cardinality(Under(W, t)) > MaxSeen => Cardinality(Under(V, t)) > MaxSeen
    OBVIOUS
  <2>1. Under(W, t) \in SUBSET Under(V, t)
    BY DEF Under
  <2>2. IsFiniteSet(Under(V, t)) /\ MaxSeen \in Nat
    BY UnderFinite, ScanAssumption
  <2>3. /\ Cardinality(Under(W, t)) \in Nat /\ Cardinality(Under(V, t)) \in Nat
        /\ Cardinality(Under(W, t)) <= Cardinality(Under(V, t))
    BY <2>1, <2>2, SmallerSet
  <2> QED BY <2>1, <2>2, <2>3
<1> QED BY <1>1 DEF LedgerFor

\* Nor does time.
LEMMA LedgerAged ==
  ASSUME NEW l, NEW N, NEW S, NEW W, NEW P, LedgerFor(l, N, S, W, P)
  PROVE  LedgerFor([t \in DOMAIN l |-> [l[t] EXCEPT !.age = IF @ < Ttl THEN @ + 1 ELSE @]], N, S, W, P)
<1> DEFINE m == [t \in DOMAIN l |-> [l[t] EXCEPT !.age = IF @ < Ttl THEN @ + 1 ELSE @]]
<1>1. DOMAIN m = DOMAIN l /\ m = [t \in DOMAIN m |-> m[t]]
  OBVIOUS
<1>2. \A t \in DOMAIN l : m[t] \in Entry /\ m[t].seen = l[t].seen
  <2> SUFFICES ASSUME NEW t \in DOMAIN l PROVE m[t] \in Entry /\ m[t].seen = l[t].seen
    OBVIOUS
  <2>1. l[t] \in Entry /\ Ttl \in Nat
    BY ScanAssumption DEF LedgerFor
  <2>2. (IF l[t].age < Ttl THEN l[t].age + 1 ELSE l[t].age) \in 0..Ttl
    BY <2>1 DEF Entry
  <2>3. m[t] = [l[t] EXCEPT !.age = IF l[t].age < Ttl THEN l[t].age + 1 ELSE l[t].age]
    OBVIOUS
  <2> QED BY <2>1, <2>2, <2>3 DEF Entry
<1> HIDE DEF m
<1>3. LedgerFor(m, N, S, W, P)
  BY <1>1, <1>2 DEF LedgerFor
<1> QED BY <1>3 DEF m

\* What is read in a thread and was not seen before is offered, if it is long enough and not
\* answered; and of the comments nothing else is.
LEMMA OfferIs ==
  ASSUME NEW s, DOMAIN s \subseteq Threads, \A t \in DOMAIN s : ReadOf(t, s[t]),
         written \subseteq Remarks
  PROVE  /\ SnapshotsToSourceItems(s) \subseteq Items
         /\ \A r \in SnapshotsToSourceItems(s) \cap Remarks :
              ThreadOf[r] \in DOMAIN s /\ r \in Range(s[ThreadOf[r]].got) \ Seen(ThreadOf[r])
         /\ \A t \in DOMAIN s : \A r \in Range(s[t].got) :
              Length[r] = "long" => r \in SnapshotsToSourceItems(s) \cup past.replied \cup Seen(t)
<1>1. \A t \in DOMAIN s : /\ OfferedPost(t, s[t]) \subseteq {t}
                          /\ OfferedComments(t, s[t]) \subseteq Range(s[t].got) \ Seen(t)
                          /\ Range(s[t].got) \subseteq Under(written, t)
  BY DEF OfferedPost, OfferedComments, ReadOf, Under, Comments
<1>2. Threads \cap Remarks = {}
  BY ScanAssumption
<1>3. \A t \in DOMAIN s : \A r \in Range(s[t].got) :
        Length[r] = "long" => r \in OfferedComments(t, s[t]) \cup past.replied \cup Seen(t)
  BY DEF OfferedComments
<1>4. \A i \in SnapshotsToSourceItems(s) :
        \E t \in DOMAIN s : i \in OfferedComments(t, s[t]) \cup OfferedPost(t, s[t])
  BY DEF SnapshotsToSourceItems
<1>5. \A t \in DOMAIN s : OfferedComments(t, s[t]) \subseteq SnapshotsToSourceItems(s)
  BY DEF SnapshotsToSourceItems
<1>6. SnapshotsToSourceItems(s) \subseteq Items
  BY <1>1, <1>4 DEF Items, Under
<1>7. ASSUME NEW r \in SnapshotsToSourceItems(s) \cap Remarks
      PROVE  ThreadOf[r] \in DOMAIN s /\ r \in Range(s[ThreadOf[r]].got) \ Seen(ThreadOf[r])
  <2>1. PICK t \in DOMAIN s : r \in OfferedComments(t, s[t]) \cup OfferedPost(t, s[t])
    BY <1>4
  <2>2. r \in Range(s[t].got) \ Seen(t) /\ r \in Under(written, t)
    BY <1>1, <1>2, <2>1
  <2> QED BY <2>2 DEF Under
<1> QED BY <1>3, <1>5, <1>6, <1>7

\* The ledger with what a session read: it remembers what is offered, too.
LEMMA LedgerRead ==
  ASSUME written \subseteq Remarks, LedgerFor(ledger, recorded, given, written, past.replied),
         NEW s, DOMAIN s \subseteq Threads, \A t \in DOMAIN s : ReadOf(t, s[t]),
         NEW e \in Pruned(Over(UpsertFromSnapshots(s), ledger))
  PROVE  LedgerFor(e, recorded \cup DOMAIN s,
                   given \cup (SnapshotsToSourceItems(s) \cap Remarks), written, past.replied)
<1> DEFINE offered == SnapshotsToSourceItems(s) \cap Remarks
           N == recorded \cup DOMAIN s
           G == given \cup offered
           old(t) == IF t \in DOMAIN ledger THEN ledger[t].seen ELSE <<>>
           f == Over(UpsertFromSnapshots(s), ledger)
           C(t) == Under(written, t)
<1>0. /\ ledger = [t \in DOMAIN ledger |-> ledger[t]]
      /\ DOMAIN ledger \subseteq recorded /\ recorded \subseteq Threads /\ given \subseteq Remarks
      /\ MaxSeen \in Nat /\ MaxEntries \in Nat /\ Ttl \in Nat /\ IsFiniteSet(Threads)
  BY ScanAssumption DEF LedgerFor
<1>1. /\ \A r \in offered : ThreadOf[r] \in DOMAIN s /\ r \in Range(s[ThreadOf[r]].got)
      /\ \A t \in DOMAIN s : \A r \in Range(s[t].got) :
           Length[r] = "long" => r \in SnapshotsToSourceItems(s) \cup past.replied \cup Seen(t)
  BY OfferIs
<1>2. DOMAIN f = DOMAIN s \cup DOMAIN ledger
  BY DEF Over, UpsertFromSnapshots
<1>3. \A t \in DOMAIN s :
        /\ f[t] = [age |-> 0, count |-> s[t].count, seen |-> MergeSeenCommentIds(old(t), s[t].got)]
        /\ old(t) \in Seq(Remarks) /\ Distinct(old(t)) /\ Range(old(t)) = Seen(t)
        /\ Range(old(t)) \subseteq C(t) /\ Range(s[t].got) \subseteq C(t)
  <2> SUFFICES ASSUME NEW t \in DOMAIN s
               PROVE  /\ f[t] = [age |-> 0, count |-> s[t].count,
                                 seen |-> MergeSeenCommentIds(old(t), s[t].got)]
                      /\ old(t) \in Seq(Remarks) /\ Distinct(old(t)) /\ Range(old(t)) = Seen(t)
                      /\ Range(old(t)) \subseteq C(t) /\ Range(s[t].got) \subseteq C(t)
    OBVIOUS
  <2>1. f[t] = [age |-> 0, count |-> s[t].count, seen |-> MergeSeenCommentIds(old(t), s[t].got)]
    BY DEF Over, UpsertFromSnapshots
  <2>2. Range(s[t].got) \subseteq C(t)
    BY DEF ReadOf, Under, Comments
  <2>3. CASE t \in DOMAIN ledger
    BY <2>1, <2>2, <2>3 DEF LedgerFor, Entry, Seen
  <2>4. CASE t \notin DOMAIN ledger
    <3>1. <<>> \in Seq(Remarks) /\ Range(<<>>) = {} /\ Distinct(<<>>)
      BY DEF Range, Distinct
    <3> QED BY <2>1, <2>2, <2>4, <3>1 DEF Seen
  <2> QED BY <2>3, <2>4
<1> HIDE DEF old
<1>4. \A t \in DOMAIN ledger \ DOMAIN s : f[t] = ledger[t]
  BY DEF Over, UpsertFromSnapshots
<1>5. \A t \in DOMAIN s :
        /\ f[t] \in Entry /\ Len(f[t].seen) <= MaxSeen
        /\ Distinct(f[t].seen) /\ Range(f[t].seen) \subseteq Seen(t) \cup Range(s[t].got)
        /\ Cardinality(C(t)) <= MaxSeen => Range(f[t].seen) = Seen(t) \cup Range(s[t].got)
  <2> SUFFICES ASSUME NEW t \in DOMAIN s
               PROVE  /\ f[t] \in Entry /\ Len(f[t].seen) <= MaxSeen
                      /\ Distinct(f[t].seen) /\ Range(f[t].seen) \subseteq Seen(t) \cup Range(s[t].got)
                      /\ Cardinality(C(t)) <= MaxSeen => Range(f[t].seen) = Seen(t) \cup Range(s[t].got)
    OBVIOUS
  <2> DEFINE m == MergeSeenCommentIds(old(t), s[t].got)
  <2>1. /\ m \in Seq(Remarks) /\ Distinct(m) /\ Len(m) <= MaxSeen
        /\ Range(m) \subseteq Range(old(t)) \cup Range(s[t].got)
        /\ Cardinality(C(t)) <= MaxSeen => Range(m) = Range(old(t)) \cup Range(s[t].got)
    <3>1. IsFiniteSet(C(t)) /\ s[t].got \in Seq(Remarks) /\ Distinct(s[t].got)
      BY UnderFinite DEF ReadOf
    <3> HIDE DEF C, m, f
    <3> QED BY <1>3, <3>1, MergeKeeps DEF m
  <2>2. f[t] = [age |-> 0, count |-> s[t].count, seen |-> m] /\ s[t].count \in Nat
    BY <1>3 DEF ReadOf
  <2>3. Range(old(t)) = Seen(t)
    BY <1>3
  <2> HIDE DEF m, f, C
  <2>4. f[t] \in Entry /\ f[t].seen = m
    BY <1>0, <2>1, <2>2 DEF Entry
  <2> QED BY <2>1, <2>3, <2>4
<1> HIDE DEF f
<1>6. N \subseteq Threads /\ G \subseteq Remarks /\ DOMAIN f \in SUBSET N
      /\ IsFiniteSet(N) /\ IsFiniteSet(DOMAIN f)
      /\ Cardinality(DOMAIN f) \in Nat /\ Cardinality(N) \in Nat /\ Cardinality(recorded) \in Nat
      /\ Cardinality(DOMAIN f) <= Cardinality(N) /\ Cardinality(recorded) <= Cardinality(N)
  <2>1. N \in SUBSET Threads /\ recorded \in SUBSET N /\ DOMAIN f \in SUBSET N /\ G \subseteq Remarks
    BY <1>0, <1>2
  <2>2. IsFiniteSet(N)
    BY <1>0, <2>1, SmallerSet
  <2> HIDE DEF N, G
  <2> QED BY <2>1, <2>2, SmallerSet
<1>7. /\ DOMAIN e \subseteq DOMAIN f /\ Cardinality(DOMAIN e) <= MaxEntries
      /\ e = [t \in DOMAIN e |-> e[t]] /\ \A t \in DOMAIN e : e[t] = f[t]
      /\ Cardinality(DOMAIN f) <= MaxEntries => DOMAIN e = DOMAIN f
  BY <1>6, PrunedKeeps DEF f
<1>8. ASSUME NEW t \in DOMAIN f
      PROVE  /\ f[t] \in Entry /\ Len(f[t].seen) <= MaxSeen
             /\ Distinct(f[t].seen) /\ Range(f[t].seen) \subseteq C(t)
             /\ \A r \in Range(f[t].seen) : Length[r] = "long" => r \in G \cup past.replied
  <2>1. CASE t \in DOMAIN s
    <3>1. \A r \in Seen(t) : Length[r] = "long" => r \in given \cup past.replied
      BY DEF Seen, LedgerFor
    <3>2. \A r \in Range(s[t].got) : Length[r] = "long" => r \in G \cup past.replied
      <4>1. Range(s[t].got) \subseteq Remarks
        BY <1>3, <2>1 DEF Under
      <4> QED BY <1>1, <2>1, <3>1, <4>1
    <3> QED BY <1>3, <1>5, <2>1, <3>1, <3>2
  <2>2. CASE t \in DOMAIN ledger \ DOMAIN s
    BY <1>4, <2>2 DEF LedgerFor
  <2> QED BY <1>2, <2>1, <2>2
<1>9. ASSUME NEW r \in G, ~(Cardinality(C(ThreadOf[r])) > MaxSeen), ~(Cardinality(N) > MaxEntries)
      PROVE  ThreadOf[r] \in DOMAIN e /\ r \in Range(e[ThreadOf[r]].seen)
  <2> DEFINE t == ThreadOf[r]
  <2>1. DOMAIN e = DOMAIN f /\ Cardinality(C(t)) \in Nat /\ Cardinality(C(t)) <= MaxSeen
        /\ ~(Cardinality(recorded) > MaxEntries)
    <3>1. Cardinality(C(t)) \in Nat
      BY UnderFinite
    <3> HIDE DEF C, N, t
    <3> QED BY <1>0, <1>6, <1>7, <1>9, <3>1 DEF t
  <2>2. r \in Seen(t) => t \in DOMAIN ledger /\ r \in Range(ledger[t].seen)
    BY DEF Seen
  <2>3. r \in offered \/ (t \in DOMAIN ledger /\ r \in Range(ledger[t].seen))
    BY <1>9, <2>1 DEF LedgerFor
  <2>4. CASE t \in DOMAIN s
    <3>1. r \in Seen(t) \cup Range(s[t].got)
      BY <1>1, <2>3 DEF Seen
    <3> HIDE DEF C
    <3> QED BY <1>2, <1>5, <1>7, <2>1, <2>4, <3>1
  <2>5. CASE t \notin DOMAIN s
    <3>1. t \in DOMAIN ledger /\ r \in Range(ledger[t].seen)
      BY <1>1, <2>3, <2>5
    <3> QED BY <1>2, <1>4, <1>7, <2>1, <2>5, <3>1
  <2> QED BY <2>4, <2>5
<1>10. /\ DOMAIN e \subseteq N
       /\ \A t \in DOMAIN e :
           /\ e[t] \in Entry /\ Len(e[t].seen) <= MaxSeen
           /\ Distinct(e[t].seen) /\ Range(e[t].seen) \subseteq C(t)
           /\ \A r \in Range(e[t].seen) : Length[r] = "long" => r \in G \cup past.replied
  <2> HIDE DEF C, G, N
  <2> QED BY <1>6, <1>7, <1>8
<1> HIDE DEF G, N
<1>11. LedgerFor(e, N, G, written, past.replied)
  BY <1>6, <1>7, <1>9, <1>10 DEF LedgerFor
<1> QED BY <1>11 DEF G, N

\* What a session reads is offered, or had its chance; and what is offered again was
\* forgotten.
LEMMA ScanSound ==
  ASSUME written \subseteq Remarks, LedgerFor(ledger, recorded, given, written, past.replied),
         NEW s, DOMAIN s \subseteq Threads, \A t \in DOMAIN s : ReadOf(t, s[t]),
         NEW t \in DOMAIN s, NEW r \in Range(s[t].got)
  PROVE  /\ Length[r] = "long" /\ r \notin past.replied => r \in SnapshotsToSourceItems(s) \cup given
         /\ r \in SnapshotsToSourceItems(s) \cap given => MayBeForgotten(r)
<1>1. r \in Remarks /\ ThreadOf[r] = t
  BY DEF ReadOf, Comments
<1>2. /\ r \in SnapshotsToSourceItems(s) => r \notin Seen(t)
      /\ Length[r] = "long" => r \in SnapshotsToSourceItems(s) \cup past.replied \cup Seen(t)
  BY <1>1, OfferIs
<1>3. Length[r] = "long" /\ r \in Seen(t) => r \in given \cup past.replied
  BY DEF Seen, LedgerFor
<1>4. r \in given /\ r \notin Seen(t) => MayBeForgotten(r)
  BY <1>1 DEF Seen, LedgerFor, MayBeForgotten, Under, Comments
<1> QED BY <1>2, <1>3, <1>4

\* At the start nothing was read.
LEMMA ScanInitially == ScanInit => ScanInv
<1> SUFFICES ASSUME ScanInit PROVE ScanInv
  OBVIOUS
<1>1. LedgerFor(ledger, recorded, given, written, past.replied)
  <2>1. Cardinality({}) = 0 /\ MaxEntries \in Nat
    BY FS_EmptySet, ScanAssumption
  <2>2. ledger = [t \in {} |-> {}] /\ given = {} /\ recorded = {}
    BY DEF ScanInit, Nothing
  <2> QED BY <2>1, <2>2 DEF LedgerFor
<1>2. past \in [replied : SUBSET Items, drafted : SUBSET Items, own : Seq(Threads)]
  BY DEF ScanInit, NoPast
<1> QED BY <1>1, <1>2 DEF ScanInv, ScanInit, NoSession, ScanIsSound, Nothing

\* What the steps between sessions, and most steps of a session, have in common: only the
\* history, the queue and what is written change, and these grow.
LEMMA RestOfScan ==
  ASSUME ScanInv, UNCHANGED <<ledger, recorded, given>>,
         written \subseteq written', written' \subseteq Remarks, waiting' \subseteq Items,
         past' \in [replied : SUBSET Items, drafted : SUBSET Items, own : Seq(Threads)],
         past.replied \subseteq past'.replied,
         \/ stage' = "idle" /\ EndSession
         \/ /\ UNCHANGED <<reads, offer, scan>>
            /\ stage # "idle" /\ stage' \in {"draft", "enqueue"}
            /\ choice' \subseteq offer /\ \A i, j \in choice' : i = j
         \/ stage = "idle" /\ UNCHANGED session
  PROVE  ScanInv'
<1>1. LedgerFor(ledger, recorded, given, written', past'.replied)
  BY LedgerStays DEF ScanInv
<1>2. CASE EndSession /\ stage' = "idle"
  <2>1. reads' = [t \in {} |-> {}] /\ offer' = {} /\ choice' = {} /\ scan' = Nothing
    BY <1>2 DEF EndSession, Nothing
  <2> QED BY <1>1, <1>2, <2>1 DEF ScanInv, ScanIsSound
<1>3. CASE UNCHANGED <<reads, offer, scan>> /\ stage # "idle" /\ stage' \in {"draft", "enqueue"}
           /\ choice' \subseteq offer /\ \A i, j \in choice' : i = j
  <2>1. LedgerFor(scan, recorded \cup DOMAIN reads, given \cup (offer \cap Remarks), written', past'.replied)
    BY <1>3, LedgerStays DEF ScanInv
  <2> QED BY <1>1, <1>3, <2>1 DEF ScanInv, ScanIsSound
<1>4. CASE stage = "idle" /\ UNCHANGED session
  BY <1>1, <1>4 DEF ScanInv, ScanIsSound, session
<1> QED BY <1>2, <1>3, <1>4

\* What is touched last is a thread, and goes first.
LEMMA TouchOK ==
  ASSUME ScanInv, NEW i \in Items
  PROVE  Touch(Home(i)) \in Seq(Threads)
<1>1. past.own \in Seq(Threads) /\ Home(i) \in Threads
  BY ScanAssumption DEF ScanInv, Home, Items
<1>2. Without(past.own, {Home(i)}) \in Seq(Threads)
  BY <1>1, WithoutKeeps
<1> QED BY <1>1, <1>2 DEF Touch

\* Reading, and what it offers, with any backend.
LEMMA IngestStep ==
  ASSUME ScanInv, NEW results \in SUBSET Threads, NEW ownLimit, NEW limit,
         Ingest(results, ownLimit, limit)
  PROVE  ScanInv'
<1>1. /\ written \subseteq Remarks /\ past.own \in Seq(Threads)
      /\ LedgerFor(ledger, recorded, given, written, past.replied)
  BY DEF ScanInv
<1>2. PICK mine \in ReadsOf(OwnReads, TRUE, ownLimit) :
        \E picked \in PickThreadReadCandidates(results) :
        \E found \in ReadsOf(DiscoveryReads(picked), FALSE, limit) :
          LET s == DedupeSnapshots(mine, found)
          IN /\ reads' = s
             /\ offer' = SnapshotsToSourceItems(s)
             /\ scan' \in Pruned(Over(UpsertFromSnapshots(s), ledger))
  BY DEF Ingest
<1>3. PICK picked \in PickThreadReadCandidates(results) :
        \E found \in ReadsOf(DiscoveryReads(picked), FALSE, limit) :
          LET s == DedupeSnapshots(mine, found)
          IN /\ reads' = s
             /\ offer' = SnapshotsToSourceItems(s)
             /\ scan' \in Pruned(Over(UpsertFromSnapshots(s), ledger))
  BY <1>2
<1>4. PICK found \in ReadsOf(DiscoveryReads(picked), FALSE, limit) :
          LET s == DedupeSnapshots(mine, found)
          IN /\ reads' = s
             /\ offer' = SnapshotsToSourceItems(s)
             /\ scan' \in Pruned(Over(UpsertFromSnapshots(s), ledger))
  BY <1>3
<1> DEFINE s == DedupeSnapshots(mine, found)
<1>5. /\ reads' = s /\ offer' = SnapshotsToSourceItems(s)
      /\ scan' \in Pruned(Over(UpsertFromSnapshots(s), ledger))
  BY <1>4
<1>6. OwnReads \subseteq Threads /\ DiscoveryReads(picked) \subseteq Threads
  <2>1. Range(Latest(past.own, MaxOwn)) \subseteq Range(past.own)
    <3> DEFINE n == IF MaxOwn < Len(past.own) THEN MaxOwn ELSE Len(past.own)
    <3>1. n \in Nat /\ n <= Len(past.own) /\ \A i \in 1..n : past.own[i] \in Threads
      BY <1>1, ScanAssumption
    <3> HIDE DEF n
    <3>2. SubSeq(past.own, 1, n) \in Seq(Threads)
      BY <3>1, SubSeqProperties
    <3>3. Len(SubSeq(past.own, 1, n)) = n /\ \A i \in 1..n : SubSeq(past.own, 1, n)[i] = past.own[i]
      <4>1. /\ Len(SubSeq(past.own, 1, n)) = IF 1 <= n THEN n - 1 + 1 ELSE 0
            /\ \A i \in 1..n - 1 + 1 : SubSeq(past.own, 1, n)[i] = past.own[1 + i - 1]
        BY <3>1, SubSeqProperties
      <4> QED BY <3>1, <4>1
    <3>4. DOMAIN SubSeq(past.own, 1, n) = 1..n /\ 1..n \subseteq DOMAIN past.own
      BY <1>1, <3>1, <3>2, <3>3
    <3> QED BY <3>3, <3>4 DEF Range, Latest, n
  <2>2. Range(past.own) \subseteq Threads
    BY <1>1 DEF Range
  <2>3. picked \subseteq results
    BY DEF PickThreadReadCandidates, kSubset
  <2> QED BY <2>1, <2>2, <2>3 DEF OwnReads, DiscoveryReads
<1>7. DOMAIN s \subseteq Threads /\ \A t \in DOMAIN s : ReadOf(t, s[t])
  <2>1. /\ DOMAIN mine \subseteq Threads /\ \A t \in DOMAIN mine : ReadOf(t, mine[t])
        /\ DOMAIN found \subseteq Threads /\ \A t \in DOMAIN found : ReadOf(t, found[t])
    BY <1>1, <1>6, ReadsKeep
  <2> QED BY <2>1 DEF DedupeSnapshots, Over
<1> HIDE DEF s
<1>8. LedgerFor(scan', recorded \cup DOMAIN s, given \cup (SnapshotsToSourceItems(s) \cap Remarks),
                written, past.replied)
  BY <1>1, <1>5, <1>7, LedgerRead
<1>9. /\ stage' = "plan" /\ choice' = {}
      /\ UNCHANGED <<byPlace, written, ledger, past, waiting, given, recorded>>
  BY DEF Ingest
<1>10. ScanIsSound'
  <2> SUFFICES ASSUME NEW t \in DOMAIN s, NEW r \in Range(s[t].got)
               PROVE  /\ Length[r] = "long" /\ r \notin past.replied
                           => r \in SnapshotsToSourceItems(s) \cup given
                      /\ r \in SnapshotsToSourceItems(s) \cap given => MayBeForgotten(r)'
    BY <1>5, <1>9 DEF ScanIsSound
  <2>1. MayBeForgotten(r)' <=> MayBeForgotten(r)
    BY <1>9 DEF MayBeForgotten, Comments
  <2> QED BY <1>1, <1>7, <2>1, ScanSound
<1>11. SnapshotsToSourceItems(s) \subseteq Items
  BY <1>1, <1>7, OfferIs
<1> QED BY <1>5, <1>7, <1>8, <1>9, <1>10, <1>11 DEF ScanInv

\* Saving the ledger gives what was offered its only chance.
LEMMA ScanSaved ==
  ASSUME ScanInv, stage # "idle", SaveMemory, UNCHANGED <<written, past>>
  PROVE  LedgerFor(ledger', recorded', given', written', past'.replied)
BY DEF ScanInv, SaveMemory

\* The steps that save, and time.
LEMMA QueueUpvoteStep == ScanInv /\ QueueUpvote => ScanInv'
<1> SUFFICES ASSUME ScanInv, QueueUpvote PROVE ScanInv'
  OBVIOUS
<1>1. /\ stage # "idle" /\ SaveMemory /\ stage' = "enqueue"
      /\ UNCHANGED <<written, past, waiting, reads, offer, scan, choice>>
  BY DEF QueueUpvote
<1>2. LedgerFor(ledger', recorded', given', written', past'.replied)
  BY <1>1, ScanSaved
<1>3. /\ recorded' \cup DOMAIN reads' = recorded' /\ given' \cup (offer' \cap Remarks) = given'
      /\ scan' = ledger'
  BY <1>1 DEF SaveMemory
<1> QED BY <1>1, <1>2, <1>3 DEF ScanInv, ScanIsSound

LEMMA EnqueueJobStep == ScanInv /\ EnqueueJob => ScanInv'
<1> SUFFICES ASSUME ScanInv, EnqueueJob PROVE ScanInv'
  OBVIOUS
<1>1. /\ stage # "idle" /\ SaveMemory /\ EndSession /\ waiting' = waiting \cup choice
      /\ UNCHANGED <<written, past>>
  BY DEF EnqueueJob
<1>2. LedgerFor(ledger', recorded', given', written', past'.replied)
  BY <1>1, ScanSaved
<1>3. reads' = [t \in {} |-> {}] /\ offer' = {} /\ choice' = {} /\ scan' = Nothing /\ stage' = "idle"
  BY <1>1 DEF EndSession, Nothing
<1> QED BY <1>1, <1>2, <1>3 DEF ScanInv, ScanIsSound

LEMMA PeriodStep == ScanInv /\ PeriodPasses => ScanInv'
<1> SUFFICES ASSUME ScanInv, PeriodPasses PROVE ScanInv'
  OBVIOUS
<1>1. LedgerFor(ledger', recorded, given, written, past.replied)
  BY LedgerAged DEF ScanInv, PeriodPasses
<1> QED BY <1>1 DEF ScanInv, PeriodPasses, ScanIsSound, session

\* No step breaks the invariant.
LEMMA ScanStep == ScanInv /\ [ScanNext]_scanVars => ScanInv'
<1> SUFFICES ASSUME ScanInv, [ScanNext]_scanVars PROVE ScanInv'
  OBVIOUS
<1>1. /\ past \in [replied : SUBSET Items, drafted : SUBSET Items, own : Seq(Threads)]
      /\ written \subseteq Remarks /\ waiting \subseteq Items /\ offer \subseteq Items /\ choice \subseteq offer
      /\ stage \in {"idle", "plan", "draft", "enqueue"} /\ \A i, j \in choice : i = j
  BY DEF ScanInv
<1>2. CASE IngestViaReddapi
  <2>1. PICK results \in Searched : Ingest(results, Cardinality(Remarks), Cardinality(Remarks))
    BY <1>2 DEF IngestViaReddapi
  <2>2. results \in SUBSET Threads
    BY DEF Searched
  <2> QED BY <2>1, <2>2, IngestStep
<1>3. CASE IngestViaUnofficial \/ IngestViaBrowser \/ IngestViaApi
  <2>1. PICK results \in SUBSET Threads :
          Ingest(results, OwnLimit, DiscoveryLimit) \/ Ingest(results, OwnLimit, 0)
    BY <1>3 DEF IngestViaUnofficial, IngestViaBrowser, IngestViaApi, Listed
  <2> QED BY <2>1, IngestStep
<1>4. CASE ChooseAction
  <2>1. PICK verdicts \in Triaged : \E passing \in PassingGates(verdicts) :
          \E i \in passing : choice' = {i}
    BY <1>4 DEF ChooseAction
  <2>2. choice' \subseteq offer /\ \A i, j \in choice' : i = j
    BY <2>1 DEF PassingGates, WithSignals
  <2> QED BY <1>1, <1>4, <2>2, RestOfScan DEF ChooseAction
<1>5. CASE GiveUp
  BY <1>1, <1>5, RestOfScan DEF GiveUp, EndSession
<1>6. CASE DryRun
  <2>1. PICK i \in choice : past' = [past EXCEPT !.drafted = @ \cup {i}, !.own = Touch(Home(i))]
    BY <1>6 DEF DryRun
  <2>2. Touch(Home(i)) \in Seq(Threads) /\ i \in Items
    BY <1>1, TouchOK
  <2>3. /\ past' \in [replied : SUBSET Items, drafted : SUBSET Items, own : Seq(Threads)]
        /\ past'.replied = past.replied
    BY <1>1, <2>1, <2>2
  <2>4. EndSession /\ stage' = "idle" /\ UNCHANGED <<byPlace, written, ledger, waiting, given, recorded>>
    BY <1>6 DEF DryRun, EndSession
  <2> QED BY <1>1, <2>3, <2>4, RestOfScan
<1>7. CASE PublishReply
  <2>1. PICK i \in waiting, visible \in BOOLEAN :
          /\ waiting' = waiting \ {i}
          /\ past' = [past EXCEPT !.replied = @ \cup {i},
                                  !.own = IF visible THEN Touch(Home(i)) ELSE @]
    BY <1>7 DEF PublishReply
  <2>2. Touch(Home(i)) \in Seq(Threads) /\ i \in Items
    BY <1>1, TouchOK
  <2>3. /\ past' \in [replied : SUBSET Items, drafted : SUBSET Items, own : Seq(Threads)]
        /\ past'.replied = past.replied \cup {i}
    BY <1>1, <2>1, <2>2
  <2>4. stage = "idle" /\ UNCHANGED <<byPlace, written, ledger, session, given, recorded>>
    BY <1>7 DEF PublishReply
  <2>5. waiting' \subseteq Items
    BY <1>1, <2>1
  <2> QED BY <1>1, <2>3, <2>4, <2>5, RestOfScan
<1>8. CASE DropJob
  BY <1>1, <1>8, RestOfScan DEF DropJob
<1>9. CASE WriteRemark
  BY <1>1, <1>9, RestOfScan DEF WriteRemark
<1>10. CASE UNCHANGED scanVars
  BY <1>10 DEF scanVars, session, ScanInv, ScanIsSound, MayBeForgotten, Comments
<1> QED BY <1>2, <1>3, <1>4, <1>5, <1>6, <1>7, <1>8, <1>9, <1>10, QueueUpvoteStep, EnqueueJobStep,
           PeriodStep DEF ScanNext

\* At every step of a session and between sessions, both ledgers remember what had its
\* chance.
THEOREM ScanInvariant == ScanSpec => []ScanInv
<1> QED BY ScanInitially, ScanStep, PTL DEF ScanSpec

\* Each comment that is read is offered, or had its chance; and it is not offered again unless
\* the ledger had to forget it.
THEOREM ScanSoundCorrect == ScanSpec => []ScanIsSound
<1>1. ScanInv => ScanIsSound
  BY DEF ScanInv
<1> QED BY <1>1, ScanInvariant, PTL

\* Ledgers keep to their limits, whatever is read and however often.
THEOREM ScanTypeCorrect == ScanSpec => []ScanTypeOK
<1>1. ScanInv => ScanTypeOK
  <2> SUFFICES ASSUME ScanInv PROVE ScanTypeOK
    OBVIOUS
  <2>1. ASSUME NEW l, NEW N, NEW S, LedgerFor(l, N, S, written, past.replied) PROVE LedgerOK(l)
    BY <2>1 DEF LedgerFor, LedgerOK, Under
  <2>2. LedgerOK(ledger)
    BY <2>1 DEF ScanInv
  <2>3. LedgerOK(scan)
    <3>1. CASE stage = "idle"
      <4>1. scan = [t \in {} |-> {}]
        BY <3>1 DEF ScanInv, Nothing
      <4>2. Cardinality({}) = 0 /\ MaxEntries \in Nat
        BY FS_EmptySet, ScanAssumption
      <4> QED BY <4>1, <4>2 DEF LedgerOK
    <3>2. CASE stage # "idle"
      BY <2>1, <3>2 DEF ScanInv
    <3> QED BY <3>1, <3>2
  <2>4. Cardinality(choice) <= 1
    <3>1. CASE choice = {}
      BY <3>1, FS_EmptySet
    <3>2. CASE choice # {}
      <4>1. PICK i \in choice : TRUE
        BY <3>2
      <4>2. choice = {i}
        BY <4>1 DEF ScanInv
      <4>3. Cardinality({i}) = 1
        BY FS_Singleton
      <4> QED BY <4>2, <4>3
    <3> QED BY <3>1, <3>2
  <2>5. Range(past.own) \subseteq Threads
    BY DEF Range, ScanInv
  <2>6. given \subseteq Remarks /\ recorded \subseteq Threads
    BY DEF ScanInv, LedgerFor
  <2> QED BY <2>2, <2>3, <2>4, <2>5, <2>6 DEF ScanTypeOK, ScanInv
<1> QED BY <1>1, ScanInvariant, PTL

----------------------------------------------------------------------------
\* The views of MCReddit together.  Each of them does its own steps or none.
LEMMA EachView == RedditSpec => Spec /\ ScanSpec /\ ReplySpec
<1>1. RedditInit => Init /\ ScanInit /\ ReplyInit
  BY DEF RedditInit
<1>2. [RedditNext]_redditVars => [Next]_vars /\ [ScanNext]_scanVars /\ [ReplyNext]_replyVars
  BY DEF RedditNext, redditVars
<1> QED BY <1>1, <1>2, PTL DEF RedditSpec, Spec, ScanSpec, ReplySpec

\* The runtime, the scan and the replies keep their type invariants, whichever it is that
\* moves.
THEOREM RedditTypesCorrect == RedditSpec => []TypesOK
<1> DEFINE OneView == view \in {"runtime", "scan", "reply"}
<1>1. RedditSpec => []OneView
  <2>1. RedditInit => OneView
    BY DEF RedditInit
  <2>2. OneView /\ [RedditNext]_redditVars => OneView'
    BY DEF RedditNext, redditVars
  <2> QED BY <2>1, <2>2, PTL DEF RedditSpec
<1>2. OneView /\ TypeOK /\ ScanTypeOK /\ ReplyTypeOK => TypesOK
  BY DEF TypesOK
<1> QED BY <1>1, <1>2, EachView, RuntimeTypeCorrect, ScanTypeCorrect, ReplyTypeCorrect, PTL
=============================================================================
