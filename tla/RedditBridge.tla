---------------------------- MODULE RedditBridge ----------------------------
(***************************************************************************)
(* The bridge between an agent run and the browser that acts at Reddit.    *)
(* The run puts a request into a directory and polls for the response, for *)
(* a while; a worker claims requests by renaming them into another         *)
(* directory, carries them out and answers.  A lock file is to keep it at  *)
(* one worker.  Runs and workers can be killed anywhere; what a worker was *)
(* processing then is put back when one starts.                            *)
(*                                                                         *)
(* Requests are numbered in the order of their file names, which begin     *)
(* with the time.  One run at a time has one request under way.            *)
(***************************************************************************)
EXTENDS Integers, FiniteSets, FiniteSetsExt

CONSTANTS
  Worker,   \* the processes that may serve as worker
  NoWorker,
  MaxSends, \* bound of the model on requests
  MaxDone,  \* bound of the model on executions counted
  MaxFaults \* bound of the model on killed runs, killed or stopped workers and
            \* overwritten locks

ASSUME BridgeAssumption ==
  /\ NoWorker \notin Worker
  /\ {MaxSends, MaxDone} \subseteq Nat \ {0}
  /\ MaxFaults \in Nat

VARIABLES
  client,     \* what the agent run does
  sent,       \* the number of requests sent, the last one by this run
  verdict,    \* what the run that sent a request learnt
  requests,   \* the files in requests/
  processing, \* the files in processing/
  responses,  \* the files in responses/
  lock,       \* whose pid worker.lock holds
  pc,         \* what each worker does
  held,       \* the request each worker works on, or 0
  closing,    \* a worker was asked to stop
  done,       \* external: how often Reddit carried out a request
  orphans,    \* requests whose worker was killed before it had unlinked them
  raced,      \* a worker overwrote the lock of another that was running
  faults

dirs == <<requests, processing, responses>>
agent == <<client, sent, verdict>>
workers == <<lock, pc, held, closing>>
history == <<orphans, raced, faults>>
vars == <<agent, dirs, workers, done, history>>

Ids == 1..MaxSends
Verdict == {"none", "ok", "failed", "late"}

NoResponses == [i \in {} |-> "none"]

Init ==
  /\ client = "idle" /\ sent = 0 /\ verdict = [i \in Ids |-> "none"]
  /\ requests = {} /\ processing = {} /\ responses = NoResponses
  /\ lock = NoWorker /\ pc = [w \in Worker |-> "down"]
  /\ held = [w \in Worker |-> 0] /\ closing = [w \in Worker |-> FALSE]
  /\ done = [i \in Ids |-> 0]
  /\ orphans = {} /\ raced = FALSE /\ faults = 0

----------------------------------------------------------------------------
\* The agent run.

Send ==
  /\ client = "idle" /\ sent < MaxSends
  /\ sent' = sent + 1
  /\ requests' = requests \cup {sent'}
  /\ client' = "waiting"
  /\ UNCHANGED <<verdict, processing, responses, workers, done, history>>

Learn(v) == verdict' = [verdict EXCEPT ![sent] = v] /\ client' = "leaving"

Receive ==
  /\ client = "waiting" /\ sent \in DOMAIN responses
  /\ Learn(responses[sent])
  /\ UNCHANGED <<sent, dirs, workers, done, history>>

\* The last look at the directory may be before the response is there.
TimeOut ==
  /\ client = "waiting"
  /\ Learn("late")
  /\ UNCHANGED <<sent, dirs, workers, done, history>>

\* Whatever happened the run removes the two files, each unless it is gone: a
\* request that is being processed is not withdrawn.
RemoveRequest ==
  /\ client = "leaving"
  /\ requests' = requests \ {sent}
  /\ client' = "clearing"
  /\ UNCHANGED <<sent, verdict, processing, responses, workers, done, history>>

Without(f, i) == [j \in DOMAIN f \ {i} |-> f[j]]

RemoveResponse ==
  /\ client = "clearing"
  /\ responses' = Without(responses, sent)
  /\ client' = "idle"
  /\ UNCHANGED <<sent, verdict, requests, processing, workers, done, history>>

\* The next run starts with another request and leaves these files alone.
KillRun ==
  /\ client # "idle" /\ faults < MaxFaults
  /\ client' = "idle" /\ faults' = faults + 1
  /\ UNCHANGED <<sent, verdict, dirs, workers, done, orphans, raced>>

----------------------------------------------------------------------------
\* The worker: starting.

Alive(w) == pc[w] # "down"
Goto(w, next) == pc' = [pc EXCEPT ![w] = next]

\* Workers that may touch requests.
Serving == {w \in Worker : pc[w] \notin {"down", "locking"}}

LockIsTaken_Never(w) == FALSE

LockIsTaken(w) == \E x \in Worker \ {w} : lock = x /\ Alive(x)

\* A process that finds the lock taken ends again.
Start(w) ==
  /\ pc[w] = "down" /\ ~LockIsTaken(w)
  /\ Goto(w, "locking")
  /\ UNCHANGED <<agent, dirs, lock, held, closing, done, history>>

\* The file is written without another look, over that of a worker that took it
\* in between.
TakeLock(w) ==
  /\ pc[w] = "locking"
  /\ lock' = w /\ Goto(w, "restoring")
  /\ raced' = (raced \/ LockIsTaken(w))
  /\ LockIsTaken(w) => faults < MaxFaults
  /\ faults' = IF LockIsTaken(w) THEN faults + 1 ELSE faults
  /\ UNCHANGED <<agent, dirs, held, closing, done, orphans>>

Restore_Nothing(w) ==
  /\ pc[w] = "restoring" /\ Goto(w, "polling")
  /\ UNCHANGED <<agent, dirs, lock, held, closing, done, history>>

Restore_Copied(w) ==
  /\ pc[w] = "restoring" /\ Goto(w, "polling")
  /\ requests' = requests \cup processing
  /\ UNCHANGED <<agent, processing, responses, lock, held, closing, done, history>>

\* All that is being processed is put back, whoever processed it.
Restore(w) ==
  /\ pc[w] = "restoring"
  /\ requests' = requests \cup processing /\ processing' = {}
  /\ Goto(w, "polling")
  /\ UNCHANGED <<agent, responses, lock, held, closing, done, history>>

----------------------------------------------------------------------------
\* The worker: serving one request after the other, in the order of the names.

NextOf_Any(S) == S
NextOf(S) == {Min(S)}

Claim(w) ==
  /\ pc[w] = "polling" /\ ~closing[w] /\ requests # {}
  /\ \E i \in NextOf(requests) :
       /\ requests' = requests \ {i} /\ processing' = processing \cup {i}
       /\ held' = [held EXCEPT ![w] = i]
  /\ Goto(w, "reading")
  /\ UNCHANGED <<agent, responses, lock, closing, done, history>>

Read(w) ==
  /\ pc[w] = "reading" /\ held[w] \in processing
  /\ Goto(w, "fulfilling")
  /\ UNCHANGED <<agent, dirs, lock, held, closing, done, history>>

\* The form is submitted.
Submit(w) ==
  /\ pc[w] = "fulfilling"
  /\ done' = [done EXCEPT ![held[w]] = IF @ < MaxDone THEN @ + 1 ELSE @]
  /\ Goto(w, "submitted")
  /\ UNCHANGED <<agent, dirs, lock, held, closing, history>>

Respond(w, answer) ==
  /\ responses' = [i \in DOMAIN responses \cup {held[w]} |->
                     IF i = held[w] THEN answer ELSE responses[i]]
  /\ Goto(w, "unlinking")
  /\ UNCHANGED <<agent, requests, processing, lock, held, closing, done, history>>

Succeed_Early(w) == pc[w] \in {"fulfilling", "submitted"} /\ Respond(w, "ok")

Succeed(w) == pc[w] = "submitted" /\ Respond(w, "ok")

\* The file has gone, or the browser fails, before the submission or after it:
\* no permalink, a challenge page, a browser that was closed.
Fail(w) ==
  /\ \/ pc[w] \in {"fulfilling", "submitted"}
     \/ pc[w] = "reading" /\ held[w] \notin processing
  /\ Respond(w, "failed")

Unlink(w) ==
  /\ pc[w] = "unlinking"
  /\ processing' = processing \ {held[w]}
  /\ held' = [held EXCEPT ![w] = 0]
  /\ Goto(w, "polling")
  /\ UNCHANGED <<agent, requests, responses, lock, closing, done, history>>

----------------------------------------------------------------------------
\* The worker: ending.

\* A signal lets a worker finish the request it has, once it serves.
Signal(w) ==
  /\ w \in Serving /\ pc[w] # "restoring" /\ ~closing[w] /\ faults < MaxFaults
  /\ closing' = [closing EXCEPT ![w] = TRUE] /\ faults' = faults + 1
  /\ UNCHANGED <<agent, dirs, lock, pc, held, done, orphans, raced>>

Down(w) == Goto(w, "down") /\ closing' = [closing EXCEPT ![w] = FALSE]

Close(w) ==
  /\ pc[w] = "polling" /\ closing[w]
  /\ Down(w)
  /\ lock' = IF lock = w THEN NoWorker ELSE lock
  /\ UNCHANGED <<agent, dirs, held, done, history>>

Kill(w) ==
  /\ Alive(w) /\ faults < MaxFaults
  /\ Down(w) /\ faults' = faults + 1
  /\ held' = [held EXCEPT ![w] = 0]
  /\ orphans' = orphans \cup ({held[w]} \ {0})
  /\ UNCHANGED <<agent, dirs, lock, done, raced>>

----------------------------------------------------------------------------

Run == Send \/ Receive \/ TimeOut \/ RemoveRequest \/ RemoveResponse

Work(w) == \/ Start(w) \/ TakeLock(w) \/ Restore(w) \/ Claim(w)
           \/ Read(w) \/ Submit(w) \/ Succeed(w) \/ Fail(w) \/ Unlink(w) \/ Close(w)

Next == \/ Run \/ KillRun
        \/ \E w \in Worker : Work(w) \/ Signal(w) \/ Kill(w)

Spec == Init /\ [][Next]_vars

\* A worker goes on, and is started again when it has ended.
FairSpec == Spec /\ \A w \in Worker : WF_vars(Work(w))

----------------------------------------------------------------------------
\* Properties.

Open == requests \cup processing \cup ({held[w] : w \in Serving} \ {0})

\* Directories and workers are consistent: a file is in one place, and what is
\* processed is held by a worker, or will be put back.
TypeOK ==
  /\ client \in {"idle", "waiting", "leaving", "clearing"} /\ sent \in 0..MaxSends
  /\ verdict \in [Ids -> Verdict]
  /\ requests \subseteq 1..sent /\ processing \subseteq 1..sent
  /\ requests \cap processing = {}
  /\ DOMAIN responses \subseteq 1..sent
  /\ \A i \in DOMAIN responses : responses[i] \in {"ok", "failed"}
  /\ lock \in Worker \cup {NoWorker}
  /\ held \in [Worker -> 0..sent] /\ closing \in [Worker -> BOOLEAN]
  /\ \A w \in Worker :
       held[w] # 0 <=> pc[w] \in {"reading", "fulfilling", "submitted", "unlinking"}
  /\ done \in [Ids -> 0..MaxDone]
  /\ orphans \subseteq 1..sent /\ raced \in BOOLEAN /\ faults \in 0..MaxFaults

\* A request is carried out twice only if its worker was killed while it had
\* it, or if two workers passed the lock at the same time.
OnceUnlessOrphaned == \A i \in Ids : done[i] <= 1 \/ i \in orphans \/ raced

\* What a run reports as published was published.
OkIsDone == \A i \in Ids : verdict[i] = "ok" => done[i] >= 1

\* When a run has an answer, no earlier request is still to be carried out, late
\* and restored ones included, unless workers raced.
AnsweredInOrder ==
  \A i \in Ids : verdict[i] \in {"ok", "failed"} => raced \/ \A j \in Open : j >= i

\* A request is withdrawn or served, however often workers are killed, and its
\* file does not stay for ever.  Of two workers that passed the lock one may be
\* killed: the other never puts back what that one was processing.
RequestsSettle ==
  \A i \in Ids : i \in requests ~> i \notin requests \cup processing \/ raced
============================================================================
