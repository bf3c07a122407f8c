------------------------------ MODULE LlmBridge ------------------------------
(***************************************************************************)
(* The bridge by which a person, or another agent, answers for the         *)
(* language model.  A server writes each request to a file and polls for a *)
(* response file.  A directory, which a server empties when it starts and  *)
(* removes when it ends, is shared by all servers that are ever started,   *)
(* and by the command that stops them.                                     *)
(***************************************************************************)
EXTENDS Integers, FiniteSets

CONSTANTS
  Servers,  \* processes of the bridge server
  Requests, \* requests that clients send
  MaxStarts, MaxStops \* bounds of the model

NoOne == "nobody"

ASSUME LlmBridgeAssumption == {MaxStarts, MaxStops} \subseteq Nat /\ NoOne \notin Servers

VARIABLES
  server,   \* what each process does
  dir,      \* does the bridge directory exist?
  status,   \* the pid in status.json
  requestFiles, responseFiles, \* the latter are "part" while they are written
  request,  \* where each request is, whether its file was ever there to be seen, and
            \* what was read of its response
  stopping, \* the pid that a stop command waits for
  starts, stops, \* how often
  wiped,    \* servers whose directory another process has removed
  crashed   \* servers that have ended with an unhandled rejection

llmVars == <<server, dir, status, requestFiles, responseFiles, request, stopping,
             starts, stops, wiped, crashed>>

NoFiles == [r \in Requests |-> NoOne]

LlmInit ==
  /\ server = [s \in Servers |-> "down"] /\ dir = FALSE /\ status = NoOne
  /\ requestFiles = {} /\ responseFiles = NoFiles
  /\ request = [r \in Requests |-> [at |-> "new", server |-> NoOne, seen |-> FALSE, read |-> NoOne]]
  /\ stopping = NoOne /\ starts = 0 /\ stops = 0 /\ wiped = {} /\ crashed = {}

Runs(s) == server[s] # "down"

\* It has the port.
Listens(s) == server[s] \in {"listening", "up", "bare"}

OpenRequests(s) ==
  {r \in Requests : request[r].server = s /\ request[r].at \notin {"answered", "done", "failed"}}

\* The connections of a process that ends are reset.
Reset(s) ==
  request' = [r \in Requests |->
                IF r \in OpenRequests(s) THEN [request[r] EXCEPT !.at = "failed"] ELSE request[r]]

\* A process removes the directory, whoever uses it.
RemoveDirectory(s) ==
  /\ requestFiles' = {} /\ responseFiles' = NoFiles /\ status' = NoOne
  /\ wiped' = (wiped \cup {t \in Servers : Runs(t)}) \ {s}

Files == <<dir, requestFiles, responseFiles, wiped>>
Stop == <<stopping, stops>>

----------------------------------------------------------------------------
\* startManualBridgeServer.

\* The directory is emptied before it is known whether the port is free.
EmptyDirectory(s) ==
  /\ server[s] = "down" /\ starts < MaxStarts /\ starts' = starts + 1
  /\ RemoveDirectory(s) /\ dir' = FALSE
  /\ server' = [server EXCEPT ![s] = "emptying"] /\ crashed' = crashed \ {s}
  /\ UNCHANGED <<request, Stop>>

MakeDirectory(s) ==
  /\ server[s] = "emptying" /\ server' = [server EXCEPT ![s] = "starting"]
  /\ dir' = TRUE /\ wiped' = wiped \ {s}
  /\ UNCHANGED <<status, requestFiles, responseFiles, request, Stop, starts, crashed>>

\* Listening fails when another server has the port.
Listen(s) ==
  /\ server[s] = "starting"
  /\ server' = [server EXCEPT ![s] = IF \E t \in Servers : Listens(t) THEN "down" ELSE "listening"]
  /\ UNCHANGED <<status, Files, request, Stop, starts, crashed>>

\* Its handlers of signals are set up after the status is written.  When that fails it
\* goes on listening without them.
WriteListening(s) ==
  /\ server[s] = "listening"
  /\ server' = [server EXCEPT ![s] = IF dir THEN "up" ELSE "bare"]
  /\ status' = IF dir THEN s ELSE status
  /\ UNCHANGED <<Files, request, Stop, starts, crashed>>

----------------------------------------------------------------------------
\* The handler of a request.

Moves(r, label) == request' = [request EXCEPT ![r].at = label]

\* The request file is written.
ReceiveRequest(s, r) ==
  /\ Listens(s) /\ request[r].at = "new"
  /\ request' = [request EXCEPT ![r] = [@ EXCEPT !.at = IF dir THEN "written" ELSE "failing",
                                                !.server = s, !.seen = dir]]
  /\ requestFiles' = IF dir THEN requestFiles \cup {r} ELSE requestFiles
  /\ UNCHANGED <<server, dir, status, responseFiles, wiped, Stop, starts, crashed>>

\* status.json is written, or cannot be.
TryStatus(r, label) ==
  /\ IF dir THEN status' = request[r].server /\ Moves(r, label)
     ELSE UNCHANGED status /\ Moves(r, "failing")
  /\ UNCHANGED <<server, Files, Stop, starts, crashed>>

WriteStatus(r) == request[r].at = "written" /\ TryStatus(r, "waiting")

Poll_Eager(r) ==
  /\ request[r].at = "waiting" /\ responseFiles[r] # NoOne
  /\ request' = [request EXCEPT ![r] = [@ EXCEPT !.at = "read", !.read = responseFiles[r]]]
  /\ UNCHANGED <<server, status, Files, Stop, starts, crashed>>

\* What is read while it is written is no JSON.
Poll(r) ==
  /\ request[r].at = "waiting"
  /\ \/ /\ responseFiles[r] = "whole"
        /\ request' = [request EXCEPT ![r] = [@ EXCEPT !.at = "read", !.read = "whole"]]
     \/ responseFiles[r] = "part" /\ Moves(r, "failing")
  /\ UNCHANGED <<server, status, Files, Stop, starts, crashed>>

TimeOutRequest(r) ==
  /\ request[r].at = "waiting" /\ Moves(r, "failing")
  /\ UNCHANGED <<server, status, Files, Stop, starts, crashed>>

WriteReturned(r) == request[r].at = "read" /\ TryStatus(r, "returned")

AnswerRequest(r) ==
  /\ request[r].at = "returned" /\ Moves(r, "answered")
  /\ UNCHANGED <<server, status, Files, Stop, starts, crashed>>

\* Both files are removed; one that cannot be stays.
RemoveFiles(r) ==
  /\ request[r].at = "answered" /\ Runs(request[r].server) /\ Moves(r, "done")
  /\ requestFiles' \in {requestFiles, requestFiles \ {r}}
  /\ responseFiles' \in {responseFiles, [responseFiles EXCEPT ![r] = NoOne]}
  /\ UNCHANGED <<server, dir, status, wiped, Stop, starts, crashed>>

\* Writing status.json in the error path may fail too, which nobody catches.
FailRequest(r) ==
  LET s == request[r].server
  IN /\ request[r].at = "failing"
     /\ IF dir THEN status' = s /\ Moves(r, "failed") /\ UNCHANGED <<server, crashed>>
        ELSE /\ server' = [server EXCEPT ![s] = "down"] /\ crashed' = crashed \cup {s}
             /\ Reset(s) /\ UNCHANGED status
     /\ UNCHANGED <<Files, Stop, starts>>

\* Who has seen a request file, of whichever age, writes a response.
WriteResponse(r) ==
  /\ dir /\ request[r].seen /\ responseFiles[r] # "whole"
  /\ \E written \in {"part", "whole"} :
       responseFiles' = [responseFiles EXCEPT ![r] = written]
  /\ UNCHANGED <<server, dir, status, requestFiles, request, Stop, starts, wiped, crashed>>

----------------------------------------------------------------------------
\* Shutdown and stopBridgeServer.

\* SIGINT, SIGTERM or SIGHUP: no new connections.  The same signal again ends the
\* process, and so does any as long as it has no handlers of them.
SignalServer(s) ==
  \/ /\ server[s] \in {"up", "closing"} /\ server' = [server EXCEPT ![s] = "closing"]
     /\ UNCHANGED request
  \/ server[s] # "up" /\ server' = [server EXCEPT ![s] = "down"] /\ Reset(s)

Interrupt(s) ==
  /\ Runs(s) /\ stops < MaxStops /\ stops' = stops + 1 /\ SignalServer(s)
  /\ UNCHANGED <<status, Files, stopping, starts, crashed>>

\* It ends when its connections have ended.
CloseServer(s) ==
  /\ server[s] = "closing" /\ OpenRequests(s) = {}
  /\ server' = [server EXCEPT ![s] = "down"] /\ RemoveDirectory(s) /\ dir' = FALSE
  /\ UNCHANGED <<request, Stop, starts, crashed>>

\* The command takes the pid from status.json.
StopCommand ==
  /\ stopping = NoOne /\ stops < MaxStops /\ stops' = stops + 1
  /\ IF status # NoOne /\ Runs(status)
     THEN stopping' = status /\ SignalServer(status) /\ UNCHANGED <<status, Files>>
     ELSE RemoveDirectory(NoOne) /\ dir' = FALSE /\ UNCHANGED <<stopping, server, request>>
  /\ UNCHANGED <<starts, crashed>>

Stopped ==
  /\ stopping # NoOne /\ ~Runs(stopping) /\ ~dir
  /\ stopping' = NoOne
  /\ UNCHANGED <<server, status, Files, request, stops, starts, crashed>>

\* After five seconds the process is killed and the directory removed.
StopDeadline ==
  /\ stopping # NoOne /\ stopping' = NoOne
  /\ server' = [server EXCEPT ![stopping] = "down"] /\ Reset(stopping)
  /\ RemoveDirectory(NoOne) /\ dir' = FALSE
  /\ UNCHANGED <<stops, starts, crashed>>

LlmNext ==
  \/ \E s \in Servers : EmptyDirectory(s) \/ MakeDirectory(s) \/ Listen(s) \/ WriteListening(s)
  \/ \E s \in Servers : Interrupt(s) \/ CloseServer(s)
  \/ \E s \in Servers, r \in Requests : ReceiveRequest(s, r)
  \/ \E r \in Requests : WriteStatus(r) \/ Poll(r) \/ TimeOutRequest(r) \/ WriteReturned(r)
  \/ \E r \in Requests : AnswerRequest(r) \/ RemoveFiles(r) \/ FailRequest(r) \/ WriteResponse(r)
  \/ StopCommand \/ Stopped \/ StopDeadline

LlmSpec == LlmInit /\ [][LlmNext]_llmVars

----------------------------------------------------------------------------
\* Properties.

\* One server listens at a time, an open request belongs to a process that runs, and
\* without the directory there are no files.
LlmTypeOK ==
  /\ server \in
       [Servers -> {"down", "emptying", "starting", "listening", "up", "bare", "closing"}]
  /\ \A s, t \in Servers : Listens(s) /\ Listens(t) => s = t
  /\ status \in Servers \cup {NoOne} /\ stopping \in Servers \cup {NoOne}
  /\ ~dir => requestFiles = {} /\ responseFiles = NoFiles /\ status = NoOne
  /\ \A r \in Requests :
       /\ request[r].at \in {"new", "written", "waiting", "read", "returned", "answered", "done",
                            "failing", "failed"}
       /\ request[r].at \in {"written", "waiting", "read", "returned", "failing"} =>
            Runs(request[r].server)

\* Processes that remove each other's directory do no more harm than this.  What a client
\* is told is an answer written in full.  Whoever waits for a person can be found by one,
\* and a server ends with an unhandled rejection, only after another process has removed
\* the directory of that server.
BridgeIsSound ==
  /\ \A r \in Requests :
       /\ request[r].at \in {"read", "returned", "answered", "done"} => request[r].read = "whole"
       /\ request[r].at \in {"written", "waiting"} =>
            r \in requestFiles \/ request[r].server \in wiped
  /\ crashed \subseteq wiped
=============================================================================
