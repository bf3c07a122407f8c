---------------------------- MODULE MessageStats ----------------------------
(***************************************************************************)
(* The statistics of the messaging contract: collectMessageStats finds the *)
(* block to start from, scans the event logs in batches, asks for details  *)
(* of each message with a pool of concurrent workers, does the same for    *)
(* the time of each block, and folds the lot into a report.  Every request *)
(* to the node may fail.  What is sent after toBlock was read is not seen. *)
(***************************************************************************)
EXTENDS Integers, FiniteSets, SequencesExt

CONSTANTS
  MaxBlock,         \* bound of the model on the chain
  Message,          \* messages that are ever sent, 1..n in the order of the chain
  Sender, Recipient, EpochOf, Chunks, \* of each message
  Epoch, AllEpochs, \* options.epoch; AllEpochs when it is not given
  Attempts,         \* the attempts of withRetry
  BatchSize,        \* options.batchSize
  Worker            \* DETAIL_CONCURRENCY workers

ASSUME StatsAssumption ==
  /\ MaxBlock \in Nat /\ IsFiniteSet(Message) /\ Message = 1..Cardinality(Message)
  /\ EpochOf \in [Message -> Epoch] /\ AllEpochs \notin Epoch
  /\ Chunks \in [Message -> Nat \ {0}]
  /\ {Attempts, BatchSize} \subseteq Nat \ {0}

VARIABLES
  block,    \* external: the block of each message
  deployed, \* external: the block of the contract
  phase,    \* what collectMessageStats is doing
  tries,    \* failed attempts of its request
  source,   \* fromBlockSource
  low, high, to, \* the binary search for fromBlock, which is low in the end; toBlock
  cursor,   \* the start of the next batch
  epoch,    \* options.epoch
  messages, \* scannedMessages, then filteredMessages
  chunks,   \* the details of the messages
  next,     \* nextIndex of the pool
  doing,    \* the item each worker has asked for, 0 for none
  failures, \* failed attempts of each worker's request
  results   \* results of the pool, 0 where there is none yet

external == <<block, deployed>>
search == <<low, high, to, source>>
pool == <<next, doing, failures, results>>
statsVars == <<external, phase, tries, search, cursor, epoch, messages, chunks, pool>>

StatsInit ==
  /\ block \in [Message -> 0..MaxBlock]
  /\ \A m, n \in Message : m < n => block[m] <= block[n]
  /\ deployed \in 0..MaxBlock /\ \A m \in Message : deployed <= block[m]
  /\ to \in 0..MaxBlock /\ low = 0 /\ high = to
  /\ phase = "explorer" /\ tries = 0 /\ cursor = 0 /\ source = "none"
  /\ epoch \in Epoch \cup {AllEpochs} /\ messages = <<>> /\ chunks = <<>>
  /\ next = 1 /\ doing = [w \in Worker |-> 0]
  /\ failures = [w \in Worker |-> 0] /\ results = <<>>

\* The elements of a sequence that are in a set, in their order.
Filtered(s, S) == FoldLeft(LAMBDA q, x : IF x \in S THEN Append(q, x) ELSE q, <<>>, s)

LogsIn(from, upto) ==
  Filtered([m \in Message |-> m], {m \in Message : block[m] \in from..upto})

OfEpoch == {m \in Message : epoch \in {AllEpochs, EpochOf[m]}}

----------------------------------------------------------------------------
\* The block to start from.

Go(p) == phase' = p /\ tries' = 0

\* withRetry: one more attempt, or the error is thrown.
Retry(thrown) ==
  IF tries + 1 < Attempts THEN tries' = tries + 1 /\ UNCHANGED phase ELSE Go(thrown)

\* fromBlock or CONTRACT_DEPLOY_BLOCK is given, or the explorer knows the block.
StartGiven ==
  /\ phase = "explorer"
  /\ low' \in 0..to \cup {deployed} /\ cursor' = low' /\ Go("scan")
  /\ source' = "given"
  /\ UNCHANGED <<external, high, to, epoch, messages, chunks, pool>>

StartUnknown ==
  /\ phase = "explorer" /\ Go("code?")
  /\ UNCHANGED <<external, search, cursor, epoch, messages, chunks, pool>>

\* Is there code at the last block?  If not, logs will not be found either.
AskCode ==
  /\ phase = "code?"
  /\ Go(IF to >= deployed THEN "code" ELSE "logs?") \/ Retry("logs?")
  /\ UNCHANGED <<external, search, cursor, epoch, messages, chunks, pool>>

AskLogs ==
  /\ phase = "logs?"
  /\ Go(IF LogsIn(0, to) # <<>> THEN "logs" ELSE "failed") \/ Retry("failed")
  /\ low' = 0 /\ high' = to
  /\ UNCHANGED <<external, to, source, cursor, epoch, messages, chunks, pool>>

Mid == (low + high) \div 2

Halve(there) ==
  /\ high' = IF there THEN Mid ELSE high
  /\ low' = IF there THEN low ELSE Mid + 1

\* A step of a search for the first block with code, or the first one that has a log
\* at or before it.  A search for code that fails gives way to one for logs.
SearchStep ==
  /\ phase \in {"code", "logs"} /\ low < high
  /\ \/ /\ Halve(IF phase = "code" THEN Mid >= deployed ELSE LogsIn(0, Mid) # <<>>)
        /\ Go(phase)
     \/ Retry(IF phase = "code" THEN "logs?" ELSE "failed") /\ UNCHANGED <<low, high>>
  /\ UNCHANGED <<external, to, source, cursor, epoch, messages, chunks, pool>>

SearchEnd ==
  /\ phase \in {"code", "logs"} /\ low >= high
  /\ cursor' = low /\ Go("scan") /\ source' = phase
  /\ UNCHANGED <<external, low, high, to, epoch, messages, chunks, pool>>

----------------------------------------------------------------------------
\* The scan, a batch at a time; its requests are not repeated.

BatchEnd == IF cursor + BatchSize - 1 < to THEN cursor + BatchSize - 1 ELSE to

ScanBatch ==
  /\ phase = "scan" /\ cursor <= to
  /\ \/ messages' = messages \o LogsIn(cursor, BatchEnd) /\ UNCHANGED phase
     \/ phase' = "failed" /\ UNCHANGED messages
  /\ cursor' = cursor + BatchSize
  /\ UNCHANGED <<external, tries, search, epoch, chunks, pool>>

StartPool(n) ==
  /\ next' = 1 /\ doing' = [w \in Worker |-> 0]
  /\ failures' = [w \in Worker |-> 0] /\ results' = [i \in 1..n |-> 0]

ScanEnd ==
  /\ phase = "scan" /\ cursor > to
  /\ messages' = Filtered(messages, OfEpoch)
  /\ phase' = "details" /\ StartPool(Len(messages'))
  /\ UNCHANGED <<external, tries, search, cursor, epoch, chunks>>

----------------------------------------------------------------------------
\* mapWithConcurrency, over the messages and then over their blocks.

\* The place of a value when they are sorted, equal ones in their order.
PlaceOf(values, i) ==
  Cardinality({j \in DOMAIN values : values[j] < values[i] \/ (values[j] = values[i] /\ j <= i)})

Sorted(values) ==
  [k \in DOMAIN values |-> values[CHOOSE i \in DOMAIN values : PlaceOf(values, i) = k]]

BlockNumbers == Sorted(SetToSeq({block[messages[i]] : i \in DOMAIN messages}))

\* The time of a block is its number, plus one.
AnswerItem(i) == IF phase = "details" THEN Chunks[messages[i]] ELSE BlockNumbers[i] + 1

\* A worker takes the next item and asks for it in one turn of the event loop.  What
\* it still does after another one has failed is not seen by anyone.
Take(w) ==
  /\ phase \in {"details", "times"}
  /\ doing[w] = 0 /\ next <= Len(results)
  /\ doing' = [doing EXCEPT ![w] = next] /\ next' = next + 1
  /\ UNCHANGED <<external, phase, tries, search, cursor, epoch, messages, chunks, failures, results>>

Store(w, value) ==
  /\ results' = [results EXCEPT ![doing[w]] = value]
  /\ doing' = [doing EXCEPT ![w] = 0] /\ failures' = [failures EXCEPT ![w] = 0]

Answered(w) ==
  /\ phase \in {"details", "times"} /\ doing[w] # 0
  /\ Store(w, AnswerItem(doing[w]))
  /\ UNCHANGED <<external, phase, tries, search, cursor, epoch, messages, chunks, next>>

\* The first item that fails for good fails the run.  An invalid number of chunks or a
\* missing block is not asked for again.
ItemFails(w) ==
  /\ phase \in {"details", "times"} /\ doing[w] # 0
  /\ \/ /\ failures[w] + 1 < Attempts
        /\ failures' = [failures EXCEPT ![w] = @ + 1] /\ UNCHANGED <<phase, doing>>
     \/ /\ phase' = "failed" /\ doing' = [doing EXCEPT ![w] = 0] /\ UNCHANGED failures
  /\ UNCHANGED <<external, tries, search, cursor, epoch, messages, chunks, next, results>>

\* All workers have returned.
PoolEnd ==
  /\ phase \in {"details", "times"}
  /\ next > Len(results) /\ \A w \in Worker : doing[w] = 0
  /\ IF phase = "details"
     THEN phase' = "times" /\ chunks' = results /\ StartPool(Len(BlockNumbers))
     ELSE phase' = "done" /\ UNCHANGED <<chunks, pool>>
  /\ UNCHANGED <<external, tries, search, cursor, epoch, messages>>

StatsNext ==
  \/ StartGiven \/ StartUnknown \/ AskCode \/ AskLogs \/ SearchStep \/ SearchEnd
  \/ ScanBatch \/ ScanEnd \/ PoolEnd
  \/ \E w \in Worker : Take(w) \/ Answered(w) \/ ItemFails(w)

StatsSpec == StatsInit /\ [][StatsNext]_statsVars

----------------------------------------------------------------------------
\* The report.

\* percentile: the nearest rank, counted from one.
Percentile_Floor(values, p) ==
  LET rank == (p * Len(values)) \div 100
  IN Sorted(values)[IF rank < 1 THEN 1 ELSE rank]

Percentile(values, p) ==
  LET rank == (p * Len(values) + 99) \div 100
  IN Sorted(values)[IF rank < 1 THEN 1 ELSE rank]

AgentStats(a) ==
  FoldLeftDomain(LAMBDA s, i :
      [s EXCEPT !.sent = IF Sender[messages[i]] = a THEN @ + 1 ELSE @,
                !.received = IF Recipient[messages[i]] = a THEN @ + 1 ELSE @,
                !.multipart = IF Sender[messages[i]] = a /\ chunks[i] > 1 THEN @ + 1 ELSE @],
    [sent |-> 0, received |-> 0, multipart |-> 0], messages)

\* The number of messages in the blocks that are not older than a time.
WindowCount(since) ==
  LET time == [b \in {BlockNumbers[i] : i \in DOMAIN BlockNumbers} |->
                 results[CHOOSE i \in DOMAIN BlockNumbers : BlockNumbers[i] = b]]
  IN Len(Filtered(messages, {m \in Range(messages) : time[block[m]] >= since}))

----------------------------------------------------------------------------
\* Properties.

Phases ==
  {"explorer", "code?", "code", "logs?", "logs", "scan", "details", "times", "done", "failed"}

\* A search never leaves its range, and the pool is never ahead of its items.
StatsTypeOK ==
  /\ phase \in Phases /\ tries \in 0..Attempts - 1
  /\ source \in {"none", "given", "code", "logs"}
  /\ low \in 0..MaxBlock /\ high \in 0..to
  /\ phase \in {"code", "logs"} => low <= high
  /\ messages \in Seq(Message)
  /\ next \in 1..Len(results) + 1
  /\ \A w \in Worker : doing[w] < next /\ failures[w] \in 0..Attempts - 1

Wanted(first) == Filtered(LogsIn(first, to), OfEpoch)

\* The least value that at least p percent of the values do not exceed.
NearestRank(values, p) ==
  CHOOSE v \in Range(values) :
    /\ Cardinality({i \in DOMAIN values : values[i] <= v}) * 100 >= p * Len(values)
    /\ \A u \in Range(values) :
         Cardinality({i \in DOMAIN values : values[i] <= u}) * 100 >= p * Len(values) => v <= u

FiguresAreRight ==
  LET sent(a) == {i \in DOMAIN messages : Sender[messages[i]] = a}
  IN /\ \A p \in {50, 95} : chunks # <<>> => Percentile(chunks, p) = NearestRank(chunks, p)
     /\ \A a \in Range(Sender) \cup Range(Recipient) :
          /\ AgentStats(a).sent = Cardinality(sent(a))
          /\ AgentStats(a).received = Cardinality({i \in DOMAIN messages : Recipient[messages[i]] = a})
          /\ AgentStats(a).multipart = Cardinality({i \in sent(a) : Chunks[messages[i]] > 1})
     /\ \A b \in 0..MaxBlock :
          WindowCount(b + 1) = Cardinality({m \in Range(messages) : block[m] >= b})

\* The report is that of the chain.  However the first block was found, and whatever the
\* size of a batch, each message up to toBlock is counted once, in the order of the chain
\* (a block that was given may leave earlier ones out).  No two workers ask for the same
\* item, and what they found is told of the item it was asked of, in whichever order the
\* answers came.  The figures are those of these messages.
ReportIsTrue ==
  /\ phase \in {"details", "times", "done"}
       => messages = Wanted(IF source = "given" THEN low ELSE 0)
  /\ \A v, w \in Worker : v # w /\ doing[v] # 0 => doing[v] # doing[w]
  /\ phase \in {"times", "done"} => chunks = [i \in DOMAIN messages |-> Chunks[messages[i]]]
  /\ phase = "done" => /\ results = [i \in DOMAIN BlockNumbers |-> BlockNumbers[i] + 1]
                       /\ FiguresAreRight
=============================================================================
