------------------------------ MODULE ChunkedQuery -----------------------------
(***************************************************************************)
(* Concurrent processing of one query: ProcessEventsConcurrently splits    *)
(* the events into chunks, runs ProcessEventsChunkActivity for a batch of  *)
(* at most MaxConcurrency chunks at a time, waits for the whole batch in   *)
(* chunk order, and assembles the answer from the chunks that succeeded.   *)
(***************************************************************************)
EXTENDS Naturals, Sequences, FiniteSets

CONSTANTS
  Queries,          \* the queries considered: [events, op], op the last operation
  ChunkSize,        \* DefaultChunkSize (10000 in the code)
  MaxConcurrency,   \* 10 in the code
  MaximumAttempts,  \* RetryPolicy.MaximumAttempts (3 in the code)
  PolledQueues      \* the task queues some worker polls

ASSUME ChunkedQueryAssumption ==
  /\ \A q \in Queries : q.events \in Nat
  /\ ChunkSize \in Nat \ {0}
  /\ MaxConcurrency \in Nat \ {0}
  /\ MaximumAttempts \in Nat \ {0}

TaskQueue == "timeline-processing"

VARIABLES
  query,        \* the query; fixed
  pc,           \* "schedule", "collect", "answered" or "error"
  batchStart,   \* the loop variable: first chunk of the current batch
  next,         \* the chunk whose future the collecting loop waits for
  tries,        \* per chunk: attempts of its activity so far
  future,       \* per chunk: "none", "running", "ok" or "failed"
  results,      \* per chunk: results[i], "open" until it is assigned
  sources       \* the chunks whose results the answer combines

vars == <<query, pc, batchStart, next, tries, future, results, sources>>

--------------------------------------------------------------------------------
(* The chunks.                                                             *)

NumChunks == (query.events + ChunkSize - 1) \div ChunkSize
Chunks == 0 .. NumChunks - 1

Smaller(m, n) == IF m < n THEN m ELSE n

\* createEventChunks: events[i:end] of the chunk, by their positions from 1.
ChunkEvents(c) == c * ChunkSize + 1 .. Smaller((c + 1) * ChunkSize, query.events)

Init ==
  /\ query \in Queries
  /\ pc = "schedule"
  /\ batchStart = 0
  /\ next = 0
  /\ tries = [c \in Chunks |-> 0]
  /\ future = [c \in Chunks |-> "none"]
  /\ results = [c \in Chunks |-> "open"]
  /\ sources = {}

--------------------------------------------------------------------------------
(* The workflow.                                                           *)

Concurrency == Smaller(MaxConcurrency, NumChunks)

\* Mutant of BatchEnd: not cut off at the last chunk, but at twice the batch.
LargeBatchEnd == Smaller(batchStart + Concurrency + Concurrency, NumChunks)

BatchEnd == Smaller(batchStart + Concurrency, NumChunks)
Batch == batchStart .. BatchEnd - 1

\* One turn of the outer loop, up to the first Get.
ScheduleBatch ==
  /\ pc = "schedule"
  /\ batchStart < NumChunks
  /\ future' = [c \in Chunks |-> IF c \in Batch THEN "running" ELSE future[c]]
  /\ tries' = [c \in Chunks |-> IF c \in Batch THEN 1 ELSE tries[c]]
  /\ next' = batchStart
  /\ pc' = "collect"
  /\ UNCHANGED <<query, batchStart, results, sources>>

\* Mutant of CollectChunk: a failed chunk is skipped, and its result stays nil.
CollectSuccessfulChunk ==
  /\ pc = "collect"
  /\ future[next] \in {"ok", "failed"}
  /\ results' = IF future[next] = "ok" THEN [results EXCEPT ![next] = "ok"]
                                       ELSE results
  /\ IF next + 1 < BatchEnd
       THEN /\ next' = next + 1
            /\ UNCHANGED <<batchStart, pc>>
       ELSE /\ batchStart' = batchStart + Concurrency
            /\ pc' = "schedule"
            /\ UNCHANGED next
  /\ UNCHANGED <<query, tries, future, sources>>

\* The inner loop: Get of the next future of the batch; an error becomes a
\* ChunkResult with an Error.
CollectChunk ==
  /\ pc = "collect"
  /\ future[next] \in {"ok", "failed"}
  /\ results' = [results EXCEPT ![next] = future[next]]
  /\ IF next + 1 < BatchEnd
       THEN /\ next' = next + 1
            /\ UNCHANGED <<batchStart, pc>>
       ELSE /\ batchStart' = batchStart + Concurrency
            /\ pc' = "schedule"
            /\ UNCHANGED next
  /\ UNCHANGED <<query, tries, future, sources>>

Successes == {c \in Chunks : results[c] = "ok"}

\* The Go type of a JSON value decoded into interface{}: numbers are float64,
\* timelines (what every operator but these two returns) are lists.
Decoded(op) ==
  IF op \in {"DurationWhere", "LongestConsecutiveTrueDuration"}
    THEN "float64" ELSE "list"

\* Mutant of Combined: a duration is not summed up, the first one is taken.
CombinedFirst == {c \in Successes : \A d \in Successes : c <= d}

\* The aggregation by the last operation: values of the wrong type are skipped.
Combined ==
  CASE query.op \in {"DurationWhere", "MovingAverage", "TWAP", "VWAP"} ->
         {c \in Successes : Decoded(query.op) = "float64"}
    [] query.op \in {"HasExisted", "HasExistedWithin"} ->
         {c \in Successes : Decoded(query.op) = "bool"}
    [] OTHER -> {c \in Successes : \A d \in Successes : c <= d}

\* assembleChunkResults: an error if chunks exist and all failed.
Assemble ==
  /\ pc = "schedule"
  /\ batchStart >= NumChunks
  /\ IF Chunks # {} /\ Successes = {}
       THEN /\ pc' = "error"
            /\ UNCHANGED sources
       ELSE /\ pc' = "answered"
            /\ sources' = Combined
  /\ UNCHANGED <<query, batchStart, next, tries, future, results>>

--------------------------------------------------------------------------------
(* ProcessEventsChunkActivity and Temporal's retries.                      *)

Attempted(c) == TaskQueue \in PolledQueues /\ future[c] = "running"

\* The activity answers: a result, or a ChunkResult whose Error does not survive
\* JSON, so that Get fails; neither is retried.
FinishChunk(c) ==
  /\ Attempted(c)
  /\ \E r \in {"ok", "failed"} : future' = [future EXCEPT ![c] = r]
  /\ UNCHANGED <<query, pc, batchStart, next, tries, results, sources>>

\* Mutants of RetryChunk: retries are not limited; one attempt too many.
RetryForever(c) ==
  /\ Attempted(c)
  /\ tries' = [tries EXCEPT ![c] = IF @ < MaximumAttempts THEN @ + 1 ELSE 1]
  /\ UNCHANGED <<query, pc, batchStart, next, future, results, sources>>
RetryOnceMore(c) ==
  /\ Attempted(c)
  /\ tries[c] <= MaximumAttempts
  /\ tries' = [tries EXCEPT ![c] = @ + 1]
  /\ UNCHANGED <<query, pc, batchStart, next, future, results, sources>>

\* The worker died, or its heartbeats (2 minutes) or its attempt (10 minutes)
\* timed out.
RetryChunk(c) ==
  /\ Attempted(c)
  /\ IF tries[c] < MaximumAttempts
       THEN /\ tries' = [tries EXCEPT ![c] = tries[c] + 1]
            /\ UNCHANGED future
       ELSE /\ future' = [future EXCEPT ![c] = "failed"]
            /\ UNCHANGED tries
  /\ UNCHANGED <<query, pc, batchStart, next, results, sources>>

Next ==
  \/ ScheduleBatch
  \/ CollectChunk
  \/ Assemble
  \/ \E c \in Chunks : FinishChunk(c) \/ RetryChunk(c)

Spec == Init /\ [][Next]_vars

\* The workflow runs when it can; every scheduled attempt ends one way or other,
\* because StartToCloseTimeout and HeartbeatTimeout end it if nothing else does.
FairSpec ==
  /\ Spec
  /\ WF_vars(ScheduleBatch \/ CollectChunk \/ Assemble)
  /\ WF_vars(\E c \in Chunks : FinishChunk(c) \/ RetryChunk(c))

--------------------------------------------------------------------------------
(* Properties.                                                             *)

TypeOK ==
  /\ query \in Queries
  /\ pc \in {"schedule", "collect", "answered", "error"}
  /\ batchStart \in Nat
  /\ next \in Nat
  /\ tries \in [Chunks -> 0 .. MaximumAttempts]
  /\ future \in [Chunks -> {"none", "running", "ok", "failed"}]
  /\ results \in [Chunks -> {"open", "ok", "failed"}]
  /\ sources \subseteq Chunks

\* At most MaxConcurrency activities are under way, and none is left behind when
\* the next batch starts or the answer is assembled.
ConcurrencyBounded ==
  /\ Cardinality({c \in Chunks : future[c] = "running"}) <= MaxConcurrency
  /\ pc # "collect" => \A c \in Chunks : future[c] # "running"

\* A query fails only if every chunk did (AGENT.md: "Individual chunk failures
\* don't terminate entire queries"), and a duration is the sum over every chunk
\* that succeeded, in which every event of those chunks counts once, the events of
\* a short last chunk included.
PartialAnswer ==
  /\ pc = "error" => \A c \in Chunks : future[c] = "failed"
  /\ pc = "answered" /\ query.op = "DurationWhere" =>
       /\ sources = {c \in Chunks : future[c] = "ok"}
       /\ \A e \in 1 .. query.events : Cardinality({c \in Chunks : e \in ChunkEvents(c)}) = 1

\* If its workers run, a query is answered or fails.
EventuallyAnswered == <>(pc \in {"answered", "error"})

\* The chunks' futures implement FanOut.
Parts == INSTANCE FanOut
           WITH outcome <- results,
                status  <- CASE pc = "answered" -> "answered"
                             [] pc = "error"    -> "aborted"
                             [] OTHER           -> "open",
                sources <- sources
ImplementsFanOut == Parts!Spec
================================================================================
