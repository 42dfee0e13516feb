-------------------------- MODULE ChunkedQueryProofs ---------------------------
(***************************************************************************)
(* Proofs about ChunkedQuery, for every number of events, chunk size,      *)
(* batch size and number of attempts.                                      *)
(*                                                                         *)
(* The inductive invariant says how far the two nested loops have got: the *)
(* chunks below Reached are settled, their results are their futures'; the *)
(* rest of the current batch is under way; nothing has happened to the     *)
(* chunks beyond it.                                                       *)
(***************************************************************************)
EXTENDS ChunkedQuery, Lemmas, FiniteSetTheorems, TLAPS

\* The first chunk whose result has not been collected, and the first chunk
\* that has not been scheduled.
Reached == IF pc = "collect" THEN next ELSE batchStart
Scheduled == IF pc = "collect" THEN BatchEnd ELSE batchStart

CollectedAreSettled ==
  \A c \in Chunks : c < Reached => /\ future[c] \in {"ok", "failed"}
                                   /\ results[c] = future[c]

UncollectedAreOpen == \A c \in Chunks : c >= Reached => results[c] = "open"

UnscheduledAreIdle == \A c \in Chunks : c >= Scheduled => future[c] = "none"

LoopsAreWithinBounds ==
  /\ pc = "collect" => /\ batchStart < NumChunks
                       /\ batchStart <= next /\ next < BatchEnd
  /\ pc \in {"answered", "error"} => batchStart >= NumChunks
  /\ pc # "answered" => sources = {}

IInv ==
  /\ TypeOK
  /\ CollectedAreSettled
  /\ UncollectedAreOpen
  /\ UnscheduledAreIdle
  /\ LoopsAreWithinBounds

--------------------------------------------------------------------------------

\* The number of chunks is a natural number.
LEMMA NumChunksType == query \in Queries => NumChunks \in Nat
<1> SUFFICES ASSUME query \in Queries PROVE NumChunks \in Nat
  OBVIOUS
<1> DEFINE a == query.events + ChunkSize - 1
<1>1. a \in Nat /\ ChunkSize \in Nat /\ ChunkSize > 0
  BY ChunkedQueryAssumption
<1>2. \A m \in Nat, n \in Nat : n > 0 => m \div n \in Nat
  OBVIOUS
<1>3. QED
  BY <1>1, <1>2 DEF NumChunks

\* What the workflow computes from the loop variable.
LEMMA BatchBounds ==
  ASSUME TypeOK
  PROVE  /\ NumChunks \in Nat /\ BatchEnd \in Nat /\ Concurrency \in Nat
         /\ BatchEnd <= NumChunks
         /\ BatchEnd <= batchStart + Concurrency
         /\ Concurrency <= MaxConcurrency
         /\ batchStart < NumChunks => /\ batchStart < BatchEnd
                                      /\ Concurrency > 0
         /\ BatchEnd = NumChunks \/ BatchEnd = batchStart + Concurrency
BY NumChunksType, ChunkedQueryAssumption
   DEF TypeOK, BatchEnd, Concurrency, Smaller

\* Before the first batch every chunk is idle.
LEMMA InitInv == Init => IInv
<1> SUFFICES ASSUME Init PROVE IInv
  OBVIOUS
<1> USE ChunkedQueryAssumption, NumChunksType DEF Init
<1>1. TypeOK
  BY DEF TypeOK, Chunks
<1>2. QED
  BY <1>1 DEF IInv, CollectedAreSettled, UncollectedAreOpen, UnscheduledAreIdle,
    LoopsAreWithinBounds, Reached, Scheduled, Chunks

\* A batch starts the chunks after those of the batches before it.
LEMMA ScheduleInv == ASSUME IInv, ScheduleBatch PROVE IInv'
<1> USE ChunkedQueryAssumption, BatchBounds DEF IInv, ScheduleBatch
<1>1. /\ NumChunks' = NumChunks /\ BatchEnd' = BatchEnd /\ Chunks' = Chunks
      /\ Batch = batchStart .. BatchEnd - 1
  BY DEF NumChunks, BatchEnd, Concurrency, Chunks, Batch
<1>2. TypeOK'
  BY <1>1 DEF TypeOK
<1>3. Reached' = batchStart /\ Reached = batchStart /\ Scheduled = batchStart
      /\ Scheduled' = BatchEnd
  BY <1>1 DEF Reached, Scheduled
<1>4. CollectedAreSettled'
  BY <1>1, <1>3 DEF CollectedAreSettled, Chunks, TypeOK
<1>5. UncollectedAreOpen'
  BY <1>1, <1>3 DEF UncollectedAreOpen
<1>6. UnscheduledAreIdle'
  BY <1>1, <1>3 DEF UnscheduledAreIdle, Chunks, TypeOK
<1>7. LoopsAreWithinBounds'
  BY <1>1 DEF LoopsAreWithinBounds, TypeOK
<1>8. QED
  BY <1>2, <1>4, <1>5, <1>6, <1>7

\* One Get settles the chunk that the loop has come to.
LEMMA CollectInv == ASSUME IInv, CollectChunk PROVE IInv'
<1> USE ChunkedQueryAssumption, BatchBounds DEF IInv, CollectChunk
<1>1. /\ NumChunks' = NumChunks /\ Concurrency' = Concurrency /\ Chunks' = Chunks
      /\ next \in Chunks
  BY DEF NumChunks, Concurrency, Chunks, LoopsAreWithinBounds, TypeOK
<1>2. TypeOK'
  <2>1. results' \in [Chunks -> {"open", "ok", "failed"}]
    BY <1>1 DEF TypeOK
  <2>2. batchStart' \in Nat /\ next' \in Nat
    BY DEF TypeOK
  <2>3. QED
    BY <1>1, <2>1, <2>2 DEF TypeOK
<1>3. Reached = next /\ Scheduled = BatchEnd
  BY DEF Reached, Scheduled
<1>4. /\ results'[next] = future[next]
      /\ \A c \in Chunks : c # next => results'[c] = results[c]
  BY <1>1 DEF TypeOK
<1>5. CASE next + 1 < BatchEnd
  <2>1. Reached' = next + 1 /\ Scheduled' = BatchEnd /\ BatchEnd' = BatchEnd
    BY <1>1, <1>5 DEF Reached, Scheduled, BatchEnd
  <2>2. /\ \A c \in Chunks : c < Reached' => c < Reached \/ c = next
        /\ \A c \in Chunks : c >= Reached' => c >= Reached /\ c # next
    BY <1>1, <1>3, <2>1 DEF Chunks, TypeOK
  <2>3. CollectedAreSettled'
    BY <1>1, <1>4, <2>2 DEF CollectedAreSettled
  <2>4. UncollectedAreOpen'
    BY <1>1, <1>4, <2>2 DEF UncollectedAreOpen
  <2>5. UnscheduledAreIdle'
    BY <1>1, <1>3, <2>1 DEF UnscheduledAreIdle
  <2>6. LoopsAreWithinBounds'
    BY <1>1, <1>5, <2>1 DEF LoopsAreWithinBounds, TypeOK
  <2>7. QED
    BY <1>2, <2>3, <2>4, <2>5, <2>6
<1>6. CASE ~(next + 1 < BatchEnd)
  <2>1. Reached' = batchStart + Concurrency /\ Scheduled' = batchStart + Concurrency
    BY <1>1, <1>6 DEF Reached, Scheduled
  <2>2. next + 1 = BatchEnd /\ BatchEnd <= Reached'
    BY <1>6, <2>1 DEF LoopsAreWithinBounds, TypeOK
  <2>3. /\ \A c \in Chunks : c < Reached' => c < Reached \/ c = next
        /\ \A c \in Chunks : c >= Reached' => c >= Reached /\ c # next
    BY <1>3, <2>1, <2>2 DEF Chunks, TypeOK
  <2>4. CollectedAreSettled'
    BY <1>1, <1>4, <2>3 DEF CollectedAreSettled
  <2>5. UncollectedAreOpen'
    BY <1>1, <1>4, <2>3 DEF UncollectedAreOpen
  <2>6. UnscheduledAreIdle'
    BY <1>1, <1>3, <2>1, <2>2 DEF UnscheduledAreIdle, Chunks, TypeOK
  <2>7. LoopsAreWithinBounds'
    BY <1>6 DEF LoopsAreWithinBounds
  <2>8. QED
    BY <1>2, <2>4, <2>5, <2>6, <2>7
<1>7. QED
  BY <1>5, <1>6

\* The answer is assembled when both loops are through.
LEMMA AssembleInv == ASSUME IInv, Assemble PROVE IInv'
<1> USE ChunkedQueryAssumption, BatchBounds DEF IInv, Assemble
<1>1. NumChunks' = NumChunks /\ Chunks' = Chunks /\ Reached' = Reached
      /\ Scheduled' = Scheduled
  BY DEF NumChunks, Chunks, Reached, Scheduled
<1>2. sources' \subseteq Chunks
  BY DEF TypeOK, Combined, Successes
<1>3. TypeOK'
  BY <1>1, <1>2 DEF TypeOK
<1>4. LoopsAreWithinBounds'
  BY <1>1 DEF LoopsAreWithinBounds
<1>5. QED
  BY <1>1, <1>3, <1>4 DEF CollectedAreSettled, UncollectedAreOpen, UnscheduledAreIdle

\* An attempt that ends changes the future of a chunk that is under way.
LEMMA AttemptInv ==
  ASSUME IInv, NEW c \in Chunks, FinishChunk(c) \/ RetryChunk(c)
  PROVE  IInv'
<1> USE ChunkedQueryAssumption, BatchBounds DEF IInv
<1>1. /\ UNCHANGED <<query, pc, batchStart, next, results, sources>>
      /\ future[c] = "running"
      /\ \A d \in Chunks : d # c => future'[d] = future[d]
      /\ future' \in [Chunks -> {"none", "running", "ok", "failed"}]
      /\ tries' \in [Chunks -> 0 .. MaximumAttempts]
  <2>1. CASE FinishChunk(c)
    BY <2>1 DEF FinishChunk, Attempted, TypeOK
  <2>2. CASE RetryChunk(c)
    BY <2>2 DEF RetryChunk, Attempted, TypeOK
  <2>3. QED
    BY <2>1, <2>2
<1>2. /\ NumChunks' = NumChunks /\ Chunks' = Chunks /\ BatchEnd' = BatchEnd
      /\ Reached' = Reached /\ Scheduled' = Scheduled
  BY <1>1 DEF NumChunks, Chunks, BatchEnd, Concurrency, Reached, Scheduled
<1>3. c >= Reached /\ c < Scheduled
  <2>1. c \in Int /\ Reached \in Int /\ Scheduled \in Int
    BY DEF Chunks, TypeOK, Reached, Scheduled
  <2>2. ~(c < Reached) /\ ~(c >= Scheduled)
    BY <1>1 DEF CollectedAreSettled, UnscheduledAreIdle
  <2>3. QED
    BY <2>1, <2>2
<1>4. TypeOK'
  BY <1>1, <1>2 DEF TypeOK
<1>5. CollectedAreSettled' /\ UncollectedAreOpen' /\ UnscheduledAreIdle'
  BY <1>1, <1>2, <1>3
     DEF CollectedAreSettled, UncollectedAreOpen, UnscheduledAreIdle, Chunks,
         TypeOK, Reached, Scheduled
<1>6. LoopsAreWithinBounds'
  BY <1>1, <1>2 DEF LoopsAreWithinBounds
<1>7. QED
  BY <1>4, <1>5, <1>6

\* Every step keeps the invariant.
LEMMA NextInv == IInv /\ [Next]_vars => IInv'
<1> SUFFICES ASSUME IInv, [Next]_vars PROVE IInv'
  OBVIOUS
<1>1. CASE UNCHANGED vars
  BY <1>1 DEF vars, IInv, TypeOK, CollectedAreSettled, UncollectedAreOpen,
    UnscheduledAreIdle, LoopsAreWithinBounds, Reached, Scheduled, Chunks,
    NumChunks, BatchEnd, Concurrency
<1>2. QED
  BY <1>1, ScheduleInv, CollectInv, AssembleInv, AttemptInv DEF Next

\* A query's chunks and futures are as the invariant says, always.
LEMMA SpecInv == Spec => []IInv
BY InitInv, NextInv, PTL DEF Spec

--------------------------------------------------------------------------------

\* Type correctness of the workflow's loops, futures and results.
THEOREM TypeCorrect == Spec => []TypeOK
<1>1. IInv => TypeOK
  BY DEF IInv
<1>2. QED
  BY <1>1, SpecInv, PTL

\* Only chunks of the current batch are under way, and only while it is being
\* collected; a batch has at most MaxConcurrency chunks.
LEMMA OneBatchRuns == IInv => ConcurrencyBounded
<1> SUFFICES ASSUME IInv PROVE ConcurrencyBounded
  OBVIOUS
<1> USE ChunkedQueryAssumption, BatchBounds DEF IInv
<1> DEFINE Running == {c \in Chunks : future[c] = "running"}
<1>1. Running \subseteq Reached .. Scheduled - 1
  <2>1. Reached \in Nat /\ Scheduled \in Nat
    BY DEF TypeOK, Reached, Scheduled
  <2>2. ASSUME NEW c \in Running PROVE c \in Reached .. Scheduled - 1
    <3>1. c \in Int /\ ~(c < Reached) /\ ~(c >= Scheduled)
      BY DEF CollectedAreSettled, UnscheduledAreIdle, Chunks
    <3>2. QED
      BY <2>1, <3>1
  <2>3. QED
    BY <2>2
<1>2. pc # "collect" => Running = {}
  <2>1. batchStart \in Nat /\ (pc # "collect" => Running \subseteq batchStart .. batchStart - 1)
    BY <1>1 DEF Reached, Scheduled, TypeOK
  <2>2. batchStart .. batchStart - 1 = {}
    BY <2>1
  <2>3. QED
    BY <2>1, <2>2
<1>3. pc = "collect" => Running \subseteq batchStart .. BatchEnd - 1
  BY <1>1 DEF Reached, Scheduled, LoopsAreWithinBounds, TypeOK
<1>4. Cardinality(Running) <= MaxConcurrency
  <2>1. CASE pc # "collect"
    BY <1>2, <2>1, FS_EmptySet
  <2>2. CASE pc = "collect"
    <3>1. /\ IsFiniteSet(batchStart .. BatchEnd - 1)
          /\ Cardinality(batchStart .. BatchEnd - 1) = BatchEnd - batchStart
      <4>1. batchStart \in Int /\ BatchEnd - 1 \in Int /\ batchStart <= BatchEnd - 1
        BY <2>2 DEF LoopsAreWithinBounds, TypeOK
      <4>2. QED
        BY <4>1, FS_Interval
    <3>2. Cardinality(Running) <= BatchEnd - batchStart
      BY <1>3, <2>2, <3>1, FS_Subset
    <3>3. /\ Cardinality(Running) \in Nat
      BY <1>3, <2>2, <3>1, FS_Subset, FS_CardinalityType
    <3>4. QED
      BY <3>2, <3>3 DEF TypeOK
  <2>3. QED
    BY <2>1, <2>2
<1>5. QED
  BY <1>2, <1>4 DEF ConcurrencyBounded

\* At no time do more than MaxConcurrency chunk activities run, and none runs
\* when the next batch starts or the answer is assembled.
THEOREM BoundedConcurrency == Spec => []ConcurrencyBounded
BY OneBatchRuns, SpecInv, PTL

--------------------------------------------------------------------------------
(* What an answer, or an error, says about the chunks.                     *)

\* createEventChunks loses no event and puts none into two chunks: event e is in
\* chunk (e - 1) / ChunkSize only, also when the last chunk is cut short.
LEMMA EachEventInOneChunk ==
  ASSUME query \in Queries, NEW e \in 1 .. query.events
  PROVE  Cardinality({c \in Chunks : e \in ChunkEvents(c)}) = 1
<1> DEFINE k == (e - 1) \div ChunkSize
           last == query.events + ChunkSize - 1
           Holders == {c \in Chunks : e \in ChunkEvents(c)}
<1>1. /\ ChunkSize \in Nat /\ ChunkSize > 0
      /\ query.events \in Nat /\ e \in Nat /\ e - 1 \in Nat /\ last \in Nat
  BY ChunkedQueryAssumption
<1>2. /\ k \in Nat
      /\ ChunkSize * k <= e - 1
      /\ e - 1 < ChunkSize * k + ChunkSize
  BY <1>1, DivBounds
<1>3. /\ NumChunks \in Nat
      /\ last < ChunkSize * NumChunks + ChunkSize
  BY <1>1, DivBounds DEF NumChunks
<1> HIDE DEF k
<1>4. k < NumChunks
  <2>1. ChunkSize * k + 1 <= ChunkSize * NumChunks
    BY <1>1, <1>2, <1>3
  <2>2. k * ChunkSize < ChunkSize * k + 1 /\ ChunkSize * k + 1 \in Nat
    BY <1>1, <1>2
  <2>3. NumChunks # 0
    BY <1>1, <1>2, <2>1
  <2>4. NumChunks - 1 \in Nat /\ ChunkSize * k + 1 <= ((NumChunks - 1) + 1) * ChunkSize
    BY <1>1, <1>3, <2>1, <2>3
  <2>5. k <= NumChunks - 1
    BY <1>1, <1>2, <2>2, <2>4, BlocksAreOrdered
  <2>6. QED
    BY <1>2, <1>3, <2>5
<1>5. k \in Holders
  <2>1. k * ChunkSize + 1 <= e /\ e <= (k + 1) * ChunkSize /\ e <= query.events
    BY <1>1, <1>2
  <2>2. QED
    BY <1>1, <1>2, <1>3, <1>4, <2>1 DEF Chunks, ChunkEvents, Smaller
<1>6. ASSUME NEW c \in Holders PROVE c = k
  <2>1. /\ c \in Nat
        /\ c * ChunkSize < e /\ e <= (c + 1) * ChunkSize
    BY <1>1, <1>3 DEF Chunks, ChunkEvents, Smaller
  <2>2. k * ChunkSize < e /\ e <= (k + 1) * ChunkSize
    BY <1>1, <1>2
  <2>3. c <= k /\ k <= c
    BY <1>1, <1>2, <2>1, <2>2, BlocksAreOrdered
  <2>4. QED
    BY <1>2, <2>1, <2>3
<1>7. Holders = {k}
  BY <1>5, <1>6
<1>8. QED
  BY <1>7, FS_Singleton

\* An error means that no chunk succeeded; a duration combines all that did.
AnswerInv ==
  /\ pc = "error" => Successes = {}
  /\ pc = "answered" /\ query.op = "DurationWhere" => sources = Successes

\* There are no results at first.
LEMMA AnswerInit == Init => AnswerInv
BY DEF Init, AnswerInv

\* A result is that of its chunk's activity, and an answer is made of results.
LEMMA AnswerNext == AnswerInv /\ [Next]_vars => AnswerInv'
<1> SUFFICES ASSUME AnswerInv, [Next]_vars PROVE AnswerInv'
  OBVIOUS
<1> USE DEF AnswerInv, Successes, Chunks, NumChunks
<1>1. CASE UNCHANGED vars
  BY <1>1 DEF vars
<1>2. CASE ScheduleBatch \/ CollectChunk
  BY <1>2 DEF ScheduleBatch, CollectChunk
<1>3. CASE Assemble
  <2>1. query.op = "DurationWhere" => Combined = Successes
    BY DEF Combined, Decoded
  <2>2. QED
    BY <1>3, <2>1 DEF Assemble
<1>4. ASSUME NEW c \in Chunks, FinishChunk(c) \/ RetryChunk(c) PROVE AnswerInv'
  BY <1>4 DEF FinishChunk, RetryChunk
<1>5. QED
  BY <1>1, <1>2, <1>3, <1>4 DEF Next

\* When the loops are over, what was collected is what the futures hold.
LEMMA AllSettled ==
  ASSUME IInv, pc \in {"answered", "error"}
  PROVE  \A c \in Chunks : future[c] \in {"ok", "failed"} /\ results[c] = future[c]
BY BatchBounds DEF IInv, TypeOK, LoopsAreWithinBounds, CollectedAreSettled, Reached, Chunks

\* For every number of events and every chunk size: a query fails only if every
\* chunk did, and a duration sums every chunk that succeeded, each event once.
THEOREM AnswersArePartial == Spec => []PartialAnswer
<1>1. IInv /\ AnswerInv => PartialAnswer
  BY AllSettled, EachEventInOneChunk DEF PartialAnswer, AnswerInv, Successes, IInv, TypeOK
<1>2. QED
  BY <1>1, SpecInv, AnswerInit, AnswerNext, PTL DEF Spec

--------------------------------------------------------------------------------
(* Refinement: the chunks' futures implement FanOut.                       *)

\* The queries whose answer combines successes by a rule that finds one: a sum
\* over float64 results, or the first result.
Mergeable(q) ==
  \/ q.op = "DurationWhere"
  \/ q.op \notin {"DurationWhere", "MovingAverage", "TWAP", "VWAP",
                  "HasExisted", "HasExistedWithin"}

\* The answer is made of results that succeeded, and of one if there is one.
LEMMA CombinedIsReal ==
  ASSUME IInv, Mergeable(query)
  PROVE  /\ Combined \subseteq Successes
         /\ Combined = {} => Successes = {}
<1>1. Successes \subseteq Nat
  BY BatchBounds DEF IInv, Successes, Chunks
<1>2. CASE query.op = "DurationWhere"
  BY <1>2 DEF Combined, Decoded
<1>3. CASE query.op # "DurationWhere"
  <2>1. Combined = {c \in Successes : \A d \in Successes : c <= d}
    BY <1>3 DEF Combined, Mergeable
  <2>2. Successes # {} => \E m \in Successes : \A d \in Successes : m <= d
    BY <1>1, LeastNumber
  <2>3. QED
    BY <2>1, <2>2
<1>4. QED
  BY <1>2, <1>3

\* A query not yet scheduled is a FanOut not yet split.
LEMMA PartsInit == Init => Parts!Init
BY DEF Init, Parts!Init

\* Every step is one of FanOut's or changes nothing that FanOut sees.
LEMMA PartsStep ==
  ASSUME \A q \in Queries : Mergeable(q)
  PROVE  IInv /\ [Next]_vars => [Parts!Next]_(Parts!vars)
<1> SUFFICES ASSUME IInv, [Next]_vars PROVE [Parts!Next]_(Parts!vars)
  OBVIOUS
<1> USE DEF Parts!vars
<1>1. CASE UNCHANGED vars
  BY <1>1 DEF vars
<1>2. CASE ScheduleBatch
  BY <1>2 DEF ScheduleBatch
<1>3. CASE CollectChunk
  <2>1. next \in DOMAIN results /\ results[next] = "open"
    BY <1>3, BatchBounds DEF CollectChunk, IInv, TypeOK, LoopsAreWithinBounds,
      UncollectedAreOpen, Reached, Chunks
  <2>2. Parts!Settle(next)
    BY <1>3, <2>1 DEF CollectChunk, Parts!Settle
  <2>3. QED
    BY <2>1, <2>2 DEF Parts!Next
<1>4. CASE Assemble
  <2>1. CASE pc' = "error"
    BY <1>4, <2>1 DEF Assemble, Parts!Abort, Parts!Next
  <2>2. CASE pc' = "answered" /\ sources' = Combined
    <3>1. DOMAIN results = Chunks /\ Parts!With("ok") = Successes
      BY DEF IInv, TypeOK, Parts!With, Successes
    <3>2. Parts!With("open") = {}
      BY <1>4, <3>1, BatchBounds
         DEF Assemble, IInv, TypeOK, CollectedAreSettled, Reached, Chunks, Parts!With
    <3>3. query \in Queries
      BY DEF IInv, TypeOK
    <3>4. Parts!Answer
      BY <1>4, <2>2, <3>1, <3>2, <3>3, CombinedIsReal DEF Assemble, Parts!Answer
    <3>5. QED
      BY <3>4 DEF Parts!Next
  <2>3. QED
    BY <1>4, <2>1, <2>2 DEF Assemble
<1>5. ASSUME NEW c \in Chunks, FinishChunk(c) \/ RetryChunk(c)
      PROVE  UNCHANGED Parts!vars
  BY <1>5 DEF FinishChunk, RetryChunk
<1>6. QED
  BY <1>1, <1>2, <1>3, <1>4, <1>5 DEF Next

\* However many chunks, whatever the batch size and whichever attempts fail: each
\* chunk settles once, there is no answer before all have, and it is made of
\* chunks that succeeded.
THEOREM ChunkedQueryImplementsFanOut ==
  ASSUME \A q \in Queries : Mergeable(q)
  PROVE  Spec => ImplementsFanOut
<1>1. IInv /\ [Next]_vars => [Parts!Next]_(Parts!vars)
  BY PartsStep
<1>2. QED
  BY <1>1, SpecInv, PartsInit, PTL DEF Spec, ImplementsFanOut, Parts!Spec
================================================================================
