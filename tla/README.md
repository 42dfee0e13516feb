# A model of go-temporal-timeline

TLA+ modules, TLC runs and TLAPS proofs for the Timeline Framework: a service
that ingests events into timelines through Temporal workflows and answers
queries over them. Paths below are relative to the repository (`src/` here).

1. The system: components, state, operations, interactions
2. What is hard, and what makes each component correct
3. The modules and how they correspond to the code
4. The runs: what each shows, its bounds, its fairness
5. The proofs
6. Where the code and its documents disagree
7. Only model-checked, not modelled, and the plan

## 1. The system

| Component | Code | State it keeps | Operations |
|---|---|---|---|
| HTTP server | `pkg/http/server.go` | none | ingest (SignalWithStart), query and replay (start a workflow and wait), HCL, health |
| Event ingestion | `pkg/temporal/workflows.go` `IngestionWorkflow`, `activities.go` `AppendEventActivity` | per timeline: the signal channel, `EventCount` | receive a signal, append with retries, continue as new |
| Storage and index | `pkg/temporal/mock_storage.go` | `events` per timeline, `index` over all timelines | AppendEvents, LoadEvents, ReadEvents, IndexEvents, QueryEvents |
| Query and replay workflows | `workflows.go` `QueryWorkflow`, `ReplayWorkflow` | per execution: events read, processing mode | ask the index (replay), read, process |
| Micro-workflow orchestrator | `pkg/temporal/micro_workflows.go` | `OrchestratorState`: results, counters, streaming events; child futures and timers | start children, wait one by one, handle signals, assemble |
| Chunked processing | `activities.go` `ProcessEventsConcurrently` ff. | chunk futures and results of one query | schedule a batch, collect it, assemble |
| Query processor | `activities.go` `QueryProcessor` | `results` by operation ID | execute the operations in order |
| Timeline algebra | `pkg/timeline/operators.go` | none | LatestEventToState, HasExisted(Within), AND, OR, NOT, durations, longest streak |
| Windows and aggregations | `pkg/timeline/windows.go`, `aggregations.go` | none; a loop's windows so far | sliding, tumbling and session windows; aggregates over lists, moving and given windows |
| Financial operators | `pkg/timeline/fintech.go` | none | averages by time and volume, RSI, MACD, VaR, drawdown, velocity, exposure |
| Classifier | `pkg/timeline/classifier.go` | none | JSON to events |
| Badges | `badging_workflows.go`, `activities.go` `EvaluateBadgeActivity` | per execution: events loaded, attempts | load events, run the badge's operations, judge the streak |
| Fraud detection | `fraud_workflow.go`, `fraud_detection.go` | per batch: child futures and results; the children's workflow IDs, which outlive it | start a child per customer, collect in order, detect |
| HCL | `pkg/hcl` | none | parse and merge HCL into requests |
| Worker and server process | `cmd/server/main.go` | registrations, one polled task queue | start, stop |
| Command-line client | `cmd/timeline/main.go` | none | requests |

How they interact. A POST to `/timelines/{id}/events` becomes a Temporal signal
to the timeline's `IngestionWorkflow`, which is started if it is not running.
The workflow takes one signal at a time and runs `AppendEventActivity`, which
writes storage and then the index. A query starts `QueryWorkflow`, which loads
the events of the timeline; a replay starts `ReplayWorkflow`, which first asks
the index for pointers if it has filters. Both then process what they read in
one of three modes: in a single activity, in chunks by
`ProcessEventsConcurrently`, or by an `OperatorOrchestratorWorkflow` with a
child workflow per operation and partition. Each mode ends in the query
processor, which applies the timeline algebra. A badge workflow loads its user's
events and judges what the same processor makes of them. A fraud workflow gets its
transactions with its request, starts a child workflow per customer and uses the
timeline algebra directly. Temporal's server stands between all of these: it
records signals in order, retries activities, fires timers and timeouts,
terminates children with their parent, and refuses workflow IDs in use.

## 2. What is hard, and what makes each component correct

`PROJECT.json` lists the hazards with their lines. In short:

- **Ingestion.** Attempts fail, die, or outlive their activity and write later,
  while the workflow goes on to the next batch; continue-as-new happens with
  signals still in the channel; two stores are written one after the other.
  Correct: no batch is stored twice, what is counted is stored and in order,
  the index is behind the storage, every batch is in one place, none waits forever.
- **Orchestrator.** Children finish in any order, are waited for in another,
  share IDs, send signals nobody waits for, and there are three kinds of
  timeouts. Correct: an answer comes from a child that succeeded, counters and
  progress are truthful, no wait ends before its child could have, and the
  orchestrator answers before its own timeout.
- **Chunks.** Batches, barriers and a short last chunk. Correct: concurrency is
  bounded, every event is in one chunk, partial failures leave an answer.
- **Processing modes.** The same request is processed in one piece, in chunks, or
  operator by operator. A part knows nothing of the events and results of the
  others, and the answer is put together by rules of its own. Correct: where there
  is one part the modes agree, and sums over parts stay within bounds.
- **Query and replay beside ingestion.** Reads overlap writes, the index lags
  or fails. Correct: what was confirmed is visible, of two reads the later
  one extends the earlier, all that waits for no chunks ends.
- **Query processor.** Unsorted events, intervals that touch, nest or coincide,
  operations that name missing or later ones. Correct: a timeline is true
  exactly where its definition says, and durations and streaks measure that.
- **Badges.** Events come late and out of order while badges are evaluated again
  and again, without a timestamp too. Correct: a badge for daily activity is earned
  exactly when the events show it, and none is revoked.
- **Fraud detection.** Batches meet in the IDs of their customers' children, which
  stay taken; children fail and are passed over; places are grouped in a map that
  is iterated in any order. Correct: a customer is judged on its own transactions,
  results stay with their requests, a result is missing only for a known reason, the spans are those in which both of two contradicting places were
  active.
- **Prices.** Loops that make windows until a bound; events in any order, at one
  instant, without the wanted field; weights, peaks and windows of zero. Correct:
  windows cover what they are made for, each price is counted once, a result
  depends on its window and on nothing later and lies where its name says, a query
  fails only for a known reason.

## 3. The modules

| Module | Models | Role |
|---|---|---|
| `Ingestion` | handler, ingestion workflow, activity attempts, both stores' writes | detailed |
| `EventLog` | what a client of a timeline may rely on | abstract, implemented by `Ingestion`, instantiated by `QueryReplay` |
| `Orchestrator` | orchestrator, children, signals, timers | detailed |
| `ChunkedQuery` | chunked processing | detailed |
| `FanOut` | what splitting a query into parts promises | abstract, implemented by `Orchestrator` and `ChunkedQuery` |
| `QueryReplay` | both workflows and the stores' reads, beside an `EventLog` | composition |
| `Lists` | a loop that appends the wanted elements, a loop that adds up, and `sort.Slice` | pure operators |
| `Timeline` | the operators of `operators.go`, over `Lists` | pure operators |
| `QueryOperations` | `executeOperation` and `ProcessQuery`, over `Timeline` | pure operators |
| `QueryProcessor` | `ProcessQuery` step by step, over `QueryOperations`, with a reference meaning of each operation | detailed and reference |
| `ProcessingModes` | a request in one piece, in chunks and by operators on their own, each running `QueryProcessor` | composition |
| `Badges` | the badge workflows, over `QueryOperations`, beside ingestion | composition |
| `FraudDetection` | `detectCreditCardFraud` over `Timeline`, with a reference meaning | pure operators and reference |
| `FraudWorkflow` | batches of customers, their children and the children's IDs, over `FraudDetection` | composition |
| `Aggregations`, `FinancialOperators` | prices, aggregates, moving and windowed aggregation; the operators of `fintech.go` | pure operators |
| `PriceQueries` | `executeOperation` for these operators, and the loops of `windows.go` step by step | detailed |
| `IngestionProofs`, `ChunkedQueryProofs`, `OrchestratorProofs`, `QueryReplayProofs`, `FraudWorkflowProofs`, `QueryProcessorProofs`, `BadgesProofs` | theorems about the module of that name, `QueryProcessorProofs` also about `ProcessingModes`, `FraudWorkflowProofs` also about `FraudDetection` | proofs |
| `Lemmas` | integer division, least and greatest elements, induction, the existence of recursive functions, what `Select`, `SortBy` and `Total` return; at which times the results of each operator of `Timeline` are true and how their intervals lie; the turns of a query | lemmas of the proofs |
| `MC*` | instances for TLC | |

`EventLog` is what joins the modules: `Ingestion` is shown to implement it, by
TLC and by proof, and `QueryReplay` runs its readers beside it instead of beside
the whole of ingestion. `FanOut` does the same for the two distributed ways of
processing a query, which `QueryReplay` sees as one step that succeeds or fails.
`ProcessingModes` has what they leave out: not when the parts end, but what they
answer.

### Ingestion

A batch is named by the position of its signal. `HandleIngestEvents` is the
handler with a SignalWithStart that was recorded; its answer may be lost, and
the client is then told 500. `ReceiveSignal` is the loop body up to the blocking
`Get`, because nothing in between yields. `AppendFailed` and `AppendSucceeded`
are the two ways on, the second including continue-as-new. An attempt of the
activity goes `started`, `stored`, `indexed`, and may die or fail on the way.
The activity's only timeout is ScheduleToClose (30 s), so a dead attempt is
never replaced: the server learns of it when the whole activity is over. That
is why an attempt may write after its activity was given up, and also why
nothing is written twice. `handled`, `counted`, `dropped` and `abandoned` are
history, as is `acked`.

### Orchestrator

A child is an operation on a partition. `Launch` is the first workflow task;
a child whose workflow ID is in use fails at once, as it may with another query
(`RefuseChild`), since workflow IDs do not contain the query's. The wait loop is
`focus`: which future is selected on, `armedAt` when its timer was made.
`CollectResult` has priority over `TimeOutOperator` as in the selector.
`HandleSignal` is the streaming goroutine. `Finish` is the end of the workflow,
including the nil map it panics on when there are no operations. Time is
discrete; server timers are exact (`Tick` waits for them), and the
orchestrator's worker may be slow or `prompt`.

### ChunkedQuery

`ScheduleBatch`, `CollectChunk` and `Assemble` are the workflow, `FinishChunk`
and `RetryChunk` the activities. `Decoded` is what JSON makes of a result's Go
type, which decides whether `assembleChunkResults` finds it.

### QueryReplay

A reader is one workflow execution. `LoadEvents`, `ReadEvents` and
`QueryEvents` are the stores' operations; a read is a snapshot, since appends
write beyond the slice a reader was given. Both stores filter with a loop that
appends the wanted elements to a new slice: `Select` of `Lists`, with `Within` for the range
of timestamps. `seen` (what was confirmed at the start) and `before` (who had read
at the start) are history.

### Timeline, QueryOperations and QueryProcessor

Intervals are half open, time is a small range of integers; `Nanosecond` and
`Hour` are constants, since the code uses both as interval lengths. The
loops that carry a timeline along (merging, AND over a list) are recursive functions
over their turns, and so are sums and `ProcessQuery`. `PointsOf` is the reference: for a list of
events and each operation of a request, the units of time at which it should be true, by
quantifiers over events; `TruePoints` is that of the query's own events. In `QueryProcessor` a request is executed one operation per step.

### ProcessingModes

A part's result depends on its events and operations only, so one step computes
all parts, loses up to `MaxLost` of them and assembles the rest; in one piece, a
request is executed as in `QueryProcessor`, an operation per step. The assembly
follows the Go types as they are after JSON: a sum finds its numbers, a question
of existence finds no `bool` and answers FALSE. Where the code takes any success
that a map yields first, the answer is any of them.

### Badges

The five workflows have one body, so the module has one set of actions and five
lists of operations; the required days are a constant so that TLC sees streaks
of a few events (the code's are 14, 7, 3, 3 and 28). `Load` and `EvaluateBadge` are
the two activities, each with its attempts and its timeout; ingestion and the
clock go on between them. `ProcessQuery` is that of `QueryOperations`. `LongestSpan`
is the reference: units of time that are within a day after a counted event,
taken from storage and not from what the execution loaded. An execution that has
ended keeps only what the properties ask for. (`cmd/server` does not register
these workflows.)

### Fraud detection

`StartChild` is the server acting on the parent's command: it refuses an ID that
is or was in use. `Collect` is the parent's `Get` loop, which goes in the batch's
order while children end in any. `CompleteChild` chooses the order in which the
map of places is iterated and keeps it instead of the spans, which follow from it.
A value is a parsed location; distances are a table, flying speed with its buffer
a constant `Reach`. `FraudPoints` is the reference: the units of time, judged one
by one, in which both places of a contradicting pair were active within a window,
if there are enough such pairs.

### Prices

A price is an integer and a result an exact ratio; a ratio over 0 is an infinity
or NaN, which JSON cannot carry. `ExecuteOperation` is one operation of a request,
`AddSlidingWindow`, `AddTumblingWindow` and `SeeEvent` are one turn of their
loops, `FinishWindows` the aggregation over what the loop made. Windows and
`PositionExposure` are called as a library: no operation of a request reaches
them. The relations of section 4 are between results and the unsorted input.

## 4. The runs

| Run | Shows | Bounds, and why they are enough |
|---|---|---|
| `ingestion` | all of section 2 for ingestion, `EventLog`, and that every signal settles | three batches of one or two events, threshold 3, three attempts: the threshold is met exactly, exceeded and not met, with an empty and a non-empty channel, and two attempts can be left running beside the current one. Requests are all told 202 (whether they are changes nothing later) |
| `ingestion_shipped` | violated: `NoAckedBatchLost` with the names `cmd/server` registers | one batch |
| `orchestrator` | the orchestrator's properties, `FanOut`, and its end | a unit is five minutes: children and waits have 2, the orchestrator 3. Two operators on two partitions (four children), one signalling operator on two partitions, three operations that share an ID, three without, and none; with and without streaming; prompt or not |
| `chunked_query` | the chunks' properties, `FanOut`, and the end | 0 to 9 events in chunks of 2 and batches of 2: no chunk, one, full and short last chunks, full and short last batches |
| `chunked_shipped` | violated: `EventuallyAnswered` with the one queue `cmd/server` polls | seven events |
| `query_replay` | reads beside ingestion, and the end of what is not processed in chunks | two events, one of them without a timestamp, two readers that are any of a query, an unfiltered and a filtered replay; one event of another timeline in the index |
| `query_processor` | meaning of timelines, durations and streaks; agreement of the processing modes and bounds on chunked durations | all lists of up to three events of eight kinds in any order, against some fifty requests of up to four operations. Three events are enough for a state to change, and for two intervals to nest, touch, coincide or leave a gap; in chunks and partitions of two events they are one part or two, the second a short one. A dozen requests, each kind of last operation among them, are processed in all modes, with up to one part lost |
| `badges` | badges are what the events show and stay earned | a day is two units; two executions of one badge, up to three events of six kinds that touch, overlap, leave a gap of half a day or more, have no timestamp or do not count; streaks of 2 to 4 days, so that three events earn one exactly; with a time range, without, and with an invalid one; two attempts |
| `badges_streak` | violated: `PaymentsOnTimeEarnTheBadge`, what a comment says of the Streak Maintainer, whose conditions contain a negation | as above |
| `fraud` | spans are what transactions show, results stay with their requests, what is missing has a reason, batches end | two batches; one has one request over any two of nine transactions, or three or four in at least three places (what two pairs of places need), or up to three requests that repeat a customer or lack transactions; the other asks for one of the same customers. Distances below `MinDistance`, within reach, and out of reach; one negative window; transactions a window apart, at one instant, unsorted, and at two coordinates under one name |
| `prices` | windows hold their times, prices are counted once, results fit the prices and depend on their window only, failures have a cause, the loops end | all lists of up to three of seven events (equal times, equal prices, no volume, no price) and four longer ones, against some eighty requests with windows that hold all, some and one of the prices, or no length. Loops without progress stop at seven windows |
| `rsi` | violated: `RSIIsOfItsWindow` | as above |

Deadlock is not checked where the system may stop: all clients have been
served, the bound on posts is reached, a query has its answer, a batch its
results, or a window loop that does not end is at its bound.

Each run's properties are those with which it can fail: every one has a mutant of
the code, a plausible bug, under which the run finds it violated
(`PROJECT.json`, "mutants"; the mutated operator stands before the one it
replaces). Types are checked as an invariant where the state is more than the
input and the result of one computation.

`sort.Slice` is taken for a stable sort, which it is for up to twelve elements
in Go; the instances stay below that.

### Fairness

- `Ingestion`: weak fairness of `ReceiveSignal` and `ScheduleToCloseTimeout`.
  Temporal runs a workflow that can move and its server's timers fire. Nothing
  is assumed of the activity's attempts, so that `EverySignalSettles` holds with
  a worker that never answers.
- `Orchestrator`: weak fairness of the orchestrator's own steps, of time with the
  orchestrator's timeout, and of the children's timeouts. No child has to run.
- `ChunkedQuery`: weak fairness of the workflow, and of the end of some attempt
  that is under way: its StartToClose (10 min) and Heartbeat (2 min) timeouts end
  it if nothing else does. An attempt is under way only if a worker polls its
  queue.
- `QueryReplay`: weak fairness of the steps of each execution that is not in concurrent
  mode: a worker polls the workflows' queue, the activities of loading, asking the
  index and processing in one piece have ScheduleToClose timeouts, and the orchestrator
  has an execution timeout. Chunk activities have no such timeout
  (`activities.go:777-786`), so nothing is assumed of an execution that waits for them,
  and `EventuallyEnds` says nothing of it: `ChunkedQuery` does.
- `FraudWorkflow`: weak fairness of the workflows' and the server's steps
  together: workflow tasks are run again until they succeed, the server acts on
  every command. Whether a batch is begun is up to its caller.
- `PriceQueries`: weak fairness of the next turn of a loop.

## 5. The proofs

Each proof module proves facts about one component for all values of its
constants that satisfy the component's named assumption: types and positive
numbers, no more. Where a theorem needs to know how two timeouts compare it says
so in an ASSUME of its own. Each follows one pattern: an inductive invariant, first
checked by TLC; `Init` implies it; one lemma per action, or per group of actions
that disturb the same conjuncts, shows that a step preserves it; the property
follows from it.

| Theorem | Property | Why the property alone is not inductive |
|---|---|---|
| `IngestionProofs!CountedBatchesAreStored`, `NoDuplicates` | `CountedIsStored`, `StoredAtMostOnce` | an attempt that outlived its activity may write at any time: `AttemptsMatchStorage` |
| `CountedBatchesInOrder` | `CountedInOrder` | what is in the channel must be what has not been received: `ChannelIsSuffix`, `EarlierAreSettled` |
| `IndexFollowsStorage` | `IndexedIsStored` | as `NoDuplicates` |
| `BatchesAreAccounted` | `EveryBatchAccounted` | outcomes must exclude each other, and a run's count its batches: `OutcomesExclude`, `RunCounts` |
| `IngestionImplementsEventLog` | `ImplementsEventLog` | the log's order is the order of the signals |
| `OrchestratorProofs!AnswersAreReal` | `AnswerIsReal` | a result must be its child's, and sources successes: `WaitInv`, `AnswerInv` |
| `CountersTellTheTruth` | `CountersAreTruthful` | counters count results or handled signals: `SignalInv`, `CountInv` |
| `PromptOrchestratorAnswers` | `AnswersInTime` | no child outlives its timeout: `TimeInv` |
| `TimersAreNotShort` | `TimerNeverCutsShort` | a wait's timer is armed after the launch: `TimeInv` |
| `OrchestratorImplementsFanOut` | `ImplementsFanOut` | an answer waits for all results: `WaitInv` |
| `ChunkedQueryProofs!BoundedConcurrency` | `ConcurrencyBounded` | how far the two loops have come: `LoopsAreWithinBounds` |
| `AnswersArePartial` | `PartialAnswer` | results are those of finished chunks: `AnswerInv` |
| `ChunkedQueryImplementsFanOut` | `ImplementsFanOut` | chunks after the loop are open |
| `QueryReplayProofs!ConfirmedIsRead` | `ConfirmedIsVisible` | what a reader has must be compared with the present log: `ReadOf` |
| `ReadsStayPrefixes` | `ReadsAreOrdered` | as `ConfirmedIsRead` |
| `FraudWorkflowProofs!ResultsAreTheirRequests` | `ResultsStayWithTheirRequests` | who owns a customer's ID, what its future shows, and the place of its result: `OwnerInv`, `FutureInv`, `ResultInv` |
| `NoOtherIsMissing` | `OnlyRefusedAreMissing` | as `ResultsAreTheirRequests` |
| `AnswersAreRight` | `SpansAreWhatTransactionsShow` | a running child's request must be its customer's own (`OwnerInv`); the rest is about the detection: `DetectionFacts` |
| `QueryProcessorProofs!TimelinesAreExact` | `TimelinesMeanTheirPoints` | what an ID holds must be the last result with it, and a list of intervals of the right type: `ResultsAreRight` |
| `TimelinesStayExact` | `TimelinesMeanTheirPoints`, of `ModesSpec` | as `TimelinesAreExact` |
| `MeasuresAreExact` | `MeasuresMeanTheirPoints` | intervals of earlier results must lie apart, or their lengths count a time twice: `ResultsAreShaped` |
| `MeasuresStayExact` | `MeasuresMeanTheirPoints`, of `ModesSpec` | as `MeasuresAreExact` |
| `ModesGiveOneAnswer` | `ModesAgree` | how far a query in one piece has come must be a turn of `ProcessQuery`, and an answer what was assembled: `ModesInv` |
| `ChunkedDurationsStayBounded` | `ChunkedDurationsAreBounded` | as `ModesGiveOneAnswer`: the sum is over the chunks whose activities succeeded, each once |
| `BadgesProofs!BadgesAreWhatEventsShow` | `BadgeIsWhatEventsShow` | what an execution has loaded must still be what its range selects from the part of storage that was there then: `BadgeInv` |
| `NothingIsEverRevoked` | `NothingIsRevoked` | as `BadgesAreWhatEventsShow` |

`TypeCorrect` in the first four modules proves `TypeOK`.

**Ingestion.** `IInv` adds four facts to the types.

- `ChannelIsSuffix`: the channel holds exactly the latest signals, in order, so
  that the batch received next is the one after all received so far;
- `UntouchedBeforeReceived`: nothing has happened to a batch not yet received;
- `EarlierAreSettled`: batches before the current one are counted, dropped or
  abandoned, which is what orders the confirmations;
- `AttemptsMatchStorage`: an attempt is past its first write exactly if its
  batch is in storage, which gives both `CountedIsStored` (only an attempt past
  it succeeds) and `StoredAtMostOnce` (only one before it writes).

`CountedInOrder` then follows for a write because a batch that is started has no
earlier counted batch missing, and for a count because the counted batch has
been received before any later one could be written. `AccInv` stands on `IInv`:
the five places a batch can be in exclude each other, and every batch received
is in the hands of the current attempt or has an outcome.

**Orchestrator.** Three layers. `Core` follows the wait loop: a result that is no
timeout is its child's, the loop has a focus as long as a result is open, no child
outlives the timeout that counts from the launch. `SignalInv` says what a signal
tells of its child, sent or handled: that the child really started, being the
first with its ID. `CountInv` reads the counters off the settled results, or off
the handled signals when results stream. `AnswersInTime` assumes
`ChildTimeout < OrchestratorTimeout` (10 and 15 minutes in
`micro_workflows.go:343` and `workflows.go:308`), and `TimerNeverCutsShort` that
`ChildTimeout <= OperatorTimeout` (10 minutes both). The first is why a prompt
orchestrator answers however many operators it waits for one by one: their
timeouts all count from the launch.

**Chunks.** The invariant says how far the two loops have come: chunks before the
current one are settled, those after it open, those of later batches idle.
Bounded concurrency is then the size of an interval. The refinement assumes
`Mergeable` of every query, the operations whose results the assembly can find: it
does not hold of `HasExisted`, `HasExistedWithin` and the averages, whose decoded
results have another type than the assembly looks for (section 6).

**Query and replay.** The log only grows at its end, and so does the selection of
any range from it. `ReadOf` therefore says that what a reader has is a beginning
of what its range selects *now*, and, where no pointers limit it, all of what was
confirmed when it started and all that earlier readers have. `SelectAppend` is the
lemma on which this rests.

**Fraud batches.** `OwnerInv` ties three views of a child together: the state of the
workflow that has its customer's ID, the request that owns the ID, the future that
the request's parent waits for. `ResultInv` places each answer: the result of an
answered request is the n-th if n requests up to it are answered, so that a
refused request in between shifts nothing wrongly. `OwnerInv` says what a completed
child has answered: what `AnswersTo` allows for the request that owns it.

`AnswersAreRight` says that the detection is right for any transactions, distances and
windows and any order of the map of places. The nested loops list each two places once
(`PairsFacts`), and neither a traveller's direction nor the order in which two
transactions are compared matters (`TravelIsSymmetric`, `ApartIsSymmetric`), so that the
pairs for which the code finds a span stand one to one for the pairs that contradict each
other (`PairsWithSpans`): there are enough of the ones exactly if there are enough of the
others. That a pair has a span exactly if two of its transactions are less than a window
apart rests on `AND` dropping what is empty (`AndTwoEmpty`), when that span is true and
that spans do not touch on the lemmas about `Timeline`. The theorem assumes integer
times and windows and coordinates in the table of distances (`TransactionsAssumption`),
and that distances are symmetric (`FraudDetectionAssumption`).

**Query processor.** `TimelinesAreExact` says that the timelines are right for every
list of events (unsorted, with equal times), every request and every horizon. It has
three layers.

- `Lemmas`, of lists: the elements that `Select` keeps come from increasing places of the list;
  `SortBy` is a permutation of it that orders the keys, and equal keys by place.
- `Lemmas`, of `Timeline`: at which times a result is true. One turn of the loop that merges
  adds the times of the interval it takes and no others (`MergeNextAdds`), as long as
  the starts are sorted. So merging keeps times, flattening takes their union, `AND` is
  their intersection and `OR` their union; `NOT` is true nowhere; `HasExisted` and
  `HasExistedWithin` hold from a matching event on. For a state, the last change up to a
  time and the next one after it enclose that time (`StateTimes`).
- `QueryProcessorProofs`: `ResultsAreRight` adds to the property the types of results
  and that the IDs with a result are those of the operations executed.
  `ConditionsAreSeen` is its core: the timelines that an operation finds under its IDs,
  some missing, replaced or of another type, are those of the operations that the
  definition sees. The definition of meaning, `PointsOf`, is itself recursive over the
  request and must be shown to exist (`PointsUnfold`).

`MeasuresAreExact` says that durations and streaks are right, too. The times at which a
timeline is true do not tell how long it is: its intervals may overlap, or touch where a
run of true units goes on. `ResultsAreShaped` therefore says how they lie. Merging leaves
gaps between intervals of one value (`MergeNextShape`), and so do `AND`, `OR`,
`HasExisted` and `HasExistedWithin`. Spans of a state are disjoint but may touch; a streak
refuses states, so that each of its intervals is a whole run, and a duration, which takes
them, needs no gaps. The lengths of disjoint intervals add up to the number of units they
cover (`DurationCounts`), and an interval with gaps around it is a longest run
(`StreakIsRun`). A negation among the operations takes away that its timelines are all
true, a negative window that intervals end after they start; the property says what is
left. Both flags only ever rise, so that a result keeps what was known of it.

Both theorems assume of the constants that events have integer times, that conditions
are lists and windows numbers (`QueryProcessorAssumption`), and that a nanosecond and an
hour are positive; `MeasuresAreExact` also that no interval ends after the horizon
(`HorizonAssumption`), up to which units are counted.

`ModesInv` follows a query on its three ways. In one piece, the results after n steps
are those of the n-th turn of `ProcessQuery` (`Agrees`); in parts, the answer is the
assembly of the parts' results. `ModesGiveOneAnswer` then compares the assembly of one
part with `ProcessQuery` over all events: the one slice is the whole list (`OneSlice`),
the sum of one number is that number, and an operation that does not refer to others
results in the same without them (`OthersDoNotMatter`). It assumes that a request that is split has an ID of its own for each operation.

`ChunkedDurationsStayBounded` compares what the activities of several chunks count with
what there is to count. The chunks are slices of the events that cover them all
(`ChunksAreSlices`, `SlicesCover`), and the answer is the sum of one number for each chunk
that succeeded (`ChunksAddUp`), each the number of units that the chunk's own events make
true (`DurationOfQuery`). So everything is about `PointsOf`, for a slice and for the whole:

- what holds of a slice through existence, `AND` and `OR` holds of the whole
  (`PointsSpread`), so that no chunk finds more than there is (`ChunksFindNoMore`);
- what holds of the whole through `HasExistedWithin` and `OR`, which look at one event at
  a time, holds of some slice (`PointsAreGathered`), so that the chunks together find all
  of it (`ChunksFindAll`; `TotalCovers` turns a cover by sets into a bound on the sum);
- a state in a slice is the state of the whole up to the slice's last event, and one
  nanosecond more (`StateOfSlice`). Of events in time order no two chunks range over one
  time (`RangesAreDisjoint`), so that only those nanoseconds are counted twice
  (`ChunksCutStates`, `TotalFits`).

**Badges.** `BadgeInv` says that an execution that is evaluating holds what its range
selects from the events that were in storage when it loaded them, and one that is done
the judgement of that. Storage only grows at its end, so this stays so whatever is
ingested or loaded in between (`SeenStays`). The theorems then rest on what a badge's
query answers of any list of events, badge by badge (`BadgeAnswers`). It is run turn by
turn (`Holds`: each ID executed so far has its timeline): `HasExistedWithin` a day is true
within a day after its events (`WithinDayFacts`), their disjunction is true within a day
after an event of any type (`AnyWithinDay`), and its intervals lie apart, so that the
longest of them is the longest run of units (`StreakIsLongestRun`), however days overlap
or touch. Among the conditions of the Streak Maintainer is a negation, so that theirs is
empty (`AllWithNegation`); the third operation of the Weekend Warrior fails
(`WeekendWarriorFails`). `NothingIsRevoked` follows because more events and more time make
more units active (`CountedLater`) and a longest run no shorter (`LongestGrows`). The
theorems assume that events and ranges have integer times, if any, and that a day and the
required days are positive (`BadgesAssumption`).

The sort of the model is stable for lists of any length; where Go's is not,
above twelve events, a state at a time with several events may be another's of them.
The other operators do not depend on that order.

**Recursion and induction.** The provers cannot instantiate the library's
induction theorems, whose parameter is an operator. `Lemmas` derives from
the library's facts on well-founded relations that a nonempty set of numbers has a
least element, and from this an induction whose parameter is a set (`Induction`) and
the existence of functions that are defined by their own earlier values
(`RecursionExists`). Every recursive function of `Lists`, `Timeline` and
`QueryProcessor`, and the library's `FlattenSeq`, is unfolded by it.

The proofs use the library's facts on finite sets and well-founded relations, and
no facts of their own without proof.

## 6. Where the code and its documents disagree

Shown by a run (`PROJECT.json`, "findings", quotes both sides):

- A batch answered 202 is lost when its append fails for good, and
  `cmd/server` registers names under which no append is ever found.
- Chunks are scheduled on a queue that the shipped worker does not poll.
- `NOT` is true nowhere, so that the Streak Maintainer, whose conditions contain a
  negation, is never earned.
- `RSI` reports nothing once the second price is older than its window: the loop
  ends there instead of passing over it.

Seen while modelling, and part of the models, without a run of their own. No property
asserts that these are right: where one comes near, it leaves the case out.
Ingestion, queries and badges:

- Continue-as-new (`workflows.go:131`) drops the signals in the ending run's
  channel, where `AGENT.md:795` says "no loss"; `EveryBatchAccounted` counts them
  as abandoned.
- The answer of a partitioned query is partition 0's (`micro_workflows.go:564`),
  where `AGENT.md:1019` says "Large datasets are partitioned across multiple operator
  instances"; a chunked answer that is no sum is the first chunk's.
- A filtered replay can miss matching events: the index's pointers limit how
  many events are read, not which (`mock_storage.go:77`). `ConfirmedIsVisible` and
  `ReadsAreOrdered` leave such reads out.

- A request without operations makes the orchestrator write to a nil map
  (`micro_workflows.go:470`); the workflow task panics until the timeout
  (`Finish`).
- With streaming, children that time out or send no signals are never counted
  as failed (`micro_workflows.go:407,458`); completion signals may come after the
  answer. `CountersAreTruthful` is therefore one-sided with streaming.
- Failed appends do not count, so that a run that sees only failures never
  continues as new (`workflows.go:120-131`).
- `assembleChunkResults` asserts Go types that do not survive JSON: the total of
  events stays 0 (`activities.go:882`), `HasExisted` is false (`activities.go:913`).
- A false interval from `NOT` between overlapping true ones keeps
  `mergeBoolIntervals` from joining them, and `DurationWhere` counts the overlap
  twice (`operators.go:268`). `MeasuresMeanTheirPoints` is one-sided there.
- A negative window makes intervals that end before they start, whose lengths
  `DurationWhere` subtracts (`operators.go:114`); `HasBackwards` and `NoWindowIsNegative`
  leave such requests out.
- `HasExistedWithin` reads its window from `params` only (`activities.go:392`);
  the query in `README.md:131-139` puts it beside `source` and fails.
- An event without a timestamp happens whenever it is classified
  (`classifier.go:158`): it can complete a streak today and not tomorrow.
  `NothingIsRevoked` excludes such events.
- `LoadEvents` returns the stored slice itself (`mock_storage.go:49`). Appends write
  beyond what a reader has, so that it still reads a snapshot.

Badges, which `BadgeIsWhatEventsShow` leaves out or says in one direction only:

- The Weekend Warrior's workflow never answers: its window "4w"
  (`badging_workflows.go:394`) is no duration to `time.ParseDuration`.
- The Feature Pioneer is earned by any span of three active days; the comments
  (`badging_workflows.go:284`, `:316`) speak of the 24 hours after a launch.

The processing modes, which `ModesAgree` leaves out:

- In chunks, `HasExisted` and `HasExistedWithin` are always false, where the comment
  at `activities.go:907` says "true if any chunk has true"; the averages
  by time and volume are 0 (`activities.go:898`). The assembly goes by the last operation, a query in one piece by
  the one called "result". No events answer 0 instead of nothing.
- In micro-workflows, operators run without the results of others
  (`activities.go:269`): `DurationWhere` is 0, a streak fails, `AND` and `OR` are
  empty. A query all of whose children failed is answered without a result
  and without an error.

Fraud detection:

- A child's ID is its customer's alone (`fraud_workflow.go:115`), where
  `AGENT.md:611` has a timestamp in it that "Ensures uniqueness". A customer's
  second request is refused in the same batch and in any later one, and its result
  is missing from an answer that is no error. `OnlyRefusedAreMissing` counts a taken ID
  among the reasons; nothing says that IDs have to be taken.
- `MinOverlaps` counts pairs of places (`fraud_detection.go:207`). One purchase
  abroad by a customer with in-store and online purchases at home makes two, where
  `AGENT.md:305-306` says it "Eliminates one-off false positives".
- `cmd/server` does not register the fraud workflows.

Prices:

- A slide or size of zero, or a start that does not advance, makes a window loop
  endless (`windows.go:73`); a session timeout of zero makes every session empty,
  and the aggregation over it has no results.
- A drawdown whose earliest price is 0 or missing, a velocity without a window and
  a confidence above 100 give infinities, NaN or a panic, which fail the query
  (`FailuresHaveACause`).
- VaR's default window "30d" (`activities.go:494`) is no duration to
  `time.ParseDuration`, so that VaR without a window fails. `FailuresHaveACause` leaves
  it out.
- Before the first quote an exposure takes that quote, though it is later
  (`fintech.go:540-547`). `ResultsDependOnTheirWindow` and
  `ExposuresUseTheLatestPrice` speak of the time from the first quote on.
- MACD's periods are hours; in minutes, the smoothing factor
  is above 1 and the average leaves the prices (`AveragesStayAmongPrices`
  asks for an hour).
- The conversion to prices takes all events, whatever the operation's source.

## 7. Only model-checked, not modelled, and the plan

Only model-checked:

- Liveness, which is out of the prover's reach: `EverySignalSettles`,
  `EventuallyAnswered` of the orchestrator and the chunks, `EventuallyEnds`,
  `BatchesEnd`, `WindowsEnd`.
- The five invariants of `PriceQueries` compare sums, orders and ratios of prices with
  the unsorted input. Its operators select and sort with the library's `SelectSeq` and
  `SortSeq`, whose parameters are operators; proofs need those of `Lists` instead, as in
  `Timeline`.

Not modelled:

- HCL (`pkg/hcl`) is the translation of a syntax, field by field, of split
  files after joining their texts; it keeps no state and meets nothing else. The
  command-line client and the server's start and stop are I/O, and
  `mobile_interaction.go` is a stub that nothing calls.
- The classifier, but for events without a timestamp: field names and JSON.
- Of the financial operators, Bollinger bands, the Sharpe ratio and the standard
  deviation need square roots, which TLC does not have; MACD's signal and
  histogram, which go to the metadata, repeat its average. What float64 rounds is
  left out everywhere: ratios are exact.
- OHLC bars, the conversion of numeric timelines and the parsing of window
  specifications and durations.
- The replay of a recorded workflow history: the effect of Go's random map
  order on it (`micro_workflows.go:387`) is not seen. The models take every order,
  one per execution.
- A retry of a POST by a client whose answer was lost is a new batch: the server
  keeps nothing by which to know it.

The order in which the project grows:

1. (done) `Ingestion` with `EventLog`, its proofs; `Orchestrator` and
   `ChunkedQuery` with `FanOut`; `QueryReplay`; `Timeline`, `QueryProcessor` and
   `Badges`.
2. (done) `ProcessingModes`, `FraudDetection` and `FraudWorkflow`, `Aggregations`,
   `FinancialOperators` and `PriceQueries`.
3. (done) Proofs of every safety property and both refinements of `Ingestion`,
   `Orchestrator`, `ChunkedQuery`, `QueryReplay` and `FraudWorkflow`.
4. (done) Proofs about the timeline algebra: what sorting, selecting and merging
   return, and with them `TimelinesMeanTheirPoints`; `ModesAgree`.
5. (done) Proofs about durations and streaks: `MeasuresMeanTheirPoints`; durations
   of chunks: `ChunkedDurationsAreBounded`; the streaks of `Badges`. Next are the
   windows and single prices of `PriceQueries`.
6. `ConcurrentQueries`: several orchestrators that share workflow IDs, which
   `RefuseChild` stands for now.
