------------------------------- MODULE Ingestion -------------------------------
(***************************************************************************)
(* Event ingestion for one timeline: the HTTP handler that signals the     *)
(* workflow, IngestionWorkflow's receive / append / continue-as-new loop,  *)
(* the AppendEventActivity attempts that Temporal schedules for it, and    *)
(* the two stores an attempt writes (event storage, then the index).       *)
(*                                                                         *)
(* A batch is named by the position at which Temporal recorded its signal: *)
(* batch i is the i-th signal of the timeline.  What is in a batch does    *)
(* not matter here, only how many events it carries.                       *)
(***************************************************************************)
EXTENDS Naturals, Sequences, FiniteSets, Functions

CONSTANTS
  MaxPosts,                \* bound: number of POST requests that get recorded
  BatchSizes,              \* the sizes a posted batch may have
  Answers,                 \* TRUE: a POST is told 202; FALSE: told 500, though recorded
  ContinueAsNewThreshold,  \* DefaultContinueAsNewThreshold (1000 in the code)
  MaximumAttempts,         \* RetryPolicy.MaximumAttempts (3 in the code)
  Registered               \* activity names the worker has registered

ASSUME IngestionAssumption ==
  /\ MaxPosts \in Nat
  /\ BatchSizes \subseteq Nat \ {0}
  /\ Answers \subseteq BOOLEAN
  /\ ContinueAsNewThreshold \in Nat \ {0}
  /\ MaximumAttempts \in Nat \ {0}

\* The name under which the workflow asks for the activity.
AppendEventActivityName == "append-event"

VARIABLES
  batches,     \* sizes of the recorded signals, in recording order
  acked,       \* batches whose request was answered 202
  channel,     \* signals delivered to the current run and not yet received
  pc,          \* "receive": blocked on the channel, "append": on the activity
  current,     \* the batch the workflow is appending (0 before the first)
  tries,       \* attempts scheduled so far for the current activity
  attempt,     \* per batch, how far its latest activity attempt has got
  eventCount,  \* IngestionWorkflowState.EventCount
  storage,     \* batches in the order AppendEvents wrote them
  index,       \* batches in the order IndexEvents wrote them
  handled,     \* history: batches the current run has received
  counted,     \* history: batches whose append the workflow saw succeed
  dropped,     \* history: batches whose append the workflow saw fail
  abandoned    \* history: batches still in the channel of a run that ended

vars == <<batches, acked, channel, pc, current, tries, attempt, eventCount,
          storage, index, handled, counted, dropped, abandoned>>

Batch == 1 .. MaxPosts
Recorded == 1 .. Len(batches)

\* An attempt is idle, running before its first write, past AppendEvents, past
\* IndexEvents, or gone (its worker died, or its answer never arrived).
AttemptPhase == {"idle", "started", "stored", "indexed", "gone"}

Init ==
  /\ batches = <<>>
  /\ acked = {}
  /\ channel = <<>>
  /\ pc = "receive"
  /\ current = 0
  /\ tries = 0
  /\ attempt = [b \in Batch |-> "idle"]
  /\ eventCount = 0
  /\ storage = <<>>
  /\ index = <<>>
  /\ handled = {}
  /\ counted = {}
  /\ dropped = {}
  /\ abandoned = {}

--------------------------------------------------------------------------------
(* The HTTP handler.                                                       *)

\* handleIngestEvents, for the requests that reach Temporal: SignalWithStart
\* records the signal; the client is told 202, or 500 when the call's answer
\* was lost.  Requests refused with 400, and failed calls that recorded nothing,
\* change no state.
HandleIngestEvents(size, answered) ==
  /\ Len(batches) < MaxPosts
  /\ batches' = Append(batches, size)
  /\ channel' = Append(channel, Len(batches) + 1)
  /\ acked' = IF answered THEN acked \union {Len(batches) + 1} ELSE acked
  /\ UNCHANGED <<pc, current, tries, attempt, eventCount, storage, index,
                 handled, counted, dropped, abandoned>>

--------------------------------------------------------------------------------
(* The workflow.                                                           *)

\* Mutant of ReceiveSignal: the newest buffered signal first.
ReceiveNewestSignal ==
  /\ pc = "receive"
  /\ channel # <<>>
  /\ pc' = "append"
  /\ current' = channel[Len(channel)]
  /\ channel' = SubSeq(channel, 1, Len(channel) - 1)
  /\ tries' = 1
  /\ attempt' = [attempt EXCEPT ![channel[Len(channel)]] = "started"]
  /\ handled' = handled \union {channel[Len(channel)]}
  /\ UNCHANGED <<batches, acked, eventCount, storage, index,
                 counted, dropped, abandoned>>

\* The loop body up to ExecuteActivity(...).Get: nothing blocks in between.
ReceiveSignal ==
  /\ pc = "receive"
  /\ channel # <<>>
  /\ pc' = "append"
  /\ current' = Head(channel)
  /\ channel' = Tail(channel)
  /\ tries' = 1
  /\ attempt' = [attempt EXCEPT ![Head(channel)] = "started"]
  /\ handled' = handled \union {Head(channel)}
  /\ UNCHANGED <<batches, acked, eventCount, storage, index,
                 counted, dropped, abandoned>>

\* The attempt's answer matters only while the workflow still waits for it.
Awaited(b) == pc = "append" /\ current = b

\* Mutant of AppendFailed: the failed batch is put back at the end of the channel.
AppendFailedAndRequeues ==
  /\ pc' = "receive"
  /\ dropped' = dropped \union {current}
  /\ channel' = Append(channel, current)
  /\ UNCHANGED <<eventCount, handled, counted, abandoned>>

\* Get returned an error: log it and go back to Receive, counting nothing.
AppendFailed ==
  /\ pc' = "receive"
  /\ dropped' = dropped \union {current}
  /\ UNCHANGED <<channel, eventCount, handled, counted, abandoned>>

\* Get returned nil: count the events; at the threshold the run ends with
\* NewContinueAsNewError and the next run starts with an empty state.  What is
\* left in the ended run's channel is not carried over.
AppendSucceeded ==
  /\ pc' = "receive"
  /\ counted' = counted \union {current}
  /\ IF eventCount + batches[current] >= ContinueAsNewThreshold
       THEN /\ eventCount' = 0
            /\ handled' = {}
            /\ abandoned' = abandoned \union Range(channel)
            /\ channel' = <<>>
       ELSE /\ eventCount' = eventCount + batches[current]
            /\ UNCHANGED <<handled, abandoned, channel>>
  /\ UNCHANGED dropped

\* Mutant of ScheduleToCloseTimeout: only a dead attempt is timed out.
TimeoutOfDeadAttempt ==
  /\ pc = "append"
  /\ attempt[current] = "gone"
  /\ AppendFailed
  /\ UNCHANGED <<batches, acked, current, tries, attempt, storage, index>>

\* ScheduleToCloseTimeout (30 s) covers all attempts: the server fails the
\* activity whatever the running attempt is doing, and that attempt goes on.
ScheduleToCloseTimeout ==
  /\ pc = "append"
  /\ AppendFailed
  /\ UNCHANGED <<batches, acked, current, tries, attempt, storage, index>>

--------------------------------------------------------------------------------
(* AppendEventActivity, attempt by attempt.                                *)

\* storage.AppendEvents succeeded: the whole batch, under the store's lock.
StoreBatch(b) ==
  /\ attempt[b] = "started"
  /\ AppendEventActivityName \in Registered
  /\ storage' = Append(storage, b)
  /\ attempt' = [attempt EXCEPT ![b] = "stored"]
  /\ UNCHANGED <<batches, acked, channel, pc, current, tries, eventCount,
                 index, handled, counted, dropped, abandoned>>

\* Mutants of IndexBatch: an error of the index fails the attempt, so that the
\* batch is stored once more; the attempt indexes before it stores as well.
IndexErrorFailsAttempt(b) ==
  /\ attempt[b] = "stored"
  /\ \/ /\ index' = Append(index, b)
        /\ attempt' = [attempt EXCEPT ![b] = "indexed"]
        /\ UNCHANGED tries
     \/ /\ Awaited(b) /\ tries < MaximumAttempts
        /\ tries' = tries + 1
        /\ attempt' = [attempt EXCEPT ![b] = "started"]
        /\ UNCHANGED index
  /\ UNCHANGED <<batches, acked, channel, pc, current, eventCount,
                 storage, handled, counted, dropped, abandoned>>
IndexBatchEarly(b) ==
  /\ attempt[b] \in {"started", "stored"}
  /\ index' = Append(index, b)
  /\ attempt' = IF attempt[b] = "stored"
                  THEN [attempt EXCEPT ![b] = "indexed"] ELSE attempt
  /\ UNCHANGED <<batches, acked, channel, pc, current, tries, eventCount,
                 storage, handled, counted, dropped, abandoned>>

\* indexer.IndexEvents; an error is logged and otherwise ignored, and without
\* an indexer the step is skipped.
IndexBatch(b) ==
  /\ attempt[b] = "stored"
  /\ index' \in {index, Append(index, b)}
  /\ attempt' = [attempt EXCEPT ![b] = "indexed"]
  /\ UNCHANGED <<batches, acked, channel, pc, current, tries, eventCount,
                 storage, handled, counted, dropped, abandoned>>

\* Mutants of AttemptFails: the storage error is swallowed; one attempt too many.
StorageErrorSwallowed(b) ==
  /\ attempt[b] = "started"
  /\ attempt' = [attempt EXCEPT ![b] = "stored"]
  /\ UNCHANGED <<batches, acked, channel, pc, current, tries, eventCount,
                 storage, index, handled, counted, dropped, abandoned>>
AttemptFailsOnceMore(b) ==
  /\ attempt[b] = "started"
  /\ Awaited(b)
  /\ tries <= MaximumAttempts
  /\ tries' = tries + 1
  /\ UNCHANGED <<batches, acked, channel, pc, current, attempt, eventCount,
                 storage, index, handled, counted, dropped, abandoned>>

\* The attempt returns an error: AppendEvents failed before writing, or the
\* worker has no activity of that name.  The server retries an awaited one
\* until MaximumAttempts attempts have failed.
AttemptFails(b) ==
  /\ attempt[b] = "started"
  /\ \/ /\ Awaited(b)
        /\ tries < MaximumAttempts
        /\ tries' = tries + 1
        /\ UNCHANGED <<pc, channel, eventCount, handled, counted, dropped,
                       abandoned, attempt>>
     \/ /\ Awaited(b)
        /\ tries = MaximumAttempts
        /\ AppendFailed
        /\ attempt' = [attempt EXCEPT ![b] = "idle"]
        /\ UNCHANGED tries
     \/ /\ ~Awaited(b)
        /\ attempt' = [attempt EXCEPT ![b] = "idle"]
        /\ UNCHANGED <<pc, tries, channel, eventCount, handled, counted,
                       dropped, abandoned>>
  /\ UNCHANGED <<batches, acked, current, storage, index>>

\* The attempt returns nil.
AttemptSucceeds(b) ==
  /\ attempt[b] = "indexed"
  /\ attempt' = [attempt EXCEPT ![b] = "idle"]
  /\ IF Awaited(b)
       THEN AppendSucceeded
       ELSE UNCHANGED <<pc, channel, eventCount, handled, counted, dropped,
                        abandoned>>
  /\ UNCHANGED <<batches, acked, current, tries, storage, index>>

\* The worker dies during the attempt, or its answer is lost.  The activity has
\* no heartbeat and no StartToCloseTimeout of its own, so only
\* ScheduleToCloseTimeout notices.
AttemptDies(b) ==
  /\ attempt[b] \in {"started", "stored", "indexed"}
  /\ attempt' = [attempt EXCEPT ![b] = "gone"]
  /\ UNCHANGED <<batches, acked, channel, pc, current, tries, eventCount,
                 storage, index, handled, counted, dropped, abandoned>>

Next ==
  \/ \E size \in BatchSizes, answered \in Answers :
       HandleIngestEvents(size, answered)
  \/ ReceiveSignal
  \/ ScheduleToCloseTimeout
  \/ \E b \in Batch : \/ StoreBatch(b)
                      \/ IndexBatch(b)
                      \/ AttemptFails(b)
                      \/ AttemptSucceeds(b)
                      \/ AttemptDies(b)

Spec == Init /\ [][Next]_vars

\* Temporal runs the workflow whenever it can move and its server's timers fire;
\* nothing is assumed of the activity worker.
FairSpec == Spec /\ WF_vars(ReceiveSignal) /\ WF_vars(ScheduleToCloseTimeout)

--------------------------------------------------------------------------------
(* Properties.                                                             *)

TypeOK ==
  /\ batches \in Seq(BatchSizes) /\ Len(batches) <= MaxPosts
  /\ acked \subseteq Batch
  /\ channel \in Seq(Batch)
  /\ pc \in {"receive", "append"}
  /\ current \in 0 .. MaxPosts
  /\ tries \in 0 .. MaximumAttempts
  /\ attempt \in [Batch -> AttemptPhase]
  /\ eventCount \in 0 .. ContinueAsNewThreshold - 1
  /\ storage \in Seq(Batch)
  /\ index \in Seq(Batch)
  /\ handled \subseteq Batch
  /\ counted \subseteq Batch
  /\ dropped \subseteq Batch
  /\ abandoned \subseteq Batch

Stored(b) == \E i \in DOMAIN storage : storage[i] = b

\* A batch the workflow counted is in storage, whichever attempt wrote it, one
\* that outlived its activity included (AppendEventActivity returns nil only
\* after AppendEvents did).
CountedIsStored == \A b \in counted : Stored(b)

\* Counted batches first reach storage in the order Temporal recorded their
\* signals, in spite of retries and of attempts that outlive their activity: any
\* copy of a later batch has a copy of every earlier counted batch before it.
CountedInOrder ==
  \A b \in counted : \A i \in DOMAIN storage :
    storage[i] > b => \E j \in 1 .. i - 1 : storage[j] = b

\* However attempts die, fail and are retried, storage never receives a second
\* copy of a batch: AppendEvents writes all or nothing, and an attempt that
\* has written is not retried, because its death is noticed only by the timeout
\* that ends the whole activity.
StoredAtMostOnce ==
  \A i, j \in DOMAIN storage : storage[i] = storage[j] => i = j

\* The index never knows a batch that storage does not hold: pointers found in
\* VictoriaLogs always have their events (AppendEvents before IndexEvents).
IndexedIsStored == \A i \in DOMAIN index : Stored(index[i])

\* Every recorded batch is in exactly one place: buffered, being appended,
\* counted, dropped or abandoned; none is processed twice or forgotten, across
\* continue-as-new too; and EventCount is what the current run has counted, to which
\* a failed append adds nothing.
Whereabouts(b) ==
  <<b \in Range(channel), Awaited(b), b \in counted, b \in dropped,
    b \in abandoned>>
CountedEvents == UNION {{b} \X (1 .. batches[b]) : b \in handled \intersect counted}
EveryBatchAccounted ==
  /\ \A b \in Recorded :
       Cardinality({k \in 1 .. 5 : Whereabouts(b)[k]}) = 1
  /\ eventCount = Cardinality(CountedEvents)

\* Every recorded batch eventually leaves the channel and the activity, even
\* if no attempt ever answers.
EverySignalSettles ==
  \A b \in Batch :
    b \in Range(channel) \/ Awaited(b)
      ~> b \in counted \union dropped \union abandoned

\* Ingestion implements EventLog: what a client of the timeline may rely on.
Log == INSTANCE EventLog
         WITH MaxPosts <- MaxPosts,
              posted <- Len(batches), log <- storage, confirmed <- counted,
              givenUp <- dropped \union abandoned
ImplementsEventLog == Log!Spec

--------------------------------------------------------------------------------
(* What the documents promise, and the code does not keep.                 *)

\* AGENT.md: "ingestion is always immediately persisted, so no loss".  A batch
\* answered 202 that has left the workflow's hands should be in storage.
NoAckedBatchLost ==
  \A b \in acked \intersect (dropped \union abandoned) : Stored(b)

================================================================================
