------------------------------- MODULE QueryReplay ------------------------------
(***************************************************************************)
(* Queries and replays of one timeline while it is being ingested.         *)
(* QueryWorkflow loads the timeline's events; ReplayWorkflow first asks    *)
(* the index for pointers to the events that match the request's filters,  *)
(* then reads the storage with them; both then choose how to process what  *)
(* they read.  The writer is EventLog, which module Ingestion implements:  *)
(* batch i of the log stands for one event of the timeline.                *)
(***************************************************************************)
EXTENDS Lists, SequencesExt

CONSTANTS
  MaxPosts,     \* bound: number of events posted to the timeline
  Readers,      \* the workflow executions
  Requests,     \* [kind, range, filtered, mode, queryMode]
  Time,         \* per event: its timestamp, or NoTime if none can be extracted
  NoTime,
  Everything,   \* the absent TimeRange
  Matching,     \* the events that match the requests' filters
  MaxForeign,   \* bound: matching events of other timelines in the index
  ChunkSize     \* DefaultChunkSize (10000 in the code)

ASSUME QueryReplayAssumption ==
  /\ MaxPosts \in Nat /\ MaxForeign \in Nat /\ ChunkSize \in Nat
  /\ Matching \subseteq 1 .. MaxPosts
  /\ DOMAIN Time = 1 .. MaxPosts

VARIABLES
  posted, log, confirmed, givenUp,  \* the timeline's log, see EventLog
  index,      \* events of the timeline in the order IndexEvents wrote them
  foreign,    \* matching events of other timelines in the index
  pc,         \* per reader: where its workflow is
  request,    \* per reader: its request
  pointers,   \* per reader: number of event pointers the index returned
  events,     \* per reader: the events read
  mode,       \* per reader: the processing mode chosen
  seen,       \* history, per reader: events confirmed when it started
  before      \* history, per reader: readers that had read when it started

logVars == <<posted, log, confirmed, givenUp>>
readerVars == <<pc, request, pointers, events, mode, seen, before>>
vars == <<logVars, index, foreign, readerVars>>

Event == 1 .. MaxPosts

Log == INSTANCE EventLog

NoRequest == [kind |-> "none"]

Init ==
  /\ Log!Init
  /\ index = <<>>
  /\ foreign = 0
  /\ pc = [r \in Readers |-> "idle"]
  /\ request = [r \in Readers |-> NoRequest]
  /\ pointers = [r \in Readers |-> 0]
  /\ events = [r \in Readers |-> <<>>]
  /\ mode = [r \in Readers |-> "none"]
  /\ seen = [r \in Readers |-> {}]
  /\ before = [r \in Readers |-> {}]

--------------------------------------------------------------------------------
(* Ingestion of this timeline, and of others as far as the index shows it. *)

Ingest ==
  /\ Log!Next
  /\ UNCHANGED <<index, foreign, readerVars>>

\* Mutant of IndexEvents: an event is indexed again, as by a retry.
IndexEventsAgain(e) ==
  /\ Log!Logged(e)
  /\ index' = Append(index, e)
  /\ UNCHANGED <<logVars, foreign, readerVars>>

\* IndexEvents, some time after AppendEvents or, if it fails, never.
IndexEvents(e) ==
  /\ Log!Logged(e)
  /\ ~Contains(index, e)
  /\ index' = Append(index, e)
  /\ UNCHANGED <<logVars, foreign, readerVars>>

IndexForeignEvent ==
  /\ foreign < MaxForeign
  /\ foreign' = foreign + 1
  /\ UNCHANGED <<logVars, index, readerVars>>

--------------------------------------------------------------------------------
(* The stores' read operations.                                            *)

\* The bounds of a TimeRange are inclusive; an event whose timestamp cannot be
\* extracted is in no range, though it is in the absence of one.
InRange(e, range) ==
  \/ range = Everything
  \/ Time[e] # NoTime /\ Time[e] \in range

\* Mutant of LoadEvents: the range is not applied.
LoadAllEvents(range) == log

Within(range) == {e \in Event : InRange(e, range)}

\* MockStorageService.LoadEvents
LoadEvents(range) == Select(log, Within(range))

\* Mutant of ReadEvents: no match means no event, not a full scan.
ReadPointedEvents(range, n) ==
  LET loaded == LoadEvents(range)
  IN  SubSeq(loaded, 1, IF n < Len(loaded) THEN n ELSE Len(loaded))

\* MockStorageService.ReadEvents: the pointers limit how many events are
\* returned, and say nothing about which; no pointers, no limit.
ReadEvents(range, n) ==
  LET loaded == LoadEvents(range)
  IN  IF n > 0 /\ Len(loaded) > n THEN SubSeq(loaded, 1, n) ELSE loaded

\* MockIndexService.QueryEvents: how many pointers.  The index is one for all
\* timelines, and the workflow does not ask it for one timeline's events.
QueryEvents(range) == Len(Select(index, Matching \intersect Within(range))) + foreign

--------------------------------------------------------------------------------
(* The workflows.                                                          *)

HasRead(r) == pc[r] \in {"process", "done"}

\* handleQuery and handleReplayQuery, for requests that are well-formed.
StartWorkflow(r, q) ==
  /\ pc[r] = "idle"
  /\ request' = [request EXCEPT ![r] = q]
  /\ pc' = [pc EXCEPT ![r] =
              IF q.kind = "query" THEN "load"
              ELSE IF q.filtered THEN "index" ELSE "read"]
  /\ seen' = [seen EXCEPT ![r] = confirmed]
  /\ before' = [before EXCEPT ![r] = {s \in Readers : HasRead(s)}]
  /\ UNCHANGED <<logVars, index, foreign, pointers, events, mode>>

\* QueryVictoriaLogsActivity: pointers, or an error after its last attempt (no
\* indexer is configured, or it does not answer), upon which the replay falls
\* back to a full scan.
QueryVictoriaLogs(r) ==
  /\ pc[r] = "index"
  /\ pc' = [pc EXCEPT ![r] = "read"]
  /\ pointers' \in
       {pointers, [pointers EXCEPT ![r] = QueryEvents(request[r].range)]}
  /\ UNCHANGED <<logVars, index, foreign, request, events, mode, seen, before>>

\* How a workflow with n events goes on: a replay's own mode before its query's,
\* and by the number of events if neither names one of the three.
ChosenMode(q, n) ==
  LET asked == IF q.mode = "" THEN q.queryMode ELSE q.mode
  IN  IF asked \in {"micro-workflow", "concurrent", "single"} THEN asked
      ELSE IF n >= ChunkSize THEN "concurrent" ELSE "single"

\* The activity has returned events or, after its last attempt, an error.
FinishRead(r, es) ==
  /\ \/ /\ pc' = [pc EXCEPT ![r] = "process"]
        /\ events' = [events EXCEPT ![r] = es]
        /\ mode' = [mode EXCEPT ![r] = ChosenMode(request[r], Len(es))]
     \/ /\ pc' = [pc EXCEPT ![r] = "error"]
        /\ UNCHANGED <<events, mode>>
  /\ UNCHANGED <<logVars, index, foreign, request, pointers, seen, before>>

\* LoadEventsActivity, for a query.
LoadForQuery(r) ==
  /\ pc[r] = "load"
  /\ FinishRead(r, LoadEvents(request[r].range))

\* ReadIcebergActivity, for a replay.
ReadForReplay(r) ==
  /\ pc[r] = "read"
  /\ FinishRead(r, ReadEvents(request[r].range, pointers[r]))

\* Mutant of Process: an error leaves the workflow where it is.
ProcessIfPossible(r) ==
  /\ pc[r] = "process"
  /\ events[r] # <<>>
  /\ pc' = [pc EXCEPT ![r] = "done"]
  /\ UNCHANGED <<logVars, index, foreign, request, pointers, events, mode, seen,
                 before>>

\* ProcessEventsActivity, ProcessEventsConcurrently or
\* ProcessEventsWithMicroWorkflows answers, or fails for good; ChunkedQuery and
\* Orchestrator show how the latter two come to that.
Process(r) ==
  /\ pc[r] = "process"
  /\ \E end \in {"done", "error"} : pc' = [pc EXCEPT ![r] = end]
  /\ UNCHANGED <<logVars, index, foreign, request, pointers, events, mode, seen,
                 before>>

ReaderStep(r) ==
  QueryVictoriaLogs(r) \/ LoadForQuery(r) \/ ReadForReplay(r) \/ Process(r)

Next ==
  \/ Ingest
  \/ \E e \in Event : IndexEvents(e)
  \/ IndexForeignEvent
  \/ \E r \in Readers : \/ \E q \in Requests : StartWorkflow(r, q)
                        \/ ReaderStep(r)

Spec == Init /\ [][Next]_vars

\* The timeline-task-queue's worker runs workflows and activities.  Every activity but
\* a chunk's has a ScheduleToCloseTimeout, and the orchestrator an execution timeout;
\* a query in chunks waits as long as nobody polls their queue.
FairSpec ==
  Spec /\ \A r \in Readers : WF_vars(mode[r] # "concurrent" /\ ReaderStep(r))

--------------------------------------------------------------------------------
(* Properties.                                                             *)

TypeOK ==
  /\ posted \in 0 .. MaxPosts /\ log \in Seq(Event)
  /\ confirmed \subseteq Event /\ givenUp \subseteq Event
  /\ index \in Seq(Event) /\ foreign \in 0 .. MaxForeign
  /\ pc \in [Readers -> {"idle", "index", "load", "read", "process", "done", "error"}]
  /\ request \in [Readers -> Requests \union {NoRequest}]
  /\ pointers \in [Readers -> 0 .. MaxPosts + MaxForeign]
  /\ events \in [Readers -> Seq(Event)]
  /\ mode \in [Readers -> {"none", "micro-workflow", "concurrent", "single"}]
  /\ seen \in [Readers -> SUBSET Event]
  /\ before \in [Readers -> SUBSET Readers]

Unlimited(r) == pointers[r] = 0

\* Events confirmed to the ingestion workflow before a query or an unfiltered
\* replay started are in what it reads, if its range holds them; so are they
\* after the index failed or knew no match.
ConfirmedIsVisible ==
  \A r \in Readers : HasRead(r) /\ Unlimited(r) =>
    \A e \in seen[r] : InRange(e, request[r].range) => Contains(events[r], e)

\* What a workflow has read are events of its range, in the order the log has them,
\* without a gap, and stay so: what it misses at the end was limited away or written
\* later.  And one that started after another had read sees at least as much, if
\* neither is limited and both ask for the same range.
ReadsAreOrdered ==
  \A r \in Readers : HasRead(r) =>
    /\ IsPrefix(events[r], Select(log, Within(request[r].range)))
    /\ \A s \in before[r] :
         HasRead(s) /\ Unlimited(r) /\ Unlimited(s) /\ request[r].range = request[s].range =>
           IsPrefix(events[s], events[r])

\* A started query or replay ends, unless it hands what it read to chunks, which it
\* waits for as ChunkedQuery says.
EventuallyEnds ==
  \A r \in Readers :
    pc[r] # "idle" ~> pc[r] \in {"done", "error"} \/ mode[r] = "concurrent"

================================================================================
