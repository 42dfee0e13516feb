----------------------------- MODULE ProcessingModes ----------------------------
(***************************************************************************)
(* The three ways a query is processed once its events are loaded: by one  *)
(* activity, by one activity per chunk of events, or by one child workflow *)
(* per operation and partition of the events.  QueryProcessor is what each *)
(* of them runs; here the answers are compared.  In which order the parts  *)
(* end is the matter of ChunkedQuery and Orchestrator: a part's result     *)
(* depends on nothing but its events, so that one step takes them all.     *)
(***************************************************************************)
EXTENDS QueryProcessor

CONSTANTS
  DefaultChunkSize,
  DefaultPartitionSize,
  ParallelRequests,   \* bound: the requests that are not processed in one piece only
  MaxLost             \* bound: parts of a query that fail for good

\* Each operation has an ID of its own; Orchestrator has those that share one.
ASSUME ProcessingModesAssumption ==
  /\ DefaultChunkSize \in Nat \ {0} /\ DefaultPartitionSize \in Nat \ {0}
  /\ ParallelRequests \subseteq Requests
  /\ \A r \in ParallelRequests :
       /\ IsInjective([i \in DOMAIN r |-> r[i].ID])
       /\ \A i \in DOMAIN r : r[i].ID # ""

VARIABLES
  mode,   \* QueryRequest.ProcessingMode
  lost    \* the parts whose activity or child workflow failed for good

modeVars == <<vars, mode, lost>>

Modes == {"single", "concurrent", "micro-workflow", ""}

ModesInit ==
  /\ Init
  /\ mode \in Modes
  /\ mode # "single" => operations \in ParallelRequests
  /\ lost = {}

\* What a query without a result is answered.
Nil == [type |-> "nil", value |-> <<>>]

ChosenMode ==
  CASE mode # "" -> mode
    [] mode = "" /\ Len(events) >= DefaultChunkSize -> "concurrent"
    [] mode = "" /\ Len(events) < DefaultChunkSize -> "single"

--------------------------------------------------------------------------------
(* Parts.                                                                  *)

\* Mutant of Slices: a slice ends before its last event.
SlicesWithoutEnd(size) ==
  [i \in 1 .. (Len(events) + size - 1) \div size |->
     SubSeq(events, (i - 1) * size + 1, Min({i * size, Len(events)}) - 1)]

Slices(size) ==
  [i \in 1 .. (Len(events) + size - 1) \div size |->
     SubSeq(events, (i - 1) * size + 1, Min({i * size, Len(events)}))]

CreateEventChunks == Slices(DefaultChunkSize)

\* No events are one partition, too.
PartitionEvents ==
  IF Len(events) <= DefaultPartitionSize THEN <<events>> ELSE Slices(DefaultPartitionSize)

Losses(parts) == {L \in SUBSET parts : Cardinality(L) <= MaxLost}

--------------------------------------------------------------------------------
(* Assembly.                                                               *)

Summed == {"DurationWhere", "MovingAverage", "TWAP", "VWAP"}
Alternatives == {"HasExisted", "HasExistedWithin"}

Successes(answers) == Select(answers, {r \in ToSet(answers) : r.type # "error"})
OfType(answers, type) == Select(answers, {r \in ToSet(answers) : r.type = type})
Values(answers) == [i \in DOMAIN answers |-> answers[i].value]

\* Mutant of AssembleChunkResults: no answer is summed.
AssembleFirstChunk(chunkResults) ==
  LET successful == Successes(chunkResults)
  IN  CASE chunkResults = <<>> -> Seconds(0)
        [] chunkResults # <<>> /\ successful = <<>> -> Failure
        [] successful # <<>> /\ operations = <<>> -> Nil
        [] successful # <<>> /\ operations # <<>> ->
             IF Last(operations).Op \in Alternatives THEN [type |-> "bool", value |-> FALSE]
             ELSE successful[1]

\* The chunks that failed are left out.  Durations are summed; the alternatives ask
\* for results of type bool, which no operation has; any other answer is that of
\* the first chunk that has one.
AssembleChunkResults(chunkResults) ==
  LET successful == Successes(chunkResults)
  IN  CASE chunkResults = <<>> -> Seconds(0)
        [] chunkResults # <<>> /\ successful = <<>> -> Failure
        [] successful # <<>> /\ operations = <<>> -> Nil
        [] successful # <<>> /\ operations # <<>> ->
             CASE Last(operations).Op \in Summed ->
                    Seconds(Total(Values(OfType(successful, "float64"))))
               [] Last(operations).Op \in Alternatives ->
                    [type |-> "bool",
                     value |-> \E i \in DOMAIN OfType(successful, "bool") :
                                 OfType(successful, "bool")[i].value]
               [] OTHER -> successful[1]

\* The last operation's result on the first partition if there is one, else any
\* result at all: the one that a map happens to yield first.  Without operations there
\* is no metadata to add to, and the orchestrator panics until its timeout.
AssembleOperatorResults(operatorResults) ==
  LET Successful == {part \in DOMAIN operatorResults : operatorResults[part].type # "error"}
      wanted == <<Len(operations), 1>>
  IN  CASE operatorResults = <<>> -> {Failure}
        [] operatorResults # <<>> /\ Successful = {} -> {Nil}
        [] wanted \in Successful -> {operatorResults[wanted]}
        [] Successful # {} /\ wanted \notin Successful ->
             {operatorResults[part] : part \in Successful}

--------------------------------------------------------------------------------
(* The modes.                                                              *)

ProcessEvents ==
  /\ ChosenMode = "single"
  /\ Next
  /\ UNCHANGED <<mode, lost>>

AnswerWith(result) ==
  /\ status' = IF result.type = "error" THEN "error" ELSE "done"
  /\ answer' = result
  /\ UNCHANGED <<events, operations, executed, results, mode>>

\* What the chunks result in, those in L being lost.
ChunkResults(L) ==
  [i \in DOMAIN CreateEventChunks |->
     IF i \in L THEN Failure ELSE ProcessQuery(CreateEventChunks[i], operations)]

ProcessEventsConcurrently ==
  /\ status = "running" /\ ChosenMode = "concurrent"
  /\ \E L \in Losses(DOMAIN CreateEventChunks) :
       lost' = L /\ AnswerWith(AssembleChunkResults(ChunkResults(L)))

\* An operation on a partition.
Parts == (DOMAIN operations) \X (DOMAIN PartitionEvents)

\* What the operators result in, each without the results of others.
OperatorResults(L) ==
  [part \in Parts |->
     IF part \in L THEN Failure
     ELSE ExecuteOperation(PartitionEvents[part[2]], operations[part[1]], <<>>)]

ProcessEventsWithMicroWorkflows ==
  /\ status = "running" /\ ChosenMode = "micro-workflow"
  /\ \E L \in Losses(Parts) :
       /\ lost' = L
       /\ \E result \in AssembleOperatorResults(OperatorResults(L)) : AnswerWith(result)

ModesNext ==
  \/ ProcessEvents
  \/ ProcessEventsConcurrently
  \/ ProcessEventsWithMicroWorkflows

ModesSpec == ModesInit /\ [][ModesNext]_modeVars

--------------------------------------------------------------------------------
(* Properties.                                                             *)

\* The operation named "result", if there is one, is the last: the assembly goes
\* by the last one, ProcessQuery by the name.
AnswersLast ==
  operations # <<>> /\ \A i \in 1 .. Len(operations) - 1 : operations[i].ID # "result"

\* The last operation needs no other's result, and neither does one nested in it.
Needy == {"AND", "OR", "DurationWhere", "LongestConsecutiveTrueDuration"}
StandsAlone ==
  LET op == Last(operations)
  IN  /\ op.Op \notin Needy
      /\ op.Op \in {"Not", "DurationInCurState"} => op.Of.Op \notin Needy

InOnePart ==
  \/ ChosenMode = "single"
  \/ ChosenMode = "concurrent" /\ Len(CreateEventChunks) = 1
  \/ ChosenMode = "micro-workflow" /\ Len(PartitionEvents) = 1

\* Where everything is one part and nothing is lost, the modes answer the same.  Left
\* out are questions of existence in chunks, operations on their own that need the
\* results of others, and requests that fail in one piece.
ModesAgree ==
  (/\ status = "done" /\ InOnePart /\ lost = {} /\ AnswersLast
   /\ ChosenMode = "concurrent" => Last(operations).Op \notin Alternatives
   /\ ChosenMode = "micro-workflow" =>
        StandsAlone /\ ProcessQuery(events, operations).type # "error")
  => answer = ProcessQuery(events, operations)

InTimeOrder == \A i \in 1 .. Len(events) - 1 : events[i].Timestamp <= events[i + 1].Timestamp

NoWindowIsNegative ==
  \A i \in DOMAIN operations :
    operations[i].Op = "HasExistedWithin" /\ "window" \in DOMAIN operations[i].Params =>
      operations[i].Params["window"] >= 0

\* A duration summed over chunks of events.  What lies around an event is seen in
\* its chunk or nowhere: no chunk finds more than there is, so that the sum exceeds
\* the duration at most as many times as there are chunks, and falls short of it
\* only where a chunk is lost or conditions meet across chunks.  A state is cut
\* where its chunk ends, a nanosecond after the chunk's last event.  (A negative
\* window takes time away.)
ChunkedDurationsAreBounded ==
  status = "done" /\ ChosenMode = "concurrent" /\ AnswersLast
    /\ Last(operations).Op = "DurationWhere" /\ NoWindowIsNegative =>
    LET duration == Cardinality(TruePoints[Len(operations)])
        chunks == Len(CreateEventChunks)
        Only(ops) == \A i \in DOMAIN operations : operations[i].Op \in ops \union {"DurationWhere"}
    IN  /\ Only({"HasExisted", "HasExistedWithin", "AND", "OR"}) =>
             answer.value <= chunks * duration
        /\ Only({"HasExistedWithin", "OR"}) /\ Last(operations).ConditionAll = <<>>
             /\ lost = {} =>
             answer.value >= duration
        /\ Only({"LatestEventToState"}) /\ InTimeOrder =>
             answer.value <= duration + chunks * Nanosecond
================================================================================
