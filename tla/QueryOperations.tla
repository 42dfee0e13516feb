----------------------------- MODULE QueryOperations ----------------------------
(***************************************************************************)
(* QueryProcessor: what executeOperation does of one operation over a list *)
(* of events, with the results of earlier operations to refer to by their  *)
(* IDs, and what ProcessQuery answers of a list of operations.  The        *)
(* financial and aggregation operators are left out.                       *)
(***************************************************************************)
EXTENDS Timeline

\* What is given of an operation: conditions are lists, a window is a duration, and
\* durations may be negative.
WellFormed(op) ==
  /\ op.Op \in {"AND", "DurationWhere"} => op.ConditionAll \in Seq(ToSet(op.ConditionAll))
  /\ op.Op \in {"OR", "DurationWhere"} => op.ConditionAny \in Seq(ToSet(op.ConditionAny))
  /\ op.Op = "HasExistedWithin" /\ "window" \in DOMAIN op.Params => op.Params["window"] \in Int
  /\ op.Op = "LongestConsecutiveTrueDuration" => op.MinDuration \in Int

\* What an operation results in, by the type of the Go value.
StateTimeline(t) == [type |-> "StateTimeline", value |-> t]
BoolTimeline(t) == [type |-> "BoolTimeline", value |-> t]
NumericTimeline(t) == [type |-> "NumericTimeline", value |-> t]
Seconds(n) == [type |-> "float64", value |-> n]
Failure == [type |-> "error", value |-> <<>>]

--------------------------------------------------------------------------------
(* executeOperation.                                                       *)

FilterEventsByType(events, type) == Select(events, {e \in ToSet(events) : e.Type = type})

\* The earlier results that ids name, without those that do not exist or, where
\* states do not count, are no BoolTimeline.
Conditions(ids, previous, types) ==
  LET found == Select(ids, {id \in DOMAIN previous : previous[id].type \in types})
  IN  [i \in DOMAIN found |->
         IF previous[found[i]].type = "BoolTimeline" THEN previous[found[i]].value
         ELSE ConvertStateTimelineToBoolTimeline(previous[found[i]].value)]

Bool == {"BoolTimeline"}
BoolOrState == {"BoolTimeline", "StateTimeline"}

\* Mutant of CombinedTimeline: states are no conditions.
CombinedBooleans(op, previous) ==
  IF op.ConditionAll # <<>> THEN AND(Conditions(op.ConditionAll, previous, Bool))
  ELSE OR(Conditions(op.ConditionAny, previous, Bool))

\* ConditionAll comes before ConditionAny; an operation with neither has no time.
CombinedTimeline(op, previous) ==
  IF op.ConditionAll # <<>> THEN AND(Conditions(op.ConditionAll, previous, BoolOrState))
  ELSE OR(Conditions(op.ConditionAny, previous, BoolOrState))

LongestOfSource(op, previous) ==
  IF op.SourceOperation \in DOMAIN previous /\ previous[op.SourceOperation].type = "BoolTimeline"
  THEN Seconds(LongestConsecutiveTrueDuration(previous[op.SourceOperation].value, op.MinDuration))
  ELSE Failure

\* Every operation that is not applied to a nested one.
ExecuteFlat(events, op, previous) ==
  CASE op.Op = "LatestEventToState" ->
         StateTimeline(LatestEventToState(FilterEventsByType(events, op.Source), op.Equals))
    [] op.Op = "HasExisted" ->
         BoolTimeline(HasExisted(FilterEventsByType(events, op.Source), op.Equals))
    [] op.Op = "HasExistedWithin" ->
         IF "window" \notin DOMAIN op.Params THEN Failure
         ELSE BoolTimeline(HasExistedWithin(FilterEventsByType(events, op.Source), op.Equals,
                                            op.Params["window"]))
    [] op.Op = "DurationWhere" ->
         Seconds(DurationWhere(CombinedTimeline(op, previous)))
    [] op.Op = "AND" -> BoolTimeline(AND(Conditions(op.ConditionAll, previous, Bool)))
    [] op.Op = "OR" -> BoolTimeline(OR(Conditions(op.ConditionAny, previous, Bool)))
    [] op.Op = "LongestConsecutiveTrueDuration" -> LongestOfSource(op, previous)
    [] OTHER -> Failure

NotOf(nested) ==
  IF nested.type = "BoolTimeline" THEN BoolTimeline(NOT(nested.value)) ELSE Failure

DurationInCurStateOf(nested) ==
  IF nested.type = "StateTimeline" THEN NumericTimeline(DurationInCurState(nested.value))
  ELSE Failure

\* One level of nesting: the operation under Of is a flat one.
ExecuteOperation(events, op, previous) ==
  CASE op.Op = "Not" -> NotOf(ExecuteFlat(events, op.Of, previous))
    [] op.Op = "DurationInCurState" -> DurationInCurStateOf(ExecuteFlat(events, op.Of, previous))
    [] OTHER -> ExecuteFlat(events, op, previous)

--------------------------------------------------------------------------------
(* ProcessQuery.                                                           *)

\* An operation's result replaces an earlier one with its ID.
With(results, id, result) ==
  [i \in DOMAIN results \union {id} |-> IF i = id THEN result ELSE results[i]]

Recorded(state, op, result) ==
  [last |-> result, results |-> With(state.results, op.ID, result)]

\* One turn of the loop over the operations, after the first error none.
ExecuteNext(events, state, op) ==
  IF state.last.type = "error" THEN state
  ELSE Recorded(state, op, ExecuteOperation(events, op, state.results))

\* The answer is what is called "result", else the last operation's result; the first
\* error is the query's.
AnswerOf(final) ==
  IF final.last.type # "error" /\ "result" \in DOMAIN final.results
  THEN final.results["result"] ELSE final.last

\* All operations in their order.  Of no operations the answer is 0.
ProcessQuery(events, operations) ==
  LET state[n \in 0 .. Len(operations)] ==
        IF n = 0 THEN [last |-> Seconds(0), results |-> <<>>]
        ELSE ExecuteNext(events, state[n - 1], operations[n])
  IN  AnswerOf(state[Len(operations)])
================================================================================
