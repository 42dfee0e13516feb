------------------------------ MODULE QueryProcessor -----------------------------
(***************************************************************************)
(* QueryProcessor.ProcessQuery, step by step: the operations of a request, *)
(* executed in the request's order over one list of events, and what each  *)
(* of them means.                                                          *)
(***************************************************************************)
EXTENDS QueryOperations

CONSTANTS
  EventTimelines,   \* lists of events, as the classifier returns them
  Requests,         \* sequences of operations
  Horizon           \* bound: no interval of these events ends after it

ASSUME QueryProcessorAssumption ==
  /\ Horizon \in Nat
  /\ \A es \in EventTimelines :
       es \in Seq(ToSet(es)) /\ \A e \in ToSet(es) : e.Timestamp \in Int
  /\ \A ops \in Requests : ops \in Seq(ToSet(ops)) /\ \A op \in ToSet(ops) :
       WellFormed(op) /\ (op.Op \in {"Not", "DurationInCurState"} => WellFormed(op.Of))

\* No interval begins before 0 or covers a unit after the horizon.
ASSUME HorizonAssumption ==
  \A es \in EventTimelines : \A e \in ToSet(es) :
    /\ 0 <= e.Timestamp
    /\ e.Timestamp + Nanosecond <= Horizon + 1 /\ e.Timestamp + Hour <= Horizon + 1
    /\ \A ops \in Requests : \A op \in ToSet(ops) :
         op.Op = "HasExistedWithin" /\ "window" \in DOMAIN op.Params =>
           e.Timestamp + op.Params["window"] <= Horizon + 1

VARIABLES
  events,       \* the events the query is about
  operations,   \* the request
  executed,     \* number of operations executed
  results,      \* result of each ID
  status,       \* "running", "done" or "error"
  answer        \* QueryResult.Result

vars == <<events, operations, executed, results, status, answer>>

Init ==
  /\ events \in EventTimelines
  /\ operations \in Requests
  /\ executed = 0
  /\ results = <<>>
  /\ status = "running"
  /\ answer = Failure

--------------------------------------------------------------------------------
(* ProcessQuery.                                                           *)

\* The next operation's result replaces an earlier one with its ID; the first
\* error is the query's.
Execute ==
  /\ status = "running" /\ executed < Len(operations)
  /\ LET op == operations[executed + 1]
         result == ExecuteOperation(events, op, results)
     IN  IF result.type = "error"
         THEN status' = "error" /\ UNCHANGED <<executed, results>>
         ELSE /\ results' = With(results, op.ID, result)
              /\ executed' = executed + 1
              /\ UNCHANGED status
  /\ UNCHANGED <<events, operations, answer>>

\* The answer is what is called "result", else the last operation's result, and 0
\* of no operations.
Finish ==
  /\ status = "running" /\ executed = Len(operations)
  /\ status' = "done"
  /\ answer' = IF operations = <<>> THEN Seconds(0)
               ELSE IF "result" \in DOMAIN results THEN results["result"]
               ELSE results[Last(operations).ID]
  /\ UNCHANGED <<events, operations, executed, results>>

Next == Execute \/ Finish

Spec == Init /\ [][Next]_vars

--------------------------------------------------------------------------------
(* What the operations mean, unit of time by unit of time.                 *)

Points == 0 .. Horizon

\* The event of a type that is the latest one at time t, the last one listed if
\* several are.
LatestAt(es, type, t) ==
  LET Past == {i \in DOMAIN es : es[i].Type = type /\ es[i].Timestamp <= t}
  IN  {i \in Past : \A j \in Past :
         /\ es[j].Timestamp <= es[i].Timestamp
         /\ es[j].Timestamp = es[i].Timestamp => j <= i}

Times(es, type) == {es[i].Timestamp : i \in {j \in DOMAIN es : es[j].Type = type}}

Matches(es, op) == {i \in DOMAIN es : es[i].Type = op.Source /\ es[i].Value = op.Equals}

\* The last of the first n operations that has this ID, if any.
Named(ops, id, n) ==
  {i \in 1 .. n : ops[i].ID = id /\ \A j \in i + 1 .. n : ops[j].ID # id}

IsState(op) == op.Op = "LatestEventToState"
IsBool(op) == op.Op \in {"HasExisted", "HasExistedWithin", "AND", "OR", "Not"}

\* The units of time in which an operation that needs no other one is true.
FlatPoints(es, op) ==
  CASE op.Op = "LatestEventToState" ->
         {t \in Points : /\ \E i \in LatestAt(es, op.Source, t) : es[i].Value = op.Equals
                         /\ t < Max(Times(es, op.Source)) + Nanosecond}
    [] op.Op = "HasExisted" ->
         {t \in Points : /\ \E i \in Matches(es, op) : es[i].Timestamp <= t
                         /\ t < Max(Times(es, op.Source)) + Hour}
    [] op.Op = "HasExistedWithin" ->
         {t \in Points : \E i \in Matches(es, op) :
            /\ es[i].Timestamp <= t
            /\ t < es[i].Timestamp + op.Params["window"]}
    [] OTHER -> {}

\* The units in which each of the operations is true of a list of events.  AND and OR
\* see conditions that are booleans, DurationWhere sees states, too, and none sees a
\* missing one; a negation is true nowhere.
PointsOf(es, ops) ==
  LET points[n \in 1 .. Len(ops)] ==
        LET op == ops[n]
            Seen(ids) ==
              {i \in UNION {Named(ops, ids[k], n - 1) : k \in DOMAIN ids} :
                 IsBool(ops[i]) \/ (IsState(ops[i]) /\ op.Op = "DurationWhere")}
            AllOf(ids) == {t \in Points : Seen(ids) # {} /\ \A i \in Seen(ids) : t \in points[i]}
            SomeOf(ids) == {t \in Points : \E i \in Seen(ids) : t \in points[i]}
        IN  CASE op.Op = "AND" -> AllOf(op.ConditionAll)
              [] op.Op = "OR" -> SomeOf(op.ConditionAny)
              [] op.Op = "DurationWhere" ->
                   IF op.ConditionAll # <<>> THEN AllOf(op.ConditionAll)
                   ELSE SomeOf(op.ConditionAny)
              [] op.Op = "LongestConsecutiveTrueDuration" ->
                   UNION {points[i] : i \in Named(ops, op.SourceOperation, n - 1)}
              [] OTHER -> FlatPoints(es, op)
  IN  points

TruePoints == PointsOf(events, operations)

--------------------------------------------------------------------------------
(* Properties.                                                             *)

\* The operations whose results are there, not replaced by one with their ID.
CurrentOf(ops, n) == UNION {Named(ops, ops[i].ID, n) : i \in 1 .. n}
Current == CurrentOf(operations, executed)
ResultOf(n) == results[operations[n].ID]
Covers(interval, t) == interval.Start <= t /\ t < interval.End

\* A timeline is true exactly when its operation's definition says so: sorting,
\* cutting, merging and intersecting intervals loses no unit of time and adds none.
TimelinesMeanTheirPoints ==
  \A n \in Current :
    /\ IsState(operations[n]) =>
         {t \in Points : \E i \in DOMAIN ResultOf(n).value :
                           Covers(ResultOf(n).value[i], t)} = TruePoints[n]
    /\ IsBool(operations[n]) =>
         {t \in Points : \E i \in DOMAIN ResultOf(n).value :
                           /\ ResultOf(n).value[i].Value
                           /\ Covers(ResultOf(n).value[i], t)} = TruePoints[n]

HasNegation == \E n \in 1 .. executed : operations[n].Op = "Not"

\* With a negative window intervals end before they start.
HasBackwards ==
  \E n \in 1 .. executed :
    operations[n].Op = "HasExistedWithin" /\ operations[n].Params["window"] < 0

\* A duration is the number of units in which all or any conditions are true, and
\* never less, but where a negative window takes time away; it is more only where a
\* negated timeline is among them.  A streak is as long as the longest run of units
\* without a break that is at least the minimum, and never longer; it is shorter only
\* where a negated timeline cuts the run.
MeasuresMeanTheirPoints ==
  \A n \in Current :
    LET op == operations[n]
        longest == Max({0} \union {d \in Runs(TruePoints[n]) : d >= op.MinDuration})
    IN  /\ op.Op = "DurationWhere" /\ ~HasBackwards =>
             /\ ResultOf(n).value >= Cardinality(TruePoints[n])
             /\ ~HasNegation => ResultOf(n).value = Cardinality(TruePoints[n])
        /\ op.Op = "LongestConsecutiveTrueDuration" =>
             /\ ResultOf(n).value <= longest
             /\ ~HasNegation => ResultOf(n).value = longest
================================================================================
