-------------------------- MODULE QueryProcessorProofs -------------------------
(***************************************************************************)
(* Proofs about QueryProcessor and ProcessingModes, for all lists of       *)
(* events, all requests and every horizon.  Lemmas says at which   *)
(* times the results of the algebra are true; here those times are the     *)
(* ones that the operations mean, whatever earlier results they refer to   *)
(* by their IDs, and the modes of processing a query give one answer where *)
(* they can.                                                               *)
(***************************************************************************)
EXTENDS ProcessingModes, Lemmas

--------------------------------------------------------------------------------
(* The events of a type.                                                   *)

\* A query's events are a list of events with times.
LEMMA EventsAreListed ==
  ASSUME NEW es \in EventTimelines
  PROVE  Listed(es)
BY QueryProcessorAssumption DEF Listed, Stamped

\* The latest event of a type, in the list of the events of that type and in the list
\* of all.
LEMMA LatestOfType ==
  ASSUME NEW es,
         Listed(es), NEW type, NEW value, NEW t \in Int
  PROVE  LatestHas(FilterEventsByType(es, type), t, value) <=>
           \E i \in LatestAt(es, type, t) : es[i].Value = value
<1> DEFINE s == FilterEventsByType(es, type)
           wanted == {e \in ToSet(es) : e.Type = type}
           n == Len(es)
<1>1. /\ es \in Seq(ToSet(es)) /\ n \in Nat /\ DOMAIN es = 1 .. n
      /\ \A i \in 1 .. n : es[i] \in wanted <=> es[i].Type = type
  BY DEF Listed, ToSet
<1>2. PICK p : ComesFrom(s, es, wanted, n, p)
  BY <1>1, SelectPlaces DEF FilterEventsByType
<1>3. s \in Seq(ToSet(es)) /\ Len(s) \in Nat
  BY FilterKeeps
<1> HIDE DEF s
<1>4. /\ \A j \in 1 .. Len(s) : p[j] \in 1 .. n
      /\ \A j \in 1 .. Len(s) : s[j] = es[p[j]] /\ es[p[j]] \in wanted
      /\ \A i, j \in 1 .. Len(s) : i < j => p[i] < p[j]
      /\ \A i \in 1 .. n : es[i] \in wanted => \E j \in 1 .. Len(s) : p[j] = i
  BY <1>2 DEF ComesFrom
<1> HIDE DEF wanted, n
<1>5. \A j \in 1 .. Len(s) : es[p[j]].Type = type /\ s[j] = es[p[j]]
  BY <1>1, <1>4
<1>6. \A i, j \in 1 .. Len(s) : p[i] <= p[j] <=> i <= j
  <2>1. ASSUME NEW i \in 1 .. Len(s), NEW j \in 1 .. Len(s) PROVE p[i] <= p[j] <=> i <= j
    <3>1. p[i] \in Nat /\ p[j] \in Nat
      BY <1>1, <1>4
    <3>2. (i < j => p[i] < p[j]) /\ (j < i => p[j] < p[i]) /\ (i = j => p[i] = p[j])
      BY <1>4
    <3>3. i < j \/ j < i \/ i = j
      BY <1>3
    <3>4. QED
      BY <1>3, <3>1, <3>2, <3>3
  <2>2. QED
    BY <2>1
<1>7. ASSUME NEW k \in LatestIn(s, t) PROVE p[k] \in LatestAt(es, type, t)
  <2>1. /\ k \in 1 .. Len(s) /\ s[k].Timestamp <= t
        /\ \A j \in 1 .. Len(s) : s[j].Timestamp <= t =>
             /\ s[j].Timestamp <= s[k].Timestamp
             /\ s[j].Timestamp = s[k].Timestamp => j <= k
    BY DEF LatestIn
  <2>2. /\ p[k] \in 1 .. n /\ es[p[k]].Type = type /\ es[p[k]].Timestamp <= t
    BY <1>4, <1>5, <2>1
  <2>3. ASSUME NEW j \in 1 .. n, es[j].Type = type, es[j].Timestamp <= t
        PROVE  /\ es[j].Timestamp <= es[p[k]].Timestamp
               /\ es[j].Timestamp = es[p[k]].Timestamp => j <= p[k]
    <3>1. PICK l \in 1 .. Len(s) : p[l] = j
      BY <1>1, <1>4, <2>3
    <3>2. s[l] = es[j] /\ s[k] = es[p[k]]
      BY <1>5, <2>1, <3>1
    <3>3. QED
      BY <1>6, <2>1, <2>3, <3>1, <3>2
  <2>4. QED
    BY <1>1, <2>2, <2>3 DEF LatestAt
<1>8. ASSUME NEW i \in LatestAt(es, type, t)
      PROVE  \E k \in LatestIn(s, t) : s[k] = es[i]
  <2>1. /\ i \in 1 .. n /\ es[i].Type = type /\ es[i].Timestamp <= t
        /\ \A j \in 1 .. n : es[j].Type = type /\ es[j].Timestamp <= t =>
             /\ es[j].Timestamp <= es[i].Timestamp
             /\ es[j].Timestamp = es[i].Timestamp => j <= i
    BY <1>1 DEF LatestAt
  <2>2. PICK k \in 1 .. Len(s) : p[k] = i
    BY <1>1, <1>4, <2>1
  <2>3. s[k] = es[i]
    BY <1>5, <2>2
  <2>4. ASSUME NEW j \in 1 .. Len(s), s[j].Timestamp <= t
        PROVE  /\ s[j].Timestamp <= s[k].Timestamp
               /\ s[j].Timestamp = s[k].Timestamp => j <= k
    <3>1. p[j] \in 1 .. n /\ es[p[j]].Type = type /\ s[j] = es[p[j]]
      BY <1>4, <1>5
    <3>2. QED
      BY <1>6, <2>1, <2>2, <2>3, <2>4, <3>1
  <2>5. k \in LatestIn(s, t)
    BY <2>1, <2>3, <2>4 DEF LatestIn
  <2>6. QED
    BY <2>3, <2>5
<1>9. \A k \in LatestIn(s, t) : s[k] = es[p[k]]
  BY <1>5 DEF LatestIn
<1>10. QED
  BY <1>7, <1>8, <1>9 DEF LatestHas, s

\* Up to a while after the last event of a type is up to a while after one of them.
LEMMA UntilLatest ==
  ASSUME NEW es,
         Listed(es), NEW type, NEW while \in Int, NEW t \in Int, Times(es, type) # {}
  PROVE  t < Max(Times(es, type)) + while <=>
           \E e \in ToSet(es) : /\ Among(e, FilterEventsByType(es, type))
                                    /\ t < e.Timestamp + while
<1> DEFINE n == Len(es)
           T == {i \in 1 .. n : es[i].Type = type}
           f == [i \in 1 .. n |-> es[i].Timestamp]
           V == {f[i] : i \in T}
<1>1. /\ n \in Nat /\ DOMAIN es = 1 .. n
      /\ \A i \in 1 .. n : es[i] \in ToSet(es) /\ es[i].Timestamp \in Int
  BY DEF Listed, Stamped, ToSet
<1>2. f \in [1 .. n -> Int]
  BY <1>1
<1>3. Times(es, type) = V
  BY <1>1 DEF Times
<1>4. T \subseteq 1 .. n /\ T # {}
  BY <1>3
<1> HIDE DEF n, T, f
<1>5. Max(V) \in V /\ \A v \in V : v <= Max(V)
  BY <1>1, <1>2, <1>4, MaxAndMin
<1>6. V = {es[i].Timestamp : i \in T} /\ V \subseteq Int
  BY <1>1, <1>2, <1>4 DEF f
<1> HIDE DEF V
<1>7. \A e \in ToSet(es) :
        Among(e, FilterEventsByType(es, type)) <=> \E i \in T : es[i] = e
  <2>1. \A e : Among(e, FilterEventsByType(es, type)) <=> Among(e, es) /\ e.Type = type
    BY FilterKeeps
  <2>2. QED
    BY <2>1 DEF Among, T, n
<1>8. ASSUME t < Max(V) + while
      PROVE  \E e \in ToSet(es) : /\ Among(e, FilterEventsByType(es, type))
                                      /\ t < e.Timestamp + while
  <2>1. PICK i \in T : es[i].Timestamp = Max(V)
    BY <1>5, <1>6
  <2>2. es[i] \in ToSet(es) /\ Among(es[i], FilterEventsByType(es, type))
    BY <1>1, <1>4, <1>7, <2>1
  <2>3. QED
    BY <1>8, <2>1, <2>2
<1>9. ASSUME NEW e \in ToSet(es), Among(e, FilterEventsByType(es, type)),
             t < e.Timestamp + while
      PROVE  t < Max(V) + while
  <2>1. PICK i \in T : es[i] = e
    BY <1>7, <1>9
  <2>2. e.Timestamp \in V
    BY <1>6, <2>1
  <2>3. e.Timestamp \in Int /\ Max(V) \in Int /\ e.Timestamp <= Max(V)
    BY <1>5, <1>6, <2>2
  <2>4. QED
    BY <1>9, <2>3
<1>10. QED
  BY <1>3, <1>8, <1>9

--------------------------------------------------------------------------------
(* Operations on the events alone.                                         *)

\* The intervals of a state cover the units at which the latest event shows it.
LEMMA StatePoints ==
  ASSUME NEW es,
         Listed(es), NEW op, op.Op = "LatestEventToState", NEW t \in Points
  PROVE  Covered(LatestEventToState(FilterEventsByType(es, op.Source), op.Equals), t) <=>
           t \in FlatPoints(es, op)
<1> DEFINE s == FilterEventsByType(es, op.Source)
<1>1. t \in Int /\ Nanosecond \in Int /\ Stamped(ToSet(es)) /\ s \in Seq(ToSet(es))
  BY QueryProcessorAssumption, TimelineAssumption, FilterKeeps DEF Points, Listed
<1>2. t \in FlatPoints(es, op) <=> /\ \E i \in LatestAt(es, op.Source, t) : es[i].Value = op.Equals
                               /\ t < Max(Times(es, op.Source)) + Nanosecond
  BY DEF FlatPoints
<1>3. Covered(LatestEventToState(s, op.Equals), t) <=>
        /\ LatestHas(s, t, op.Equals)
        /\ \E e \in ToSet(es) : Among(e, s) /\ t < e.Timestamp + Nanosecond
  BY <1>1, StateTimes
<1>4. LatestHas(s, t, op.Equals) <=>
        \E i \in LatestAt(es, op.Source, t) : es[i].Value = op.Equals
  BY <1>1, LatestOfType
<1>5. CASE \E i \in LatestAt(es, op.Source, t) : TRUE
  <2>1. Times(es, op.Source) # {}
    BY <1>5 DEF LatestAt, Times
  <2>2. t < Max(Times(es, op.Source)) + Nanosecond <=>
          \E e \in ToSet(es) : Among(e, s) /\ t < e.Timestamp + Nanosecond
    BY <1>1, <2>1, UntilLatest
  <2>3. QED
    BY <1>2, <1>3, <1>4, <2>2
<1>6. CASE ~\E i \in LatestAt(es, op.Source, t) : TRUE
  BY <1>2, <1>3, <1>4, <1>6
<1>7. QED
  BY <1>5, <1>6

\* The filtered events with the value asked for are the matching ones.
LEMMA MatchesAmong ==
  ASSUME NEW es,
         Listed(es), NEW op
  PROVE  \A e \in ToSet(es) :
           Among(e, FilterEventsByType(es, op.Source)) /\ e.Value = op.Equals <=>
             \E i \in Matches(es, op) : es[i] = e
<1>1. \A e : Among(e, FilterEventsByType(es, op.Source)) <=> Among(e, es) /\ e.Type = op.Source
  BY FilterKeeps
<1>2. DOMAIN es = 1 .. Len(es)
  BY DEF Listed
<1>3. QED
  BY <1>1, <1>2 DEF Matches, Among

\* HasExisted is true from the first matching event on.
LEMMA ExistedPoints ==
  ASSUME NEW es,
         Listed(es), NEW op, op.Op = "HasExisted"
  PROVE  /\ HasExisted(FilterEventsByType(es, op.Source), op.Equals) \in Seq(Interval)
         /\ \A t \in Points :
              TrueAt(HasExisted(FilterEventsByType(es, op.Source), op.Equals), t) <=>
                t \in FlatPoints(es, op)
<1> DEFINE s == FilterEventsByType(es, op.Source)
           result == HasExisted(s, op.Equals)
<1>1. Hour \in Int /\ Stamped(ToSet(es)) /\ s \in Seq(ToSet(es))
  BY TimelineAssumption, FilterKeeps DEF Listed
<1>2. /\ result \in Seq(Interval)
      /\ \A t \in Int : TrueAt(result, t) <=>
           /\ \E e \in ToSet(es) : Among(e, s) /\ e.Value = op.Equals /\ e.Timestamp <= t
           /\ \E e \in ToSet(es) : Among(e, s) /\ t < e.Timestamp + Hour
  BY <1>1, HasExistedTimes
<1>3. \A e \in ToSet(es) : Among(e, s) /\ e.Value = op.Equals <=>
        \E i \in Matches(es, op) : es[i] = e
  BY MatchesAmong
<1>4. ASSUME NEW t \in Points PROVE TrueAt(result, t) <=> t \in FlatPoints(es, op)
  <2> DEFINE Begun == \E i \in Matches(es, op) : es[i].Timestamp <= t
  <2>1. t \in Int
    BY QueryProcessorAssumption DEF Points
  <2>2. t \in FlatPoints(es, op) <=> Begun /\ t < Max(Times(es, op.Source)) + Hour
    BY DEF FlatPoints
  <2>3. \A i \in Matches(es, op) : es[i] \in ToSet(es) /\ Times(es, op.Source) # {}
    BY DEF Matches, ToSet, Times
  <2>4. (\E e \in ToSet(es) : Among(e, s) /\ e.Value = op.Equals /\ e.Timestamp <= t)
          <=> Begun
    BY <1>3, <2>3
  <2>5. Begun => (t < Max(Times(es, op.Source)) + Hour <=>
                    \E e \in ToSet(es) : Among(e, s) /\ t < e.Timestamp + Hour)
    BY <1>1, <2>1, <2>3, UntilLatest
  <2> HIDE DEF Begun, result
  <2>6. QED
    BY <1>2, <2>1, <2>2, <2>4, <2>5
<1>5. QED
  BY <1>2, <1>4

\* HasExistedWithin is true up to a window after each matching event.
LEMMA WithinPoints ==
  ASSUME NEW es,
         Listed(es), NEW op, op.Op = "HasExistedWithin", op.Params["window"] \in Int
  PROVE  LET result == HasExistedWithin(FilterEventsByType(es, op.Source), op.Equals,
                                        op.Params["window"])
         IN  /\ result \in Seq(Interval)
             /\ \A t \in Points : TrueAt(result, t) <=> t \in FlatPoints(es, op)
<1> DEFINE s == FilterEventsByType(es, op.Source)
           window == op.Params["window"]
           result == HasExistedWithin(s, op.Equals, window)
<1>1. Stamped(ToSet(es)) /\ s \in Seq(ToSet(es))
  BY FilterKeeps DEF Listed
<1>2. /\ result \in Seq(Interval)
      /\ \A t \in Int : TrueAt(result, t) <=>
           \E e \in ToSet(es) : /\ Among(e, s) /\ e.Value = op.Equals
                                    /\ e.Timestamp <= t /\ t < e.Timestamp + window
  <2> HIDE DEF s
  <2>1. QED
    BY <1>1, HasExistedWithinTimes
<1>3. \A e \in ToSet(es) : Among(e, s) /\ e.Value = op.Equals <=>
        \E i \in Matches(es, op) : es[i] = e
  BY MatchesAmong
<1>4. ASSUME NEW t \in Points PROVE TrueAt(result, t) <=> t \in FlatPoints(es, op)
  <2>1. t \in Int
    BY QueryProcessorAssumption DEF Points
  <2>2. t \in FlatPoints(es, op) <=>
          \E i \in Matches(es, op) : /\ es[i].Timestamp <= t
                                 /\ t < es[i].Timestamp + window
    BY DEF FlatPoints
  <2>3. \A i \in Matches(es, op) : es[i] \in ToSet(es)
    BY DEF Matches, ToSet
  <2> HIDE DEF result, window, s
  <2>4. QED
    BY <1>2, <1>3, <2>1, <2>2, <2>3
<1>5. QED
  BY <1>2, <1>4

--------------------------------------------------------------------------------
(* Results and their types.                                                *)

\* What the type of a result says of its value.
WellTyped(r) ==
  /\ r.type \in {"StateTimeline", "BoolTimeline", "NumericTimeline", "float64", "error"}
  /\ r.type = "BoolTimeline" => r.value \in Seq(Interval)
  /\ r.type = "StateTimeline" => Spans(r.value)

Typed(previous) == \A id \in DOMAIN previous : WellTyped(previous[id])

\* Conditions are timelines, and where there are no results there are none.
LEMMA ConditionsAreTyped ==
  ASSUME NEW previous, Typed(previous), NEW ids, ids \in Seq(ToSet(ids)),
         NEW types, types \subseteq BoolOrState
  PROVE  /\ Conditions(ids, previous, types) \in Seq(Seq(Interval))
         /\ DOMAIN previous = {} => Conditions(ids, previous, types) = <<>>
<1> DEFINE wanted == {id \in DOMAIN previous : previous[id].type \in types}
           found == Select(ids, wanted)
           AsBool(r) == IF r.type = "BoolTimeline" THEN r.value
                        ELSE ConvertStateTimelineToBoolTimeline(r.value)
           conditions == [k \in DOMAIN found |-> AsBool(previous[found[k]])]
<1>1. Conditions(ids, previous, types) = conditions
  BY DEF Conditions
<1>2. /\ found \in Seq(ToSet(ids))
      /\ \A id : Among(id, found) <=> Among(id, ids) /\ id \in wanted
  BY SelectElements
<1> HIDE DEF found
<1>3. /\ DOMAIN found = 1 .. Len(found) /\ Len(found) \in Nat
      /\ \A k \in 1 .. Len(found) : found[k] \in wanted
  BY <1>2 DEF Among
<1>4. ASSUME NEW k \in 1 .. Len(found) PROVE AsBool(previous[found[k]]) \in Seq(Interval)
  <2> DEFINE r == previous[found[k]]
  <2>1. WellTyped(r) /\ r.type \in {"BoolTimeline", "StateTimeline"}
    BY <1>3 DEF Typed, BoolOrState
  <2> HIDE DEF r
  <2>2. r.type = "BoolTimeline" => r.value \in Seq(Interval)
    BY <2>1 DEF WellTyped
  <2>3. r.type = "StateTimeline" =>
          ConvertStateTimelineToBoolTimeline(r.value) \in Seq(Interval)
    BY <2>1, StateAsBool DEF WellTyped
  <2>4. AsBool(r) \in Seq(Interval)
    BY <2>1, <2>2, <2>3
  <2>5. QED
    BY <2>4 DEF r
<1> HIDE DEF AsBool
<1>5. conditions \in Seq(Seq(Interval)) /\ Len(conditions) = Len(found)
  BY <1>3, <1>4
<1>6. DOMAIN previous = {} => conditions = <<>>
  <2>1. DOMAIN previous = {} => Len(found) = 0
    BY <1>3
  <2> HIDE DEF conditions
  <2>2. \A c \in Seq(Seq(Interval)) : Len(c) = 0 => c = <<>>
    OBVIOUS
  <2>3. QED
    BY <1>5, <2>1, <2>2
<1>7. QED
  BY <1>1, <1>5, <1>6

\* What DurationWhere measures is a timeline, and an empty one where there are no
\* results.
LEMMA CombinedIsTimeline ==
  ASSUME NEW op, op.Op = "DurationWhere", WellFormed(op), NEW previous, Typed(previous)
  PROVE  /\ CombinedTimeline(op, previous) \in Seq(Interval)
         /\ DOMAIN previous = {} => CombinedTimeline(op, previous) = <<>>
<1> DEFINE all == Conditions(op.ConditionAll, previous, BoolOrState)
           any == Conditions(op.ConditionAny, previous, BoolOrState)
<1>1. op.ConditionAll \in Seq(ToSet(op.ConditionAll)) /\ op.ConditionAny \in Seq(ToSet(op.ConditionAny))
  BY DEF WellFormed
<1>2. /\ all \in Seq(Seq(Interval)) /\ any \in Seq(Seq(Interval))
      /\ DOMAIN previous = {} => all = <<>> /\ any = <<>>
  BY <1>1, ConditionsAreTyped
<1>3. CombinedTimeline(op, previous) = IF op.ConditionAll # <<>> THEN AND(all) ELSE OR(any)
  BY DEF CombinedTimeline
<1> HIDE DEF all, any
<1>4. AND(all) \in Seq(Interval) /\ OR(any) \in Seq(Interval)
  BY <1>2, AndTimes, OrTimes
<1>5. DOMAIN previous = {} => AND(all) = <<>> /\ OR(any) = <<>>
  BY <1>2, NoneToCombine
<1>6. QED
  BY <1>3, <1>4, <1>5

\* A flat operation's result is of its type.
LEMMA FlatIsTyped ==
  ASSUME NEW es, Listed(es), NEW op, WellFormed(op), NEW previous, Typed(previous)
  PROVE  WellTyped(ExecuteFlat(es, op, previous))
<1> DEFINE r == ExecuteFlat(es, op, previous)
           s == FilterEventsByType(es, op.Source)
<1>1. s \in Seq(ToSet(es)) /\ Stamped(ToSet(es)) /\ WellTyped(Failure)
  BY FilterKeeps DEF Listed, WellTyped, Failure
<1>2. CASE op.Op = "LatestEventToState"
  <2>1. r = StateTimeline(LatestEventToState(s, op.Equals))
    BY <1>2 DEF ExecuteFlat
  <2>2. Spans(LatestEventToState(s, op.Equals))
    BY <1>1, StateTimes
  <2>3. QED
    BY <2>1, <2>2 DEF WellTyped, StateTimeline
<1>3. CASE op.Op = "HasExisted"
  <2>1. r = BoolTimeline(HasExisted(s, op.Equals))
    BY <1>3 DEF ExecuteFlat
  <2>2. HasExisted(s, op.Equals) \in Seq(Interval)
    BY <1>1, HasExistedTimes
  <2>3. QED
    BY <2>1, <2>2 DEF WellTyped, BoolTimeline
<1>4. CASE op.Op = "HasExistedWithin"
  <2> DEFINE timeline == HasExistedWithin(s, op.Equals, op.Params["window"])
  <2>1. r = IF "window" \notin DOMAIN op.Params THEN Failure ELSE BoolTimeline(timeline)
    BY <1>4 DEF ExecuteFlat
  <2>2. "window" \in DOMAIN op.Params => timeline \in Seq(Interval)
    BY <1>1, <1>4, HasExistedWithinTimes DEF WellFormed
  <2> HIDE DEF timeline
  <2>3. QED
    BY <1>1, <2>1, <2>2 DEF WellTyped, BoolTimeline
<1>5. CASE op.Op = "DurationWhere"
  BY <1>5 DEF ExecuteFlat, Seconds, WellTyped
<1>6. CASE op.Op = "AND"
  <2> DEFINE timeline == AND(Conditions(op.ConditionAll, previous, Bool))
  <2>1. r = BoolTimeline(timeline)
    BY <1>6 DEF ExecuteFlat
  <2>2. op.ConditionAll \in Seq(ToSet(op.ConditionAll)) /\ Bool \subseteq BoolOrState
    BY <1>6 DEF WellFormed, Bool, BoolOrState
  <2>3. timeline \in Seq(Interval)
    BY <2>2, ConditionsAreTyped, AndTimes
  <2> HIDE DEF timeline
  <2>4. QED
    BY <2>1, <2>3 DEF WellTyped, BoolTimeline
<1>7. CASE op.Op = "OR"
  <2> DEFINE timeline == OR(Conditions(op.ConditionAny, previous, Bool))
  <2>1. r = BoolTimeline(timeline)
    BY <1>7 DEF ExecuteFlat
  <2>2. op.ConditionAny \in Seq(ToSet(op.ConditionAny)) /\ Bool \subseteq BoolOrState
    BY <1>7 DEF WellFormed, Bool, BoolOrState
  <2>3. timeline \in Seq(Interval)
    BY <2>2, ConditionsAreTyped, OrTimes
  <2> HIDE DEF timeline
  <2>4. QED
    BY <2>1, <2>3 DEF WellTyped, BoolTimeline
<1>8. CASE op.Op = "LongestConsecutiveTrueDuration"
  BY <1>8 DEF ExecuteFlat, LongestOfSource, Seconds, Failure, WellTyped
<1>9. CASE op.Op \notin {"LatestEventToState", "HasExisted", "HasExistedWithin", "AND", "OR",
                         "DurationWhere", "LongestConsecutiveTrueDuration"}
  BY <1>1, <1>9 DEF ExecuteFlat
<1>10. QED
  BY <1>2, <1>3, <1>4, <1>5, <1>6, <1>7, <1>8, <1>9

Usable(op) == WellFormed(op) /\ (op.Op \in {"Not", "DurationInCurState"} => WellFormed(op.Of))

\* An operation's result is of its type.
LEMMA OperationIsTyped ==
  ASSUME NEW es, Listed(es), NEW op, Usable(op), NEW previous, Typed(previous)
  PROVE  WellTyped(ExecuteOperation(es, op, previous))
<1> DEFINE nested == ExecuteFlat(es, op.Of, previous)
           r == ExecuteOperation(es, op, previous)
<1>1. WellTyped(Failure)
  BY DEF WellTyped, Failure
<1>2. CASE op.Op = "Not"
  <2>1. r = NotOf(nested)
    BY <1>2 DEF ExecuteOperation
  <2>2. WellTyped(nested)
    BY <1>2, FlatIsTyped DEF Usable
  <2> HIDE DEF nested
  <2>3. nested.type = "BoolTimeline" => NOT(nested.value) \in Seq(Interval)
    BY <2>2, NotTimes DEF WellTyped
  <2>4. QED
    BY <1>1, <2>1, <2>3 DEF NotOf, WellTyped, BoolTimeline
<1>3. CASE op.Op = "DurationInCurState"
  BY <1>1, <1>3 DEF ExecuteOperation, DurationInCurStateOf, NumericTimeline, WellTyped
<1>4. CASE op.Op \notin {"Not", "DurationInCurState"}
  BY <1>4, FlatIsTyped DEF ExecuteOperation, Usable
<1>5. QED
  BY <1>2, <1>3, <1>4

\* A duration is a number of seconds, and 0 where there are no results.
LEMMA DurationIsSeconds ==
  ASSUME NEW es, NEW op, op.Op = "DurationWhere", WellFormed(op), NEW previous, Typed(previous)
  PROVE  /\ \E x \in Int : ExecuteOperation(es, op, previous) = Seconds(x)
         /\ DOMAIN previous = {} => ExecuteOperation(es, op, previous) = Seconds(0)
<1> DEFINE timeline == CombinedTimeline(op, previous)
<1>1. ExecuteOperation(es, op, previous) = Seconds(DurationWhere(timeline))
  BY DEF ExecuteOperation, ExecuteFlat
<1>2. timeline \in Seq(Interval) /\ (DOMAIN previous = {} => timeline = <<>>)
  BY CombinedIsTimeline
<1> HIDE DEF timeline
<1>3. DurationWhere(timeline) \in Int /\ (timeline = <<>> => DurationWhere(timeline) = 0)
  BY <1>2, DurationIsNumber
<1>4. QED
  BY <1>1, <1>2, <1>3

\* The results of others matter only to the operations that refer to them.
LEMMA OthersDoNotMatter ==
  ASSUME NEW es, NEW op, op.Op \notin Needy,
         op.Op \in {"Not", "DurationInCurState"} => op.Of.Op \notin Needy,
         NEW p, NEW q
  PROVE  ExecuteOperation(es, op, p) = ExecuteOperation(es, op, q)
<1>1. ASSUME NEW o, o.Op \notin Needy PROVE ExecuteFlat(es, o, p) = ExecuteFlat(es, o, q)
  BY <1>1 DEF ExecuteFlat, Needy
<1>2. QED
  BY <1>1 DEF ExecuteOperation

\* The operations without which the assembly of chunks has no number to add.
LEMMA OthersFail ==
  ASSUME NEW es, NEW op, op.Op \in Summed \ {"DurationWhere"}, NEW previous
  PROVE  ExecuteOperation(es, op, previous) = Failure
BY DEF ExecuteOperation, ExecuteFlat, Summed

\* What the turns of a query keep: results of their types, and none that no operation
\* has the ID of.
LEMMA TurnsAreTyped ==
  ASSUME NEW es, Listed(es), NEW ops, Len(ops) \in Nat, \A i \in 1 .. Len(ops) : Usable(ops[i]),
         NEW f, IsQuery(f, es, ops)
  PROVE  \A n \in 0 .. Len(ops) :
           /\ Typed(f[n].results)
           /\ DOMAIN f[n].results \subseteq {ops[i].ID : i \in 1 .. n}
<1> DEFINE m == Len(ops)
           Good(n) == /\ Typed(f[n].results)
                      /\ DOMAIN f[n].results \subseteq {ops[i].ID : i \in 1 .. n}
           S == {n \in 0 .. m : Good(n)}
<1>1. Good(0)
  <2>1. f[0].results = <<>>
    <3>1. f[0] = [last |-> Seconds(0), results |-> <<>>]
      BY QueryStep
    <3>2. QED
      BY <3>1
  <2>2. DOMAIN <<>> = {}
    OBVIOUS
  <2>3. QED
    BY <2>1, <2>2 DEF Typed
<1>2. ASSUME NEW n \in 0 .. m - 1, Good(n) PROVE Good(n + 1)
  <2> DEFINE op == ops[n + 1]
             r == ExecuteOperation(es, op, f[n].results)
  <2>1. f[n + 1] = ExecuteNext(es, f[n], op)
    BY QueryStep
  <2>2. \A i : i \in 1 .. n + 1 <=> i \in 1 .. n \/ i = n + 1
    OBVIOUS
  <2>3. CASE f[n].last.type = "error"
    <3>1. f[n + 1] = f[n]
      BY <2>1, <2>3 DEF ExecuteNext
    <3>2. {ops[i].ID : i \in 1 .. n} \subseteq {ops[i].ID : i \in 1 .. n + 1}
      BY <2>2
    <3>3. QED
      BY <1>2, <3>1, <3>2
  <2>4. CASE f[n].last.type # "error"
    <3>1. f[n + 1].results = With(f[n].results, op.ID, r)
      BY <2>1, <2>4 DEF ExecuteNext, Recorded
    <3>2. WellTyped(r)
      <4>1. Usable(op)
        OBVIOUS
      <4>2. QED
        BY <1>2, <4>1, OperationIsTyped
    <3> HIDE DEF r
    <3>3. Typed(f[n + 1].results) /\ DOMAIN f[n + 1].results = DOMAIN f[n].results \union {op.ID}
      BY <1>2, <3>1, <3>2 DEF With, Typed
    <3>4. {ops[i].ID : i \in 1 .. n + 1} = {ops[i].ID : i \in 1 .. n} \union {op.ID}
      BY <2>2
    <3>5. QED
      BY <1>2, <3>3, <3>4
  <2>5. QED
    BY <2>3, <2>4
<1> HIDE DEF Good
<1>3. \A n \in 0 .. m : n \in S
  <2>1. 0 \in S
    BY <1>1
  <2>2. \A n \in 0 .. m - 1 : n \in S => n + 1 \in S
    BY <1>2
  <2> HIDE DEF S
  <2>3. QED
    BY <2>1, <2>2, Induction
<1>4. QED
  BY <1>3 DEF Good

\* What a query answers is its last operation's result, if none before it is named
\* "result" and none before it has failed.
LEMMA AnswerIsLast ==
  ASSUME NEW es, Listed(es), NEW ops, Len(ops) \in Nat \ {0},
         \A i \in 1 .. Len(ops) : Usable(ops[i]),
         \A i \in 1 .. Len(ops) - 1 : ops[i].ID # "result"
  PROVE  \E f : /\ IsQuery(f, es, ops) /\ Typed(f[Len(ops) - 1].results)
                /\ ProcessQuery(es, ops).type # "error" => f[Len(ops) - 1].last.type # "error"
                /\ f[Len(ops) - 1].last.type # "error" =>
                     ProcessQuery(es, ops) =
                       ExecuteOperation(es, ops[Len(ops)], f[Len(ops) - 1].results)
<1> DEFINE m == Len(ops)
           k == m - 1
<1>1. PICK f : IsQuery(f, es, ops) /\ ProcessQuery(es, ops) = AnswerOf(f[m])
  BY QueryUnfolds
<1>2. k \in 0 .. m /\ k \in 0 .. m - 1 /\ k + 1 = m /\ m \in 1 .. m
  OBVIOUS
<1>3. f[m] = ExecuteNext(es, f[k], ops[m])
  <2> HIDE DEF k
  <2>1. \A n \in 0 .. m - 1 : f[n + 1] = ExecuteNext(es, f[n], ops[n + 1])
    <3>1. Len(ops) \in Nat
      OBVIOUS
    <3>2. QED
      BY <1>1, <3>1, QueryStep
  <2> HIDE DEF m
  <2>2. f[k + 1] = ExecuteNext(es, f[k], ops[k + 1])
    BY <1>2, <2>1
  <2>3. QED
    BY <1>2, <2>2
<1>4. /\ Typed(f[k].results)
      /\ DOMAIN f[k].results \subseteq {ops[i].ID : i \in 1 .. k}
  BY <1>1, <1>2, TurnsAreTyped
<1> DEFINE r == ExecuteOperation(es, ops[m], f[k].results)
<1>5. ProcessQuery(es, ops).type # "error" => f[k].last.type # "error"
  BY <1>1, <1>3 DEF ExecuteNext, AnswerOf
<1>6. ASSUME f[k].last.type # "error" PROVE ProcessQuery(es, ops) = r
  <2>1. f[m] = Recorded(f[k], ops[m], r)
    BY <1>3, <1>6 DEF ExecuteNext
  <2> HIDE DEF r, m, k
  <2>2. f[m].last = r /\ f[m].results = With(f[k].results, ops[m].ID, r)
    BY <2>1 DEF Recorded
  <2>3. "result" \in DOMAIN f[m].results => f[m].results["result"] = r
    <3>1. "result" \notin DOMAIN f[k].results
      BY <1>4 DEF k, m
    <3>2. QED
      BY <2>2, <3>1 DEF With
  <2>4. QED
    BY <1>1, <2>2, <2>3 DEF AnswerOf
<1>7. QED
  BY <1>1, <1>4, <1>5, <1>6 DEF r, k, m

--------------------------------------------------------------------------------
(* The points of an operation.                                             *)

\* The operations among the first n that the conditions ids of op refer to.
SeenBy(ops, op, ids, n) ==
  {i \in UNION {Named(ops, ids[k], n) : k \in DOMAIN ids} :
     IsBool(ops[i]) \/ (IsState(ops[i]) /\ op.Op = "DurationWhere")}

AllPoints(f, seen) == {t \in Points : seen # {} /\ \A i \in seen : t \in f[i]}
SomePoints(f, seen) == {t \in Points : \E i \in seen : t \in f[i]}

PointsTurn(es, ops, f, n) ==
  LET op == ops[n]
  IN  CASE op.Op = "AND" -> AllPoints(f, SeenBy(ops, op, op.ConditionAll, n - 1))
        [] op.Op = "OR" -> SomePoints(f, SeenBy(ops, op, op.ConditionAny, n - 1))
        [] op.Op = "DurationWhere" ->
             IF op.ConditionAll # <<>> THEN AllPoints(f, SeenBy(ops, op, op.ConditionAll, n - 1))
             ELSE SomePoints(f, SeenBy(ops, op, op.ConditionAny, n - 1))
        [] op.Op = "LongestConsecutiveTrueDuration" ->
             UNION {f[i] : i \in Named(ops, op.SourceOperation, n - 1)}
        [] OTHER -> FlatPoints(es, op)

IsPoints(es, ops, f) == f = [n \in 1 .. Len(ops) |-> PointsTurn(es, ops, f, n)]

\* A condition names an operation before the one that has it.
LEMMA NamedIsEarlier ==
  ASSUME NEW ops,
         Len(ops) \in Nat, NEW n \in 1 .. Len(ops), NEW id
  PROVE  \A i \in Named(ops, id, n - 1) : i \in 1 .. Len(ops) /\ i < n
BY DEF Named

\* An operation sees operations before it.
LEMMA SeenIsEarlier ==
  ASSUME NEW ops,
         Len(ops) \in Nat, NEW n \in 1 .. Len(ops), NEW op, NEW ids
  PROVE  \A i \in SeenBy(ops, op, ids, n - 1) : i \in 1 .. Len(ops) /\ i < n
BY NamedIsEarlier DEF SeenBy

\* The recursion of PointsOf defines a function.
LEMMA PointsUnfold ==
  ASSUME NEW es, NEW ops,
         Len(ops) \in Nat
  PROVE  \A n \in 1 .. Len(ops) : PointsOf(es, ops)[n] = PointsTurn(es, ops, PointsOf(es, ops), n)
<1> DEFINE U == SUBSET Points
           m == Len(ops)
           Functions == [1 .. m -> U]
           F == [f \in Functions |-> [n \in 1 .. m |-> PointsTurn(es, ops, f, n)]]
<1>1. m \in Nat /\ U # {} /\ 1 \in 0 .. 1
  OBVIOUS
<1>2. ASSUME NEW f \in Functions, NEW n \in 1 .. m PROVE PointsTurn(es, ops, f, n) \in U
  <2>1. \A seen : AllPoints(f, seen) \in U /\ SomePoints(f, seen) \in U
    BY DEF AllPoints, SomePoints
  <2>2. FlatPoints(es, ops[n]) \in U
    BY DEF FlatPoints
  <2>3. UNION {f[i] : i \in Named(ops, ops[n].SourceOperation, n - 1)} \in U
    BY NamedIsEarlier
  <2> HIDE DEF U
  <2>4. QED
    BY <2>1, <2>2, <2>3 DEF PointsTurn
<1>3. F \in [Functions -> Functions]
  BY <1>2
<1>4. ASSUME NEW f \in Functions, NEW g \in Functions, NEW n \in 1 .. m,
             \A k \in 1 .. m : k < n => f[k] = g[k]
      PROVE  F[f][n] = F[g][n]
  <2>1. \A op, ids :
          /\ AllPoints(f, SeenBy(ops, op, ids, n - 1)) = AllPoints(g, SeenBy(ops, op, ids, n - 1))
          /\ SomePoints(f, SeenBy(ops, op, ids, n - 1)) = SomePoints(g, SeenBy(ops, op, ids, n - 1))
    BY <1>4, SeenIsEarlier DEF AllPoints, SomePoints
  <2>2. \A id : \A i \in Named(ops, id, n - 1) : f[i] = g[i]
    BY <1>4, NamedIsEarlier
  <2>3. \A id : {f[i] : i \in Named(ops, id, n - 1)} = {g[i] : i \in Named(ops, id, n - 1)}
    BY <2>2
  <2>4. PointsTurn(es, ops, f, n) = PointsTurn(es, ops, g, n)
    BY <2>1, <2>3 DEF PointsTurn
  <2>5. QED
    BY <2>4
<1>5. Causal(F, 1 .. m)
  BY <1>3, <1>4 DEF Causal
<1>6. HasFixedPoint(F)
  <2> HIDE DEF U, F, m
  <2>1. QED
    BY <1>1, <1>3, <1>5, RecursionExists
<1>7. \E f : IsPoints(es, ops, f)
  BY <1>6 DEF IsPoints, HasFixedPoint
<1>8. IsPoints(es, ops, PointsOf(es, ops))
  BY <1>7 DEF PointsOf, IsPoints, PointsTurn, SeenBy, AllPoints, SomePoints
<1>9. QED
  BY <1>8 DEF IsPoints

--------------------------------------------------------------------------------
(* The results of a query.                                                 *)

\* What is known of a query: its events are listed, no interval of theirs begins before
\* the first unit of time or covers one after the last, and its operations say what
\* they need.
Queryable(es, ops) ==
  /\ Listed(es)
  /\ ops \in Seq(ToSet(ops)) /\ \A i \in 1 .. Len(ops) : Usable(ops[i])
  /\ \A e \in ToSet(es) :
       /\ 0 <= e.Timestamp
       /\ e.Timestamp + Nanosecond <= Horizon + 1 /\ e.Timestamp + Hour <= Horizon + 1
       /\ \A i \in 1 .. Len(ops) :
            ops[i].Op = "HasExistedWithin" /\ "window" \in DOMAIN ops[i].Params =>
              e.Timestamp + ops[i].Params["window"] <= Horizon + 1

\* r is what the n-th operation should have resulted in: a BoolTimeline from those
\* that combine or test, true at the points of the operation, and a StateTimeline
\* that covers them.
Right(es, ops, n, r) ==
  /\ WellTyped(r)
  /\ IsBool(ops[n]) <=> r.type = "BoolTimeline"
  /\ IsState(ops[n]) <=> r.type = "StateTimeline"
  /\ IsBool(ops[n]) => \A t \in Points : TrueAt(r.value, t) <=> t \in PointsOf(es, ops)[n]
  /\ IsState(ops[n]) => \A t \in Points : Covered(r.value, t) <=> t \in PointsOf(es, ops)[n]

\* After upto operations the results of the current ones are right.
ResultsAreRight(es, ops, upto, previous) ==
  /\ Queryable(es, ops)
  /\ upto \in 0 .. Len(ops)
  /\ DOMAIN previous = {ops[i].ID : i \in 1 .. upto}
  /\ \A n \in CurrentOf(ops, upto) : Right(es, ops, n, previous[ops[n].ID])

\* The queries of the instances are such.
LEMMA QueriesAreQueryable ==
  ASSUME NEW es \in EventTimelines, NEW ops \in Requests
  PROVE  Queryable(es, ops)
<1>1. ops \in Seq(ToSet(ops)) /\ \A op \in ToSet(ops) : Usable(op)
  BY QueryProcessorAssumption DEF Usable
<1>2. \A i \in 1 .. Len(ops) : ops[i] \in ToSet(ops)
  BY <1>1 DEF ToSet
<1>3. \A i \in 1 .. Len(ops) : Usable(ops[i])
  BY <1>1, <1>2
<1>4. QED
  BY <1>1, <1>2, <1>3, EventsAreListed, HorizonAssumption DEF Queryable

\* Before any operation there is no result that could be wrong.
LEMMA NoResultIsRight ==
  ASSUME NEW es, NEW ops, Queryable(es, ops)
  PROVE  ResultsAreRight(es, ops, 0, <<>>) /\ CurrentOf(ops, 0) = {}
<1>1. 0 \in 0 .. Len(ops)
  <2>1. ops \in Seq(ToSet(ops))
    BY DEF Queryable
  <2>2. QED
    BY <2>1
<1>2. DOMAIN <<>> = {} /\ {ops[i].ID : i \in 1 .. 0} = {} /\ CurrentOf(ops, 0) = {}
  BY DEF CurrentOf
<1>3. QED
  BY <1>1, <1>2 DEF ResultsAreRight

\* Of the operations executed, an ID names the last one that has it.
LEMMA NamedFacts ==
  ASSUME NEW es, NEW ops, NEW upto, NEW previous,
         ResultsAreRight(es, ops, upto, previous), NEW id
  PROVE  /\ \A i \in Named(ops, id, upto) :
              i \in CurrentOf(ops, upto) /\ ops[i].ID = id /\ id \in DOMAIN previous
         /\ id \in DOMAIN previous => \E i \in Named(ops, id, upto) : TRUE
<1>1. /\ upto \in Nat /\ DOMAIN previous = {ops[i].ID : i \in 1 .. upto}
  <2>1. ops \in Seq(ToSet(ops))
    BY DEF ResultsAreRight, Queryable
  <2>2. Len(ops) \in Nat
    BY <2>1
  <2>3. QED
    BY <2>2 DEF ResultsAreRight
<1>2. ASSUME NEW i \in Named(ops, id, upto)
      PROVE  i \in CurrentOf(ops, upto) /\ ops[i].ID = id /\ id \in DOMAIN previous
  <2>1. i \in 1 .. upto /\ ops[i].ID = id
    BY DEF Named
  <2>2. QED
    BY <1>1, <1>2, <2>1 DEF CurrentOf
<1>3. ASSUME id \in DOMAIN previous PROVE \E i \in Named(ops, id, upto) : TRUE
  <2> DEFINE T == {i \in 1 .. upto : ops[i].ID = id}
  <2>1. T \subseteq 0 .. upto /\ T # {}
    BY <1>1, <1>3
  <2> HIDE DEF T
  <2>2. PICK i \in T : \A j \in T : j <= i
    BY <1>1, <2>1, GreatestNumber
  <2>3. i \in 1 .. upto /\ ops[i].ID = id
    BY <2>2 DEF T
  <2>4. \A j \in i + 1 .. upto : ops[j].ID # id
    <3>1. \A j \in i + 1 .. upto : j \in 1 .. upto /\ ~(j <= i)
      BY <1>1, <2>3
    <3>2. QED
      BY <2>2, <3>1 DEF T
  <2>5. i \in Named(ops, id, upto)
    BY <2>3, <2>4 DEF Named
  <2>6. QED
    BY <2>5
<1>4. QED
  BY <1>2, <1>3

\* What is kept for an ID is the result of the last operation with it.
LEMMA RightResults ==
  ASSUME NEW es, NEW ops, NEW upto, NEW previous,
         ResultsAreRight(es, ops, upto, previous), NEW id \in DOMAIN previous
  PROVE  \E i \in Named(ops, id, upto) : /\ i \in CurrentOf(ops, upto) /\ ops[i].ID = id
                                     /\ Right(es, ops, i, previous[id])
<1>1. PICK i \in Named(ops, id, upto) : TRUE
  BY NamedFacts
<1>2. i \in CurrentOf(ops, upto) /\ ops[i].ID = id
  BY NamedFacts
<1>3. QED
  BY <1>1, <1>2 DEF ResultsAreRight

\* Results are of their types.
LEMMA ResultsAreTyped ==
  ASSUME NEW es, NEW ops, NEW upto, NEW previous,
         ResultsAreRight(es, ops, upto, previous)
  PROVE  Typed(previous)
BY RightResults DEF Typed, Right

\* A result as a condition.
AsBool(r) ==
  IF r.type = "BoolTimeline" THEN r.value ELSE ConvertStateTimelineToBoolTimeline(r.value)

\* The types of results that count as conditions of an operation.
TypesFor(op) == IF op.Op = "DurationWhere" THEN BoolOrState ELSE Bool

\* As a condition, a result is true at the points of its operation.
LEMMA RightAsBool ==
  ASSUME NEW es, NEW ops,
         NEW n, NEW r, Right(es, ops, n, r), r.type \in BoolOrState
  PROVE  /\ AsBool(r) \in Seq(Interval)
         /\ \A t \in Points : TrueAt(AsBool(r), t) <=> t \in PointsOf(es, ops)[n]
<1>1. CASE r.type = "BoolTimeline"
  BY <1>1 DEF Right, WellTyped, AsBool
<1>2. CASE r.type = "StateTimeline"
  <2>1. /\ IsState(ops[n]) /\ Spans(r.value)
        /\ \A t \in Points : Covered(r.value, t) <=> t \in PointsOf(es, ops)[n]
    BY <1>2 DEF Right, WellTyped
  <2>2. AsBool(r) = ConvertStateTimelineToBoolTimeline(r.value)
    BY <1>2 DEF AsBool
  <2>3. QED
    BY <2>1, <2>2, StateAsBool
<1>3. QED
  BY <1>1, <1>2 DEF BoolOrState

\* The conditions of an operation are the results of the operations they refer to.
LEMMA ConditionsAreSeen ==
  ASSUME NEW es, NEW ops, NEW upto, NEW previous,
         ResultsAreRight(es, ops, upto, previous), NEW op, NEW ids, ids \in Seq(ToSet(ids))
  PROVE  /\ Conditions(ids, previous, TypesFor(op)) \in Seq(Seq(Interval))
         /\ \A x : Among(x, Conditions(ids, previous, TypesFor(op))) <=>
              \E i \in SeenBy(ops, op, ids, upto) : x = AsBool(previous[ops[i].ID])
         /\ \A i \in SeenBy(ops, op, ids, upto) :
              /\ i \in CurrentOf(ops, upto) /\ ops[i].ID \in DOMAIN previous
              /\ previous[ops[i].ID].type \in TypesFor(op)
              /\ \A t \in Points : TrueAt(AsBool(previous[ops[i].ID]), t) <=> t \in PointsOf(es, ops)[i]
<1> DEFINE types == TypesFor(op)
           wanted == {id \in DOMAIN previous : previous[id].type \in types}
           found == Select(ids, wanted)
           conditions == Conditions(ids, previous, types)
           Seen == SeenBy(ops, op, ids, upto)
           Counts(i) == IsBool(ops[i]) \/ (IsState(ops[i]) /\ op.Op = "DurationWhere")
<1>1. /\ found \in Seq(ToSet(ids))
      /\ \A id : Among(id, found) <=> Among(id, ids) /\ id \in wanted
  BY SelectElements
<1>2. conditions = [i \in DOMAIN found |-> AsBool(previous[found[i]])]
  BY DEF Conditions, AsBool
<1>3. types \subseteq BoolOrState
  BY DEF TypesFor, Bool, BoolOrState
<1> HIDE DEF found, conditions
<1>4. /\ DOMAIN found = 1 .. Len(found) /\ Len(found) \in Nat
      /\ \A k \in 1 .. Len(found) : found[k] \in wanted
  BY <1>1 DEF Among
<1>5. \A id : id \in wanted <=> id \in DOMAIN previous /\ previous[id].type \in types
  OBVIOUS
<1> HIDE DEF wanted, types
<1>6. \A id \in wanted : AsBool(previous[id]) \in Seq(Interval)
  <2>1. \A id \in wanted : \E i \in CurrentOf(ops, upto) : Right(es, ops, i, previous[id])
    BY <1>5, RightResults
  <2>2. QED
    BY <1>3, <1>5, <2>1, RightAsBool
<1>7. /\ conditions \in Seq(Seq(Interval)) /\ Len(conditions) = Len(found)
      /\ \A k \in 1 .. Len(found) : conditions[k] = AsBool(previous[found[k]])
  BY <1>2, <1>4, <1>6
<1>8. \A x : Among(x, conditions) <=>
        \E id \in wanted : Among(id, ids) /\ x = AsBool(previous[id])
  <2>1. \A k \in 1 .. Len(found) : found[k] \in wanted /\ Among(found[k], ids)
    <3>1. \A k \in 1 .. Len(found) : Among(found[k], found)
      BY DEF Among
    <3>2. QED
      BY <1>1, <3>1
  <2>2. \A id \in wanted : Among(id, ids) => \E k \in 1 .. Len(found) : found[k] = id
    BY <1>1 DEF Among
  <2>3. \A x : Among(x, conditions) <=>
          \E k \in 1 .. Len(found) : x = AsBool(previous[found[k]])
    BY <1>7 DEF Among
  <2>4. QED
    BY <2>1, <2>2, <2>3
<1>9. \A i, r : Right(es, ops, i, r) => (Counts(i) <=> r.type \in types)
  BY DEF Right, types, TypesFor, Bool, BoolOrState
<1> HIDE DEF Counts
<1>10. \A i : i \in Seen <=>
         \E id : Among(id, ids) /\ i \in Named(ops, id, upto) /\ Counts(i)
  <2>1. DOMAIN ids = 1 .. Len(ids)
    OBVIOUS
  <2>2. \A i : i \in Seen <=> /\ \E k \in 1 .. Len(ids) : i \in Named(ops, ids[k], upto)
                              /\ Counts(i)
    BY <2>1 DEF SeenBy, Counts
  <2> HIDE DEF Seen
  <2>3. QED
    BY <2>2 DEF Among
<1> HIDE DEF Seen
<1>11. ASSUME NEW i \in Seen
       PROVE  /\ i \in CurrentOf(ops, upto) /\ ops[i].ID \in wanted /\ Among(ops[i].ID, ids)
              /\ Right(es, ops, i, previous[ops[i].ID])
  <2>1. PICK id : Among(id, ids) /\ i \in Named(ops, id, upto) /\ Counts(i)
    BY <1>10
  <2>2. i \in CurrentOf(ops, upto) /\ ops[i].ID = id /\ id \in DOMAIN previous
    BY <2>1, NamedFacts
  <2>3. previous[id] = previous[ops[i].ID] /\ Right(es, ops, i, previous[id])
    BY <2>2 DEF ResultsAreRight
  <2>4. id \in wanted
    BY <1>5, <1>9, <2>1, <2>2, <2>3
  <2>5. QED
    BY <2>1, <2>2, <2>3, <2>4
<1>12. ASSUME NEW id \in wanted, Among(id, ids)
       PROVE  \E i \in Seen : previous[id] = previous[ops[i].ID]
  <2>1. PICK i \in Named(ops, id, upto) : ops[i].ID = id /\ Right(es, ops, i, previous[id])
    BY <1>5, RightResults
  <2>2. Counts(i)
    BY <1>5, <1>9, <2>1
  <2>3. QED
    BY <1>10, <1>12, <2>1, <2>2
<1>13. \A x : Among(x, conditions) <=> \E i \in Seen : x = AsBool(previous[ops[i].ID])
  <2>1. ASSUME NEW x, Among(x, conditions) PROVE \E i \in Seen : x = AsBool(previous[ops[i].ID])
    BY <1>8, <1>12, <2>1
  <2>2. ASSUME NEW i \in Seen PROVE Among(AsBool(previous[ops[i].ID]), conditions)
    BY <1>8, <1>11
  <2>3. QED
    BY <2>1, <2>2
<1>14. ASSUME NEW i \in Seen
       PROVE  /\ i \in CurrentOf(ops, upto) /\ ops[i].ID \in DOMAIN previous /\ previous[ops[i].ID].type \in types
              /\ \A t \in Points : TrueAt(AsBool(previous[ops[i].ID]), t) <=> t \in PointsOf(es, ops)[i]
  BY <1>3, <1>5, <1>11, RightAsBool
<1>15. QED
  BY <1>7, <1>13, <1>14 DEF conditions, Seen, types

\* A conjunction of conditions is true where all operations that they refer to are.
LEMMA AndPoints ==
  ASSUME NEW es, NEW ops, NEW upto, NEW previous,
         ResultsAreRight(es, ops, upto, previous), NEW op, NEW ids, ids \in Seq(ToSet(ids))
  PROVE  LET all == AND(Conditions(ids, previous, TypesFor(op)))
         IN  /\ all \in Seq(Interval)
             /\ \A t \in Points :
                  TrueAt(all, t) <=> t \in AllPoints(PointsOf(es, ops), SeenBy(ops, op, ids, upto))
<1> DEFINE conditions == Conditions(ids, previous, TypesFor(op))
           Seen == SeenBy(ops, op, ids, upto)
<1>1. /\ conditions \in Seq(Seq(Interval))
      /\ \A x : Among(x, conditions) <=> \E i \in Seen : x = AsBool(previous[ops[i].ID])
      /\ \A i \in Seen : \A t \in Points :
           TrueAt(AsBool(previous[ops[i].ID]), t) <=> t \in PointsOf(es, ops)[i]
  BY ConditionsAreSeen
<1> HIDE DEF conditions, Seen
<1>2. /\ AND(conditions) \in Seq(Interval)
      /\ \A t \in Int : TrueAt(AND(conditions), t) <=>
           Len(conditions) > 0 /\ \A i \in 1 .. Len(conditions) : TrueAt(conditions[i], t)
  BY <1>1, AndTimes
<1>3. ASSUME NEW t \in Points
      PROVE  TrueAt(AND(conditions), t) <=> t \in AllPoints(PointsOf(es, ops), Seen)
  <2>1. t \in Int
    BY QueryProcessorAssumption DEF Points
  <2>2. (\A i \in 1 .. Len(conditions) : TrueAt(conditions[i], t)) <=>
          \A x : Among(x, conditions) => TrueAt(x, t)
    BY DEF Among
  <2>3. (\A i \in 1 .. Len(conditions) : TrueAt(conditions[i], t)) <=>
          \A i \in Seen : t \in PointsOf(es, ops)[i]
    BY <1>1, <2>2
  <2>4. Len(conditions) > 0 <=> Seen # {}
    <3>1. Len(conditions) \in Nat
      BY <1>1
    <3>2. Len(conditions) > 0 <=> \E x : Among(x, conditions)
      <4>1. Len(conditions) > 0 => Among(conditions[1], conditions)
        BY <3>1 DEF Among
      <4>2. QED
        BY <3>1, <4>1 DEF Among
    <3>3. QED
      BY <1>1, <3>2
  <2>5. QED
    BY <1>2, <2>1, <2>3, <2>4 DEF AllPoints
<1>4. QED
  BY <1>2, <1>3 DEF conditions, Seen

\* A disjunction of conditions is true where some operation that they refer to is.
LEMMA OrPoints ==
  ASSUME NEW es, NEW ops, NEW upto, NEW previous,
         ResultsAreRight(es, ops, upto, previous), NEW op, NEW ids, ids \in Seq(ToSet(ids))
  PROVE  LET any == OR(Conditions(ids, previous, TypesFor(op)))
         IN  /\ any \in Seq(Interval)
             /\ \A t \in Points :
                  TrueAt(any, t) <=> t \in SomePoints(PointsOf(es, ops), SeenBy(ops, op, ids, upto))
<1> DEFINE conditions == Conditions(ids, previous, TypesFor(op))
           Seen == SeenBy(ops, op, ids, upto)
<1>1. /\ conditions \in Seq(Seq(Interval))
      /\ \A x : Among(x, conditions) <=> \E i \in Seen : x = AsBool(previous[ops[i].ID])
      /\ \A i \in Seen : \A t \in Points :
           TrueAt(AsBool(previous[ops[i].ID]), t) <=> t \in PointsOf(es, ops)[i]
  BY ConditionsAreSeen
<1> HIDE DEF conditions, Seen
<1>2. /\ OR(conditions) \in Seq(Interval)
      /\ \A t \in Int : TrueAt(OR(conditions), t) <=>
           \E i \in 1 .. Len(conditions) : TrueAt(conditions[i], t)
  BY <1>1, OrTimes
<1>3. ASSUME NEW t \in Points
      PROVE  TrueAt(OR(conditions), t) <=> t \in SomePoints(PointsOf(es, ops), Seen)
  <2>1. t \in Int
    BY QueryProcessorAssumption DEF Points
  <2>2. (\E i \in 1 .. Len(conditions) : TrueAt(conditions[i], t)) <=>
          \E x : Among(x, conditions) /\ TrueAt(x, t)
    BY DEF Among
  <2>3. (\E x : Among(x, conditions) /\ TrueAt(x, t)) <=>
          \E i \in Seen : TrueAt(AsBool(previous[ops[i].ID]), t)
    BY <1>1
  <2>4. \A i \in Seen : TrueAt(AsBool(previous[ops[i].ID]), t) <=> t \in PointsOf(es, ops)[i]
    BY <1>1
  <2>5. (\E i \in 1 .. Len(conditions) : TrueAt(conditions[i], t)) <=>
          \E i \in Seen : t \in PointsOf(es, ops)[i]
    BY <2>2, <2>3, <2>4, Zenon
  <2>6. QED
    BY <1>2, <2>1, <2>5 DEF SomePoints
<1>4. QED
  BY <1>2, <1>3 DEF conditions, Seen

--------------------------------------------------------------------------------
(* What each operation results in.                                         *)

\* What each flat operation returns, and which of them return timelines.
LEMMA FlatCases ==
  ASSUME NEW es,
         NEW op, NEW previous
  PROVE  LET r == ExecuteFlat(es, op, previous)
             s == FilterEventsByType(es, op.Source)
         IN  /\ op.Op = "LatestEventToState" => r = StateTimeline(LatestEventToState(s, op.Equals))
             /\ op.Op = "HasExisted" => r = BoolTimeline(HasExisted(s, op.Equals))
             /\ op.Op = "HasExistedWithin" =>
                  r = IF "window" \notin DOMAIN op.Params THEN Failure
                      ELSE BoolTimeline(HasExistedWithin(s, op.Equals, op.Params["window"]))
             /\ op.Op = "AND" =>
                  r = BoolTimeline(AND(Conditions(op.ConditionAll, previous, Bool)))
             /\ op.Op = "OR" =>
                  r = BoolTimeline(OR(Conditions(op.ConditionAny, previous, Bool)))
             /\ op.Op \notin {"LatestEventToState", "HasExisted", "HasExistedWithin", "AND", "OR"} =>
                  r.type \notin {"StateTimeline", "BoolTimeline"}
<1>1. CASE op.Op = "LatestEventToState"
  BY <1>1 DEF ExecuteFlat
<1>2. CASE op.Op = "HasExisted"
  BY <1>2 DEF ExecuteFlat
<1>3. CASE op.Op = "HasExistedWithin"
  BY <1>3 DEF ExecuteFlat
<1>4. CASE op.Op = "AND"
  BY <1>4 DEF ExecuteFlat
<1>5. CASE op.Op = "OR"
  BY <1>5 DEF ExecuteFlat
<1>6. CASE op.Op = "DurationWhere"
  BY <1>6 DEF ExecuteFlat, Seconds
<1>7. CASE op.Op = "LongestConsecutiveTrueDuration"
  BY <1>7 DEF ExecuteFlat, LongestOfSource, Seconds, Failure
<1>8. CASE op.Op \notin {"LatestEventToState", "HasExisted", "HasExistedWithin", "AND", "OR",
                         "DurationWhere", "LongestConsecutiveTrueDuration"}
  BY <1>8 DEF ExecuteFlat, Failure
<1>9. QED
  BY <1>1, <1>2, <1>3, <1>4, <1>5, <1>6, <1>7, <1>8

\* The events at hand are a list of events with times.
LEMMA ListedNow ==
  ASSUME NEW es, NEW ops, NEW upto, NEW previous,
         ResultsAreRight(es, ops, upto, previous)
  PROVE  Listed(es)
BY DEF ResultsAreRight, Queryable

\* A request is a list of operations that say what they need.
LEMMA RequestIsUsable ==
  ASSUME NEW es, NEW ops, NEW upto, NEW previous,
         ResultsAreRight(es, ops, upto, previous)
  PROVE  /\ Len(ops) \in Nat /\ upto \in 0 .. Len(ops) /\ Listed(es)
         /\ ops \in Seq(ToSet(ops))
         /\ \A i \in 1 .. Len(ops) : Usable(ops[i])
<1>1. ops \in Seq(ToSet(ops)) /\ Queryable(es, ops) /\ upto \in 0 .. Len(ops)
  BY DEF ResultsAreRight, Queryable
<1>2. Len(ops) \in Nat
  BY <1>1
<1>3. QED
  BY <1>1, <1>2 DEF Queryable

\* The points of an operation that refers to no other one, and of a conjunction and a
\* disjunction.
LEMMA PointsOfNext ==
  ASSUME NEW es, NEW ops, NEW upto, NEW previous,
         ResultsAreRight(es, ops, upto, previous), NEW n, n = upto + 1, n <= Len(ops)
  PROVE  LET op == ops[n]
         IN  /\ n \in 1 .. Len(ops)
             /\ op.Op = "AND" =>
                  PointsOf(es, ops)[n] = AllPoints(PointsOf(es, ops), SeenBy(ops, op, op.ConditionAll, upto))
             /\ op.Op = "OR" =>
                  PointsOf(es, ops)[n] = SomePoints(PointsOf(es, ops), SeenBy(ops, op, op.ConditionAny, upto))
             /\ op.Op \notin {"AND", "OR", "DurationWhere", "LongestConsecutiveTrueDuration"} =>
                  PointsOf(es, ops)[n] = FlatPoints(es, op)
<1>1. Len(ops) \in Nat
  <2>1. ops \in Seq(ToSet(ops))
    BY DEF ResultsAreRight, Queryable
  <2>2. QED
    BY <2>1
<1>2. n \in 1 .. Len(ops) /\ n - 1 = upto
  BY <1>1 DEF ResultsAreRight
<1>3. PointsOf(es, ops)[n] = PointsTurn(es, ops, PointsOf(es, ops), n)
  BY <1>1, <1>2, PointsUnfold
<1>4. QED
  BY <1>2, <1>3 DEF PointsTurn

\* The result of the next operation is what it should be.
LEMMA NextIsRight ==
  ASSUME NEW es, NEW ops, NEW upto, NEW previous,
         ResultsAreRight(es, ops, upto, previous), NEW n, n = upto + 1, n <= Len(ops),
         ExecuteOperation(es, ops[n], previous).type # "error"
  PROVE  Right(es, ops, n, ExecuteOperation(es, ops[n], previous))
<1> DEFINE op == ops[n]
           r == ExecuteOperation(es, op, previous)
<1>1. Listed(es) /\ n \in 1 .. Len(ops)
  BY ListedNow, PointsOfNext
<1>2. Usable(op) /\ WellFormed(op) /\ WellTyped(r)
  BY <1>1, RequestIsUsable, ResultsAreTyped, OperationIsTyped DEF Usable
<1>3. op.Op \notin {"Not", "DurationInCurState"} => r = ExecuteFlat(es, op, previous)
  BY DEF ExecuteOperation
<1>4. CASE op.Op = "LatestEventToState"
  <2> DEFINE timeline == LatestEventToState(FilterEventsByType(es, op.Source), op.Equals)
  <2>1. r = StateTimeline(timeline)
    BY <1>3, <1>4, FlatCases
  <2>2. \A t \in Points : Covered(timeline, t) <=> t \in FlatPoints(es, op)
    BY <1>1, <1>4, StatePoints
  <2>3. PointsOf(es, ops)[n] = FlatPoints(es, op)
    BY <1>4, PointsOfNext
  <2> HIDE DEF timeline, r
  <2>4. QED
    BY <1>2, <1>4, <2>1, <2>2, <2>3 DEF Right, IsBool, IsState, StateTimeline, r
<1>5. CASE op.Op = "HasExisted"
  <2> DEFINE timeline == HasExisted(FilterEventsByType(es, op.Source), op.Equals)
  <2>1. r = BoolTimeline(timeline)
    BY <1>3, <1>5, FlatCases
  <2>2. timeline \in Seq(Interval) /\ \A t \in Points : TrueAt(timeline, t) <=> t \in FlatPoints(es, op)
    BY <1>1, <1>5, ExistedPoints
  <2>3. PointsOf(es, ops)[n] = FlatPoints(es, op)
    BY <1>5, PointsOfNext
  <2> HIDE DEF timeline, r
  <2>4. QED
    BY <1>2, <1>5, <2>1, <2>2, <2>3 DEF Right, IsBool, IsState, BoolTimeline, r
<1>6. CASE op.Op = "HasExistedWithin"
  <2> DEFINE timeline == HasExistedWithin(FilterEventsByType(es, op.Source), op.Equals,
                                          op.Params["window"])
  <2>1. r = IF "window" \notin DOMAIN op.Params THEN Failure ELSE BoolTimeline(timeline)
    BY <1>3, <1>6, FlatCases
  <2> HIDE DEF timeline
  <2>2. r = BoolTimeline(timeline) /\ op.Params["window"] \in Int
    BY <1>2, <1>6, <2>1 DEF Failure, WellFormed
  <2>3. timeline \in Seq(Interval) /\ \A t \in Points : TrueAt(timeline, t) <=> t \in FlatPoints(es, op)
    BY <1>1, <1>6, <2>2, WithinPoints DEF timeline
  <2>4. PointsOf(es, ops)[n] = FlatPoints(es, op)
    BY <1>6, PointsOfNext
  <2> HIDE DEF r
  <2>5. QED
    BY <1>2, <1>6, <2>2, <2>3, <2>4 DEF Right, IsBool, IsState, BoolTimeline, r
<1>7. CASE op.Op = "AND"
  <2> DEFINE timeline == AND(Conditions(op.ConditionAll, previous, TypesFor(op)))
  <2>1. r = BoolTimeline(timeline)
    BY <1>3, <1>7, FlatCases DEF TypesFor
  <2>2. op.ConditionAll \in Seq(ToSet(op.ConditionAll))
    BY <1>2, <1>7 DEF WellFormed
  <2>3. /\ timeline \in Seq(Interval)
        /\ \A t \in Points : TrueAt(timeline, t) <=>
             t \in AllPoints(PointsOf(es, ops), SeenBy(ops, op, op.ConditionAll, upto))
    BY <2>2, AndPoints
  <2>4. PointsOf(es, ops)[n] = AllPoints(PointsOf(es, ops), SeenBy(ops, op, op.ConditionAll, upto))
    BY <1>7, PointsOfNext
  <2> HIDE DEF timeline, r
  <2>5. QED
    BY <1>2, <1>7, <2>1, <2>3, <2>4 DEF Right, IsBool, IsState, BoolTimeline, r
<1>8. CASE op.Op = "OR"
  <2> DEFINE timeline == OR(Conditions(op.ConditionAny, previous, TypesFor(op)))
  <2>1. r = BoolTimeline(timeline)
    BY <1>3, <1>8, FlatCases DEF TypesFor
  <2>2. op.ConditionAny \in Seq(ToSet(op.ConditionAny))
    BY <1>2, <1>8 DEF WellFormed
  <2>3. /\ timeline \in Seq(Interval)
        /\ \A t \in Points : TrueAt(timeline, t) <=>
             t \in SomePoints(PointsOf(es, ops), SeenBy(ops, op, op.ConditionAny, upto))
    BY <2>2, OrPoints
  <2>4. PointsOf(es, ops)[n] = SomePoints(PointsOf(es, ops), SeenBy(ops, op, op.ConditionAny, upto))
    BY <1>8, PointsOfNext
  <2> HIDE DEF timeline, r
  <2>5. QED
    BY <1>2, <1>8, <2>1, <2>3, <2>4 DEF Right, IsBool, IsState, BoolTimeline, r
<1>9. CASE op.Op = "Not"
  <2> DEFINE nested == ExecuteFlat(es, op.Of, previous)
  <2>1. r = BoolTimeline(NOT(nested.value)) /\ nested.type = "BoolTimeline"
    BY <1>9 DEF ExecuteOperation, NotOf, Failure
  <2>2. nested.value \in Seq(Interval)
    BY <1>1, <1>2, <1>9, <2>1, ResultsAreTyped, FlatIsTyped DEF Usable, WellTyped
  <2> HIDE DEF nested, r
  <2>3. /\ NOT(nested.value) \in Seq(Interval)
        /\ \A t : ~TrueAt(NOT(nested.value), t)
    BY <2>2, NotTimes DEF TrueAt
  <2>4. PointsOf(es, ops)[n] = {}
    <3>1. PointsOf(es, ops)[n] = FlatPoints(es, op)
      BY <1>9, PointsOfNext
    <3>2. QED
      BY <1>9, <3>1 DEF FlatPoints
  <2>5. QED
    BY <1>2, <1>9, <2>1, <2>3, <2>4 DEF Right, IsBool, IsState, BoolTimeline, r
<1>10. CASE op.Op = "DurationInCurState"
  <2>1. r.type \notin {"StateTimeline", "BoolTimeline"}
    BY <1>10 DEF ExecuteOperation, DurationInCurStateOf, NumericTimeline, Failure
  <2>2. QED
    BY <1>2, <1>10, <2>1 DEF Right, IsBool, IsState
<1>11. CASE op.Op \notin {"LatestEventToState", "HasExisted", "HasExistedWithin", "AND", "OR",
                          "Not", "DurationInCurState"}
  <2>1. r.type \notin {"StateTimeline", "BoolTimeline"}
    BY <1>3, <1>11, FlatCases
  <2>2. QED
    BY <1>2, <1>11, <2>1 DEF Right, IsBool, IsState
<1>12. QED
  BY <1>4, <1>5, <1>6, <1>7, <1>8, <1>9, <1>10, <1>11

--------------------------------------------------------------------------------
(* One more result.                                                        *)

\* Of the results after an operation, one is its own and the others are those before.
LEMMA ResultsAfter ==
  ASSUME NEW es, NEW ops, NEW upto, NEW previous,
         ResultsAreRight(es, ops, upto, previous), NEW n, n = upto + 1, n <= Len(ops),
         NEW op, op = ops[n], NEW r, NEW after, after = With(previous, op.ID, r)
  PROVE  \A i \in CurrentOf(ops, n) :
           \/ i = n /\ after[ops[i].ID] = r
           \/ i \in CurrentOf(ops, upto) /\ after[ops[i].ID] = previous[ops[i].ID]
<1>1. Len(ops) \in Nat /\ upto \in Nat
  BY RequestIsUsable
<1>2. /\ DOMAIN after = DOMAIN previous \union {op.ID}
      /\ \A id \in DOMAIN after : after[id] = IF id = op.ID THEN r ELSE previous[id]
  BY DEF With
<1>3. ASSUME NEW i \in CurrentOf(ops, n)
      PROVE  \/ i = n /\ after[ops[i].ID] = r
             \/ i \in CurrentOf(ops, upto) /\ after[ops[i].ID] = previous[ops[i].ID]
  <2>1. i \in 1 .. n /\ \A j \in i + 1 .. n : ops[j].ID # ops[i].ID
    BY DEF CurrentOf, Named
  <2>2. CASE i = n
    BY <1>2, <2>2
  <2>3. CASE i # n
    <3>1. i \in 1 .. upto /\ n \in i + 1 .. n
      BY <1>1, <2>1, <2>3
    <3>2. ops[i].ID # op.ID
      BY <2>1, <3>1
    <3>3. i \in CurrentOf(ops, upto)
      <4>1. \A j \in i + 1 .. upto : j \in i + 1 .. n
        BY <1>1, <3>1
      <4>2. i \in Named(ops, ops[i].ID, upto)
        BY <2>1, <3>1, <4>1 DEF Named
      <4>3. QED
        BY <3>1, <4>2 DEF CurrentOf
    <3>4. ops[i].ID \in DOMAIN previous
      BY <3>1 DEF ResultsAreRight
    <3>5. QED
      BY <1>2, <3>2, <3>3, <3>4
  <2>4. QED
    BY <2>2, <2>3
<1>4. QED
  BY <1>2, <1>3

\* A new result is right, and results of other IDs stay so.
LEMMA NextKeepsRight ==
  ASSUME NEW es, NEW ops, NEW upto, NEW previous,
         ResultsAreRight(es, ops, upto, previous), NEW n, n = upto + 1, n <= Len(ops),
         ExecuteOperation(es, ops[n], previous).type # "error"
  PROVE  ResultsAreRight(es, ops, n,
                         With(previous, ops[n].ID, ExecuteOperation(es, ops[n], previous)))
<1> DEFINE op == ops[n]
           r == ExecuteOperation(es, op, previous)
           after == With(previous, op.ID, r)
<1>1. Right(es, ops, n, r)
  BY NextIsRight
<1>2. DOMAIN after = DOMAIN previous \union {op.ID}
  BY DEF With
<1>3. \A i \in CurrentOf(ops, n) :
        \/ i = n /\ after[ops[i].ID] = r
        \/ i \in CurrentOf(ops, upto) /\ after[ops[i].ID] = previous[ops[i].ID]
  <2> HIDE DEF r, after
  <2>1. after = With(previous, op.ID, r)
    BY DEF after
  <2>2. op = ops[n]
    OBVIOUS
  <2> HIDE DEF op
  <2>3. QED
    BY <2>1, <2>2, ResultsAfter
<1> HIDE DEF r, after
<1>4. upto \in Nat /\ Len(ops) \in Nat /\ n \in 0 .. Len(ops) /\ Queryable(es, ops)
  BY RequestIsUsable DEF ResultsAreRight
<1>5. DOMAIN after = {ops[i].ID : i \in 1 .. n}
  <2>1. \A i : i \in 1 .. n <=> i \in 1 .. upto \/ i = n
    BY <1>4
  <2>2. {ops[i].ID : i \in 1 .. n} = {ops[i].ID : i \in 1 .. upto} \union {op.ID}
    BY <2>1
  <2>3. DOMAIN previous = {ops[i].ID : i \in 1 .. upto}
    BY DEF ResultsAreRight
  <2>4. QED
    BY <1>2, <2>2, <2>3
<1>6. \A i \in CurrentOf(ops, n) : Right(es, ops, i, after[ops[i].ID])
  BY <1>1, <1>3 DEF ResultsAreRight
<1>7. QED
  BY <1>4, <1>5, <1>6 DEF ResultsAreRight, r, after

\* An operation means units of time up to the horizon.
LEMMA PointsArePoints ==
  ASSUME NEW es, NEW ops, NEW upto, NEW previous,
         ResultsAreRight(es, ops, upto, previous), NEW n \in CurrentOf(ops, upto)
  PROVE  IsState(ops[n]) \/ IsBool(ops[n]) => PointsOf(es, ops)[n] \subseteq Points
<1>1. n \in 1 .. upto /\ Len(ops) \in Nat /\ n \in 1 .. Len(ops)
  <2>1. ops \in Seq(ToSet(ops))
    BY DEF ResultsAreRight, Queryable
  <2>2. Len(ops) \in Nat
    BY <2>1
  <2>3. n \in 1 .. upto
    BY DEF CurrentOf, Named
  <2>4. QED
    BY <2>2, <2>3 DEF ResultsAreRight
<1>2. PointsOf(es, ops)[n] = PointsTurn(es, ops, PointsOf(es, ops), n)
  BY <1>1, PointsUnfold
<1>3. \A seen : /\ AllPoints(PointsOf(es, ops), seen) \subseteq Points
                /\ SomePoints(PointsOf(es, ops), seen) \subseteq Points
  BY DEF AllPoints, SomePoints
<1>4. FlatPoints(es, ops[n]) \subseteq Points
  BY DEF FlatPoints
<1>5. QED
  BY <1>2, <1>3, <1>4 DEF PointsTurn, IsState, IsBool

--------------------------------------------------------------------------------
(* The shapes of results.                                                  *)

BackwardsBy(ops, k) ==
  \E i \in 1 .. k : ops[i].Op = "HasExistedWithin" /\ ops[i].Params["window"] < 0

NegatedBy(ops, k) == \E i \in 1 .. k : ops[i].Op = "Not"

\* What is known of a timeline of booleans after k operations: it is true at no time
\* beyond the horizon, goes forward if no window is negative, and, if nothing is
\* negated, is true and disjoint, with gaps between its intervals if it is strict.
Fits(ops, timeline, k, strict) ==
  /\ \A t \in Int : TrueAt(timeline, t) => t \in Points
  /\ ~BackwardsBy(ops, k) => Forward(timeline)
  /\ ~NegatedBy(ops, k) => /\ AllTrue(timeline) /\ Disjoint(timeline)
                           /\ strict => Gapped(timeline)

\* The spans of a state come from no merging: the end of one can be the start of the
\* next.
Shaped(ops, r, k) ==
  /\ r.type = "BoolTimeline" => Fits(ops, r.value, k, TRUE)
  /\ r.type = "StateTimeline" => /\ \A t \in Int : Covered(r.value, t) => t \in Points
                                 /\ Forward(r.value) /\ Disjoint(r.value)

ResultsAreShaped(ops, upto, previous) ==
  \A id \in DOMAIN previous : Shaped(ops, previous[id], upto)

\* Only a combination that counts states has conditions that touch.
Strict(op) == op.Op # "DurationWhere"

\* A conjunction of timelines that fit does so.
LEMMA AndFits ==
  ASSUME NEW ops,
         NEW c \in Seq(Seq(Interval)), NEW k, NEW strict \in BOOLEAN,
         \A i \in 1 .. Len(c) : Fits(ops, c[i], k, strict)
  PROVE  Fits(ops, AND(c), k, strict)
<1> DEFINE all == AND(c)
<1>1. Len(c) \in Nat /\ \A i \in 1 .. Len(c) : c[i] \in Seq(Interval)
  OBVIOUS
<1>2. /\ all \in Seq(Interval)
      /\ \A t \in Int : TrueAt(all, t) <=>
           Len(c) > 0 /\ \A i \in 1 .. Len(c) : TrueAt(c[i], t)
  BY AndTimes
<1>3. \/ Len(c) = 1 /\ all = c[1]
      \/ Forward(all) /\ AllTrue(all) /\ Gapped(all)
  BY AndShape
<1> HIDE DEF all
<1>4. ASSUME NEW t \in Int, TrueAt(all, t) PROVE t \in Points
  <2>1. 1 \in 1 .. Len(c) /\ TrueAt(c[1], t)
    BY <1>1, <1>2, <1>4
  <2>2. QED
    BY <2>1 DEF Fits
<1>5. CASE Len(c) = 1 /\ all = c[1]
  <2>1. 1 \in 1 .. Len(c)
    BY <1>5
  <2>2. QED
    BY <1>5, <2>1 DEF all
<1>6. CASE Forward(all) /\ AllTrue(all) /\ Gapped(all)
  <2>1. Disjoint(all)
    BY <1>2, <1>6, GappedIsDisjoint
  <2>2. QED
    BY <1>4, <1>6, <2>1 DEF Fits, all
<1>7. QED
  BY <1>3, <1>5, <1>6

\* A disjunction of timelines that fit does so.
LEMMA OrFits ==
  ASSUME NEW ops,
         NEW c \in Seq(Seq(Interval)), NEW k, NEW strict \in BOOLEAN,
         \A i \in 1 .. Len(c) : Fits(ops, c[i], k, strict)
  PROVE  Fits(ops, OR(c), k, strict)
<1> DEFINE any == OR(c)
<1>1. /\ any \in Seq(Interval)
      /\ \A t \in Int : TrueAt(any, t) <=> \E i \in 1 .. Len(c) : TrueAt(c[i], t)
  BY OrTimes
<1>2. /\ (\A i \in 1 .. Len(c) : Forward(c[i])) => Forward(any)
      /\ (\A i \in 1 .. Len(c) : AllTrue(c[i])) =>
           AllTrue(any) /\ ((Len(c) = 1 /\ any = c[1]) \/ Gapped(any))
  BY OrShape
<1> HIDE DEF any
<1>3. ASSUME NEW t \in Int, TrueAt(any, t) PROVE t \in Points
  BY <1>1, <1>3 DEF Fits
<1>4. ~BackwardsBy(ops, k) => Forward(any)
  BY <1>2 DEF Fits
<1>5. ASSUME ~NegatedBy(ops, k) PROVE AllTrue(any) /\ Disjoint(any) /\ (strict => Gapped(any))
  <2>1. AllTrue(any) /\ ((Len(c) = 1 /\ any = c[1]) \/ Gapped(any))
    BY <1>2, <1>5 DEF Fits
  <2>2. CASE Len(c) = 1 /\ any = c[1]
    <3>1. 1 \in 1 .. Len(c)
      BY <2>2
    <3>2. QED
      BY <1>5, <2>1, <2>2, <3>1 DEF Fits
  <2>3. CASE Gapped(any)
    BY <1>1, <2>1, <2>3, GappedIsDisjoint
  <2>4. QED
    BY <2>1, <2>2, <2>3
<1>6. QED
  BY <1>3, <1>4, <1>5 DEF Fits, any

\* As a condition of an operation, a result fits.
LEMMA ShapedAsBool ==
  ASSUME NEW ops,
         NEW r, WellTyped(r), NEW k, Shaped(ops, r, k), NEW op, r.type \in TypesFor(op)
  PROVE  Fits(ops, AsBool(r), k, Strict(op))
<1>1. CASE r.type = "BoolTimeline"
  BY <1>1 DEF Shaped, AsBool, Fits
<1>2. CASE r.type = "StateTimeline"
  <2>1. ~Strict(op)
    BY <1>2 DEF TypesFor, Bool, Strict
  <2>2. AsBool(r) = ConvertStateTimelineToBoolTimeline(r.value) /\ Spans(r.value)
    BY <1>2 DEF AsBool, WellTyped
  <2>3. \A t \in Int : TrueAt(AsBool(r), t) => t \in Points
    BY <1>2, <2>2, StateAsBool DEF Shaped
  <2>4. AllTrue(AsBool(r)) /\ Forward(AsBool(r)) /\ Disjoint(AsBool(r))
    BY <1>2, <2>2, StateAsBoolShape DEF Shaped
  <2>5. QED
    BY <2>1, <2>3, <2>4 DEF Fits
<1>3. QED
  BY <1>1, <1>2 DEF TypesFor, Bool, BoolOrState

\* The conditions of an operation fit.
LEMMA ConditionsFit ==
  ASSUME NEW es, NEW ops, NEW upto, NEW previous,
         ResultsAreRight(es, ops, upto, previous), ResultsAreShaped(ops, upto, previous), NEW op, NEW ids, ids \in Seq(ToSet(ids))
  PROVE  LET c == Conditions(ids, previous, TypesFor(op))
         IN  /\ c \in Seq(Seq(Interval))
             /\ \A i \in 1 .. Len(c) : Fits(ops, c[i], upto, Strict(op))
<1> DEFINE c == Conditions(ids, previous, TypesFor(op))
           Seen == SeenBy(ops, op, ids, upto)
<1>1. /\ c \in Seq(Seq(Interval))
      /\ \A x : Among(x, c) <=> \E i \in Seen : x = AsBool(previous[ops[i].ID])
      /\ \A i \in Seen : /\ i \in CurrentOf(ops, upto) /\ ops[i].ID \in DOMAIN previous
                         /\ previous[ops[i].ID].type \in TypesFor(op)
  BY ConditionsAreSeen
<1> HIDE DEF c, Seen
<1>2. ASSUME NEW j \in 1 .. Len(c) PROVE Fits(ops, c[j], upto, Strict(op))
  <2>1. Among(c[j], c)
    BY DEF Among
  <2>2. PICK i \in Seen : c[j] = AsBool(previous[ops[i].ID])
    BY <1>1, <2>1
  <2>3. Shaped(ops, previous[ops[i].ID], upto)
    BY <1>1 DEF ResultsAreShaped
  <2>4. WellTyped(previous[ops[i].ID])
    BY <1>1 DEF ResultsAreRight, Right
  <2>5. QED
    BY <1>1, <2>2, <2>3, <2>4, ShapedAsBool
<1>3. QED
  BY <1>1, <1>2 DEF c

\* More operations can only bring a negative window or a negation.
LEMMA FitsLater ==
  ASSUME NEW ops,
         NEW k \in Nat, NEW r, Shaped(ops, r, k)
  PROVE  Shaped(ops, r, k + 1)
<1>1. \A i \in 1 .. k : i \in 1 .. k + 1
  OBVIOUS
<1>2. (~BackwardsBy(ops, k + 1) => ~BackwardsBy(ops, k)) /\ (~NegatedBy(ops, k + 1) => ~NegatedBy(ops, k))
  BY <1>1 DEF BackwardsBy, NegatedBy
<1>3. QED
  BY <1>2 DEF Shaped, Fits

\* The last of the operations can be the one with a negative window or a negation.
LEMMA FitsNow ==
  ASSUME NEW ops,
         NEW k \in Nat, NEW timeline, Fits(ops, timeline, k, TRUE)
  PROVE  Fits(ops, timeline, k + 1, TRUE)
<1>1. \A i \in 1 .. k : i \in 1 .. k + 1
  OBVIOUS
<1>2. (~BackwardsBy(ops, k + 1) => ~BackwardsBy(ops, k)) /\ (~NegatedBy(ops, k + 1) => ~NegatedBy(ops, k))
  BY <1>1 DEF BackwardsBy, NegatedBy
<1>3. QED
  BY <1>2 DEF Fits

\* No interval starts before the first unit of time or covers one after the last.
LEMMA EventsAreInTime ==
  ASSUME NEW es, NEW ops, NEW upto, NEW previous,
         ResultsAreRight(es, ops, upto, previous), NEW e \in ToSet(es)
  PROVE  /\ e.Timestamp \in Int /\ 0 <= e.Timestamp
         /\ e.Timestamp + Nanosecond <= Horizon + 1 /\ e.Timestamp + Hour <= Horizon + 1
         /\ \A i \in 1 .. Len(ops) :
              ops[i].Op = "HasExistedWithin" /\ "window" \in DOMAIN ops[i].Params =>
                e.Timestamp + ops[i].Params["window"] <= Horizon + 1
BY DEF ResultsAreRight, Queryable, Listed, Stamped

\* The events of a type are among the events.
LEMMA FilteredInTime ==
  ASSUME NEW es, NEW ops, NEW upto, NEW previous,
         ResultsAreRight(es, ops, upto, previous), NEW type, NEW t \in Int
  PROVE  LET s == FilterEventsByType(es, type)
         IN  /\ s \in Seq(ToSet(es)) /\ Stamped(ToSet(es))
             /\ (\E e \in ToSet(es) : Among(e, s) /\ e.Timestamp <= t) => t >= 0
             /\ \A value : LatestHas(s, t, value) => t >= 0
<1> DEFINE s == FilterEventsByType(es, type)
<1>1. s \in Seq(ToSet(es)) /\ Stamped(ToSet(es))
  BY ListedNow, FilterKeeps DEF Listed
<1> HIDE DEF s
<1>2. \A e \in ToSet(es) : e.Timestamp \in Int /\ 0 <= e.Timestamp
  BY EventsAreInTime
<1>3. ASSUME NEW value, LatestHas(s, t, value) PROVE t >= 0
  <2>1. PICK i \in 1 .. Len(s) : s[i].Timestamp <= t
    BY <1>3 DEF LatestHas, LatestIn
  <2>2. s[i] \in ToSet(es)
    BY <1>1
  <2>3. s[i].Timestamp \in Int /\ 0 <= s[i].Timestamp
    BY <1>2, <2>2
  <2>4. QED
    BY <2>1, <2>3
<1>4. (\E e \in ToSet(es) : Among(e, s) /\ e.Timestamp <= t) => t >= 0
  BY <1>2
<1>5. QED
  BY <1>1, <1>3, <1>4 DEF s

\* The result of the next operation has its shape.
LEMMA NextIsShaped ==
  ASSUME NEW es, NEW ops, NEW upto, NEW previous,
         ResultsAreRight(es, ops, upto, previous), ResultsAreShaped(ops, upto, previous), NEW n, n = upto + 1, n <= Len(ops),
         ExecuteOperation(es, ops[n], previous).type # "error"
  PROVE  Shaped(ops, ExecuteOperation(es, ops[n], previous), n)
<1> DEFINE op == ops[n]
           r == ExecuteOperation(es, op, previous)
           s == FilterEventsByType(es, op.Source)
           Timeline(timeline) == Fits(ops, timeline, n, TRUE)
<1>1. Listed(es) /\ n \in 1 .. Len(ops) /\ upto \in Nat /\ n \in 1 .. n
  BY ListedNow, PointsOfNext, RequestIsUsable
<1>2. Usable(op) /\ WellFormed(op) /\ WellTyped(r)
  BY <1>1, RequestIsUsable, ResultsAreTyped, OperationIsTyped DEF Usable
<1>3. op.Op \notin {"Not", "DurationInCurState"} => r = ExecuteFlat(es, op, previous)
  BY DEF ExecuteOperation
<1>4. s \in Seq(ToSet(es)) /\ Stamped(ToSet(es))
  BY <1>1, FilterKeeps DEF Listed
<1>5. \A t \in Int : t >= 0 /\ t <= Horizon => t \in Points
  BY QueryProcessorAssumption DEF Points
<1>6. \A timeline : Timeline(timeline) => Shaped(ops, BoolTimeline(timeline), n)
  BY DEF Shaped, BoolTimeline
<1> HIDE DEF s, Timeline
<1>7. CASE op.Op = "LatestEventToState"
  <2> DEFINE spans == LatestEventToState(s, op.Equals)
  <2>1. r = StateTimeline(spans)
    BY <1>3, <1>7, FlatCases DEF s
  <2>2. Forward(spans) /\ Disjoint(spans)
    BY <1>4, StateShape
  <2>3. ASSUME NEW t \in Int, Covered(spans, t) PROVE t \in Points
    <3>1. LatestHas(s, t, op.Equals) /\ \E e \in ToSet(es) : t < e.Timestamp + Nanosecond
      BY <1>4, <2>3, StateTimes
    <3>2. t >= 0
      BY <3>1, FilteredInTime DEF s
    <3>3. t <= Horizon
      BY <3>1, EventsAreInTime, QueryProcessorAssumption, TimelineAssumption
    <3>4. QED
      BY <1>5, <3>2, <3>3
  <2> HIDE DEF spans, r
  <2>4. QED
    BY <2>1, <2>2, <2>3 DEF Shaped, StateTimeline, r
<1>8. CASE op.Op = "HasExisted"
  <2> DEFINE timeline == HasExisted(s, op.Equals)
  <2>1. r = BoolTimeline(timeline)
    BY <1>3, <1>8, FlatCases DEF s
  <2>2. Forward(timeline) /\ AllTrue(timeline) /\ Gapped(timeline) /\ Disjoint(timeline)
    BY <1>4, HasExistedShape, HasExistedTimes, GappedIsDisjoint
  <2>3. ASSUME NEW t \in Int, TrueAt(timeline, t) PROVE t \in Points
    <3>1. /\ \E e \in ToSet(es) : Among(e, s) /\ e.Timestamp <= t
          /\ \E e \in ToSet(es) : t < e.Timestamp + Hour
      BY <1>4, <2>3, HasExistedTimes
    <3>2. t >= 0
      BY <3>1, FilteredInTime DEF s
    <3>3. t <= Horizon
      BY <3>1, EventsAreInTime, QueryProcessorAssumption, TimelineAssumption
    <3>4. QED
      BY <1>5, <3>2, <3>3
  <2> HIDE DEF timeline
  <2>4. Timeline(timeline)
    BY <2>2, <2>3 DEF Timeline, Fits
  <2>5. QED
    BY <1>6, <2>1, <2>4
<1>9. CASE op.Op = "HasExistedWithin"
  <2> DEFINE window == op.Params["window"]
             timeline == HasExistedWithin(s, op.Equals, window)
  <2>1. r = IF "window" \notin DOMAIN op.Params THEN Failure ELSE BoolTimeline(timeline)
    BY <1>3, <1>9, FlatCases DEF s
  <2> HIDE DEF timeline
  <2>2. r = BoolTimeline(timeline) /\ "window" \in DOMAIN op.Params /\ window \in Int
    BY <1>2, <1>9, <2>1 DEF Failure, WellFormed
  <2>3. BackwardsBy(ops, n) \/ window >= 0
    BY <1>1, <1>9, <2>2 DEF BackwardsBy
  <2>4. /\ window >= 0 => Forward(timeline)
        /\ timeline \in Seq(Interval) /\ AllTrue(timeline) /\ Gapped(timeline)
    <3> HIDE DEF window
    <3>1. QED
      BY <1>4, <2>2, HasExistedWithinShape, HasExistedWithinTimes DEF timeline
  <2>5. Disjoint(timeline)
    BY <2>4, GappedIsDisjoint
  <2>6. ASSUME NEW t \in Int, TrueAt(timeline, t) PROVE t \in Points
    <3>1. PICK e \in ToSet(es) : Among(e, s) /\ e.Timestamp <= t /\ t < e.Timestamp + window
      <4> HIDE DEF window
      <4>1. QED
        BY <1>4, <2>2, <2>6, HasExistedWithinTimes DEF timeline
    <3>2. t >= 0
      BY <3>1, FilteredInTime DEF s
    <3>3. e.Timestamp + window <= Horizon + 1 /\ e.Timestamp \in Int
      BY <1>1, <1>9, <2>2, EventsAreInTime
    <3> HIDE DEF window
    <3>4. t <= Horizon
      BY <2>2, <3>1, <3>3, QueryProcessorAssumption
    <3>5. QED
      BY <1>5, <3>2, <3>4
  <2>7. Timeline(timeline)
    BY <2>3, <2>4, <2>5, <2>6 DEF Timeline, Fits
  <2>8. QED
    BY <1>6, <2>2, <2>7
<1>10. CASE op.Op = "AND"
  <2> DEFINE c == Conditions(op.ConditionAll, previous, TypesFor(op))
  <2>1. r = BoolTimeline(AND(c))
    BY <1>3, <1>10, FlatCases DEF TypesFor
  <2>2. op.ConditionAll \in Seq(ToSet(op.ConditionAll)) /\ Strict(op) = TRUE
    BY <1>2, <1>10 DEF WellFormed, Strict
  <2>3. c \in Seq(Seq(Interval)) /\ \A i \in 1 .. Len(c) : Fits(ops, c[i], upto, TRUE)
    BY <2>2, ConditionsFit
  <2> HIDE DEF c
  <2>4. Fits(ops, AND(c), upto, TRUE)
    BY <2>3, AndFits
  <2>5. Timeline(AND(c))
    BY <1>1, <2>4, FitsNow DEF Timeline
  <2>6. QED
    BY <1>6, <2>1, <2>5
<1>11. CASE op.Op = "OR"
  <2> DEFINE c == Conditions(op.ConditionAny, previous, TypesFor(op))
  <2>1. r = BoolTimeline(OR(c))
    BY <1>3, <1>11, FlatCases DEF TypesFor
  <2>2. op.ConditionAny \in Seq(ToSet(op.ConditionAny)) /\ Strict(op) = TRUE
    BY <1>2, <1>11 DEF WellFormed, Strict
  <2>3. c \in Seq(Seq(Interval)) /\ \A i \in 1 .. Len(c) : Fits(ops, c[i], upto, TRUE)
    BY <2>2, ConditionsFit
  <2> HIDE DEF c
  <2>4. Fits(ops, OR(c), upto, TRUE)
    BY <2>3, OrFits
  <2>5. Timeline(OR(c))
    BY <1>1, <2>4, FitsNow DEF Timeline
  <2>6. QED
    BY <1>6, <2>1, <2>5
<1>12. CASE op.Op = "Not"
  <2> DEFINE nested == ExecuteFlat(es, op.Of, previous)
  <2>1. r = BoolTimeline(NOT(nested.value)) /\ nested.type = "BoolTimeline"
    BY <1>12 DEF ExecuteOperation, NotOf, Failure
  <2>2. nested.value \in Seq(Interval)
    BY <1>1, <1>2, <1>12, <2>1, ResultsAreTyped, FlatIsTyped DEF Usable, WellTyped
  <2> HIDE DEF nested
  <2>3. Forward(NOT(nested.value)) /\ \A t : ~TrueAt(NOT(nested.value), t)
    BY <2>2, NotTimes DEF TrueAt
  <2>4. NegatedBy(ops, n)
    BY <1>1, <1>12 DEF NegatedBy
  <2>5. Timeline(NOT(nested.value))
    BY <2>3, <2>4 DEF Timeline, Fits
  <2>6. QED
    BY <1>6, <2>1, <2>5
<1>13. CASE op.Op = "DurationInCurState"
  <2>1. r.type \notin {"StateTimeline", "BoolTimeline"}
    BY <1>13 DEF ExecuteOperation, DurationInCurStateOf, NumericTimeline, Failure
  <2>2. QED
    BY <2>1 DEF Shaped
<1>14. CASE op.Op \notin {"LatestEventToState", "HasExisted", "HasExistedWithin", "AND", "OR",
                          "Not", "DurationInCurState"}
  <2>1. r.type \notin {"StateTimeline", "BoolTimeline"}
    BY <1>3, <1>14, FlatCases
  <2>2. QED
    BY <2>1 DEF Shaped
<1>15. QED
  BY <1>7, <1>8, <1>9, <1>10, <1>11, <1>12, <1>13, <1>14

--------------------------------------------------------------------------------
(* Durations and streaks.                                                  *)

LongestRun(es, ops, n) ==
  Max({0} \union {d \in Runs(PointsOf(es, ops)[n]) : d >= ops[n].MinDuration})

\* What r measures of the n-th operation is what k operations let it be.
Measured(es, ops, n, r, k) ==
  /\ ops[n].Op = "DurationWhere" /\ ~BackwardsBy(ops, k) =>
       /\ r.value >= Cardinality(PointsOf(es, ops)[n])
       /\ ~NegatedBy(ops, k) => r.value = Cardinality(PointsOf(es, ops)[n])
  /\ ops[n].Op = "LongestConsecutiveTrueDuration" =>
       /\ r.value <= LongestRun(es, ops, n)
       /\ ~NegatedBy(ops, k) => r.value = LongestRun(es, ops, n)

\* With more operations a result still measures what it should.
LEMMA MeasuredLater ==
  ASSUME NEW es, NEW ops,
         NEW k \in Nat, NEW n, NEW r, Measured(es, ops, n, r, k)
  PROVE  Measured(es, ops, n, r, k + 1)
<1>1. \A i \in 1 .. k : i \in 1 .. k + 1
  OBVIOUS
<1>2. (~BackwardsBy(ops, k + 1) => ~BackwardsBy(ops, k)) /\ (~NegatedBy(ops, k + 1) => ~NegatedBy(ops, k))
  BY <1>1 DEF BackwardsBy, NegatedBy
<1>3. QED
  BY <1>2 DEF Measured

\* The duration of combined conditions is measured in their points.
LEMMA NextDuration ==
  ASSUME NEW es, NEW ops, NEW upto, NEW previous,
         ResultsAreRight(es, ops, upto, previous), ResultsAreShaped(ops, upto, previous), NEW n, n = upto + 1, n <= Len(ops),
         ops[n].Op = "DurationWhere"
  PROVE  Measured(es, ops, n, ExecuteOperation(es, ops[n], previous), upto)
<1> DEFINE op == ops[n]
           r == ExecuteOperation(es, op, previous)
           timeline == CombinedTimeline(op, previous)
           all == Conditions(op.ConditionAll, previous, TypesFor(op))
           any == Conditions(op.ConditionAny, previous, TypesFor(op))
           S == PointsOf(es, ops)[n]
<1>1. /\ n \in 1 .. Len(ops) /\ Len(ops) \in Nat /\ n - 1 = upto
      /\ Usable(op)
  BY PointsOfNext, RequestIsUsable
<1>2. op.ConditionAll \in Seq(ToSet(op.ConditionAll)) /\ op.ConditionAny \in Seq(ToSet(op.ConditionAny))
  BY <1>1 DEF Usable, WellFormed
<1>3. S = IF op.ConditionAll # <<>>
          THEN AllPoints(PointsOf(es, ops), SeenBy(ops, op, op.ConditionAll, upto))
          ELSE SomePoints(PointsOf(es, ops), SeenBy(ops, op, op.ConditionAny, upto))
  <2>1. S = PointsTurn(es, ops, PointsOf(es, ops), n)
    BY <1>1, PointsUnfold
  <2> HIDE DEF S
  <2>2. QED
    BY <1>1, <2>1 DEF PointsTurn
<1>4. r = Seconds(DurationWhere(timeline))
  BY DEF ExecuteOperation, ExecuteFlat
<1>5. timeline = IF op.ConditionAll # <<>> THEN AND(all) ELSE OR(any)
  BY DEF CombinedTimeline, TypesFor
<1>6. /\ AND(all) \in Seq(Interval) /\ Fits(ops, AND(all), upto, Strict(op))
      /\ \A t \in Points :
           TrueAt(AND(all), t) <=> t \in AllPoints(PointsOf(es, ops), SeenBy(ops, op, op.ConditionAll, upto))
  <2>1. all \in Seq(Seq(Interval)) /\ \A i \in 1 .. Len(all) : Fits(ops, all[i], upto, Strict(op))
    BY <1>2, ConditionsFit
  <2>2. Fits(ops, AND(all), upto, Strict(op))
    <3> HIDE DEF all
    <3>1. Strict(op) \in BOOLEAN
      BY DEF Strict
    <3>2. QED
      BY <2>1, <3>1, AndFits
  <2>3. QED
    BY <1>2, <2>2, AndPoints
<1>7. /\ OR(any) \in Seq(Interval) /\ Fits(ops, OR(any), upto, Strict(op))
      /\ \A t \in Points :
           TrueAt(OR(any), t) <=> t \in SomePoints(PointsOf(es, ops), SeenBy(ops, op, op.ConditionAny, upto))
  <2>1. any \in Seq(Seq(Interval)) /\ \A i \in 1 .. Len(any) : Fits(ops, any[i], upto, Strict(op))
    BY <1>2, ConditionsFit
  <2>2. Fits(ops, OR(any), upto, Strict(op))
    <3> HIDE DEF any
    <3>1. Strict(op) \in BOOLEAN
      BY DEF Strict
    <3>2. QED
      BY <2>1, <3>1, OrFits
  <2>3. QED
    BY <1>2, <2>2, OrPoints
<1>8. \A seen : /\ AllPoints(PointsOf(es, ops), seen) \subseteq Points
                /\ SomePoints(PointsOf(es, ops), seen) \subseteq Points
  BY DEF AllPoints, SomePoints
<1> HIDE DEF timeline, all, any, S, r
<1>9. /\ timeline \in Seq(Interval) /\ Fits(ops, timeline, upto, Strict(op))
      /\ \A t \in Points : TrueAt(timeline, t) <=> t \in S
      /\ S \subseteq Points
  BY <1>3, <1>5, <1>6, <1>7, <1>8
<1>10. \A t : t \in S <=> t \in Int /\ TrueAt(timeline, t)
  <2>1. Points \subseteq Int
    BY QueryProcessorAssumption DEF Points
  <2>2. QED
    BY <1>9, <2>1 DEF Fits
<1>11. ASSUME ~BackwardsBy(ops, upto)
       PROVE  /\ DurationWhere(timeline) >= Cardinality(S)
              /\ ~NegatedBy(ops, upto) => DurationWhere(timeline) = Cardinality(S)
  <2>1. Forward(timeline) /\ (~NegatedBy(ops, upto) => Disjoint(timeline))
    BY <1>9, <1>11 DEF Fits
  <2>2. QED
    BY <1>9, <1>10, <2>1, DurationCounts
<1>12. r.value = DurationWhere(timeline)
  BY <1>4 DEF Seconds
<1>13. QED
  BY <1>11, <1>12 DEF Measured, S, r

\* The streak of a result is measured in its operation's points.
LEMMA NextStreak ==
  ASSUME NEW es, NEW ops, NEW upto, NEW previous,
         ResultsAreRight(es, ops, upto, previous), ResultsAreShaped(ops, upto, previous), NEW n, n = upto + 1, n <= Len(ops),
         ops[n].Op = "LongestConsecutiveTrueDuration",
         ExecuteOperation(es, ops[n], previous).type # "error"
  PROVE  Measured(es, ops, n, ExecuteOperation(es, ops[n], previous), upto)
<1> DEFINE op == ops[n]
           r == ExecuteOperation(es, op, previous)
           id == op.SourceOperation
           c == previous[id].value
           min == op.MinDuration
           S == PointsOf(es, ops)[n]
<1>1. /\ n \in 1 .. Len(ops) /\ Len(ops) \in Nat /\ n - 1 = upto
      /\ upto \in Nat /\ Usable(op)
  BY PointsOfNext, RequestIsUsable
<1>2. min \in Int
  BY <1>1 DEF Usable, WellFormed
<1>3. S = UNION {PointsOf(es, ops)[i] : i \in Named(ops, id, upto)}
  <2>1. S = PointsTurn(es, ops, PointsOf(es, ops), n)
    BY <1>1, PointsUnfold
  <2> HIDE DEF S
  <2>2. QED
    BY <1>1, <2>1 DEF PointsTurn
<1>4. /\ id \in DOMAIN previous /\ previous[id].type = "BoolTimeline"
      /\ r = Seconds(LongestConsecutiveTrueDuration(c, min))
  BY DEF ExecuteOperation, ExecuteFlat, LongestOfSource, Failure
<1>5. PICK i \in Named(ops, id, upto) : i \in CurrentOf(ops, upto) /\ Right(es, ops, i, previous[id])
  BY <1>4, RightResults
<1>6. ASSUME NEW j \in Named(ops, id, upto) PROVE j = i
  <2>1. /\ i \in 1 .. upto /\ ops[i].ID = id /\ \A k \in i + 1 .. upto : ops[k].ID # id
        /\ j \in 1 .. upto /\ ops[j].ID = id /\ \A k \in j + 1 .. upto : ops[k].ID # id
    BY <1>5 DEF Named
  <2>2. j \notin i + 1 .. upto /\ i \notin j + 1 .. upto
    BY <2>1
  <2>3. QED
    BY <1>1, <2>1, <2>2
<1>7. S = PointsOf(es, ops)[i]
  BY <1>3, <1>5, <1>6
<1>8. /\ c \in Seq(Interval) /\ IsBool(ops[i])
      /\ \A t \in Points : TrueAt(c, t) <=> t \in PointsOf(es, ops)[i]
  BY <1>4, <1>5 DEF Right, WellTyped
<1>9. Fits(ops, c, upto, TRUE)
  BY <1>4 DEF ResultsAreShaped, Shaped
<1> HIDE DEF r, c, min, S
<1>10. S \subseteq Points
  BY <1>5, <1>7, <1>8, PointsArePoints
<1>11. \A t \in Int : TrueAt(c, t) <=> t \in S
  BY <1>7, <1>8, <1>9, <1>10 DEF Fits
<1>12. /\ LongestConsecutiveTrueDuration(c, min) <= Max({0} \union {d \in Runs(S) : d >= min})
       /\ AllTrue(c) /\ Gapped(c) =>
            LongestConsecutiveTrueDuration(c, min) = Max({0} \union {d \in Runs(S) : d >= min})
  <2>1. LiesIn(S, 0, Horizon)
    BY <1>10, QueryProcessorAssumption DEF Points, LiesIn
  <2>2. QED
    BY <1>2, <1>8, <1>11, <2>1, StreakIsRun
<1>13. ~NegatedBy(ops, upto) => AllTrue(c) /\ Gapped(c)
  BY <1>9 DEF Fits
<1>14. r.value = LongestConsecutiveTrueDuration(c, min)
  BY <1>4 DEF Seconds
<1>15. LongestRun(es, ops, n) = Max({0} \union {d \in Runs(S) : d >= min})
  BY DEF LongestRun, S, min
<1>16. QED
  BY <1>12, <1>13, <1>14, <1>15 DEF Measured, r

--------------------------------------------------------------------------------
(* The invariant of a query.                                               *)

\* What is known of the results after upto operations: timelines are right, have their
\* shapes, and what is measured is what it should be.
GoodResults(es, ops, upto, previous) ==
  /\ ResultsAreRight(es, ops, upto, previous)
  /\ ResultsAreShaped(ops, upto, previous)
  /\ \A i \in CurrentOf(ops, upto) : Measured(es, ops, i, previous[ops[i].ID], upto)

\* At first there is nothing to be wrong.
LEMMA NoResultIsGood ==
  ASSUME NEW es, NEW ops, Queryable(es, ops)
  PROVE  GoodResults(es, ops, 0, <<>>)
<1>1. ResultsAreRight(es, ops, 0, <<>>) /\ CurrentOf(ops, 0) = {} /\ DOMAIN <<>> = {}
  BY NoResultIsRight
<1>2. QED
  BY <1>1 DEF GoodResults, ResultsAreShaped

\* The result of an operation is as good as those before it.
LEMMA NextKeepsGood ==
  ASSUME NEW es, NEW ops, NEW upto, NEW previous,
         GoodResults(es, ops, upto, previous), NEW n, n = upto + 1, n <= Len(ops),
         ExecuteOperation(es, ops[n], previous).type # "error"
  PROVE  GoodResults(es, ops, n,
                     With(previous, ops[n].ID, ExecuteOperation(es, ops[n], previous)))
<1> DEFINE op == ops[n]
           r == ExecuteOperation(es, op, previous)
           after == With(previous, op.ID, r)
<1>1. /\ ResultsAreRight(es, ops, upto, previous) /\ ResultsAreShaped(ops, upto, previous)
      /\ \A i \in CurrentOf(ops, upto) : Measured(es, ops, i, previous[ops[i].ID], upto)
  BY DEF GoodResults
<1>2. /\ DOMAIN after = DOMAIN previous \union {op.ID}
      /\ \A id \in DOMAIN after : after[id] = IF id = op.ID THEN r ELSE previous[id]
  BY DEF With
<1>3. \A i \in CurrentOf(ops, n) :
        \/ i = n /\ after[ops[i].ID] = r
        \/ i \in CurrentOf(ops, upto) /\ after[ops[i].ID] = previous[ops[i].ID]
  <2> HIDE DEF r, after
  <2>1. after = With(previous, op.ID, r)
    BY DEF after
  <2>2. op = ops[n]
    OBVIOUS
  <2> HIDE DEF op
  <2>3. QED
    BY <1>1, <2>1, <2>2, ResultsAfter
<1>4. Shaped(ops, r, n)
  BY <1>1, NextIsShaped
<1>5. Measured(es, ops, n, r, upto)
  <2>1. op.Op \notin {"DurationWhere", "LongestConsecutiveTrueDuration"} =>
          Measured(es, ops, n, r, upto)
    BY DEF Measured
  <2>2. QED
    BY <1>1, <2>1, NextDuration, NextStreak
<1>6. ResultsAreRight(es, ops, n, after)
  BY <1>1, NextKeepsRight
<1>7. upto \in Nat
  BY <1>1, RequestIsUsable
<1> HIDE DEF r, after
<1>8. ResultsAreShaped(ops, n, after)
  <2>1. ASSUME NEW id \in DOMAIN after PROVE Shaped(ops, after[id], n)
    <3>1. CASE id = op.ID
      BY <1>2, <1>4, <3>1
    <3>2. CASE id # op.ID
      BY <1>1, <1>2, <1>7, <3>2, FitsLater DEF ResultsAreShaped
    <3>3. QED
      BY <3>1, <3>2
  <2>2. QED
    BY <2>1 DEF ResultsAreShaped
<1>9. ASSUME NEW i \in CurrentOf(ops, n) PROVE Measured(es, ops, i, after[ops[i].ID], n)
  <2>1. Measured(es, ops, i, after[ops[i].ID], upto)
    BY <1>1, <1>5, <1>3
  <2>2. QED
    BY <1>7, <2>1, MeasuredLater
<1>10. QED
  BY <1>6, <1>8, <1>9 DEF GoodResults, r, after

QueryInv == GoodResults(events, operations, executed, results)

\* There are no results at first.
LEMMA InitIsGood == Init => QueryInv
<1> SUFFICES ASSUME Init PROVE QueryInv
  OBVIOUS
<1>1. executed = 0 /\ results = <<>> /\ Queryable(events, operations)
  BY QueriesAreQueryable DEF Init
<1>2. QED
  BY <1>1, NoResultIsGood DEF QueryInv

\* A query in one piece keeps its results good.
LEMMA NextKeepsQueryInv == QueryInv /\ [Next]_vars => QueryInv'
<1> SUFFICES ASSUME QueryInv, [Next]_vars PROVE QueryInv'
  OBVIOUS
<1>1. ASSUME UNCHANGED <<events, operations, executed, results>> PROVE QueryInv'
  BY <1>1 DEF QueryInv
<1>2. CASE Execute
  <2> DEFINE n == executed + 1
             r == ExecuteOperation(events, operations[n], results)
  <2>1. CASE r.type = "error"
    BY <1>1, <1>2, <2>1 DEF Execute
  <2>2. CASE r.type # "error"
    <3>1. /\ executed' = n /\ executed < Len(operations) /\ UNCHANGED <<events, operations>>
          /\ results' = With(results, operations[n].ID, r)
      BY <1>2, <2>2 DEF Execute
    <3>2. n <= Len(operations)
      <4>1. executed \in Nat /\ Len(operations) \in Nat
        BY RequestIsUsable DEF QueryInv, GoodResults
      <4>2. QED
        BY <3>1, <4>1
    <3>3. GoodResults(events, operations, n, With(results, operations[n].ID, r))
      BY <2>2, <3>2, NextKeepsGood DEF QueryInv
    <3> HIDE DEF n, r
    <3>4. QED
      BY <3>1, <3>3 DEF QueryInv
  <2>3. QED
    BY <2>1, <2>2
<1>3. CASE Finish
  BY <1>1, <1>3 DEF Finish
<1>4. CASE UNCHANGED vars
  BY <1>1, <1>4 DEF vars
<1>5. QED
  BY <1>2, <1>3, <1>4 DEF Next

\* What the invariant says of the timelines.
LEMMA RightTimelines == QueryInv => TimelinesMeanTheirPoints
<1> SUFFICES ASSUME QueryInv, NEW n \in Current
             PROVE  /\ IsState(operations[n]) =>
                         {t \in Points : \E i \in DOMAIN ResultOf(n).value :
                            Covers(ResultOf(n).value[i], t)} = TruePoints[n]
                    /\ IsBool(operations[n]) =>
                         {t \in Points : \E i \in DOMAIN ResultOf(n).value :
                            /\ ResultOf(n).value[i].Value
                            /\ Covers(ResultOf(n).value[i], t)} = TruePoints[n]
  BY DEF TimelinesMeanTheirPoints
<1>1. /\ ResultsAreRight(events, operations, executed, results)
      /\ n \in CurrentOf(operations, executed) /\ TruePoints = PointsOf(events, operations)
  BY DEF QueryInv, GoodResults, Current, TruePoints
<1>2. Right(events, operations, n, ResultOf(n))
  BY <1>1 DEF ResultsAreRight, ResultOf
<1>3. IsState(operations[n]) \/ IsBool(operations[n]) => TruePoints[n] \subseteq Points
  BY <1>1, PointsArePoints
<1> DEFINE timeline == ResultOf(n).value
<1>4. ASSUME IsState(operations[n])
      PROVE  {t \in Points : \E i \in DOMAIN timeline : Covers(timeline[i], t)} = TruePoints[n]
  <2>1. /\ DOMAIN timeline = 1 .. Len(timeline)
        /\ \A t \in Points : Covered(timeline, t) <=> t \in TruePoints[n]
    BY <1>1, <1>2, <1>4 DEF Right, WellTyped, Spans
  <2> HIDE DEF timeline
  <2>2. \A t : Covered(timeline, t) <=> \E i \in DOMAIN timeline : Covers(timeline[i], t)
    BY <2>1 DEF Covered, Covers, During
  <2>3. QED
    BY <1>3, <1>4, <2>1, <2>2
<1>5. ASSUME IsBool(operations[n])
      PROVE  {t \in Points : \E i \in DOMAIN timeline :
                timeline[i].Value /\ Covers(timeline[i], t)} = TruePoints[n]
  <2>1. /\ timeline \in Seq(Interval)
        /\ \A t \in Points : TrueAt(timeline, t) <=> t \in TruePoints[n]
    BY <1>1, <1>2, <1>5 DEF Right, WellTyped
  <2> HIDE DEF timeline
  <2>2. DOMAIN timeline = 1 .. Len(timeline)
    BY <2>1
  <2>3. \A t : TrueAt(timeline, t) <=>
          \E i \in DOMAIN timeline : timeline[i].Value /\ Covers(timeline[i], t)
    BY <2>2 DEF TrueAt, Covers, During
  <2>4. QED
    BY <1>3, <1>5, <2>1, <2>3
<1>6. QED
  BY <1>4, <1>5

\* What the invariant says of the measures.
LEMMA GoodMeasures == QueryInv => MeasuresMeanTheirPoints
<1> SUFFICES ASSUME QueryInv PROVE MeasuresMeanTheirPoints
  OBVIOUS
<1>1. (HasBackwards <=> BackwardsBy(operations, executed))
      /\ (HasNegation <=> NegatedBy(operations, executed))
  BY DEF HasBackwards, HasNegation, BackwardsBy, NegatedBy
<1>2. \A i \in Current : Measured(events, operations, i, ResultOf(i), executed)
  BY DEF QueryInv, GoodResults, Current, ResultOf
<1>3. QED
  BY <1>1, <1>2 DEF MeasuresMeanTheirPoints, Measured, LongestRun, TruePoints

\* A timeline that ProcessQuery keeps for an ID is true at exactly the times that the
\* operation with that ID means: no sorting, cutting, merging or intersecting of
\* intervals in operators.go loses a time or adds one, for any list of
\* events and any request.
THEOREM TimelinesAreExact == Spec => []TimelinesMeanTheirPoints
BY InitIsGood, NextKeepsQueryInv, RightTimelines, PTL DEF Spec

\* What DurationWhere sums is the number of units in which its conditions hold, and
\* what LongestConsecutiveTrueDuration finds is the longest run of units, but for
\* negative windows and negated timelines: no unit counts twice and no run is cut, for
\* any list of events and any request.
THEOREM MeasuresAreExact == Spec => []MeasuresMeanTheirPoints
BY InitIsGood, NextKeepsQueryInv, GoodMeasures, PTL DEF Spec

--------------------------------------------------------------------------------
(* The modes.                                                              *)

\* The turns that a query has taken are those of ProcessQuery.
Agrees(f) ==
  /\ status = "running" =>
       /\ f[executed].results = results /\ f[executed].last.type # "error"
       /\ executed > 0 => /\ operations[executed].ID \in DOMAIN results
                          /\ f[executed].last = results[operations[executed].ID]
  /\ status = "done" => answer = AnswerOf(f[Len(operations)])

ModesInv ==
  /\ QueryInv
  /\ ChosenMode = "single" => \A f : IsQuery(f, events, operations) => Agrees(f)
  /\ status = "done" /\ ChosenMode = "concurrent" =>
       answer = AssembleChunkResults(ChunkResults(lost)) /\ answer.type # "error"
  /\ status = "done" /\ ChosenMode = "micro-workflow" =>
       answer \in AssembleOperatorResults(OperatorResults(lost)) /\ answer.type # "error"

\* Nothing is executed at first.
LEMMA ModesInitHolds == ModesInit => ModesInv
<1> SUFFICES ASSUME ModesInit PROVE ModesInv
  OBVIOUS
<1>1. Init /\ status = "running" /\ executed = 0 /\ results = <<>>
  BY DEF ModesInit, Init
<1>2. QueryInv
  BY <1>1, InitIsGood
<1>3. ASSUME NEW f, IsQuery(f, events, operations) PROVE Agrees(f)
  <2>1. f[0] = [last |-> Seconds(0), results |-> <<>>]
    BY <1>2, <1>3, RequestIsUsable, QueryStep DEF QueryInv, GoodResults
  <2>2. f[0].results = <<>> /\ f[0].last = Seconds(0)
    BY <2>1
  <2>3. QED
    BY <1>1, <2>2 DEF Agrees, Seconds
<1>4. QED
  BY <1>1, <1>2, <1>3 DEF ModesInv

\* What is known of the events and operations of a query.
LEMMA QueryFacts ==
  ASSUME QueryInv
  PROVE  /\ Queryable(events, operations) /\ Listed(events) /\ Len(operations) \in Nat
         /\ executed \in 0 .. Len(operations) /\ operations \in Seq(ToSet(operations))
         /\ \A i \in 1 .. Len(operations) : Usable(operations[i])
<1>1. ResultsAreRight(events, operations, executed, results)
  BY DEF QueryInv, GoodResults
<1>2. QED
  BY <1>1, RequestIsUsable DEF ResultsAreRight

\* A turn of a query in one piece is one of ProcessQuery.
LEMMA ExecuteAgrees ==
  ASSUME QueryInv, Execute, NEW f, IsQuery(f, events, operations), Agrees(f)
  PROVE  Agrees(f)'
<1> DEFINE op == operations[executed + 1]
           r == ExecuteOperation(events, op, results)
<1>1. /\ status = "running" /\ executed \in 0 .. Len(operations) - 1 /\ executed \in Nat
      /\ UNCHANGED <<events, operations, answer>>
      /\ IF r.type = "error"
         THEN status' = "error" /\ UNCHANGED <<executed, results>>
         ELSE /\ results' = With(results, op.ID, r)
              /\ executed' = executed + 1
              /\ UNCHANGED status
  <2>1. Len(operations) \in Nat /\ executed \in 0 .. Len(operations)
    BY QueryFacts
  <2>2. QED
    BY <2>1 DEF Execute
<1>2. f[executed].results = results /\ f[executed].last.type # "error"
  BY <1>1 DEF Agrees
<1>3. f[executed + 1] = ExecuteNext(events, f[executed], op)
  BY <1>1, QueryFacts, QueryStep
<1>4. f[executed + 1] = Recorded(f[executed], op, r)
  BY <1>2, <1>3 DEF ExecuteNext
<1> HIDE DEF r
<1>5. f[executed + 1].last = r /\ f[executed + 1].results = With(results, op.ID, r)
  BY <1>2, <1>4 DEF Recorded
<1>6. op.ID \in DOMAIN With(results, op.ID, r) /\ With(results, op.ID, r)[op.ID] = r
  BY DEF With
<1>7. CASE r.type = "error"
  BY <1>1, <1>7 DEF Agrees
<1>8. CASE r.type # "error"
  <2>1. executed' = executed + 1 /\ results' = With(results, op.ID, r) /\ status' = "running"
    BY <1>1, <1>8
  <2>2. operations'[executed'].ID = op.ID
    BY <1>1, <2>1
  <2>3. QED
    BY <1>5, <1>6, <1>8, <2>1, <2>2 DEF Agrees
<1>9. QED
  BY <1>7, <1>8

\* The end of a query in one piece is that of ProcessQuery.
LEMMA FinishAgrees ==
  ASSUME QueryInv, Finish, NEW f, IsQuery(f, events, operations), Agrees(f)
  PROVE  Agrees(f)'
<1> DEFINE m == Len(operations)
<1>1. /\ status = "running" /\ executed = m /\ status' = "done"
      /\ UNCHANGED <<events, operations, executed, results>>
      /\ answer' = IF operations = <<>> THEN Seconds(0)
                   ELSE IF "result" \in DOMAIN results THEN results["result"]
                   ELSE results[Last(operations).ID]
  BY DEF Finish
<1>2. /\ f[m].results = results /\ f[m].last.type # "error"
      /\ m > 0 => f[m].last = results[operations[m].ID]
  BY <1>1 DEF Agrees
<1>3. /\ m \in Nat /\ operations \in Seq(ToSet(operations))
      /\ f[0] = [last |-> Seconds(0), results |-> <<>>]
  BY QueryFacts, QueryStep
<1>4. CASE m = 0
  <2>1. operations = <<>>
    BY <1>3, <1>4
  <2>2. f[m].last = Seconds(0) /\ f[m].results = <<>>
    BY <1>3, <1>4
  <2>3. "result" \notin DOMAIN f[m].results
    BY <2>2
  <2> HIDE DEF m
  <2>4. AnswerOf(f[m]) = Seconds(0)
    BY <2>2, <2>3 DEF AnswerOf
  <2>5. QED
    BY <1>1, <2>1, <2>4 DEF Agrees, m
<1>5. CASE m # 0
  <2>1. operations # <<>> /\ Last(operations) = operations[m] /\ m > 0
    BY <1>3, <1>5 DEF Last
  <2> HIDE DEF m
  <2>2. AnswerOf(f[m]) = IF "result" \in DOMAIN results THEN results["result"]
                         ELSE results[operations[m].ID]
    BY <1>2, <2>1 DEF AnswerOf
  <2>3. answer' = AnswerOf(f[m])
    BY <1>1, <2>1, <2>2
  <2>4. QED
    BY <1>1, <2>3 DEF Agrees, m
<1>6. QED
  BY <1>4, <1>5

\* The mode is the request's or depends on the number of events.
LEMMA ModeStays ==
  ASSUME UNCHANGED <<events, mode>>
  PROVE  ChosenMode' = ChosenMode
BY DEF ChosenMode

\* What is assembled depends on the events, the operations and what is lost.
LEMMA AssemblyStays ==
  ASSUME UNCHANGED <<events, operations>>
  PROVE  /\ (AssembleChunkResults(ChunkResults(lost)))' = AssembleChunkResults(ChunkResults(lost'))
         /\ (AssembleOperatorResults(OperatorResults(lost)))' =
              AssembleOperatorResults(OperatorResults(lost'))
<1>1. (AssembleChunkResults(ChunkResults(lost)))' = AssembleChunkResults(ChunkResults(lost'))
  BY DEF AssembleChunkResults, ChunkResults, CreateEventChunks, Slices
<1>2. (AssembleOperatorResults(OperatorResults(lost)))' =
        AssembleOperatorResults(OperatorResults(lost'))
  BY DEF AssembleOperatorResults, OperatorResults, Parts, PartitionEvents, Slices
<1>3. QED
  BY <1>1, <1>2

\* Every step keeps the invariant.
LEMMA ModesInvStep == ModesInv /\ [ModesNext]_modeVars => ModesInv'
<1> SUFFICES ASSUME ModesInv, [ModesNext]_modeVars PROVE ModesInv'
  OBVIOUS
<1>1. ASSUME NEW result, AnswerWith(result) PROVE QueryInv' /\ ChosenMode' = ChosenMode
                                                  /\ UNCHANGED <<events, operations>>
  BY <1>1, ModeStays DEF AnswerWith, ModesInv, QueryInv
<1>2. CASE ProcessEvents
  <2>1. ChosenMode = "single" /\ Next /\ UNCHANGED <<mode, events, operations>>
    BY <1>2 DEF ProcessEvents, Next, Execute, Finish
  <2>2. QueryInv'
    BY <2>1, NextKeepsQueryInv DEF ModesInv
  <2>3. ASSUME NEW f, IsQuery(f, events, operations) PROVE Agrees(f)'
    BY <2>1, <2>3, ExecuteAgrees, FinishAgrees DEF Next, ModesInv
  <2>4. \A f : IsQuery(f, events, operations)' => IsQuery(f, events, operations)
    BY <2>1 DEF IsQuery, QueryTurn
  <2>5. ChosenMode' = "single"
    BY <2>1, ModeStays
  <2>6. QED
    BY <2>2, <2>3, <2>4, <2>5 DEF ModesInv
<1>3. CASE ProcessEventsConcurrently
  <2>1. /\ ChosenMode = "concurrent"
        /\ AnswerWith(AssembleChunkResults(ChunkResults(lost')))
    BY <1>3 DEF ProcessEventsConcurrently
  <2>2. QueryInv' /\ ChosenMode' = "concurrent" /\ UNCHANGED <<events, operations>>
    BY <1>1, <2>1
  <2>3. /\ answer' = AssembleChunkResults(ChunkResults(lost'))
        /\ status' = "done" => answer'.type # "error"
    BY <2>1 DEF AnswerWith
  <2>4. answer' = (AssembleChunkResults(ChunkResults(lost)))'
    BY <2>2, <2>3, AssemblyStays
  <2>5. QED
    BY <2>2, <2>3, <2>4 DEF ModesInv
<1>4. CASE ProcessEventsWithMicroWorkflows
  <2>1. /\ ChosenMode = "micro-workflow"
        /\ \E result \in AssembleOperatorResults(OperatorResults(lost')) : AnswerWith(result)
    BY <1>4 DEF ProcessEventsWithMicroWorkflows
  <2>2. QueryInv' /\ ChosenMode' = "micro-workflow" /\ UNCHANGED <<events, operations>>
    BY <1>1, <2>1
  <2>3. /\ answer' \in AssembleOperatorResults(OperatorResults(lost'))
        /\ status' = "done" => answer'.type # "error"
    BY <2>1 DEF AnswerWith
  <2>4. answer' \in (AssembleOperatorResults(OperatorResults(lost)))'
    BY <2>2, <2>3, AssemblyStays
  <2>5. QED
    BY <2>2, <2>3, <2>4 DEF ModesInv
<1>5. CASE UNCHANGED modeVars
  <2>1. UNCHANGED <<events, operations, executed, results, status, answer, mode, lost>>
    BY <1>5 DEF modeVars, vars
  <2>2. QueryInv' /\ ChosenMode' = ChosenMode
    BY <2>1, ModeStays DEF ModesInv, QueryInv
  <2>3. \A f : /\ IsQuery(f, events, operations)' => IsQuery(f, events, operations)
               /\ Agrees(f) => Agrees(f)'
    BY <2>1 DEF IsQuery, QueryTurn, Agrees
  <2>4. /\ (AssembleChunkResults(ChunkResults(lost)))' = AssembleChunkResults(ChunkResults(lost))
        /\ (AssembleOperatorResults(OperatorResults(lost)))' =
             AssembleOperatorResults(OperatorResults(lost))
    BY <2>1, AssemblyStays
  <2>5. QED
    BY <2>1, <2>2, <2>3, <2>4 DEF ModesInv
<1>6. QED
  BY <1>2, <1>3, <1>4, <1>5 DEF ModesNext

--------------------------------------------------------------------------------
(* One part.                                                               *)

\* Events that fit one slice are that slice.
LEMMA OneSlice ==
  ASSUME Listed(events), NEW size \in Nat \ {0}, Len(Slices(size)) = 1
  PROVE  Slices(size) = <<events>> /\ Len(events) <= size
<1> DEFINE n == Len(events)
           k == (n + size - 1) \div size
<1>1. n \in Nat /\ n + size - 1 \in Nat /\ events \in Seq(ToSet(events))
  BY DEF Listed
<1>2. /\ k \in Nat /\ size * k <= n + size - 1 /\ n + size - 1 < size * k + size
  BY <1>1, DivBounds
<1>3. Slices(size) = [i \in 1 .. k |-> SubSeq(events, (i - 1) * size + 1, Min({i * size, n}))]
  BY DEF Slices
<1> HIDE DEF k
<1>4. k = 1
  BY <1>2, <1>3
<1>5. n >= 1 /\ n <= size
  BY <1>1, <1>2, <1>4
<1>6. Min({1 * size, n}) = n
  <2>1. 1 * size = size /\ n \in Int /\ size \in Int
    BY <1>1
  <2> HIDE DEF n
  <2>2. Min({size, n}) = n
    BY <1>5, <2>1, MinOfTwo
  <2>3. QED
    BY <2>1, <2>2
<1>7. SubSeq(events, (1 - 1) * size + 1, Min({1 * size, n})) = events
  <2>1. (1 - 1) * size + 1 = 1
    OBVIOUS
  <2>2. SubSeq(events, 1, n) = events
    BY <1>1
  <2>3. QED
    BY <1>6, <2>1, <2>2
<1>8. \A i : i \in 1 .. 1 <=> i = 1
  OBVIOUS
<1>9. Slices(size) = [i \in 1 .. 1 |-> events]
  BY <1>3, <1>4, <1>7, <1>8
<1>10. QED
  BY <1>5, <1>9

\* What is assembled of the result of a single chunk.
LEMMA AssemblyOfOne ==
  ASSUME NEW w, WellTyped(w), w.type # "error", operations # <<>>,
         Last(operations).Op \in Summed => \E x \in Int : w = Seconds(x)
  PROVE  LET assembled == AssembleChunkResults(<<w>>)
         IN  /\ Last(operations).Op \in Alternatives => assembled.value = FALSE
             /\ Last(operations).Op \notin Alternatives => assembled = w
<1> DEFINE assembled == AssembleChunkResults(<<w>>)
           op == Last(operations).Op
           floats == OfType(<<w>>, "float64")
           bools == OfType(<<w>>, "bool")
<1>1. ToSet(<<w>>) = {w} /\ <<w>> # <<>> /\ <<w>>[1] = w
  BY DEF ToSet
<1>2. Successes(<<w>>) = <<w>>
  BY <1>1, SelectOfOne DEF Successes
<1>3. floats = IF w.type = "float64" THEN <<w>> ELSE <<>>
  BY <1>1, SelectOfOne DEF OfType
<1>4. bools = <<>>
  BY <1>1, SelectOfOne DEF OfType, WellTyped
<1> HIDE DEF floats, bools
<1>5. assembled =
        CASE op \in Summed -> Seconds(Total(Values(floats)))
          [] op \in Alternatives ->
               [type |-> "bool", value |-> \E i \in DOMAIN bools : bools[i].value]
          [] OTHER -> w
  BY <1>1, <1>2 DEF AssembleChunkResults, floats, bools
<1> HIDE DEF assembled
<1>6. CASE op \in Summed
  <2>1. PICK x \in Int : w = Seconds(x)
    BY <1>6
  <2>2. floats = <<w>> /\ w.value = x
    BY <1>3, <2>1 DEF Seconds
  <2>3. Values(floats) = <<x>>
    BY <2>2 DEF Values
  <2>4. Total(<<x>>) = x
    <3>1. <<x>> \in Seq(Int) /\ Len(<<x>>) = 1 /\ <<x>>[1] = x
      OBVIOUS
    <3>2. QED
      BY <3>1, TotalFacts
  <2>5. op \notin Alternatives
    BY <1>6 DEF Summed, Alternatives
  <2> HIDE DEF op
  <2>6. assembled = w
    BY <1>5, <1>6, <2>1, <2>3, <2>4, <2>5
  <2>7. QED
    BY <2>5, <2>6 DEF assembled, op
<1>7. CASE op \in Alternatives
  <2>1. op \notin Summed /\ DOMAIN bools = {}
    BY <1>4, <1>7 DEF Summed, Alternatives
  <2>2. assembled = [type |-> "bool", value |-> \E i \in DOMAIN bools : bools[i].value]
    BY <1>5, <1>7, <2>1
  <2>3. assembled.value = \E i \in DOMAIN bools : bools[i].value
    BY <2>2
  <2>4. QED
    BY <1>7, <2>1, <2>3 DEF assembled
<1>8. CASE op \notin Summed /\ op \notin Alternatives
  BY <1>5, <1>8 DEF assembled
<1>9. QED
  BY <1>6, <1>7, <1>8

\* What is assembled of nothing but an error.
LEMMA AssemblyOfError ==
  ASSUME NEW w, w.type = "error"
  PROVE  AssembleChunkResults(<<w>>) = Failure
<1>1. ToSet(<<w>>) = {w} /\ <<w>> # <<>>
  BY DEF ToSet
<1>2. Successes(<<w>>) = <<>>
  BY <1>1, SelectOfOne DEF Successes
<1>3. QED
  BY <1>1, <1>2 DEF AssembleChunkResults

\* The last operation, under the conditions of the comparison.
LEMMA LastFacts ==
  ASSUME QueryInv, AnswersLast
  PROVE  LET whole == ProcessQuery(events, operations)
             op == Last(operations)
         IN  /\ operations # <<>> /\ Len(operations) \in Nat \ {0}
             /\ op = operations[Len(operations)] /\ Usable(op)
             /\ whole.type # "error" =>
                  \E previous : /\ Typed(previous)
                                /\ whole = ExecuteOperation(events, op, previous)
<1>1. /\ Len(operations) \in Nat \ {0} /\ Last(operations) = operations[Len(operations)]
      /\ Len(operations) \in 1 .. Len(operations)
  BY QueryFacts DEF AnswersLast, Last
<1>2. Usable(Last(operations))
  BY <1>1, QueryFacts
<1>3. \A i \in 1 .. Len(operations) - 1 : operations[i].ID # "result"
  BY DEF AnswersLast
<1>4. ProcessQuery(events, operations).type # "error" =>
        \E previous : /\ Typed(previous)
                      /\ ProcessQuery(events, operations) =
                           ExecuteOperation(events, operations[Len(operations)], previous)
  BY <1>1, <1>3, QueryFacts, AnswerIsLast
<1>5. QED
  BY <1>1, <1>2, <1>4 DEF AnswersLast

\* One chunk with all of its events.
LEMMA ChunkAgrees ==
  ASSUME ModesInv, AnswersLast, status = "done", lost = {}, ChosenMode = "concurrent",
         Len(CreateEventChunks) = 1, Last(operations).Op \notin Alternatives
  PROVE  answer = ProcessQuery(events, operations)
<1> DEFINE w == ProcessQuery(events, operations)
           op == Last(operations)
<1>1. answer = AssembleChunkResults(ChunkResults({})) /\ answer.type # "error" /\ QueryInv
  BY DEF ModesInv
<1>2. CreateEventChunks = <<events>>
  BY <1>1, OneSlice, QueryFacts, ProcessingModesAssumption DEF CreateEventChunks
<1>3. ChunkResults({}) = <<w>>
  <2>1. DOMAIN <<events>> = 1 .. 1 /\ <<events>>[1] = events
    OBVIOUS
  <2>2. \A i \in 1 .. 1 : i = 1
    OBVIOUS
  <2> HIDE DEF w
  <2>3. ChunkResults({}) = [i \in 1 .. 1 |-> w]
    BY <1>2, <2>1, <2>2 DEF ChunkResults, w
  <2>4. QED
    BY <2>3
<1> HIDE DEF w
<1>4. w.type # "error"
  <2>1. w.type = "error" => answer = Failure
    BY <1>1, <1>3, AssemblyOfError
  <2>2. QED
    BY <1>1, <2>1 DEF Failure
<1>5. PICK previous : Typed(previous) /\ w = ExecuteOperation(events, op, previous)
  BY <1>1, <1>4, LastFacts DEF w
<1>6. operations # <<>> /\ Usable(op) /\ Listed(events)
  BY <1>1, LastFacts, QueryFacts
<1>7. WellTyped(w)
  BY <1>5, <1>6, OperationIsTyped
<1>8. op.Op \in Summed => \E x \in Int : w = Seconds(x)
  <2>1. op.Op \in Summed \ {"DurationWhere"} => w = Failure
    BY <1>5, OthersFail
  <2>2. op.Op = "DurationWhere" => \E x \in Int : w = Seconds(x)
    BY <1>5, <1>6, DurationIsSeconds DEF Usable
  <2>3. QED
    BY <1>4, <2>1, <2>2 DEF Failure
<1>9. QED
  BY <1>1, <1>3, <1>4, <1>6, <1>7, <1>8, AssemblyOfOne DEF w

\* Operators on their own with all of the events.
LEMMA OperatorsAgree ==
  ASSUME ModesInv, AnswersLast, status = "done", lost = {}, ChosenMode = "micro-workflow",
         Len(PartitionEvents) = 1,
         StandsAlone, ProcessQuery(events, operations).type # "error"
  PROVE  answer = ProcessQuery(events, operations)
<1> DEFINE w == ProcessQuery(events, operations)
           op == Last(operations)
           r == ExecuteOperation(events, op, <<>>)
           wanted == <<Len(operations), 1>>
           all == OperatorResults({})
<1>1. answer \in AssembleOperatorResults(all) /\ QueryInv
  BY DEF ModesInv
<1>2. PartitionEvents = <<events>>
  <2>1. CASE Len(events) <= DefaultPartitionSize
    BY <2>1 DEF PartitionEvents
  <2>2. CASE ~(Len(events) <= DefaultPartitionSize)
    BY <1>1, <2>2, OneSlice, QueryFacts, ProcessingModesAssumption DEF PartitionEvents
  <2>3. QED
    BY <2>1, <2>2
<1>3. /\ operations # <<>> /\ Len(operations) \in Nat \ {0} /\ op = operations[Len(operations)]
      /\ Usable(op) /\ DOMAIN operations = 1 .. Len(operations)
  BY <1>1, LastFacts, QueryFacts
<1>4. wanted \in DOMAIN all /\ all[wanted] = r
  <2>1. Parts = (1 .. Len(operations)) \X (1 .. 1)
    BY <1>2, <1>3 DEF Parts
  <2>2. wanted \in Parts
    BY <1>3, <2>1
  <2>3. wanted[1] = Len(operations) /\ wanted[2] = 1 /\ PartitionEvents[1] = events
    BY <1>2
  <2> HIDE DEF wanted
  <2>4. QED
    BY <1>3, <2>2, <2>3 DEF OperatorResults
<1> HIDE DEF all, wanted, r, w
<1>5. r.type # "error" => answer = r
  <2>1. all # <<>>
    <3>1. DOMAIN <<>> = {}
      OBVIOUS
    <3>2. QED
      BY <1>4, <3>1
  <2>2. ASSUME r.type # "error" PROVE AssembleOperatorResults(all) = {r}
    <3> DEFINE Successful == {part \in DOMAIN all : all[part].type # "error"}
    <3>1. wanted \in Successful
      BY <1>4, <2>2
    <3>2. QED
      BY <1>4, <2>1, <3>1 DEF AssembleOperatorResults, wanted
  <2>3. QED
    BY <1>1, <2>2
<1>6. PICK previous : w = ExecuteOperation(events, op, previous)
  BY <1>1, LastFacts DEF w
<1>7. w = r
  BY <1>6, OthersDoNotMatter DEF StandsAlone, r
<1>8. QED
  BY <1>5, <1>7 DEF w

\* In whichever mode a query is processed, timelines are exact: those of a query in one
\* piece are kept step by step, and no other mode touches them.
THEOREM TimelinesStayExact == ModesSpec => []TimelinesMeanTheirPoints
<1>1. ModesInv => TimelinesMeanTheirPoints
  BY RightTimelines DEF ModesInv
<1>2. QED
  BY <1>1, ModesInitHolds, ModesInvStep, PTL DEF ModesSpec

\* In whichever mode a query is processed, durations and streaks are exact.
THEOREM MeasuresStayExact == ModesSpec => []MeasuresMeanTheirPoints
<1>1. ModesInv => MeasuresMeanTheirPoints
  BY GoodMeasures DEF ModesInv
<1>2. QED
  BY <1>1, ModesInitHolds, ModesInvStep, PTL DEF ModesSpec

\* Where a query is one part and nothing is lost, QueryWorkflow answers the same whether
\* one activity, ProcessEventsConcurrently or the orchestrator's children process it, if
\* chunks are not asked for existence and operators on their own need no other results.
THEOREM ModesGiveOneAnswer == ModesSpec => []ModesAgree
<1>1. ModesInv => ModesAgree
  <2> SUFFICES ASSUME ModesInv, status = "done", InOnePart, lost = {}, AnswersLast,
                      ChosenMode = "concurrent" => Last(operations).Op \notin Alternatives,
                      ChosenMode = "micro-workflow" =>
                        StandsAlone /\ ProcessQuery(events, operations).type # "error"
               PROVE  answer = ProcessQuery(events, operations)
    BY DEF ModesAgree
  <2>1. CASE ChosenMode = "single"
    <3>1. Len(operations) \in Nat
      BY QueryFacts DEF ModesInv
    <3>2. PICK f : /\ IsQuery(f, events, operations)
                   /\ ProcessQuery(events, operations) = AnswerOf(f[Len(operations)])
      BY <3>1, QueryUnfolds
    <3>3. QED
      BY <2>1, <3>2 DEF ModesInv, Agrees
  <2>2. CASE ChosenMode = "concurrent"
    BY <2>2, ChunkAgrees DEF InOnePart
  <2>3. CASE ChosenMode = "micro-workflow"
    BY <2>3, OperatorsAgree DEF InOnePart
  <2>4. QED
    BY <2>1, <2>2, <2>3 DEF InOnePart
<1>2. ModesInv /\ [ModesNext]_modeVars => ModesInv'
  BY ModesInvStep
<1>3. QED
  BY <1>1, <1>2, ModesInitHolds, PTL DEF ModesSpec

--------------------------------------------------------------------------------
(* Durations of a query over some of the events.                           *)

\* The operations that can be parts of a duration that is compared.
Plain == {"LatestEventToState", "HasExisted", "HasExistedWithin", "AND", "OR", "DurationWhere"}

LacksWindow(op) == op.Op = "HasExistedWithin" /\ "window" \notin DOMAIN op.Params

\* Plain operations fail for the lack of a window and for nothing else.
LEMMA PlainFailures ==
  ASSUME NEW es, NEW op, op.Op \in Plain, NEW previous
  PROVE  ExecuteOperation(es, op, previous).type = "error" <=> LacksWindow(op)
<1>1. ExecuteOperation(es, op, previous) = ExecuteFlat(es, op, previous)
  BY DEF ExecuteOperation, Plain
<1>2. QED
  BY <1>1 DEF ExecuteFlat, Plain, LacksWindow, Failure, StateTimeline, BoolTimeline, Seconds

\* A query of plain operations has failed when one of them lacked its window.
LEMMA TurnsFail ==
  ASSUME NEW es, NEW ops, Len(ops) \in Nat, \A i \in 1 .. Len(ops) : ops[i].Op \in Plain,
         NEW f, IsQuery(f, es, ops)
  PROVE  \A n \in 0 .. Len(ops) :
           f[n].last.type = "error" <=> \E i \in 1 .. n : LacksWindow(ops[i])
<1>1. PICK m : m = Len(ops)
  OBVIOUS
<1> DEFINE Good(n) == f[n].last.type = "error" <=> \E i \in 1 .. n : LacksWindow(ops[i])
           S == {n \in 0 .. m : Good(n)}
<1>2. Good(0)
  <2>1. f[0] = [last |-> Seconds(0), results |-> <<>>]
    BY QueryStep
  <2>2. f[0].last.type # "error"
    BY <2>1 DEF Seconds
  <2>3. QED
    BY <2>2
<1>3. ASSUME NEW n \in 0 .. m - 1, Good(n) PROVE Good(n + 1)
  <2>1. PICK op : op = ops[n + 1]
    OBVIOUS
  <2>2. f[n + 1] = ExecuteNext(es, f[n], op)
    <3>1. \A j \in 0 .. m - 1 : f[j + 1] = ExecuteNext(es, f[j], ops[j + 1])
      BY <1>1, QueryStep
    <3>2. QED
      BY <2>1, <3>1
  <2>3. op.Op \in Plain /\ \A i : i \in 1 .. n + 1 <=> i \in 1 .. n \/ i = n + 1
    BY <1>1, <2>1
  <2>4. (\E i \in 1 .. n + 1 : LacksWindow(ops[i])) <=>
          (\E i \in 1 .. n : LacksWindow(ops[i])) \/ LacksWindow(op)
    BY <2>1, <2>3
  <2>5. CASE f[n].last.type = "error"
    BY <1>3, <2>2, <2>4, <2>5 DEF ExecuteNext
  <2>6. CASE f[n].last.type # "error"
    <3>1. f[n + 1].last = ExecuteOperation(es, op, f[n].results)
      BY <2>2, <2>6 DEF ExecuteNext, Recorded
    <3>2. f[n + 1].last.type = "error" <=> LacksWindow(op)
      BY <2>3, <3>1, PlainFailures
    <3>3. QED
      BY <1>3, <2>4, <2>6, <3>2
  <2>7. QED
    BY <2>5, <2>6
<1> HIDE DEF Good
<1>4. \A n \in 0 .. m : n \in S
  <2>1. 0 \in S
    BY <1>1, <1>2
  <2>2. \A n \in 0 .. m - 1 : n \in S => n + 1 \in S
    BY <1>1, <1>3
  <2>3. m \in Nat
    BY <1>1
  <2> HIDE DEF S
  <2>4. QED
    BY <2>1, <2>2, <2>3, Induction
<1>5. QED
  BY <1>1, <1>4 DEF Good

\* As long as a query has not failed its results are good.
LEMMA TurnsAreGood ==
  ASSUME NEW es, NEW ops, Queryable(es, ops), NEW f, IsQuery(f, es, ops)
  PROVE  \A n \in 0 .. Len(ops) :
           f[n].last.type # "error" => GoodResults(es, ops, n, f[n].results)
<1>1. PICK m \in Nat : m = Len(ops)
  <2>1. ops \in Seq(ToSet(ops))
    BY DEF Queryable
  <2>2. QED
    BY <2>1
<1> DEFINE Good(n) == f[n].last.type # "error" => GoodResults(es, ops, n, f[n].results)
           S == {n \in 0 .. m : Good(n)}
<1>2. Good(0)
  <2>1. f[0] = [last |-> Seconds(0), results |-> <<>>]
    BY <1>1, QueryStep
  <2>2. f[0].results = <<>>
    BY <2>1
  <2>3. QED
    BY <2>2, NoResultIsGood
<1>3. ASSUME NEW n \in 0 .. m - 1, Good(n) PROVE Good(n + 1)
  <2>1. PICK op, k : op = ops[k] /\ k = n + 1
    OBVIOUS
  <2>2. f[n + 1] = ExecuteNext(es, f[n], op)
    <3>1. \A j \in 0 .. m - 1 : f[j + 1] = ExecuteNext(es, f[j], ops[j + 1])
      BY <1>1, QueryStep
    <3>2. QED
      BY <2>1, <3>1
  <2>3. k <= Len(ops)
    BY <1>1, <2>1
  <2>4. PICK r : r = ExecuteOperation(es, op, f[n].results)
    OBVIOUS
  <2>5. CASE f[n].last.type = "error"
    BY <2>2, <2>5 DEF ExecuteNext
  <2>6. CASE f[n].last.type # "error"
    <3>1. f[n + 1].last = r /\ f[n + 1].results = With(f[n].results, op.ID, r)
      BY <2>2, <2>4, <2>6 DEF ExecuteNext, Recorded
    <3>2. GoodResults(es, ops, n, f[n].results)
      BY <1>3, <2>6
    <3>3. r.type # "error" => GoodResults(es, ops, k, With(f[n].results, op.ID, r))
      BY <2>1, <2>3, <2>4, <3>2, NextKeepsGood
    <3>4. QED
      BY <2>1, <3>1, <3>3
  <2>7. QED
    BY <2>5, <2>6
<1> HIDE DEF Good
<1>4. \A n \in 0 .. m : n \in S
  <2>1. 0 \in S
    BY <1>1, <1>2
  <2>2. \A n \in 0 .. m - 1 : n \in S => n + 1 \in S
    BY <1>1, <1>3
  <2> HIDE DEF S
  <2>3. QED
    BY <1>1, <2>1, <2>2, Induction
<1>5. QED
  BY <1>1, <1>4 DEF Good

\* A query for a duration: the last of its operations asks for it, which are all plain,
\* none before it is named "result", and no window is negative.
AsksDuration(ops) ==
  /\ Len(ops) \in Nat \ {0} /\ ops[Len(ops)].Op = "DurationWhere"
  /\ \A i \in 1 .. Len(ops) : ops[i].Op \in Plain
  /\ \A i \in 1 .. Len(ops) - 1 : ops[i].ID # "result"
  /\ \A i \in 1 .. Len(ops) :
       ops[i].Op = "HasExistedWithin" /\ "window" \in DOMAIN ops[i].Params =>
         ops[i].Params["window"] >= 0

HasWindows(ops) == \A i \in 1 .. Len(ops) : ~LacksWindow(ops[i])

\* Without a window a query fails.
LEMMA FailsWithoutWindow ==
  ASSUME NEW es, NEW ops, AsksDuration(ops), ~HasWindows(ops)
  PROVE  ProcessQuery(es, ops).type = "error"
<1>1. Len(ops) \in Nat /\ Len(ops) \in 0 .. Len(ops) /\ \A i \in 1 .. Len(ops) : ops[i].Op \in Plain
  BY DEF AsksDuration
<1>2. PICK f : IsQuery(f, es, ops) /\ ProcessQuery(es, ops) = AnswerOf(f[Len(ops)])
  BY <1>1, QueryUnfolds
<1>3. f[Len(ops)].last.type = "error"
  BY <1>1, <1>2, TurnsFail DEF HasWindows
<1>4. QED
  BY <1>2, <1>3 DEF AnswerOf

\* With its windows it answers the number of points.
LEMMA DurationOfQuery ==
  ASSUME NEW es, NEW ops, Queryable(es, ops), AsksDuration(ops), HasWindows(ops)
  PROVE  LET d == Cardinality(PointsOf(es, ops)[Len(ops)])
         IN  d \in Int /\ ProcessQuery(es, ops) = Seconds(d)
<1>1. PICK m \in Nat : m = Len(ops) /\ m # 0
  BY DEF AsksDuration
<1>2. /\ m - 1 \in 0 .. m /\ m \in 0 .. m /\ m \in 1 .. m /\ m = (m - 1) + 1
      /\ \A i \in 1 .. m - 1 : i \in 1 .. m
  BY <1>1
<1>3. Listed(es) /\ \A i \in 1 .. m : Usable(ops[i])
  BY <1>1 DEF Queryable
<1>4. PICK f : /\ IsQuery(f, es, ops) /\ Typed(f[m - 1].results)
               /\ f[m - 1].last.type # "error" =>
                    ProcessQuery(es, ops) = ExecuteOperation(es, ops[m], f[m - 1].results)
  <2>1. \A i \in 1 .. Len(ops) - 1 : ops[i].ID # "result"
    BY DEF AsksDuration
  <2>2. QED
    BY <1>1, <1>3, <2>1, AnswerIsLast
<1>5. f[m - 1].last.type # "error"
  <2>1. \A i \in 1 .. m : ops[i].Op \in Plain /\ ~LacksWindow(ops[i])
    BY <1>1 DEF AsksDuration, HasWindows
  <2>2. QED
    BY <1>1, <1>2, <1>4, <2>1, TurnsFail
<1>6. PICK r, previous, k, op :
        /\ previous = f[m - 1].results /\ k = m - 1 /\ op = ops[m]
        /\ r = ExecuteOperation(es, op, previous)
  OBVIOUS
<1>7. GoodResults(es, ops, k, previous)
  BY <1>1, <1>2, <1>4, <1>5, <1>6, TurnsAreGood
<1>8. Measured(es, ops, m, r, k)
  <2>1. ops[m].Op = "DurationWhere"
    BY <1>1 DEF AsksDuration
  <2>2. ResultsAreRight(es, ops, k, previous) /\ ResultsAreShaped(ops, k, previous)
    BY <1>7 DEF GoodResults
  <2>3. m = k + 1 /\ m <= Len(ops)
    BY <1>1, <1>2, <1>6
  <2>4. QED
    BY <1>6, <2>1, <2>2, <2>3, NextDuration
<1>9. ~BackwardsBy(ops, k) /\ ~NegatedBy(ops, k)
  <2>1. \A i \in 1 .. k : i \in 1 .. m
    BY <1>2, <1>6
  <2>2. \A i \in 1 .. k : ops[i].Op # "Not"
    BY <1>1, <2>1 DEF AsksDuration, Plain
  <2>3. \A i \in 1 .. k : ops[i].Op = "HasExistedWithin" => "window" \in DOMAIN ops[i].Params
    BY <1>1, <2>1 DEF HasWindows, LacksWindow
  <2>4. \A i \in 1 .. k : ops[i].Op = "HasExistedWithin" =>
          ops[i].Params["window"] \in Int /\ ops[i].Params["window"] >= 0
    BY <1>1, <1>3, <2>1, <2>3 DEF AsksDuration, Usable, WellFormed
  <2>5. \A i \in 1 .. k : ~(ops[i].Op = "HasExistedWithin" /\ ops[i].Params["window"] < 0)
    BY <2>4
  <2>6. QED
    BY <2>2, <2>5 DEF BackwardsBy, NegatedBy
<1>10. op.Op = "DurationWhere" /\ WellFormed(op)
  BY <1>1, <1>2, <1>3, <1>6 DEF AsksDuration, Usable
<1>11. PICK x \in Int : r = Seconds(x)
  BY <1>4, <1>6, <1>10, DurationIsSeconds
<1>12. r.value = Cardinality(PointsOf(es, ops)[m])
  BY <1>6, <1>8, <1>9, <1>10 DEF Measured
<1>13. r.value = x
  BY <1>11 DEF Seconds
<1>14. QED
  BY <1>1, <1>4, <1>5, <1>6, <1>11, <1>12, <1>13

--------------------------------------------------------------------------------
(* Points of some of the events.                                           *)

Combining == {"AND", "OR", "DurationWhere"}

\* What one turn makes of the points of two lists of events, by the same conditions.
LEMMA SameTurn ==
  ASSUME NEW es, NEW c, NEW ops, Len(ops) \in Nat, NEW n \in 1 .. Len(ops), ops[n].Op \in Plain
  PROVE  \/ /\ ops[n].Op \notin Combining
            /\ PointsOf(es, ops)[n] = FlatPoints(es, ops[n])
            /\ PointsOf(c, ops)[n] = FlatPoints(c, ops[n])
         \/ \E seen : /\ ops[n].Op \in Combining
                      /\ \A i \in seen : i \in 1 .. Len(ops) /\ i < n
                      /\ PointsOf(es, ops)[n] = AllPoints(PointsOf(es, ops), seen)
                      /\ PointsOf(c, ops)[n] = AllPoints(PointsOf(c, ops), seen)
         \/ \E seen : /\ ops[n].Op \in Combining
                      /\ \A i \in seen : i \in 1 .. Len(ops) /\ i < n
                      /\ PointsOf(es, ops)[n] = SomePoints(PointsOf(es, ops), seen)
                      /\ PointsOf(c, ops)[n] = SomePoints(PointsOf(c, ops), seen)
<1>1. /\ PointsOf(es, ops)[n] = PointsTurn(es, ops, PointsOf(es, ops), n)
      /\ PointsOf(c, ops)[n] = PointsTurn(c, ops, PointsOf(c, ops), n)
  BY PointsUnfold
<1>2. \A ids : \A i \in SeenBy(ops, ops[n], ids, n - 1) : i \in 1 .. Len(ops) /\ i < n
  BY SeenIsEarlier
<1>3. QED
  BY <1>1, <1>2 DEF PointsTurn, Plain, Combining

\* If the points of operations on the events alone, over some of the events, are points
\* over all events within a range or extra points, so are those of all operations.
LEMMA PointsSpread ==
  ASSUME NEW es, NEW c, NEW ops, Len(ops) \in Nat, NEW range, NEW extra,
         \A n \in 1 .. Len(ops) :
           /\ ops[n].Op \in Plain
           /\ ops[n].Op \notin Combining =>
                \A t \in FlatPoints(c, ops[n]) :
                  t \in extra \/ (t \in FlatPoints(es, ops[n]) /\ t \in range)
  PROVE  \A n \in 1 .. Len(ops) : \A t \in PointsOf(c, ops)[n] :
           t \in extra \/ (t \in PointsOf(es, ops)[n] /\ t \in range)
<1> DEFINE Good(n) == \A t \in PointsOf(c, ops)[n] :
                        t \in extra \/ (t \in PointsOf(es, ops)[n] /\ t \in range)
           T == {n \in 1 .. Len(ops) : ~Good(n)}
<1>1. ASSUME NEW n \in 1 .. Len(ops), \A i \in 1 .. Len(ops) : i < n => Good(i) PROVE Good(n)
  <2>1. CASE /\ ops[n].Op \notin Combining
             /\ PointsOf(es, ops)[n] = FlatPoints(es, ops[n])
             /\ PointsOf(c, ops)[n] = FlatPoints(c, ops[n])
    BY <2>1
  <2>2. ASSUME NEW seen, \A i \in seen : i \in 1 .. Len(ops) /\ i < n,
               PointsOf(es, ops)[n] = AllPoints(PointsOf(es, ops), seen),
               PointsOf(c, ops)[n] = AllPoints(PointsOf(c, ops), seen)
        PROVE  Good(n)
    <3>1. ASSUME NEW t \in AllPoints(PointsOf(c, ops), seen), t \notin extra
          PROVE  t \in AllPoints(PointsOf(es, ops), seen) /\ t \in range
      <4>1. t \in Points /\ seen # {} /\ \A i \in seen : t \in PointsOf(c, ops)[i]
        BY <3>1 DEF AllPoints
      <4>2. \A i \in seen : t \in PointsOf(es, ops)[i] /\ t \in range
        BY <1>1, <2>2, <3>1, <4>1
      <4>3. QED
        BY <4>1, <4>2 DEF AllPoints
    <3>2. QED
      BY <2>2, <3>1
  <2>3. ASSUME NEW seen, \A i \in seen : i \in 1 .. Len(ops) /\ i < n,
               PointsOf(es, ops)[n] = SomePoints(PointsOf(es, ops), seen),
               PointsOf(c, ops)[n] = SomePoints(PointsOf(c, ops), seen)
        PROVE  Good(n)
    <3>1. ASSUME NEW t \in SomePoints(PointsOf(c, ops), seen), t \notin extra
          PROVE  t \in SomePoints(PointsOf(es, ops), seen) /\ t \in range
      <4>1. t \in Points /\ \E i \in seen : t \in PointsOf(c, ops)[i]
        BY <3>1 DEF SomePoints
      <4>2. PICK i \in seen : t \in PointsOf(c, ops)[i]
        BY <4>1
      <4>3. t \in PointsOf(es, ops)[i] /\ t \in range
        BY <1>1, <2>3, <3>1, <4>2
      <4>4. QED
        BY <4>1, <4>3 DEF SomePoints
    <3>2. QED
      BY <2>3, <3>1
  <2> HIDE DEF Good
  <2>4. QED
    BY <2>1, <2>2, <2>3, SameTurn
<1>2. T = {}
  <2> HIDE DEF Good
  <2>1. T \subseteq Nat
    OBVIOUS
  <2>2. ASSUME NEW n \in T, \A i \in T : n <= i PROVE FALSE
    <3>1. n \in 1 .. Len(ops) /\ ~Good(n)
      OBVIOUS
    <3>2. \A i \in 1 .. Len(ops) : i < n => Good(i)
      BY <2>2
    <3>3. QED
      BY <1>1, <3>1, <3>2
  <2>3. QED
    BY <2>1, <2>2, LeastNumber
<1>3. QED
  BY <1>2

\* If each point of an operation on the events alone is one over some of the events, so
\* is each point of a disjunction.
LEMMA PointsAreGathered ==
  ASSUME NEW es, NEW Cs, NEW ops, Len(ops) \in Nat,
         \A n \in 1 .. Len(ops) :
           /\ ops[n].Op \in {"HasExistedWithin", "OR", "DurationWhere"}
           /\ ops[n].Op = "HasExistedWithin" =>
                \A t \in FlatPoints(es, ops[n]) : \E c \in Cs : t \in FlatPoints(c, ops[n])
  PROVE  \A n \in 1 .. Len(ops) :
           \/ ops[n].Op = "DurationWhere" /\ ops[n].ConditionAll # <<>>
           \/ \A t \in PointsOf(es, ops)[n] : \E c \in Cs : t \in PointsOf(c, ops)[n]
<1> DEFINE Good(n) == \/ ops[n].Op = "DurationWhere" /\ ops[n].ConditionAll # <<>>
                     \/ \A t \in PointsOf(es, ops)[n] : \E c \in Cs : t \in PointsOf(c, ops)[n]
           T == {n \in 1 .. Len(ops) : ~Good(n)}
<1>1. ASSUME NEW n \in 1 .. Len(ops), \A i \in 1 .. Len(ops) : i < n => Good(i) PROVE Good(n)
  <2>1. \A s : PointsOf(s, ops)[n] = PointsTurn(s, ops, PointsOf(s, ops), n)
    BY PointsUnfold
  <2>2. CASE ops[n].Op = "HasExistedWithin"
    <3>1. \A s : PointsOf(s, ops)[n] = FlatPoints(s, ops[n])
      BY <2>1, <2>2 DEF PointsTurn
    <3>2. QED
      BY <2>2, <3>1
  <2>3. CASE ops[n].Op = "OR" \/ (ops[n].Op = "DurationWhere" /\ ops[n].ConditionAll = <<>>)
    <3>1. PICK seen : seen = SeenBy(ops, ops[n], ops[n].ConditionAny, n - 1)
      OBVIOUS
    <3>2. \A s : PointsOf(s, ops)[n] = SomePoints(PointsOf(s, ops), seen)
      BY <2>1, <2>3, <3>1 DEF PointsTurn
    <3>3. \A i \in seen : i \in 1 .. Len(ops) /\ i < n /\ ops[i].Op # "DurationWhere"
      <4>1. \A i \in seen : i \in 1 .. Len(ops) /\ i < n
        BY <3>1, SeenIsEarlier
      <4>2. \A i \in seen : IsBool(ops[i]) \/ IsState(ops[i])
        BY <3>1 DEF SeenBy
      <4>3. QED
        BY <4>1, <4>2 DEF IsBool, IsState
    <3>4. ASSUME NEW t \in PointsOf(es, ops)[n] PROVE \E c \in Cs : t \in PointsOf(c, ops)[n]
      <4>1. t \in SomePoints(PointsOf(es, ops), seen)
        BY <3>2
      <4>2. t \in Points /\ \E i \in seen : t \in PointsOf(es, ops)[i]
        BY <4>1 DEF SomePoints
      <4>3. PICK i \in seen : t \in PointsOf(es, ops)[i]
        BY <4>2
      <4>4. PICK c \in Cs : t \in PointsOf(c, ops)[i]
        BY <1>1, <3>3, <4>3
      <4>5. t \in SomePoints(PointsOf(c, ops), seen)
        BY <4>2, <4>3, <4>4 DEF SomePoints
      <4>6. QED
        BY <3>2, <4>5
    <3>5. QED
      BY <3>4
  <2>4. CASE ops[n].Op = "DurationWhere" /\ ops[n].ConditionAll # <<>>
    BY <2>4
  <2>5. QED
    BY <2>2, <2>3, <2>4
<1>2. T = {}
  <2> HIDE DEF Good
  <2>1. T \subseteq Nat
    OBVIOUS
  <2>2. ASSUME NEW n \in T, \A i \in T : n <= i PROVE FALSE
    <3>1. n \in 1 .. Len(ops) /\ ~Good(n)
      OBVIOUS
    <3>2. \A i \in 1 .. Len(ops) : i < n => Good(i)
      BY <2>2
    <3>3. QED
      BY <1>1, <3>1, <3>2
  <2>3. QED
    BY <2>1, <2>2, LeastNumber
<1>3. QED
  BY <1>2

--------------------------------------------------------------------------------
(* Slices of the events.                                                   *)

\* Products grow with their factors.
LEMMA ProductGrows ==
  ASSUME NEW j \in Int, NEW k \in Int, NEW n \in Nat, j <= k
  PROVE  j * n <= k * n /\ j * n \in Int /\ k * n \in Int
<1>1. PICK d \in Nat : k = j + d
  <2>1. k - j \in Nat /\ k = j + (k - j)
    OBVIOUS
  <2>2. QED
    BY <2>1
<1>2. k * n = j * n + d * n /\ d * n \in Nat /\ j * n \in Int /\ k * n \in Int
  BY <1>1
<1>3. QED
  BY <1>2

\* Where a slice begins and ends: c is a slice of the list from the place after start on.
IsSlice(c, es, start) ==
  /\ c \in Seq(ToSet(es)) /\ Len(c) > 0 /\ start \in Nat
  /\ \A i \in 1 .. Len(c) : start + i \in 1 .. Len(es) /\ c[i] = es[start + i]

\* How many slices of a size there are.
LEMMA SlicesCount ==
  ASSUME Listed(events), NEW size \in Nat \ {0}, NEW n, n = Len(events),
         NEW m, m = (n + size - 1) \div size
  PROVE  /\ m \in Nat /\ n \in Nat /\ m * size <= n + size - 1 /\ n - 1 < m * size
         /\ Len(Slices(size)) = m
         /\ \A k \in 1 .. m :
              Slices(size)[k] = SubSeq(events, (k - 1) * size + 1, Min({k * size, n}))
<1>1. n \in Nat /\ n + size - 1 \in Nat
  BY DEF Listed
<1>2. /\ m \in Nat /\ size * m <= n + size - 1 /\ n + size - 1 < size * m + size
  BY <1>1, DivBounds
<1>3. PICK p \in Int : p = size * m /\ p = m * size
  BY <1>2
<1>4. n - 1 < p /\ p <= n + size - 1
  BY <1>1, <1>2, <1>3
<1> DEFINE Slice(k) == SubSeq(events, (k - 1) * size + 1, Min({k * size, n}))
<1>5. Slices(size) = [i \in 1 .. m |-> Slice(i)]
  BY DEF Slices
<1>6. Len(Slices(size)) = m /\ \A k \in 1 .. m : Slices(size)[k] = Slice(k)
  <2> HIDE DEF Slice
  <2>1. QED
    BY <1>2, <1>5
<1>7. QED
  BY <1>1, <1>2, <1>3, <1>4, <1>6

\* A slice has its part of the events, in their order, and at least one.
LEMMA SliceFacts ==
  ASSUME Listed(events), NEW size \in Nat \ {0}, NEW k \in 1 .. Len(Slices(size))
  PROVE  /\ IsSlice(Slices(size)[k], events, (k - 1) * size)
         /\ Len(Slices(size)[k]) = Min({k * size, Len(events)}) - (k - 1) * size
<1>1. PICK n, m, c : n = Len(events) /\ m = (n + size - 1) \div size /\ c = Slices(size)[k]
  OBVIOUS
<1>2. /\ m \in Nat /\ n \in Nat /\ m * size <= n + size - 1
      /\ Len(Slices(size)) = m
      /\ \A i \in 1 .. m :
           Slices(size)[i] = SubSeq(events, (i - 1) * size + 1, Min({i * size, n}))
  BY <1>1, SlicesCount
<1>3. PICK start, end, hi : start = (k - 1) * size /\ end = k * size /\ hi = Min({end, n})
  OBVIOUS
<1>4. k \in Int /\ k \in 1 .. m /\ k - 1 \in Nat
  BY <1>2
<1>5. start \in Nat /\ end \in Int /\ end = start + size
  BY <1>3, <1>4
<1>6. end <= m * size /\ m * size \in Int
  BY <1>2, <1>3, <1>4, ProductGrows
<1>7. start < n
  BY <1>2, <1>5, <1>6
<1>8. hi \in Int /\ hi <= n /\ hi <= end /\ (hi = n \/ hi = end)
  <2>1. end \in Int /\ n \in Int
    BY <1>2, <1>5
  <2>2. QED
    BY <1>3, <2>1, MinOfTwo
<1>9. c = SubSeq(events, start + 1, hi)
  BY <1>1, <1>2, <1>3, <1>4
<1>10. events \in Seq(ToSet(events)) /\ start < hi
  BY <1>5, <1>7, <1>8 DEF Listed
<1>11. /\ Len(c) = hi - start /\ Len(c) > 0 /\ c \in Seq(ToSet(events))
       /\ \A i \in 1 .. Len(c) : start + i \in 1 .. n /\ c[i] = events[start + i]
  <2>1. start + 1 \in 1 .. n /\ hi \in 1 .. n
    BY <1>2, <1>5, <1>7, <1>8, <1>10
  <2>2. c \in Seq(ToSet(events)) /\ Len(c) = hi - (start + 1) + 1
    BY <1>1, <1>5, <1>8, <1>9, <1>10, <2>1
  <2>3. Len(c) = hi - start
    BY <1>5, <1>8, <2>2
  <2>4. ASSUME NEW i \in 1 .. Len(c) PROVE start + i \in 1 .. n /\ c[i] = events[start + i]
    <3>1. i \in 1 .. hi - start /\ (start + 1) + i - 1 = start + i
      BY <1>5, <1>8, <2>3
    <3>2. c[i] = events[(start + 1) + i - 1]
      <4>1. PICK first : first = start + 1
        OBVIOUS
      <4>2. first \in 1 .. Len(events) /\ hi \in 1 .. Len(events) /\ i \in 1 .. hi - first + 1
        BY <1>1, <1>5, <1>8, <2>1, <3>1, <4>1
      <4>3. SubSeq(events, first, hi)[i] = events[first + i - 1]
        BY <1>10, <4>2
      <4>4. QED
        BY <1>9, <4>1, <4>3
    <3>3. QED
      BY <1>2, <1>5, <1>8, <3>1, <3>2
  <2>5. QED
    BY <1>5, <1>8, <1>10, <2>2, <2>3, <2>4
<1>12. QED
  BY <1>1, <1>3, <1>5, <1>11 DEF IsSlice

\* Every event is in a slice.
LEMMA SlicesCover ==
  ASSUME Listed(events), NEW size \in Nat \ {0}, NEW e \in 1 .. Len(events)
  PROVE  \E k \in 1 .. Len(Slices(size)) : \E i \in 1 .. Len(Slices(size)[k]) :
           Slices(size)[k][i] = events[e]
<1>1. PICK n, m : n = Len(events) /\ m = (n + size - 1) \div size
  OBVIOUS
<1>2. /\ m \in Nat /\ n \in Nat /\ n - 1 < m * size /\ Len(Slices(size)) = m
  BY <1>1, SlicesCount
<1>3. PICK q : q = (e - 1) \div size
  OBVIOUS
<1>4. e \in Nat /\ e - 1 \in Nat /\ e <= n
  BY <1>1, <1>2
<1>5. q \in Nat /\ size * q <= e - 1 /\ e - 1 < size * q + size
  BY <1>3, <1>4, DivBounds
<1>6. PICK start \in Int : start = size * q /\ start = q * size
  BY <1>5
<1>7. start <= e - 1 /\ e - 1 < start + size
  BY <1>5, <1>6
<1>8. q < m
  <2>1. ASSUME m <= q PROVE FALSE
    <3>1. m * size <= q * size /\ m * size \in Int
      BY <1>2, <1>5, <2>1, ProductGrows
    <3>2. QED
      BY <1>2, <1>4, <1>6, <1>7, <3>1
  <2>2. QED
    BY <1>2, <1>5, <2>1
<1>9. PICK k, i : k = q + 1 /\ i = e - start
  OBVIOUS
<1>10. k \in 1 .. m /\ k - 1 = q /\ k * size = start + size /\ i \in Nat /\ i >= 1 /\ start + i = e
  BY <1>2, <1>4, <1>5, <1>6, <1>7, <1>8, <1>9
<1>11. PICK c : c = Slices(size)[k]
  OBVIOUS
<1>12. IsSlice(c, events, start) /\ Len(c) = Min({start + size, n}) - start
  BY <1>1, <1>2, <1>6, <1>10, <1>11, SliceFacts
<1>13. i \in 1 .. Len(c)
  <2>1. PICK hi : hi = Min({start + size, n})
    OBVIOUS
  <2>2. hi \in Int /\ (hi = n \/ hi = start + size)
    <3>1. start + size \in Int /\ n \in Int
      BY <1>2, <1>6
    <3>2. QED
      BY <2>1, <3>1, MinOfTwo
  <2>3. e <= hi
    BY <1>4, <1>6, <1>7, <2>2
  <2>4. PICK len : len = Len(c)
    OBVIOUS
  <2>5. len = hi - start
    BY <1>12, <2>1, <2>4
  <2>6. i \in 1 .. len
    <3>1. i \in Int /\ start \in Int /\ hi \in Int /\ i >= 1 /\ start + i <= hi
      BY <1>6, <1>10, <2>2, <2>3
    <3>2. QED
      BY <2>5, <3>1
  <2>7. QED
    BY <2>4, <2>6
<1>14. c[i] = events[e]
  BY <1>10, <1>12, <1>13 DEF IsSlice
<1>15. QED
  BY <1>2, <1>10, <1>11, <1>13, <1>14

\* The events of a slice are events of the list, and a query of the list can be one of a
\* slice.
LEMMA SliceIsQueryable ==
  ASSUME NEW es, NEW ops, Queryable(es, ops), NEW c, NEW start, IsSlice(c, es, start)
  PROVE  Queryable(c, ops) /\ ToSet(c) \subseteq ToSet(es)
<1>1. c \in Seq(ToSet(es)) /\ DOMAIN c = 1 .. Len(c)
  BY DEF IsSlice
<1>2. ToSet(c) \subseteq ToSet(es)
  BY <1>1 DEF ToSet
<1>3. c \in Seq(ToSet(c))
  BY <1>1 DEF ToSet
<1>4. QED
  BY <1>2, <1>3 DEF Queryable, Listed, Stamped

--------------------------------------------------------------------------------
(* The assembly of durations.                                              *)

\* The elements of s of a kind, where they are in s.
Picked(t, s, kind, p) ==
  /\ Len(t) \in Nat /\ Len(t) <= Len(s)
  /\ \A j \in 1 .. Len(t) : p[j] \in 1 .. Len(s) /\ t[j] = s[p[j]] /\ t[j] \in kind
  /\ \A i, j \in 1 .. Len(t) : p[i] = p[j] => i = j
  /\ \A i \in 1 .. Len(s) : s[i] \in kind => \E j \in 1 .. Len(t) : p[j] = i

\* Select picks the wanted elements.
LEMMA SelectPicks ==
  ASSUME NEW E, NEW s \in Seq(E), NEW wanted
  PROVE  /\ Select(s, wanted) \in Seq(E)
         /\ \E p : Picked(Select(s, wanted), s, wanted, p)
<1>1. PICK t : t = Select(s, wanted)
  OBVIOUS
<1>2. t \in Seq(E) /\ Len(t) <= Len(s)
  BY <1>1, SelectFacts
<1>3. PICK p : ComesFrom(t, s, wanted, Len(s), p)
  BY <1>1, SelectPlaces
<1>4. /\ p \in [1 .. Len(t) -> 1 .. Len(s)]
      /\ \A j \in 1 .. Len(t) : t[j] = s[p[j]] /\ s[p[j]] \in wanted
      /\ \A i, j \in 1 .. Len(t) : i < j => p[i] < p[j]
      /\ \A i \in 1 .. Len(s) : s[i] \in wanted => \E j \in 1 .. Len(t) : p[j] = i
  BY <1>3 DEF ComesFrom
<1>5. ASSUME NEW i \in 1 .. Len(t), NEW j \in 1 .. Len(t), p[i] = p[j] PROVE i = j
  <2>1. p[i] \in Int /\ p[j] \in Int
    BY <1>4
  <2>2. ~(i < j) /\ ~(j < i)
    BY <1>4, <1>5, <2>1
  <2>3. QED
    BY <2>2
<1>6. Len(t) \in Nat /\ \A j \in 1 .. Len(t) : p[j] \in 1 .. Len(s)
  BY <1>2, <1>4
<1>7. Picked(t, s, wanted, p)
  BY <1>2, <1>4, <1>5, <1>6 DEF Picked
<1>8. QED
  BY <1>1, <1>2, <1>7

\* Elements picked twice are picked.
LEMMA PickedTwice ==
  ASSUME NEW s, NEW t, NEW u, NEW K, NEW M, NEW p, NEW q,
         Picked(t, s, K, p), Picked(u, t, M, q), Len(s) \in Nat
  PROVE  Picked(u, s, K \intersect M, [j \in 1 .. Len(u) |-> p[q[j]]])
<1> DEFINE r == [j \in 1 .. Len(u) |-> p[q[j]]]
<1>1. /\ Len(t) \in Nat /\ Len(t) <= Len(s)
      /\ \A j \in 1 .. Len(t) : p[j] \in 1 .. Len(s) /\ t[j] = s[p[j]] /\ t[j] \in K
      /\ \A i, j \in 1 .. Len(t) : p[i] = p[j] => i = j
      /\ \A i \in 1 .. Len(s) : s[i] \in K => \E j \in 1 .. Len(t) : p[j] = i
  BY DEF Picked
<1>2. /\ Len(u) \in Nat /\ Len(u) <= Len(t)
      /\ \A j \in 1 .. Len(u) : q[j] \in 1 .. Len(t) /\ u[j] = t[q[j]] /\ u[j] \in M
      /\ \A i, j \in 1 .. Len(u) : q[i] = q[j] => i = j
      /\ \A i \in 1 .. Len(t) : t[i] \in M => \E j \in 1 .. Len(u) : q[j] = i
  BY DEF Picked
<1>3. \A j \in 1 .. Len(u) : r[j] = p[q[j]]
  OBVIOUS
<1> HIDE DEF r
<1>4. ASSUME NEW j \in 1 .. Len(u)
      PROVE  r[j] \in 1 .. Len(s) /\ u[j] = s[r[j]] /\ u[j] \in K \intersect M
  <2>1. PICK k \in 1 .. Len(t) : k = q[j] /\ u[j] = t[k] /\ u[j] \in M
    BY <1>2
  <2>2. r[j] = p[k]
    BY <1>3, <2>1
  <2>3. p[k] \in 1 .. Len(s) /\ t[k] = s[p[k]] /\ t[k] \in K
    BY <1>1
  <2>4. QED
    BY <2>1, <2>2, <2>3
<1>5. ASSUME NEW i \in 1 .. Len(u), NEW j \in 1 .. Len(u), r[i] = r[j] PROVE i = j
  <2>1. PICK k \in 1 .. Len(t) : k = q[i]
    BY <1>2
  <2>2. PICK l \in 1 .. Len(t) : l = q[j]
    BY <1>2
  <2>3. p[k] = p[l]
    BY <1>3, <1>5, <2>1, <2>2
  <2>4. k = l
    BY <1>1, <2>3
  <2>5. QED
    BY <1>2, <2>1, <2>2, <2>4
<1>6. ASSUME NEW i \in 1 .. Len(s), s[i] \in K \intersect M PROVE \E j \in 1 .. Len(u) : r[j] = i
  <2>1. PICK k \in 1 .. Len(t) : p[k] = i
    BY <1>1, <1>6
  <2>2. t[k] \in M
    BY <1>1, <1>6, <2>1
  <2>3. PICK j \in 1 .. Len(u) : q[j] = k
    BY <1>2, <2>2
  <2>4. QED
    BY <1>3, <2>1, <2>3
<1>7. Len(u) <= Len(s)
  BY <1>1, <1>2
<1>8. Picked(u, s, K \intersect M, r)
  BY <1>2, <1>4, <1>5, <1>6, <1>7 DEF Picked
<1>9. QED
  BY <1>8 DEF r

\* What chunks can result in where a duration is asked for.
IsDuration(r) == r.type = "error" \/ \E x \in Int : r = Seconds(x)

\* values are the durations among the results r of the chunks, each taken once.
Adds(values, r, p) ==
  /\ values \in Seq(Int) /\ Len(values) <= Len(r)
  /\ \A j \in 1 .. Len(values) : p[j] \in 1 .. Len(r) /\ r[p[j]] = Seconds(values[j])
  /\ \A i, j \in 1 .. Len(values) : p[i] = p[j] => i = j
  /\ \A i \in 1 .. Len(r) : r[i].type # "error" => \E j \in 1 .. Len(values) : p[j] = i

\* The durations of the chunks are added up.
LEMMA DurationsAreAdded ==
  ASSUME NEW r, r \in Seq(ToSet(r)), \A i \in 1 .. Len(r) : IsDuration(r[i]),
         operations # <<>>, Last(operations).Op = "DurationWhere",
         AssembleChunkResults(r).type # "error"
  PROVE  \E values : \E p : /\ AssembleChunkResults(r) = Seconds(Total(values))
                            /\ Adds(values, r, p)
                            /\ r # <<>> => \E i \in 1 .. Len(r) : r[i].type # "error"
<1>1. PICK good, floats : good = Successes(r) /\ floats = OfType(good, "float64")
  OBVIOUS
<1> DEFINE K == {x \in ToSet(r) : x.type # "error"}
           M == {x \in ToSet(good) : x.type = "float64"}
<1>2. good \in Seq(ToSet(r)) /\ \E p : Picked(good, r, K, p)
  BY <1>1, SelectPicks DEF Successes
<1>3. PICK p : Picked(good, r, K, p)
  BY <1>2
<1>4. floats \in Seq(ToSet(r)) /\ \E q : Picked(floats, good, M, q)
  BY <1>1, <1>2, SelectPicks DEF OfType
<1>5. PICK q : Picked(floats, good, M, q)
  BY <1>4
<1>6. PICK places : Picked(floats, r, K \intersect M, places)
  <2>1. Len(r) \in Nat
    OBVIOUS
  <2> HIDE DEF K, M
  <2>2. QED
    BY <1>3, <1>5, <2>1, PickedTwice
<1>7. ASSUME NEW i \in 1 .. Len(r), r[i].type # "error" PROVE r[i] \in K \intersect M
  <2>1. PICK x \in Int : r[i] = Seconds(x)
    BY <1>7 DEF IsDuration
  <2>2. r[i].type = "float64"
    BY <2>1 DEF Seconds
  <2>3. r[i] \in K
    <3>1. DOMAIN r = 1 .. Len(r)
      OBVIOUS
    <3>2. QED
      BY <2>2, <3>1 DEF ToSet
  <2>4. \E j \in 1 .. Len(good) : good[j] = r[i]
    BY <1>3, <2>3 DEF Picked
  <2>5. r[i] \in ToSet(good)
    <3>1. DOMAIN good = 1 .. Len(good)
      BY <1>2
    <3>2. QED
      BY <2>4, <3>1 DEF ToSet
  <2>6. QED
    BY <2>2, <2>3, <2>5
<1>8. PICK values : values = Values(floats)
  OBVIOUS
<1>9. DOMAIN floats = 1 .. Len(floats) /\ Len(floats) \in Nat
  BY <1>4
<1>10. values = [i \in 1 .. Len(floats) |-> floats[i].value]
  BY <1>8, <1>9 DEF Values
<1>11. /\ \A j \in 1 .. Len(floats) :
            places[j] \in 1 .. Len(r) /\ floats[j] = r[places[j]] /\ floats[j] \in K \intersect M
       /\ \A i, j \in 1 .. Len(floats) : places[i] = places[j] => i = j
       /\ \A i \in 1 .. Len(r) : r[i] \in K \intersect M =>
            \E j \in 1 .. Len(floats) : places[j] = i
       /\ Len(floats) <= Len(r)
  BY <1>6 DEF Picked
<1>12. ASSUME NEW j \in 1 .. Len(floats)
       PROVE  values[j] \in Int /\ r[places[j]] = Seconds(values[j])
  <2>1. places[j] \in 1 .. Len(r) /\ floats[j] = r[places[j]] /\ floats[j].type = "float64"
    BY <1>11
  <2>2. PICK x \in Int : floats[j] = Seconds(x)
    BY <2>1 DEF IsDuration, Failure
  <2>3. values[j] = x
    BY <1>10, <2>2 DEF Seconds
  <2>4. QED
    BY <2>1, <2>2, <2>3
<1>13. values \in Seq(Int) /\ Len(values) = Len(floats)
  BY <1>9, <1>10, <1>12
<1> HIDE DEF K, M
<1>14. Adds(values, r, places)
  <2>1. \A i \in 1 .. Len(r) : r[i].type # "error" => \E j \in 1 .. Len(floats) : places[j] = i
    BY <1>7, <1>11
  <2>2. QED
    BY <1>11, <1>12, <1>13, <2>1 DEF Adds
<1>15. AssembleChunkResults(r) = Seconds(Total(values))
  <2>1. CASE r = <<>>
    <3>1. Len(values) = 0
      BY <1>13, <1>14, <2>1 DEF Adds
    <3>2. Total(values) = 0
      BY <1>13, <3>1, TotalFacts
    <3>3. good = <<>>
      <4>1. Len(good) <= Len(r) /\ Len(r) = 0
        BY <1>3, <2>1 DEF Picked
      <4>2. QED
        BY <1>2, <4>1
    <3>4. AssembleChunkResults(r) = Seconds(0)
      BY <1>1, <2>1, <3>3 DEF AssembleChunkResults
    <3>5. QED
      BY <3>2, <3>4
  <2>2. CASE r # <<>>
    <3>1. good # <<>>
      BY <1>1, <2>2 DEF AssembleChunkResults, Failure
    <3>2. Last(operations).Op \in Summed /\ Last(operations).Op \notin Alternatives
      BY DEF Summed, Alternatives
    <3>3. AssembleChunkResults(r) = Seconds(Total(Values(OfType(Successes(r), "float64"))))
      BY <1>1, <2>2, <3>1, <3>2 DEF AssembleChunkResults
    <3>4. QED
      BY <1>1, <1>8, <3>3
  <2>3. QED
    BY <2>1, <2>2
<1>16. ASSUME r # <<>> PROVE \E i \in 1 .. Len(r) : r[i].type # "error"
  <2>1. good # <<>>
    BY <1>1, <1>16 DEF AssembleChunkResults, Failure
  <2>2. 1 \in 1 .. Len(good)
    BY <1>2, <2>1
  <2>3. p[1] \in 1 .. Len(r) /\ good[1] = r[p[1]] /\ good[1] \in K
    BY <1>3, <2>2 DEF Picked
  <2>4. good[1].type # "error"
    BY <2>3 DEF K
  <2>5. QED
    BY <2>3, <2>4
<1>17. QED
  BY <1>14, <1>15, <1>16

--------------------------------------------------------------------------------
(* A duration over chunks.                                                 *)

PointsIn(c) == PointsOf(c, operations)[Len(operations)]

\* The chunks are slices of the events, each a query of its own.
LEMMA ChunksAreSlices ==
  ASSUME QueryInv
  PROVE  /\ Len(CreateEventChunks) \in Nat
         /\ DOMAIN CreateEventChunks = 1 .. Len(CreateEventChunks)
         /\ \A k \in 1 .. Len(CreateEventChunks) :
              /\ IsSlice(CreateEventChunks[k], events, (k - 1) * DefaultChunkSize)
              /\ Len(CreateEventChunks[k]) <= DefaultChunkSize
              /\ Queryable(CreateEventChunks[k], operations)
         /\ \A e \in 1 .. Len(events) :
              \E k \in 1 .. Len(CreateEventChunks) : \E i \in 1 .. Len(CreateEventChunks[k]) :
                CreateEventChunks[k][i] = events[e]
<1>1. PICK size : size = DefaultChunkSize
  OBVIOUS
<1>2. size \in Nat \ {0} /\ Queryable(events, operations) /\ Listed(events)
  BY <1>1, QueryFacts, ProcessingModesAssumption
<1>3. PICK chunks : chunks = CreateEventChunks
  OBVIOUS
<1>4. chunks = Slices(size)
  BY <1>1, <1>3 DEF CreateEventChunks
<1>5. PICK n, m : n = Len(events) /\ m = (n + size - 1) \div size
  OBVIOUS
<1>6. m \in Nat /\ n \in Nat /\ Len(chunks) = m
  BY <1>2, <1>4, <1>5, SlicesCount
<1>7. DOMAIN chunks = 1 .. m
  BY <1>4, <1>5 DEF Slices
<1>8. ASSUME NEW k \in 1 .. m
      PROVE  /\ IsSlice(chunks[k], events, (k - 1) * size)
             /\ Len(chunks[k]) <= size /\ Queryable(chunks[k], operations)
  <2>1. PICK c, start : c = chunks[k] /\ start = (k - 1) * size
    OBVIOUS
  <2>2. IsSlice(c, events, start) /\ Len(c) = Min({k * size, n}) - start
    BY <1>2, <1>4, <1>5, <1>6, <2>1, SliceFacts
  <2>3. Queryable(c, operations)
    BY <1>2, <2>2, SliceIsQueryable
  <2>4. Len(c) <= size
    <3>1. PICK end \in Int : end = k * size /\ end = start + size
      BY <1>2, <2>1
    <3>2. PICK hi : hi = Min({end, n})
      OBVIOUS
    <3>3. n \in Int
      BY <1>6
    <3>4. hi \in Int /\ hi <= end
      BY <3>1, <3>2, <3>3, MinOfTwo
    <3>5. Len(c) = hi - start
      BY <2>2, <3>1, <3>2
    <3>6. start \in Int /\ size \in Int
      BY <1>2, <2>2 DEF IsSlice
    <3>7. QED
      BY <3>1, <3>4, <3>5, <3>6
  <2>5. QED
    BY <2>1, <2>2, <2>3, <2>4
<1>9. \A e \in 1 .. n : \E k \in 1 .. m : \E i \in 1 .. Len(chunks[k]) : chunks[k][i] = events[e]
  <2>1. \A e \in 1 .. Len(events) : \E k \in 1 .. Len(Slices(size)) :
          \E i \in 1 .. Len(Slices(size)[k]) : Slices(size)[k][i] = events[e]
    BY <1>2, SlicesCover
  <2>2. QED
    BY <1>4, <1>5, <1>6, <2>1
<1>10. QED
  BY <1>1, <1>3, <1>5, <1>6, <1>7, <1>8, <1>9

\* values are the numbers of points of chunks, of each of the chunks p at most once.
CountsChunks(values, p) ==
  /\ values \in Seq(Int) /\ Len(values) <= Len(CreateEventChunks)
  /\ \A j \in 1 .. Len(values) :
       /\ p[j] \in 1 .. Len(CreateEventChunks)
       /\ values[j] = Cardinality(PointsIn(CreateEventChunks[p[j]]))
  /\ \A i, j \in 1 .. Len(values) : p[i] = p[j] => i = j

\* The answer for a duration adds the numbers of points of the chunks that were not
\* lost, of each chunk once.
LEMMA ChunksAddUp ==
  ASSUME ModesInv, status = "done", ChosenMode = "concurrent", AsksDuration(operations)
  PROVE  \E values : \E p :
           /\ answer.value = Total(values) /\ CountsChunks(values, p)
           /\ lost = {} => \A k \in 1 .. Len(CreateEventChunks) :
                             \E j \in 1 .. Len(values) : p[j] = k
<1>1. PICK r, chunks, m : r = ChunkResults(lost) /\ chunks = CreateEventChunks /\ m = Len(chunks)
  OBVIOUS
<1>2. QueryInv /\ answer = AssembleChunkResults(r) /\ answer.type # "error"
  BY <1>1 DEF ModesInv
<1>3. /\ m \in Nat /\ DOMAIN chunks = 1 .. m
      /\ \A k \in 1 .. m : Queryable(chunks[k], operations)
  BY <1>1, <1>2, ChunksAreSlices
<1> DEFINE One(k) == IF k \in lost THEN Failure ELSE ProcessQuery(chunks[k], operations)
<1>4. r = [k \in 1 .. m |-> One(k)]
  BY <1>1, <1>3 DEF ChunkResults
<1>5. /\ operations # <<>> /\ Last(operations).Op = "DurationWhere"
      /\ Len(operations) \in Nat
  <2>1. Len(operations) \in Nat \ {0} /\ operations \in Seq(ToSet(operations))
    BY <1>2, QueryFacts DEF AsksDuration
  <2>2. Last(operations) = operations[Len(operations)]
    BY <2>1 DEF Last
  <2>3. QED
    BY <2>1, <2>2 DEF AsksDuration
<1>6. ASSUME NEW k \in 1 .. m
      PROVE  /\ ~HasWindows(operations) => One(k).type = "error"
             /\ HasWindows(operations) /\ k \in lost => One(k).type = "error"
             /\ HasWindows(operations) /\ k \notin lost =>
                  /\ Cardinality(PointsIn(chunks[k])) \in Int
                  /\ One(k) = Seconds(Cardinality(PointsIn(chunks[k])))
  <2>1. Failure.type = "error"
    BY DEF Failure
  <2>2. PICK c : c = chunks[k]
    OBVIOUS
  <2>3. ~HasWindows(operations) => ProcessQuery(c, operations).type = "error"
    BY FailsWithoutWindow
  <2>4. HasWindows(operations) =>
          /\ Cardinality(PointsIn(c)) \in Int
          /\ ProcessQuery(c, operations) = Seconds(Cardinality(PointsIn(c)))
    BY <1>3, <2>2, DurationOfQuery DEF PointsIn
  <2>5. QED
    BY <2>1, <2>2, <2>3, <2>4
<1> HIDE DEF One
<1>7. r \in Seq(ToSet(r)) /\ Len(r) = m /\ \A k \in 1 .. m : r[k] = One(k)
  BY <1>3, <1>4 DEF ToSet
<1>8. \A k \in 1 .. Len(r) : IsDuration(r[k])
  BY <1>6, <1>7 DEF IsDuration
<1>9. /\ \E values : \E p : Adds(values, r, p) /\ answer = Seconds(Total(values))
      /\ r # <<>> => \E k \in 1 .. Len(r) : r[k].type # "error"
  BY <1>2, <1>5, <1>7, <1>8, DurationsAreAdded
<1>10. PICK values : \E p : Adds(values, r, p) /\ answer = Seconds(Total(values))
  BY <1>9
<1>11. PICK p : Adds(values, r, p) /\ answer = Seconds(Total(values))
  BY <1>10
<1>12. m > 0 => HasWindows(operations)
  <2>1. m > 0 => \E k \in 1 .. m : One(k).type # "error"
    <3>1. m > 0 => r # <<>>
      BY <1>7
    <3>2. QED
      BY <1>7, <1>9, <3>1
  <2>2. QED
    BY <1>6, <2>1
<1>13. /\ values \in Seq(Int) /\ Len(values) <= m
       /\ \A j \in 1 .. Len(values) : p[j] \in 1 .. m /\ One(p[j]) = Seconds(values[j])
       /\ \A i, j \in 1 .. Len(values) : p[i] = p[j] => i = j
       /\ \A k \in 1 .. m : One(k).type # "error" => \E j \in 1 .. Len(values) : p[j] = k
  BY <1>7, <1>11 DEF Adds
<1>14. ASSUME NEW j \in 1 .. Len(values)
       PROVE  values[j] = Cardinality(PointsIn(chunks[p[j]]))
  <2>1. PICK k \in 1 .. m : k = p[j] /\ One(k) = Seconds(values[j])
    BY <1>13
  <2>2. One(k).type # "error"
    BY <2>1 DEF Seconds
  <2>3. One(k) = Seconds(Cardinality(PointsIn(chunks[k])))
    BY <1>6, <2>2
  <2>4. values[j] = Seconds(values[j]).value /\ Seconds(values[j]).value = Cardinality(PointsIn(chunks[k]))
    BY <2>1, <2>3 DEF Seconds
  <2>5. QED
    BY <2>1, <2>4
<1>15. ASSUME lost = {}, NEW k \in 1 .. m PROVE \E j \in 1 .. Len(values) : p[j] = k
  <2>1. HasWindows(operations)
    BY <1>3, <1>12
  <2>2. One(k) = Seconds(Cardinality(PointsIn(chunks[k])))
    BY <1>6, <1>15, <2>1
  <2>3. One(k).type # "error"
    BY <2>2 DEF Seconds
  <2>4. QED
    BY <1>13, <2>3
<1>16. answer.value = Total(values)
  BY <1>11 DEF Seconds
<1>17. /\ \A j \in 1 .. Len(values) :
            p[j] \in 1 .. m /\ values[j] = Cardinality(PointsIn(chunks[p[j]]))
       /\ lost = {} => \A k \in 1 .. m : \E j \in 1 .. Len(values) : p[j] = k
  BY <1>13, <1>14, <1>15
<1>18. CountsChunks(values, p)
  BY <1>1, <1>13, <1>17 DEF CountsChunks
<1>19. QED
  BY <1>1, <1>16, <1>17, <1>18

--------------------------------------------------------------------------------
(* The points of a slice.                                                  *)

\* The events of a type are among those of the list that the slice is of.
LEMMA SliceMatches ==
  ASSUME NEW c, NEW es, NEW start, IsSlice(c, es, start), Listed(es), NEW op
  PROVE  /\ Listed(c)
         /\ \A i \in Matches(c, op) : start + i \in Matches(es, op) /\ es[start + i] = c[i]
         /\ \A type : \A e \in ToSet(c) :
              Among(e, FilterEventsByType(c, type)) => Among(e, FilterEventsByType(es, type))
<1>1. /\ c \in Seq(ToSet(es)) /\ DOMAIN c = 1 .. Len(c)
      /\ es \in Seq(ToSet(es)) /\ DOMAIN es = 1 .. Len(es)
      /\ \A i \in 1 .. Len(c) : start + i \in 1 .. Len(es) /\ c[i] = es[start + i]
  BY DEF IsSlice, Listed
<1>2. ToSet(c) \subseteq ToSet(es) /\ c \in Seq(ToSet(c))
  <2>1. ToSet(c) \subseteq ToSet(es)
    BY <1>1 DEF ToSet
  <2>2. c \in Seq(ToSet(c))
    BY <1>1 DEF ToSet
  <2>3. QED
    BY <2>1, <2>2
<1>3. Listed(c)
  BY <1>2 DEF Listed, Stamped
<1>4. \A i \in Matches(c, op) : start + i \in Matches(es, op) /\ es[start + i] = c[i]
  BY <1>1 DEF Matches
<1>5. ASSUME NEW type, NEW e \in ToSet(c), Among(e, FilterEventsByType(c, type))
      PROVE  Among(e, FilterEventsByType(es, type))
  <2>1. e.Type = type
    BY <1>3, <1>5, FilterKeeps
  <2>2. Among(e, es)
    BY <1>1, <1>2, AmongPlaces
  <2>3. QED
    BY <2>1, <2>2, FilterKeeps
<1>6. QED
  BY <1>3, <1>4, <1>5

\* Up to a while after the last event of a type in a slice is so in the list.
LEMMA UntilLatestOfSlice ==
  ASSUME NEW c, NEW es, NEW start, IsSlice(c, es, start), Listed(es), NEW type,
         NEW while \in Int, NEW t \in Int, Times(c, type) # {},
         t < Max(Times(c, type)) + while
  PROVE  /\ t < Max(Times(es, type)) + while
         /\ \E e \in ToSet(c) : t < e.Timestamp + while
<1>1. Listed(c)
  BY SliceMatches
<1>2. PICK e \in ToSet(c) : Among(e, FilterEventsByType(c, type)) /\ t < e.Timestamp + while
  BY <1>1, UntilLatest
<1>3. e \in ToSet(es) /\ Among(e, FilterEventsByType(es, type))
  <2>1. c \in Seq(ToSet(es)) /\ DOMAIN c = 1 .. Len(c)
    BY DEF IsSlice
  <2>2. ToSet(c) \subseteq ToSet(es)
    BY <2>1 DEF ToSet
  <2>3. QED
    BY <1>2, <2>2, SliceMatches
<1>4. Times(es, type) # {}
  <2>1. PICK i \in DOMAIN c : c[i].Type = type
    BY DEF Times
  <2>2. i \in 1 .. Len(c) /\ start + i \in DOMAIN es /\ es[start + i].Type = type
    BY <2>1 DEF IsSlice, Listed
  <2>3. QED
    BY <2>2 DEF Times
<1>5. t < Max(Times(es, type)) + while
  BY <1>2, <1>3, <1>4, UntilLatest
<1>6. QED
  BY <1>2, <1>5

\* What lies around an event of a slice is seen in the list.
LEMMA AlternativesOfSlice ==
  ASSUME NEW c, NEW es, NEW start, IsSlice(c, es, start), Listed(es), NEW op,
         op.Op \in Alternatives
  PROVE  \A t \in FlatPoints(c, op) : t \in FlatPoints(es, op)
<1>1. Points \subseteq Int
  BY QueryProcessorAssumption DEF Points
<1>2. \A i \in Matches(c, op) : start + i \in Matches(es, op) /\ es[start + i] = c[i]
  BY SliceMatches
<1>3. CASE op.Op = "HasExistedWithin"
  <2>1. \A s : FlatPoints(s, op) = {t \in Points : \E i \in Matches(s, op) :
           s[i].Timestamp <= t /\ t < s[i].Timestamp + op.Params["window"]}
    BY <1>3 DEF FlatPoints
  <2>2. QED
    BY <1>2, <2>1
<1>4. CASE op.Op = "HasExisted"
  <2>1. \A s : FlatPoints(s, op) = {t \in Points : /\ \E i \in Matches(s, op) : s[i].Timestamp <= t
                                                  /\ t < Max(Times(s, op.Source)) + Hour}
    BY <1>4 DEF FlatPoints
  <2>2. ASSUME NEW t \in FlatPoints(c, op) PROVE t \in FlatPoints(es, op)
    <3>1. /\ t \in Points /\ t \in Int /\ t < Max(Times(c, op.Source)) + Hour
          /\ \E i \in Matches(c, op) : c[i].Timestamp <= t
      BY <1>1, <2>1
    <3>2. \E i \in Matches(es, op) : es[i].Timestamp <= t
      BY <1>2, <3>1
    <3>3. Times(c, op.Source) # {}
      BY <3>1 DEF Matches, Times
    <3>4. Hour \in Int
      BY TimelineAssumption
    <3>5. t < Max(Times(es, op.Source)) + Hour
      BY <3>1, <3>3, <3>4, UntilLatestOfSlice
    <3>6. QED
      BY <2>1, <3>1, <3>2, <3>5
  <2>3. QED
    BY <2>2
<1>5. QED
  BY <1>3, <1>4 DEF Alternatives

\* What a window shows in a list is shown in a slice, if each event is in one of them.
LEMMA WithinIsGathered ==
  ASSUME NEW es, Listed(es), NEW Cs, \A c \in Cs : Listed(c),
         \A e \in 1 .. Len(es) : \E c \in Cs : \E i \in 1 .. Len(c) : c[i] = es[e],
         NEW op, op.Op = "HasExistedWithin"
  PROVE  \A t \in FlatPoints(es, op) : \E c \in Cs : t \in FlatPoints(c, op)
<1>1. \A s : FlatPoints(s, op) = {t \in Points : \E i \in Matches(s, op) :
         s[i].Timestamp <= t /\ t < s[i].Timestamp + op.Params["window"]}
  BY DEF FlatPoints
<1>2. ASSUME NEW t \in FlatPoints(es, op) PROVE \E c \in Cs : t \in FlatPoints(c, op)
  <2>1. /\ t \in Points
        /\ \E i \in Matches(es, op) :
             es[i].Timestamp <= t /\ t < es[i].Timestamp + op.Params["window"]
    BY <1>1
  <2>2. PICK e \in Matches(es, op) :
          es[e].Timestamp <= t /\ t < es[e].Timestamp + op.Params["window"]
    BY <2>1
  <2>3. e \in 1 .. Len(es) /\ es[e].Type = op.Source /\ es[e].Value = op.Equals
    BY DEF Matches, Listed
  <2>4. PICK c \in Cs : \E i \in 1 .. Len(c) : c[i] = es[e]
    BY <2>3
  <2>5. PICK i \in 1 .. Len(c) : c[i] = es[e]
    BY <2>4
  <2>6. i \in DOMAIN c
    BY <2>4 DEF Listed
  <2>7. i \in Matches(c, op)
    BY <2>3, <2>5, <2>6 DEF Matches
  <2>8. t \in FlatPoints(c, op)
    BY <1>1, <2>1, <2>2, <2>5, <2>7
  <2>9. QED
    BY <2>8
<1>3. QED
  BY <1>2

\* Events in time order.
Ordered(es) == \A i, j \in 1 .. Len(es) : i <= j => es[i].Timestamp <= es[j].Timestamp

\* If none is earlier than the one before it, events are in time order.
LEMMA OrderIsTotal ==
  ASSUME QueryInv, InTimeOrder
  PROVE  Ordered(events)
<1>1. PICK n \in Nat : n = Len(events)
  BY QueryFacts DEF Listed
<1>2. \A i \in 1 .. n : events[i].Timestamp \in Int
  BY <1>1, QueryFacts DEF Listed, Stamped
<1>3. ASSUME NEW i \in 1 .. n PROVE \A j \in 1 .. n : i <= j => events[i].Timestamp <= events[j].Timestamp
  <2> DEFINE Good(d) == i + d <= n => events[i].Timestamp <= events[i + d].Timestamp
             S == {d \in 0 .. n : Good(d)}
  <2>1. Good(0)
    BY <1>2
  <2>2. ASSUME NEW d \in 0 .. n - 1, Good(d) PROVE Good(d + 1)
    <3>1. ASSUME i + (d + 1) <= n PROVE events[i].Timestamp <= events[i + (d + 1)].Timestamp
      <4>1. PICK k : k = i + d
        OBVIOUS
      <4>2. k \in 1 .. n - 1 /\ k + 1 = i + (d + 1) /\ k \in 1 .. n /\ k + 1 \in 1 .. n /\ k <= n
        BY <1>1, <3>1, <4>1
      <4>3. events[i].Timestamp <= events[k].Timestamp
        BY <2>2, <4>1, <4>2
      <4>4. events[k].Timestamp <= events[k + 1].Timestamp
        BY <1>1, <4>2 DEF InTimeOrder
      <4>5. events[i].Timestamp <= events[k + 1].Timestamp
        BY <1>2, <4>2, <4>3, <4>4
      <4>6. QED
        BY <4>2, <4>5
    <3>2. QED
      BY <3>1
  <2> HIDE DEF Good
  <2>3. \A d \in 0 .. n : d \in S
    <3>1. 0 \in S
      BY <1>1, <2>1
    <3>2. \A d \in 0 .. n - 1 : d \in S => d + 1 \in S
      BY <1>1, <2>2
    <3> HIDE DEF S
    <3>3. QED
      BY <1>1, <3>1, <3>2, Induction
  <2>4. ASSUME NEW j \in 1 .. n, i <= j PROVE events[i].Timestamp <= events[j].Timestamp
    <3>1. PICK d : d = j - i
      OBVIOUS
    <3>2. d \in 0 .. n /\ i + d = j /\ j <= n
      BY <1>1, <2>4, <3>1
    <3>3. Good(d)
      BY <2>3, <3>2
    <3>4. QED
      BY <3>2, <3>3 DEF Good
  <2>5. QED
    BY <2>4
<1>4. QED
  BY <1>1, <1>3 DEF Ordered

\* From the first event of a slice up to the last one.
RangeOf(c) == {t \in Int : c[1].Timestamp <= t /\ t < c[Len(c)].Timestamp}

\* What a slice adds to a state that lasts.
ExtraOf(c) == {t \in Int : c[Len(c)].Timestamp <= t /\ t < c[Len(c)].Timestamp + Nanosecond}

\* A state is seen in a slice where it is in the list, but for the end of the slice.
LEMMA StateOfSlice ==
  ASSUME NEW c, NEW es, NEW start, IsSlice(c, es, start), Listed(es), Ordered(es), NEW op,
         op.Op = "LatestEventToState"
  PROVE  \A t \in FlatPoints(c, op) :
           t \in ExtraOf(c) \/ (t \in FlatPoints(es, op) /\ t \in RangeOf(c))
<1>1. Points \subseteq Int /\ Nanosecond \in Int
  BY QueryProcessorAssumption, TimelineAssumption DEF Points
<1>2. PICK m, type : m = Len(c) /\ type = op.Source
  OBVIOUS
<1>3. /\ m \in Nat /\ m \in 1 .. m /\ 1 \in 1 .. m /\ start \in Nat /\ DOMAIN c = 1 .. m
      /\ \A i \in 1 .. m : start + i \in 1 .. Len(es) /\ c[i] = es[start + i]
  BY <1>2 DEF IsSlice
<1>4. /\ Len(es) \in Nat /\ DOMAIN es = 1 .. Len(es)
      /\ \A i \in 1 .. Len(es) : es[i].Timestamp \in Int
  BY DEF Listed, Stamped
<1>5. \A i \in 1 .. m : /\ c[i].Timestamp \in Int
                        /\ c[1].Timestamp <= c[i].Timestamp /\ c[i].Timestamp <= c[m].Timestamp
  <2>1. ASSUME NEW i \in 1 .. m
        PROVE  /\ c[i].Timestamp \in Int
               /\ c[1].Timestamp <= c[i].Timestamp /\ c[i].Timestamp <= c[m].Timestamp
    <3>1. PICK a, b, d : a = start + 1 /\ b = start + i /\ d = start + m
      OBVIOUS
    <3>2. a \in 1 .. Len(es) /\ b \in 1 .. Len(es) /\ d \in 1 .. Len(es) /\ a <= b /\ b <= d
      BY <1>3, <3>1
    <3>3. c[1] = es[a] /\ c[i] = es[b] /\ c[m] = es[d]
      BY <1>3, <3>1
    <3>4. QED
      BY <1>4, <3>2, <3>3 DEF Ordered
  <2>2. QED
    BY <2>1
<1>6. \A s : FlatPoints(s, op) =
        {t \in Points : /\ \E i \in LatestAt(s, type, t) : s[i].Value = op.Equals
                        /\ t < Max(Times(s, type)) + Nanosecond}
  BY <1>2 DEF FlatPoints
<1>7. ASSUME NEW t \in FlatPoints(c, op)
      PROVE  t \in ExtraOf(c) \/ (t \in FlatPoints(es, op) /\ t \in RangeOf(c))
  <2>1. /\ t \in Points /\ t \in Int /\ t < Max(Times(c, type)) + Nanosecond
        /\ \E i \in LatestAt(c, type, t) : c[i].Value = op.Equals
    BY <1>1, <1>6
  <2>2. PICK i \in LatestAt(c, type, t) : c[i].Value = op.Equals
    BY <2>1
  <2>3. /\ i \in 1 .. m /\ c[i].Type = type /\ c[i].Timestamp <= t
        /\ \A j \in 1 .. m : c[j].Type = type /\ c[j].Timestamp <= t =>
             /\ c[j].Timestamp <= c[i].Timestamp
             /\ c[j].Timestamp = c[i].Timestamp => j <= i
    BY <1>3 DEF LatestAt
  <2>4. Times(c, type) # {}
    BY <1>3, <2>3 DEF Times
  <2>5. PICK last \in Int : last = c[m].Timestamp
    BY <1>3, <1>5
  <2>6. t < last + Nanosecond
    <3>1. PICK e \in ToSet(c) : t < e.Timestamp + Nanosecond
      BY <1>1, <2>1, <2>4, UntilLatestOfSlice
    <3>2. e.Timestamp \in Int /\ e.Timestamp <= last
      BY <1>3, <1>5, <2>5 DEF ToSet
    <3>3. QED
      BY <1>1, <2>1, <2>5, <3>1, <3>2
  <2>7. c[1].Timestamp <= t
    BY <1>3, <1>5, <2>1, <2>3
  <2>8. CASE t >= last
    BY <1>2, <2>1, <2>5, <2>6, <2>8 DEF ExtraOf
  <2>9. CASE t < last
    <3>1. PICK k : k = start + i /\ k \in 1 .. Len(es) /\ es[k] = c[i]
      BY <1>3, <2>3
    <3>2. ASSUME NEW j \in 1 .. Len(es), es[j].Type = type, es[j].Timestamp <= t
          PROVE  /\ es[j].Timestamp <= es[k].Timestamp
                 /\ es[j].Timestamp = es[k].Timestamp => j <= k
      <4>1. k \in Int /\ k <= start + m /\ start + m \in 1 .. Len(es) /\ c[m] = es[start + m]
        BY <1>3, <2>3, <3>1
      <4>2. CASE j <= k
        BY <3>1, <4>2 DEF Ordered
      <4>3. CASE j > k /\ j <= start + m
        <5>1. PICK l : l = j - start
          OBVIOUS
        <5>2. l \in 1 .. m /\ start + l = j
          BY <1>3, <2>3, <3>1, <4>3, <5>1
        <5>3. c[l] = es[j]
          BY <1>3, <5>2
        <5>4. /\ c[l].Timestamp <= c[i].Timestamp
              /\ c[l].Timestamp = c[i].Timestamp => l <= i
          BY <2>3, <3>2, <5>2, <5>3
        <5>5. l <= i => j <= k
          BY <1>3, <2>3, <3>1, <5>2
        <5>6. QED
          BY <3>1, <5>3, <5>4, <5>5
      <4>4. CASE j > start + m
        <5>1. es[start + m].Timestamp <= es[j].Timestamp
          BY <1>3, <4>1, <4>4 DEF Ordered
        <5>2. QED
          BY <1>4, <2>1, <2>5, <2>9, <3>2, <4>1, <5>1
      <4>5. QED
        BY <1>3, <4>1, <4>2, <4>3, <4>4
    <3>3. k \in LatestAt(es, type, t)
      BY <1>4, <2>3, <3>1, <3>2 DEF LatestAt
    <3>4. t < Max(Times(es, type)) + Nanosecond
      BY <1>1, <2>1, <2>4, UntilLatestOfSlice
    <3>5. t \in FlatPoints(es, op)
      BY <1>6, <2>1, <2>2, <3>1, <3>3, <3>4
    <3>6. t \in RangeOf(c)
      BY <1>2, <2>1, <2>5, <2>7, <2>9 DEF RangeOf
    <3>7. QED
      BY <3>5, <3>6
  <2>10. QED
    BY <2>1, <2>5, <2>8, <2>9
<1>8. QED
  BY <1>7

--------------------------------------------------------------------------------
(* How much the chunks of a query find.                                    *)

\* The points of a plain operation are units of time up to the horizon.
LEMMA PlainPointsAreFinite ==
  ASSUME NEW es, NEW ops, AsksDuration(ops)
  PROVE  LET S == PointsOf(es, ops)[Len(ops)] IN IsFiniteSet(S) /\ Cardinality(S) \in Nat
<1>1. PICK n, S : n = Len(ops) /\ S = PointsOf(es, ops)[n]
  OBVIOUS
<1>2. n \in 1 .. n /\ n \in Nat /\ ops[n].Op = "DurationWhere"
  BY <1>1 DEF AsksDuration
<1>3. S = PointsTurn(es, ops, PointsOf(es, ops), n)
  BY <1>1, <1>2, PointsUnfold
<1>4. \A f, seen : AllPoints(f, seen) \subseteq Points /\ SomePoints(f, seen) \subseteq Points
  BY DEF AllPoints, SomePoints
<1>5. S \subseteq Points
  BY <1>2, <1>3, <1>4 DEF PointsTurn
<1>6. IsFiniteSet(Points)
  <2>1. 0 \in Int /\ Horizon \in Int
    BY QueryProcessorAssumption
  <2>2. QED
    BY <2>1, FS_Interval DEF Points
<1>7. IsFiniteSet(S)
  BY <1>5, <1>6, FS_Subset
<1>8. QED
  BY <1>1, <1>7, FS_CardinalityType

\* A chunk of alternatives and their combinations finds no more than there is.
LEMMA ChunksFindNoMore ==
  ASSUME ModesInv, status = "done", ChosenMode = "concurrent", AsksDuration(operations),
         \A i \in 1 .. Len(operations) :
           operations[i].Op \in {"HasExisted", "HasExistedWithin", "AND", "OR", "DurationWhere"}
  PROVE  answer.value <= Len(CreateEventChunks) * Cardinality(PointsIn(events))
<1>1. PICK chunks, m, d : /\ chunks = CreateEventChunks /\ m = Len(chunks)
                          /\ d = Cardinality(PointsIn(events))
  OBVIOUS
<1>2. QueryInv /\ Listed(events) /\ Len(operations) \in Nat /\ Len(operations) \in 1 .. Len(operations)
  BY QueryFacts DEF ModesInv, AsksDuration
<1>3. m \in Nat /\ \A k \in 1 .. m : \E start : IsSlice(chunks[k], events, start)
  BY <1>1, <1>2, ChunksAreSlices
<1>4. PICK values : \E p : /\ answer.value = Total(values) /\ CountsChunks(values, p)
  BY ChunksAddUp
<1>5. PICK p : /\ answer.value = Total(values) /\ CountsChunks(values, p)
  BY <1>4
<1>6. /\ values \in Seq(Int) /\ Len(values) <= m
      /\ \A j \in 1 .. Len(values) :
           p[j] \in 1 .. m /\ values[j] = Cardinality(PointsIn(chunks[p[j]]))
  BY <1>1, <1>5 DEF CountsChunks
<1>7. IsFiniteSet(PointsIn(events)) /\ d \in Nat
  BY <1>1, PlainPointsAreFinite DEF PointsIn
<1>8. ASSUME NEW j \in 1 .. Len(values) PROVE values[j] <= d
  <2>1. PICK c, start : c = chunks[p[j]] /\ IsSlice(c, events, start)
    BY <1>3, <1>5, <1>6
  <2> DEFINE none == {}
  <2> HIDE DEF none
  <2>2. \A n \in 1 .. Len(operations) :
          /\ operations[n].Op \in Plain
          /\ operations[n].Op \notin Combining =>
               \A t \in FlatPoints(c, operations[n]) :
                 t \in none \/ (t \in FlatPoints(events, operations[n]) /\ t \in Points)
    <3>1. ASSUME NEW n \in 1 .. Len(operations), operations[n].Op \notin Combining,
                 NEW t \in FlatPoints(c, operations[n])
          PROVE  t \in FlatPoints(events, operations[n]) /\ t \in Points
      <4>1. operations[n].Op \in Alternatives
        BY <3>1 DEF Combining, Alternatives
      <4>2. t \in FlatPoints(events, operations[n])
        BY <1>2, <2>1, <3>1, <4>1, AlternativesOfSlice
      <4>3. FlatPoints(events, operations[n]) \subseteq Points
        BY DEF FlatPoints
      <4>4. QED
        BY <4>2, <4>3
    <3>2. \A n \in 1 .. Len(operations) : operations[n].Op \in Plain
      BY DEF Plain
    <3>3. QED
      BY <3>1, <3>2
  <2>3. \A n \in 1 .. Len(operations) : \A t \in PointsOf(c, operations)[n] :
          t \in none \/ (t \in PointsOf(events, operations)[n] /\ t \in Points)
    BY <1>2, <2>2, PointsSpread
  <2>4. PointsIn(c) \subseteq PointsIn(events)
    BY <1>2, <2>3 DEF PointsIn, none
  <2>5. Cardinality(PointsIn(c)) <= d
    BY <1>1, <1>7, <2>4, FS_Subset
  <2>6. QED
    BY <1>5, <1>6, <2>1, <2>5
<1>9. Total(values) <= Len(values) * d
  <2> DEFINE A == [j \in 1 .. Len(values) |-> {}]
  <2>1. \A j \in 1 .. Len(values) : A[j] = {}
    OBVIOUS
  <2>2. IsFiniteSet({}) /\ Cardinality({}) = 0
    BY FS_EmptySet
  <2> HIDE DEF A
  <2>3. \A j \in 1 .. Len(values) : IsFiniteSet(A[j]) /\ values[j] <= Cardinality(A[j]) + d
    <3>1. \A j \in 1 .. Len(values) : values[j] <= 0 + d
      BY <1>7, <1>8
    <3>2. QED
      BY <2>1, <2>2, <3>1
  <2>4. /\ \A i, j \in 1 .. Len(values) : i # j => A[i] \cap A[j] = {}
        /\ \A x : x \in {} <=> \E j \in 1 .. Len(values) : x \in A[j]
    BY <2>1
  <2>5. d \in Int
    BY <1>7
  <2>6. Total(values) <= Cardinality({}) + Len(values) * d
    BY <1>5, <1>6, <2>3, <2>4, <2>5, TotalFits
  <2>7. Len(values) * d \in Int
    BY <1>5, <1>6, <1>7
  <2>8. QED
    BY <2>2, <2>6, <2>7
<1>10. Len(values) * d <= m * d /\ Len(values) * d \in Int /\ m * d \in Int
  <2>1. Len(values) \in Int /\ m \in Int /\ Len(values) <= m
    BY <1>3, <1>5, <1>6
  <2>2. QED
    BY <1>7, <2>1, ProductGrows
<1>11. Total(values) \in Int
  BY <1>5, <1>6, TotalFacts
<1>12. QED
  BY <1>1, <1>5, <1>6, <1>9, <1>10, <1>11

\* Together the chunks find all that windows show, and alternatives of them.
LEMMA ChunksFindAll ==
  ASSUME ModesInv, status = "done", ChosenMode = "concurrent", AsksDuration(operations),
         \A i \in 1 .. Len(operations) :
           operations[i].Op \in {"HasExistedWithin", "OR", "DurationWhere"},
         operations[Len(operations)].ConditionAll = <<>>, lost = {}
  PROVE  answer.value >= Cardinality(PointsIn(events))
<1>1. PICK chunks, m, d : /\ chunks = CreateEventChunks /\ m = Len(chunks)
                          /\ d = Cardinality(PointsIn(events))
  OBVIOUS
<1>2. QueryInv /\ Listed(events) /\ Len(operations) \in Nat /\ Len(operations) \in 1 .. Len(operations)
  BY QueryFacts DEF ModesInv, AsksDuration
<1>3. /\ m \in Nat /\ \A k \in 1 .. m : Listed(chunks[k])
      /\ \A e \in 1 .. Len(events) : \E k \in 1 .. m : \E i \in 1 .. Len(chunks[k]) :
           chunks[k][i] = events[e]
  BY <1>1, <1>2, ChunksAreSlices, SliceMatches
<1>4. PICK values : \E p : /\ answer.value = Total(values) /\ CountsChunks(values, p)
                           /\ lost = {} => \A k \in 1 .. Len(CreateEventChunks) :
                                \E j \in 1 .. Len(values) : p[j] = k
  BY ChunksAddUp
<1>5. PICK p : /\ answer.value = Total(values) /\ CountsChunks(values, p)
               /\ lost = {} => \A k \in 1 .. Len(CreateEventChunks) :
                    \E j \in 1 .. Len(values) : p[j] = k
  BY <1>4
<1>6. /\ values \in Seq(Int) /\ Len(values) <= m
      /\ \A j \in 1 .. Len(values) :
           p[j] \in 1 .. m /\ values[j] = Cardinality(PointsIn(chunks[p[j]]))
      /\ \A k \in 1 .. m : \E j \in 1 .. Len(values) : p[j] = k
  BY <1>1, <1>5 DEF CountsChunks
<1> DEFINE Cs == {chunks[k] : k \in 1 .. m}
<1>7. \A n \in 1 .. Len(operations) :
        operations[n].Op = "HasExistedWithin" =>
          \A t \in FlatPoints(events, operations[n]) :
            \E c \in Cs : t \in FlatPoints(c, operations[n])
  <2>1. \A c \in Cs : Listed(c)
    BY <1>3
  <2>2. \A e \in 1 .. Len(events) : \E c \in Cs : \E i \in 1 .. Len(c) : c[i] = events[e]
    BY <1>3
  <2> HIDE DEF Cs
  <2>3. QED
    BY <1>2, <2>1, <2>2, WithinIsGathered
<1>8. \A t \in PointsIn(events) : \E c \in Cs : t \in PointsIn(c)
  <2> HIDE DEF Cs
  <2>1. \A n \in 1 .. Len(operations) :
          \/ operations[n].Op = "DurationWhere" /\ operations[n].ConditionAll # <<>>
          \/ \A t \in PointsOf(events, operations)[n] :
                 \E c \in Cs : t \in PointsOf(c, operations)[n]
    BY <1>2, <1>7, PointsAreGathered
  <2>2. QED
    BY <1>2, <2>1 DEF PointsIn
<1> DEFINE A == [j \in 1 .. Len(values) |-> PointsIn(chunks[p[j]])]
           all == UNION {A[j] : j \in 1 .. Len(values)}
<1>9. \A j \in 1 .. Len(values) : A[j] = PointsIn(chunks[p[j]])
  OBVIOUS
<1>10. \A x : x \in all <=> \E j \in 1 .. Len(values) : x \in A[j]
  OBVIOUS
<1>11. PointsIn(events) \subseteq all
  <2>1. ASSUME NEW t \in PointsIn(events) PROVE t \in all
    <3>1. PICK k \in 1 .. m : t \in PointsIn(chunks[k])
      BY <1>8
    <3>2. PICK j \in 1 .. Len(values) : p[j] = k
      BY <1>5, <1>6
    <3>3. t \in A[j]
      BY <1>9, <3>1, <3>2
    <3> HIDE DEF A, all
    <3>4. QED
      BY <1>10, <3>3
  <2>2. QED
    BY <2>1
<1> HIDE DEF A, all, Cs
<1>12. \A j \in 1 .. Len(values) :
         IsFiniteSet(A[j]) /\ Cardinality(A[j]) \in Nat /\ Cardinality(A[j]) <= values[j]
  <2>1. ASSUME NEW j \in 1 .. Len(values)
        PROVE  IsFiniteSet(A[j]) /\ Cardinality(A[j]) \in Nat /\ Cardinality(A[j]) <= values[j]
    <3>1. PICK c : c = chunks[p[j]]
      OBVIOUS
    <3>2. IsFiniteSet(PointsIn(c)) /\ Cardinality(PointsIn(c)) \in Nat
      BY PlainPointsAreFinite DEF PointsIn
    <3>3. A[j] = PointsIn(c) /\ values[j] = Cardinality(PointsIn(c))
      BY <1>5, <1>6, <1>9, <3>1
    <3>4. QED
      BY <3>2, <3>3
  <2>2. QED
    BY <2>1
<1>13. IsFiniteSet(all) /\ Cardinality(all) <= Total(values)
  BY <1>5, <1>6, <1>10, <1>12, TotalCovers
<1>14. Cardinality(PointsIn(events)) <= Cardinality(all)
  BY <1>11, <1>13, FS_Subset
<1>15. Total(values) \in Int /\ Cardinality(all) \in Nat /\ Cardinality(PointsIn(events)) \in Nat
  BY <1>2, <1>5, <1>6, <1>13, TotalFacts, FS_CardinalityType, PlainPointsAreFinite DEF PointsIn
<1>16. QED
  BY <1>5, <1>6, <1>13, <1>14, <1>15

\* Of events in time order no two chunks range over one time.
LEMMA RangesAreDisjoint ==
  ASSUME QueryInv, Ordered(events),
         NEW k \in 1 .. Len(CreateEventChunks), NEW l \in 1 .. Len(CreateEventChunks), k < l
  PROVE  \A t : ~(t \in RangeOf(CreateEventChunks[k]) /\ t \in RangeOf(CreateEventChunks[l]))
<1>1. PICK size, c, d : /\ size = DefaultChunkSize
                        /\ c = CreateEventChunks[k] /\ d = CreateEventChunks[l]
  OBVIOUS
<1>2. PICK a, b : a = (k - 1) * size /\ b = (l - 1) * size
  OBVIOUS
<1>3. IsSlice(c, events, a) /\ Len(c) <= size /\ IsSlice(d, events, b)
  BY <1>1, <1>2, ChunksAreSlices
<1>4. size \in Nat /\ k \in Int /\ l \in Int
  <2>1. size \in Nat
    BY <1>1, ProcessingModesAssumption
  <2>2. Len(CreateEventChunks) \in Nat
    BY ChunksAreSlices
  <2>3. k \in Int /\ l \in Int
    BY <2>2
  <2>4. QED
    BY <2>1, <2>3
<1>5. a + size <= b /\ a \in Int /\ b \in Int
  <2>1. k <= l - 1 /\ k \in Int /\ l - 1 \in Int
    BY <1>4
  <2>2. k * size <= (l - 1) * size
    BY <1>4, <2>1, ProductGrows
  <2>3. a + size = k * size /\ a \in Int /\ b \in Int
    BY <1>2, <1>4
  <2>4. QED
    BY <1>2, <2>2, <2>3
<1>6. PICK m, n : m = a + Len(c) /\ n = b + 1
  OBVIOUS
<1>7. Len(c) \in Nat /\ Len(d) \in Nat /\ Len(c) > 0 /\ Len(d) > 0
  BY <1>3 DEF IsSlice
<1>8. Len(c) \in 1 .. Len(c) /\ 1 \in 1 .. Len(d)
  BY <1>7
<1>9. /\ m \in 1 .. Len(events) /\ c[Len(c)] = events[m]
      /\ n \in 1 .. Len(events) /\ d[1] = events[n]
  BY <1>3, <1>6, <1>8 DEF IsSlice
<1>10. m <= n
  BY <1>3, <1>4, <1>5, <1>6, <1>7
<1>11. c[Len(c)].Timestamp <= d[1].Timestamp
  BY <1>9, <1>10 DEF Ordered
<1>12. c[Len(c)].Timestamp \in Int /\ d[1].Timestamp \in Int
  <2>1. \A i \in 1 .. Len(events) : events[i].Timestamp \in Int
    BY QueryFacts DEF Listed, Stamped
  <2>2. QED
    BY <1>9, <2>1
<1>13. \A t : ~(t \in RangeOf(c) /\ t \in RangeOf(d))
  BY <1>11, <1>12 DEF RangeOf
<1>14. QED
  BY <1>1, <1>13

\* Of states in time order a chunk finds those in its range, and a nanosecond more.
LEMMA ChunkCutsStates ==
  ASSUME QueryInv, Ordered(events), AsksDuration(operations),
         \A i \in 1 .. Len(operations) :
           operations[i].Op \in {"LatestEventToState", "DurationWhere"},
         NEW c, NEW start, IsSlice(c, events, start)
  PROVE  LET S == PointsIn(events) \cap RangeOf(c)
         IN  IsFiniteSet(S) /\ Cardinality(PointsIn(c)) <= Cardinality(S) + Nanosecond
<1>1. PICK S : S = PointsIn(events) \cap RangeOf(c)
  OBVIOUS
<1>2. /\ Listed(events) /\ Len(operations) \in Nat
      /\ Len(operations) \in 1 .. Len(operations)
  BY QueryFacts DEF AsksDuration
<1>3. IsFiniteSet(PointsIn(events)) /\ IsFiniteSet(PointsIn(c)) /\ Cardinality(PointsIn(c)) \in Nat
  BY PlainPointsAreFinite DEF PointsIn
<1>4. IsFiniteSet(S)
  <2>1. S \subseteq PointsIn(events)
    BY <1>1
  <2>2. QED
    BY <1>3, <2>1, FS_Subset
<1>5. PICK last : last = c[Len(c)].Timestamp
  OBVIOUS
<1>6. last \in Int
  <2>1. Listed(c)
    BY <1>2, SliceMatches
  <2>2. Len(c) \in Nat /\ Len(c) > 0
    BY DEF IsSlice
  <2>3. Len(c) \in 1 .. Len(c)
    BY <2>2
  <2>4. \A i \in 1 .. Len(c) : c[i].Timestamp \in Int
    BY <2>1 DEF Listed, Stamped
  <2>5. QED
    BY <1>5, <2>3, <2>4
<1>7. Nanosecond \in Nat \ {0}
  BY TimelineAssumption
<1>8. IsFiniteSet(ExtraOf(c)) /\ Cardinality(ExtraOf(c)) = Nanosecond
  <2>1. ExtraOf(c) = last .. last + Nanosecond - 1
    BY <1>5, <1>6, <1>7 DEF ExtraOf
  <2>2. last + Nanosecond - 1 \in Int /\ ~(last > last + Nanosecond - 1)
        /\ (last + Nanosecond - 1) - last + 1 = Nanosecond
    BY <1>6, <1>7
  <2>3. PICK end : end = last + Nanosecond - 1
    OBVIOUS
  <2>4. IsFiniteSet(last .. end) /\ Cardinality(last .. end) = end - last + 1
    BY <1>6, <2>2, <2>3, FS_Interval
  <2>5. QED
    BY <2>1, <2>2, <2>3, <2>4
<1>9. PICK all : all = S \union ExtraOf(c)
  OBVIOUS
<1>10. PICK extra : extra = ExtraOf(c)
  OBVIOUS
<1>11. /\ IsFiniteSet(all) /\ Cardinality(all) \in Nat /\ Cardinality(S) \in Nat
       /\ Cardinality(all) <= Cardinality(S) + Cardinality(extra)
  <2>1. \A x : x \in all <=> x \in S \/ x \in extra
    BY <1>9, <1>10
  <2>2. IsFiniteSet(extra)
    BY <1>8, <1>10
  <2>3. QED
    BY <1>4, <2>1, <2>2, OneSetMore
<1>12. PointsIn(c) \subseteq all
  <2>1. PICK range : range = RangeOf(c)
    OBVIOUS
  <2>2. \A n \in 1 .. Len(operations) :
          /\ operations[n].Op \in Plain
          /\ operations[n].Op \notin Combining =>
               \A t \in FlatPoints(c, operations[n]) :
                 t \in extra \/ (t \in FlatPoints(events, operations[n]) /\ t \in range)
    <3>1. ASSUME NEW n \in 1 .. Len(operations), operations[n].Op \notin Combining
          PROVE  \A t \in FlatPoints(c, operations[n]) :
                   t \in extra \/ (t \in FlatPoints(events, operations[n]) /\ t \in range)
      <4>1. operations[n].Op = "LatestEventToState"
        BY <3>1 DEF Combining
      <4>2. QED
        BY <1>2, <1>10, <2>1, <4>1, StateOfSlice
    <3>2. \A n \in 1 .. Len(operations) : operations[n].Op \in Plain
      BY DEF Plain
    <3>3. QED
      BY <3>1, <3>2
  <2>3. \A n \in 1 .. Len(operations) : \A t \in PointsOf(c, operations)[n] :
          t \in extra \/ (t \in PointsOf(events, operations)[n] /\ t \in range)
    BY <1>2, <2>2, PointsSpread
  <2>4. QED
    BY <1>1, <1>2, <1>9, <1>10, <2>1, <2>3 DEF PointsIn
<1>13. Cardinality(PointsIn(c)) <= Cardinality(all)
  BY <1>11, <1>12, FS_Subset
<1>14. QED
  BY <1>1, <1>3, <1>4, <1>7, <1>8, <1>10, <1>11, <1>13

\* Together the chunks find a nanosecond each more than there is of states in time
\* order, and no more.
LEMMA ChunksCutStates ==
  ASSUME ModesInv, status = "done", ChosenMode = "concurrent", AsksDuration(operations),
         \A i \in 1 .. Len(operations) :
           operations[i].Op \in {"LatestEventToState", "DurationWhere"}, InTimeOrder
  PROVE  answer.value <= Cardinality(PointsIn(events)) + Len(CreateEventChunks) * Nanosecond
<1>1. PICK chunks, m, S : /\ chunks = CreateEventChunks /\ m = Len(chunks)
                          /\ S = PointsIn(events)
  OBVIOUS
<1>2. QueryInv /\ Ordered(events)
  BY OrderIsTotal DEF ModesInv
<1>3. m \in Nat /\ \A k \in 1 .. m : \E start : IsSlice(chunks[k], events, start)
  BY <1>1, <1>2, ChunksAreSlices
<1>4. PICK values : \E p : answer.value = Total(values) /\ CountsChunks(values, p)
  BY ChunksAddUp
<1>5. PICK p : answer.value = Total(values) /\ CountsChunks(values, p)
  BY <1>4
<1>6. /\ values \in Seq(Int) /\ Len(values) <= m
      /\ \A j \in 1 .. Len(values) :
           p[j] \in 1 .. m /\ values[j] = Cardinality(PointsIn(chunks[p[j]]))
      /\ \A i, j \in 1 .. Len(values) : p[i] = p[j] => i = j
  BY <1>1, <1>5 DEF CountsChunks
<1>7. IsFiniteSet(S) /\ Cardinality(S) \in Nat
  BY <1>1, PlainPointsAreFinite DEF PointsIn
<1>8. Nanosecond \in Nat
  BY TimelineAssumption
<1> DEFINE A == [j \in 1 .. Len(values) |-> S \cap RangeOf(chunks[p[j]])]
           all == UNION {A[j] : j \in 1 .. Len(values)}
<1>9. \A j \in 1 .. Len(values) : A[j] = S \cap RangeOf(chunks[p[j]])
  OBVIOUS
<1>10. \A x : x \in all <=> \E j \in 1 .. Len(values) : x \in A[j]
  OBVIOUS
<1> HIDE DEF A, all
<1>11. \A j \in 1 .. Len(values) :
         IsFiniteSet(A[j]) /\ values[j] <= Cardinality(A[j]) + Nanosecond
  <2>1. ASSUME NEW j \in 1 .. Len(values)
        PROVE  IsFiniteSet(A[j]) /\ values[j] <= Cardinality(A[j]) + Nanosecond
    <3>1. PICK c, start : c = chunks[p[j]] /\ IsSlice(c, events, start)
      BY <1>3, <1>6
    <3>2. PICK T : T = S \cap RangeOf(c)
      OBVIOUS
    <3>3. IsFiniteSet(T) /\ Cardinality(PointsIn(c)) <= Cardinality(T) + Nanosecond
      BY <1>1, <1>2, <3>1, <3>2, ChunkCutsStates
    <3>4. A[j] = T /\ values[j] = Cardinality(PointsIn(c))
      BY <1>6, <1>9, <3>1, <3>2
    <3>5. QED
      BY <3>3, <3>4
  <2>2. QED
    BY <2>1
<1>12. \A i, j \in 1 .. Len(values) : i # j => A[i] \cap A[j] = {}
  <2>1. ASSUME NEW i \in 1 .. Len(values), NEW j \in 1 .. Len(values), i # j,
               NEW x, x \in A[i], x \in A[j]
        PROVE  FALSE
    <3>1. PICK k \in 1 .. m : k = p[i]
      BY <1>6
    <3>2. PICK l \in 1 .. m : l = p[j]
      BY <1>6
    <3>3. k # l
      BY <1>6, <2>1, <3>1, <3>2
    <3>4. x \in RangeOf(chunks[k]) /\ x \in RangeOf(chunks[l])
      BY <1>9, <2>1, <3>1, <3>2
    <3>5. k < l \/ l < k
      BY <1>3, <3>3
    <3>6. QED
      BY <1>1, <1>2, <3>4, <3>5, RangesAreDisjoint
  <2>2. QED
    BY <2>1
<1>13. /\ IsFiniteSet(all) /\ Cardinality(all) \in Nat
       /\ Total(values) <= Cardinality(all) + Len(values) * Nanosecond
  <2>1. Nanosecond \in Int
    BY <1>8
  <2>2. QED
    BY <1>6, <1>10, <1>11, <1>12, <2>1, TotalFits
<1>14. Cardinality(all) <= Cardinality(S)
  <2>1. all \subseteq S
    BY <1>9, <1>10
  <2>2. QED
    BY <1>7, <2>1, FS_Subset
<1>15. PICK k, l \in Int : /\ k = Len(values) * Nanosecond /\ l = m * Nanosecond /\ k <= l
  <2>1. Len(values) \in Int /\ m \in Int /\ Len(values) <= m
    BY <1>3, <1>6
  <2>2. QED
    BY <1>8, <2>1, ProductGrows
<1>16. Total(values) \in Int
  BY <1>6, TotalFacts
<1>17. Total(values) <= Cardinality(S) + l
  BY <1>7, <1>13, <1>14, <1>15, <1>16
<1>18. QED
  BY <1>1, <1>5, <1>15, <1>17

\* A duration that AssembleChunkResults sums over the activities of the chunks is at most
\* as many times too long as there are chunks, falls short only where a chunk was lost
\* or conditions meet across chunks, and of states in time order exceeds the duration by
\* no more than the nanosecond at the end of each chunk.
THEOREM ChunkedDurationsStayBounded == ModesSpec => []ChunkedDurationsAreBounded
<1>1. ModesInv => ChunkedDurationsAreBounded
  <2> SUFFICES ASSUME ModesInv, status = "done", ChosenMode = "concurrent", AnswersLast,
                      Last(operations).Op = "DurationWhere", NoWindowIsNegative
               PROVE  LET duration == Cardinality(TruePoints[Len(operations)])
                          chunks == Len(CreateEventChunks)
                          Only(ops) == \A i \in DOMAIN operations :
                                         operations[i].Op \in ops \union {"DurationWhere"}
                      IN  /\ Only({"HasExisted", "HasExistedWithin", "AND", "OR"}) =>
                               answer.value <= chunks * duration
                          /\ Only({"HasExistedWithin", "OR"})
                               /\ Last(operations).ConditionAll = <<>> /\ lost = {} =>
                               answer.value >= duration
                          /\ Only({"LatestEventToState"}) /\ InTimeOrder =>
                               answer.value <= duration + chunks * Nanosecond
    BY DEF ChunkedDurationsAreBounded
  <2> DEFINE Only(ops) == \A i \in DOMAIN operations :
                            operations[i].Op \in ops \union {"DurationWhere"}
  <2>1. /\ Len(operations) \in Nat \ {0} /\ DOMAIN operations = 1 .. Len(operations)
        /\ Last(operations) = operations[Len(operations)]
    BY QueryFacts DEF ModesInv, AnswersLast, Last
  <2>2. ASSUME \A i \in 1 .. Len(operations) : operations[i].Op \in Plain
        PROVE  AsksDuration(operations)
    BY <2>1, <2>2 DEF AsksDuration, AnswersLast, NoWindowIsNegative
  <2>3. TruePoints[Len(operations)] = PointsIn(events)
    BY DEF TruePoints, PointsIn
  <2>4. ASSUME Only({"HasExisted", "HasExistedWithin", "AND", "OR"})
        PROVE  answer.value <= Len(CreateEventChunks) * Cardinality(PointsIn(events))
    <3>1. \A i \in 1 .. Len(operations) :
            operations[i].Op \in {"HasExisted", "HasExistedWithin", "AND", "OR", "DurationWhere"}
      BY <2>1, <2>4
    <3>2. \A i \in 1 .. Len(operations) : operations[i].Op \in Plain
      BY <3>1 DEF Plain
    <3>3. QED
      BY <2>2, <3>1, <3>2, ChunksFindNoMore
  <2>5. ASSUME Only({"HasExistedWithin", "OR"}), Last(operations).ConditionAll = <<>>, lost = {}
        PROVE  answer.value >= Cardinality(PointsIn(events))
    <3>1. \A i \in 1 .. Len(operations) :
            operations[i].Op \in {"HasExistedWithin", "OR", "DurationWhere"}
      BY <2>1, <2>5
    <3>2. \A i \in 1 .. Len(operations) : operations[i].Op \in Plain
      BY <3>1 DEF Plain
    <3>3. QED
      BY <2>1, <2>2, <2>5, <3>1, <3>2, ChunksFindAll
  <2>6. ASSUME Only({"LatestEventToState"}), InTimeOrder
        PROVE  answer.value <= Cardinality(PointsIn(events)) + Len(CreateEventChunks) * Nanosecond
    <3>1. \A i \in 1 .. Len(operations) :
            operations[i].Op \in {"LatestEventToState", "DurationWhere"}
      BY <2>1, <2>6
    <3>2. \A i \in 1 .. Len(operations) : operations[i].Op \in Plain
      BY <3>1 DEF Plain
    <3>3. QED
      BY <2>2, <2>6, <3>1, <3>2, ChunksCutStates
  <2> HIDE DEF Only
  <2>7. QED
    BY <2>3, <2>4, <2>5, <2>6 DEF Only
<1>2. ModesInv /\ [ModesNext]_modeVars => ModesInv'
  BY ModesInvStep
<1>3. QED
  BY <1>1, <1>2, ModesInitHolds, PTL DEF ModesSpec
================================================================================
