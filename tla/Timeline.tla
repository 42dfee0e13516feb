-------------------------------- MODULE Timeline --------------------------------
(***************************************************************************)
(* The timeline algebra: the operators of package timeline that turn a     *)
(* list of events into intervals and combine intervals.  Time is counted   *)
(* in units, an interval covers the units from Start up to End, and every  *)
(* definition computes what the Go function does, interval by interval.    *)
(* Loops that carry a timeline along are recursive functions, and not the  *)
(* folds of the library, so that proofs can reason about their turns.      *)
(***************************************************************************)
EXTENDS Lists, SequencesExt

CONSTANTS
  Nanosecond,   \* what LatestEventToState adds to the last event's time
  Hour          \* what HasExisted adds to it

ASSUME TimelineAssumption == Nanosecond \in Nat \ {0} /\ Hour \in Nat \ {0}

\* An event is a record [Timestamp, Type, Value].
ByTimestamp(events) == SortBy(events, [i \in DOMAIN events |-> events[i].Timestamp])

True(start, end) == [Value |-> TRUE, Start |-> start, End |-> end]
False(start, end) == [Value |-> FALSE, Start |-> start, End |-> end]

--------------------------------------------------------------------------------
(* From events to intervals.                                               *)

\* Mutant of LatestEventToState: every event starts an interval, and the one
\* after it ends it even if the state goes on; the last one is not closed.
IntervalsBetweenEvents(events, equals) ==
  LET sorted == ByTimestamp(events)
      Opening == {i \in 1 .. Len(events) - 1 : sorted[i].Value = equals}
  IN  [n \in 1 .. Cardinality(Opening) |->
         LET i == SetToSortSeq(Opening, <)[n]
         IN  [State |-> equals, Start |-> sorted[i].Timestamp,
              End |-> sorted[i + 1].Timestamp]]

\* A state lasts from the event that changes to it to the event that changes
\* away from it, and if there is none to just after the last event.
LatestEventToState(events, equals) ==
  LET sorted == ByTimestamp(events)
      Changes == {i \in DOMAIN sorted :
                    i = 1 \/ sorted[i].Value # sorted[i - 1].Value}
      opening == Select([i \in DOMAIN sorted |-> i],
                        {i \in Changes : sorted[i].Value = equals})
      Later(i) == {j \in Changes : j > i}
      EndOf(i) == IF Later(i) = {} THEN Last(sorted).Timestamp + Nanosecond
                  ELSE sorted[Min(Later(i))].Timestamp
  IN  [n \in DOMAIN opening |->
         [State |-> equals, Start |-> sorted[opening[n]].Timestamp,
          End |-> EndOf(opening[n])]]

\* From the first match on, to an hour after the last event.
HasExisted(events, condition) ==
  LET sorted == ByTimestamp(events)
      Matching == {i \in DOMAIN sorted : sorted[i].Value = condition}
  IN  IF Matching = {} THEN <<>>
      ELSE <<True(sorted[Min(Matching)].Timestamp, Last(sorted).Timestamp + Hour)>>

\* One turn of the loop that merges: an interval that overlaps or touches the last
\* one, and has its value, extends it.
MergeNext(merged, next) ==
  LET n == Len(merged)
  IN  IF /\ n > 0
         /\ merged[n].Value = next.Value
         /\ merged[n].End >= next.Start
      THEN [merged EXCEPT ![n].End = Max({@, next.End})]
      ELSE Append(merged, next)

\* Neighbours of one value that overlap or touch become one interval.
MergeBoolIntervals(intervals) ==
  LET sorted == SortBy(intervals, [i \in DOMAIN intervals |-> intervals[i].Start])
      merged[n \in 0 .. Len(sorted)] ==
        IF n = 0 THEN <<>> ELSE MergeNext(merged[n - 1], sorted[n])
  IN  merged[Len(sorted)]

HasExistedWithin(events, condition, window) ==
  LET matching == Select(ByTimestamp(events), {e \in ToSet(events) : e.Value = condition})
  IN  MergeBoolIntervals(
        [i \in DOMAIN matching |->
           True(matching[i].Timestamp, matching[i].Timestamp + window)])

ConvertStateTimelineToBoolTimeline(timeline) ==
  [i \in DOMAIN timeline |-> True(timeline[i].Start, timeline[i].End)]

--------------------------------------------------------------------------------
(* Combinations.                                                           *)

Trues(timeline) == Select(timeline, {i \in ToSet(timeline) : i.Value})
NonEmpty(timeline) == Select(timeline, {i \in ToSet(timeline) : i.Start < i.End})

Intersection(x, y) == True(Max({x.Start, y.Start}), Min({x.End, y.End}))

\* Each true interval of a intersected with each of b.
AndTwoTimelines(a, b) ==
  MergeBoolIntervals(FlattenSeq([i \in DOMAIN Trues(a) |->
    NonEmpty([j \in DOMAIN Trues(b) |-> Intersection(Trues(a)[i], Trues(b)[j])])]))

\* The first timeline with the second, the result with the third, and so on.
AND(timelines) ==
  LET joint[n \in 0 .. Len(timelines)] ==
        IF n = 0 THEN <<>>
        ELSE IF n = 1 THEN timelines[1]
        ELSE AndTwoTimelines(joint[n - 1], timelines[n])
  IN  joint[Len(timelines)]

\* The only timeline is returned as it is.
OR(timelines) ==
  IF Len(timelines) = 1 THEN timelines[1]
  ELSE MergeBoolIntervals(FlattenSeq(timelines))

\* The spans between true intervals, from the first start to the last end, become
\* false.  Nothing becomes true.
NOT(timeline) ==
  LET trues == Trues(timeline)
      Starts == {timeline[i].Start : i \in DOMAIN timeline}
      Ends == {timeline[i].End : i \in DOMAIN timeline}
      gapStarts == <<Min(Starts)>> \o [i \in DOMAIN trues |-> trues[i].End]
      gapEnds == [i \in DOMAIN trues |-> trues[i].Start] \o <<Max(Ends)>>
  IN  IF timeline = <<>> THEN <<>>
      ELSE NonEmpty([i \in DOMAIN gapStarts |-> False(gapStarts[i], gapEnds[i])])

--------------------------------------------------------------------------------
(* Durations.                                                              *)

DurationWhere(timeline) ==
  LET trues == Trues(timeline)
  IN  Total([i \in DOMAIN trues |-> trues[i].End - trues[i].Start])

DurationInCurState(timeline) ==
  [i \in DOMAIN timeline |->
     [Value |-> timeline[i].End - timeline[i].Start,
      Start |-> timeline[i].Start, End |-> timeline[i].End]]

LongestConsecutiveTrueDuration(timeline, minDuration) ==
  Max({0} \union {d \in {timeline[i].End - timeline[i].Start :
                           i \in {j \in DOMAIN timeline : timeline[j].Value}} :
                    d >= minDuration})

\* The lengths of the runs of consecutive units in S, which a streak is compared with.
Runs(S) ==
  {run[2] - run[1] + 1 : run \in {p \in S \X S : p[1] <= p[2] /\ p[1] .. p[2] \subseteq S}}
================================================================================
