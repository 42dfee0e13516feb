------------------------------ MODULE Aggregations ------------------------------
(***************************************************************************)
(* aggregations.go: what events become when an operator wants prices, and  *)
(* what is computed of prices: over all of them, over the window that ends *)
(* at each of them, and over given windows.  A price is an integer and a   *)
(* result an exact ratio: what float64 arithmetic rounds is left out, and  *)
(* so are the square roots of the standard deviation.                      *)
(***************************************************************************)
EXTENDS Lists, SequencesExt

Ratio(n, d) == [num |-> n, den |-> d]
LessEq(r, s) == r.num * s.den <= s.num * r.den
SameRatio(r, s) == LessEq(r, s) /\ LessEq(s, r)

--------------------------------------------------------------------------------
(* Prices.                                                                 *)

\* ConvertEventTimelineToPriceTimeline.  An attribute that is missing or no number
\* counts as 0; without a field, a price is 1 if the event has a value at all.
ConvertEventTimelineToPriceTimeline(events, valueField) ==
  LET Attr(e, field) == IF field \in DOMAIN e.Attrs THEN e.Attrs[field] ELSE 0
  IN  [i \in DOMAIN events |->
         [Timestamp |-> events[i].Timestamp,
          Value |-> IF valueField # "" THEN Attr(events[i], valueField)
                    ELSE IF events[i].Value # "" THEN 1 ELSE 0,
          Volume |-> Attr(events[i], "volume")]]

\* sort.Slice leaves equal elements where they are as long as a slice has at most
\* twelve elements, as here.
ByTimestamp(prices) == SortSeq(prices, LAMBDA p, q : p.Timestamp < q.Timestamp)

Values(prices) == [i \in DOMAIN prices |-> prices[i].Value]

\* The prices up to the i-th that are not older than a window.
Trailing(sorted, i, window) ==
  SelectSeq(SubSeq(sorted, 1, i), LAMBDA p : p.Timestamp >= sorted[i].Timestamp - window)

--------------------------------------------------------------------------------
(* Aggregates.                                                             *)

\* percentileValues: the two nearest values, weighted.
PercentileValue(values, percentile) ==
  LET sorted == SortSeq(values, <)
      scaled == percentile * (Len(values) - 1)
      lower == scaled \div 100 + 1
      weight == scaled % 100
  IN  IF percentile <= 0 THEN Ratio(Head(sorted), 1)
      ELSE IF percentile >= 100 \/ lower + 1 > Len(sorted) THEN Ratio(Last(sorted), 1)
      ELSE Ratio(sorted[lower] * (100 - weight) + sorted[lower + 1] * weight, 100)

\* varianceValues: the mean of the squared differences from the mean.
VarianceValue(values) ==
  LET n == Len(values)
      Off(v) == n * v - Total(values)
  IN  Ratio(Total([i \in DOMAIN values |-> Off(values[i]) * Off(values[i])]), n * n * n)

\* The value of Aggregate, of prices there is at least one of.
AggregateValue(prices, aggType, percentile) ==
  LET values == Values(ByTimestamp(prices))
  IN  CASE aggType = "sum" -> Ratio(Total(values), 1)
        [] aggType = "avg" -> Ratio(Total(values), Len(values))
        [] aggType = "min" -> Ratio(Min(ToSet(values)), 1)
        [] aggType = "max" -> Ratio(Max(ToSet(values)), 1)
        [] aggType = "count" -> Ratio(Len(values), 1)
        [] aggType = "variance" -> VarianceValue(values)
        [] aggType = "percentile" -> PercentileValue(values, percentile)
        [] aggType = "median" -> PercentileValue(values, 50)
        [] aggType = "first" -> Ratio(Head(values), 1)
        [] aggType = "last" -> Ratio(Last(values), 1)

\* Of no prices it is the zero result, without a time.
Aggregate(prices, aggType, percentile) ==
  IF prices = <<>> THEN [Value |-> Ratio(0, 1), Count |-> 0, Timestamp |-> 0]
  ELSE [Value |-> AggregateValue(prices, aggType, percentile), Count |-> Len(prices),
        Timestamp |-> Last(ByTimestamp(prices)).Timestamp]

MovingAggregate(prices, aggType, windowSize, percentile) ==
  LET sorted == ByTimestamp(prices)
  IN  [i \in DOMAIN sorted |->
         [Aggregate(Trailing(sorted, i, windowSize), aggType, percentile)
            EXCEPT !.Timestamp = sorted[i].Timestamp]]

\* Mutant of ApplyWindow: a window has its end, too.
ApplyClosedWindow(prices, window) ==
  SelectSeq(prices, LAMBDA p : window.Start <= p.Timestamp /\ p.Timestamp <= window.End)

\* ApplyWindowToPriceTimeline: a window has its start and not its end.
ApplyWindow(prices, window) ==
  SelectSeq(prices, LAMBDA p : window.Start <= p.Timestamp /\ p.Timestamp < window.End)

\* Windows without prices are left out.
WindowedAggregate(prices, windows, aggType, percentile) ==
  LET filled == SelectSeq(windows, LAMBDA w : ApplyWindow(prices, w) # <<>>)
  IN  [i \in DOMAIN filled |->
         [Aggregate(ApplyWindow(prices, filled[i]), aggType, percentile)
            EXCEPT !.Timestamp = filled[i].End]]
================================================================================
