------------------------------ MODULE PriceQueries ------------------------------
(***************************************************************************)
(* Queries over prices: what executeOperation does for the financial and   *)
(* aggregation operators, and the aggregation over windows, whose windows  *)
(* are made one by one by the loops of windows.go.  Windows and positions  *)
(* are called as a library; no operation of a request reaches them.        *)
(***************************************************************************)
EXTENDS FinancialOperators

CONSTANTS
  Histories,     \* lists of events, in any order
  Requests,      \* what is asked of each
  MaxWindows     \* bound on the windows of a loop that does not end

ASSUME PriceQueriesAssumption == MaxWindows \in Nat \ {0}

VARIABLES
  events,        \* the events asked about
  request,       \* an operation, or a kind of windows with an aggregation
  status,        \* "idle", "windowing", "done" or "error"
  windows,       \* the windows made so far
  current,       \* where the next sliding or tumbling window starts
  index,         \* number of events the loop over sessions has seen
  sessionStart,  \* start of the session that is open
  answer         \* the results

loop == <<windows, current, index, sessionStart>>
vars == <<events, request, status, loop, answer>>

Prices == ConvertEventTimelineToPriceTimeline(events, request.value_field)
Times == ByTimestamp(Prices)

Window(start, end) == [Start |-> start, End |-> end]

Init ==
  /\ events \in Histories /\ request \in Requests
  /\ status = "idle"
  /\ windows = <<>> /\ current = 0 /\ index = 0 /\ sessionStart = 0
  /\ answer = <<>>

--------------------------------------------------------------------------------
(* executeOperation.                                                       *)

Moving == [MovingAverage |-> "avg", MovingSum |-> "sum", MovingMax |-> "max",
           MovingMin |-> "min"]

Operators == DOMAIN Moving \union
  {"TWAP", "VWAP", "RSI", "MACD", "VaR", "Drawdown", "TransactionVelocity",
   "Percentile", "PositionExposure"}

\* The results of an operator, its parameters being given or defaulted.
Metric(prices, op) ==
  CASE op.Op \in DOMAIN Moving -> MovingAggregate(prices, Moving[op.Op], op.window, 0)
    [] op.Op = "TWAP" -> TWAP(prices, op.window)
    [] op.Op = "VWAP" -> VWAP(prices, op.window)
    [] op.Op = "RSI" -> RSI(prices, op.window)
    [] op.Op = "MACD" -> MACD(prices, op.fast_period, op.slow_period)
    [] op.Op = "VaR" -> VaR(prices, op.window, op.confidence)
    [] op.Op = "Drawdown" -> Drawdown(prices)
    [] op.Op = "TransactionVelocity" -> TransactionVelocity(prices, op.window)
    [] op.Op = "Percentile" -> <<Aggregate(prices, "percentile", op.percentile)>>
    [] op.Op = "PositionExposure" -> PositionExposure(prices, op.prices)

\* Requests name their windows; where VaR's does not, the default, "30d", is no
\* duration.  What JSON cannot carry fails when the activity returns it.
ExecuteOperation ==
  /\ status = "idle" /\ request.Op \in Operators
  /\ LET results == Metric(Prices, request)
         Parses == request.Op = "VaR" => "window" \in DOMAIN request
     IN  IF Parses /\ \A i \in DOMAIN results : Usable(results[i].Value)
         THEN status' = "done" /\ answer' = results
         ELSE status' = "error" /\ UNCHANGED answer
  /\ UNCHANGED <<events, request, loop>>

--------------------------------------------------------------------------------
(* The loops of windows.go.                                                *)

\* Before a loop over a range, or over the times of some events.
BeginWindows ==
  /\ status = "idle" /\ request.Op \in {"sliding", "tumbling", "session"}
  /\ status' = "windowing"
  /\ IF request.Op # "session"
     THEN current' = request.start /\ UNCHANGED <<index, sessionStart>>
     ELSE IF events = <<>> THEN UNCHANGED <<current, index, sessionStart>>
     ELSE index' = 1 /\ sessionStart' = Times[1].Timestamp /\ UNCHANGED current
  /\ UNCHANGED <<events, request, windows, answer>>

InLoop(kind) == status = "windowing" /\ request.Op = kind

NextWindow == Window(current, Min({current + request.size, request.end}))

\* Mutant of AddSlidingWindow: the next window starts relative to this one's end.
AddSlidingWindowBack ==
  /\ InLoop("sliding") /\ current < request.end /\ Len(windows) < MaxWindows
  /\ windows' = Append(windows, NextWindow)
  /\ current' = NextWindow.End - request.size + request.slide
  /\ UNCHANGED <<events, request, status, index, sessionStart, answer>>

AddSlidingWindow ==
  /\ InLoop("sliding") /\ current < request.end /\ Len(windows) < MaxWindows
  /\ windows' = Append(windows, NextWindow)
  /\ current' = current + request.slide
  /\ UNCHANGED <<events, request, status, index, sessionStart, answer>>

\* Mutant of AddTumblingWindow: the next window starts a unit after this one.
AddTumblingWindowApart ==
  /\ InLoop("tumbling") /\ current < request.end /\ Len(windows) < MaxWindows
  /\ windows' = Append(windows, NextWindow)
  /\ current' = NextWindow.End + 1
  /\ UNCHANGED <<events, request, status, index, sessionStart, answer>>

AddTumblingWindow ==
  /\ InLoop("tumbling") /\ current < request.end /\ Len(windows) < MaxWindows
  /\ windows' = Append(windows, NextWindow)
  /\ current' = NextWindow.End
  /\ UNCHANGED <<events, request, status, index, sessionStart, answer>>

SessionUntil(i) == Window(sessionStart, Times[i].Timestamp + request.timeout)

\* Mutant of SeeEvent: a gap counts from the start of the session.
SeeEventSinceStart ==
  /\ InLoop("session") /\ index \in 1 .. Len(events) - 1
  /\ LET now == Times[index + 1].Timestamp
     IN  IF now - sessionStart > request.timeout
         THEN windows' = Append(windows, SessionUntil(index)) /\ sessionStart' = now
         ELSE UNCHANGED <<windows, sessionStart>>
  /\ index' = index + 1
  /\ UNCHANGED <<events, request, status, current, answer>>

\* A gap longer than the timeout ends the session after its last event.
SeeEvent ==
  /\ InLoop("session") /\ index \in 1 .. Len(events) - 1
  /\ LET now == Times[index + 1].Timestamp
     IN  IF now - Times[index].Timestamp > request.timeout
         THEN windows' = Append(windows, SessionUntil(index)) /\ sessionStart' = now
         ELSE UNCHANGED <<windows, sessionStart>>
  /\ index' = index + 1
  /\ UNCHANGED <<events, request, status, current, answer>>

\* The end of each loop, and the aggregation over what it made.
FinishWindows ==
  /\ status = "windowing"
  /\ IF request.Op = "session" THEN index = Len(events) ELSE current >= request.end
  /\ windows' = IF request.Op = "session" /\ events # <<>>
                THEN Append(windows, SessionUntil(index)) ELSE windows
  /\ answer' = WindowedAggregate(Prices, windows', request.aggregation, 0)
  /\ status' = "done"
  /\ UNCHANGED <<events, request, current, index, sessionStart>>

Next == ExecuteOperation \/ BeginWindows \/ AddSlidingWindow \/ AddTumblingWindow
          \/ SeeEvent \/ FinishWindows

\* A loop goes on by itself.
Spec == Init /\ [][Next]_vars /\ WF_vars(Next)

--------------------------------------------------------------------------------
(* Properties.                                                             *)

Done(kinds) == status = "done" /\ request.Op \in kinds
Covers(window, t) == window.Start <= t /\ t < window.End

\* Windows over a range leave its order, start and end alone: every instant is in
\* one tumbling window, and in as many sliding ones as a size holds slides, fewer
\* where the range begins and none beyond its end.
WindowsMeetTheirRange ==
  Done({"sliding", "tumbling"}) =>
    LET slide == IF request.Op = "sliding" THEN request.slide ELSE request.size
        Expected(t) ==
          IF t \notin request.start .. request.end - 1 THEN {}
          ELSE {k \in 0 .. t - request.start :
                  k * slide <= t - request.start /\ t - request.start < k * slide + request.size}
    IN  \A t \in request.start - 1 .. request.end + request.size :
          Cardinality({i \in DOMAIN windows : Covers(windows[i], t)}) = Cardinality(Expected(t))

\* Two events are in one session exactly if no gap between them is longer than the
\* timeout, and no event is in two.
SessionsAreRunsOfActivity ==
  Done({"session"}) /\ request.timeout > 0 =>
    LET Instants == {events[i].Timestamp : i \in DOMAIN events}
        Sessions(t) == {i \in DOMAIN windows : Covers(windows[i], t)}
        Linked(s, t) ==
          \A u \in Instants : s <= u /\ u < t =>
            \E v \in Instants : u < v /\ v <= u + request.timeout
    IN  \A s, t \in Instants : s <= t =>
          /\ Cardinality(Sessions(s)) = 1
          /\ Linked(s, t) <=> Sessions(s) = Sessions(t)

\* Windows hold the times they are made for, be they given by a range or by the
\* activity.
WindowsHoldTheirTimes == WindowsMeetTheirRange /\ SessionsAreRunsOfActivity

\* Windows that neither overlap nor leave gaps count every price of their range
\* once, and their sums add up; sessions count every price, unless the timeout is
\* 0: then every session is empty, and nothing is counted at all.
EveryPriceCountedOnce ==
  Done({"tumbling", "session"}) =>
    LET Counted == {i \in DOMAIN Prices :
          IF request.Op = "session" THEN request.timeout > 0
          ELSE Prices[i].Timestamp \in request.start .. request.end - 1}
        counted == SelectSeq(Prices, LAMBDA p : \E i \in Counted : p = Prices[i])
    IN  /\ Total([i \in DOMAIN answer |-> answer[i].Count]) = Cardinality(Counted)
        /\ request.aggregation = "sum" =>
             Total([i \in DOMAIN answer |-> answer[i].Value.num]) = Total(Values(counted))

\* The values of the prices from s to t.
Between(s, t) ==
  {Prices[i].Value : i \in {j \in DOMAIN Prices :
     s <= Prices[j].Timestamp /\ Prices[j].Timestamp <= t}}

\* An average, however weighted, lies among the prices it is of, for any volumes,
\* equal times and missing values; and the distance of two exponential ones is not
\* more than that of two prices, unless a period is shorter than an hour, which
\* makes alpha larger than 1.
AveragesStayAmongPrices ==
  /\ Done({"TWAP", "VWAP", "MovingAverage", "MovingMin", "MovingMax"}) =>
       \A i \in DOMAIN answer :
         LET t == answer[i].Timestamp
             Seen == Between(t - request.window, t)
         IN  /\ LessEq(Ratio(Min(Seen), 1), answer[i].Value)
             /\ LessEq(answer[i].Value, Ratio(Max(Seen), 1))
  /\ Done({"MACD"}) /\ request.fast_period >= Hour /\ request.slow_period >= Hour =>
       \A i \in DOMAIN answer :
         LET t == answer[i].Timestamp
             Seen == Between(Times[1].Timestamp, t)
             spread == Ratio(Max(Seen) - Min(Seen), 1)
         IN  /\ LessEq(answer[i].Value, spread)
             /\ LessEq(Ratio(-answer[i].Value.num, answer[i].Value.den), spread)

At(results, t) == SelectSeq(results, LAMBDA r : r.Timestamp = t)
Until(results, t) == SelectSeq(results, LAMBDA r : r.Timestamp <= t)

\* The request as it is at time t: an exposure's quotes up to then.
RequestAt(t) ==
  IF request.Op = "PositionExposure"
  THEN [request EXCEPT !.prices = Until(request.prices, t)] ELSE request

Windowed == {"TWAP", "VWAP", "TransactionVelocity", "VaR"} \union DOMAIN Moving

\* What an operator says of an instant depends on nothing later, whatever order the
\* events come in: not on later prices and, from its first quote on, an exposure not on
\* later quotes.  If the operator has a window, it depends on nothing older than that
\* either.  A percentile is of all prices, and what RSI takes from its window is
\* RSIIsOfItsWindow's matter.
ResultsDependOnTheirWindow ==
  \A i \in DOMAIN events :
    LET t == events[i].Timestamp
        recent == SelectSeq(Prices, LAMBDA p : t - request.window <= p.Timestamp)
        Unquoted == /\ request.Op = "PositionExposure"
                    /\ request.prices # <<>> /\ RequestAt(t).prices = <<>>
    IN  /\ Done(Operators \ {"Percentile"}) /\ ~Unquoted =>
             Until(answer, t) = Metric(Until(Prices, t), RequestAt(t))
        /\ Done(Windowed) => At(answer, t) = At(Metric(recent, request), t)

\* A query fails exactly where a drawdown has no peak, since the earliest price is 0
\* or missing, where a velocity has no time, or where VaR is asked, of enough returns,
\* for more than certainty; VaR without a window is left out.
FailuresHaveACause ==
  status \in {"done", "error"} /\ (request.Op = "VaR" => "window" \in DOMAIN request) =>
    (status = "error" <=>
       \/ request.Op = "Drawdown" /\ events # <<>> /\ Times[1].Value = 0
       \/ request.Op = "TransactionVelocity" /\ events # <<>> /\ request.window = 0
       \/ /\ request.Op = "VaR" /\ request.confidence > 100
          /\ \E t \in {events[i].Timestamp : i \in DOMAIN events} :
               LET n == Cardinality({i \in DOMAIN events :
                     t - request.window <= events[i].Timestamp /\ events[i].Timestamp <= t})
               IN  n > MinimumSample /\ (request.confidence - 100) * n >= 100)

\* A drawdown is none at every new high, and between two of them the fall from the
\* higher of the prices before, never more than all of it.
DrawdownsAreFallsFromThePeak ==
  Done({"Drawdown"}) => \A i \in DOMAIN answer :
    LET highest == Max({Times[j].Value : j \in 1 .. i})
    IN  SameRatio(Ratio(100 * Times[i].Value, highest),
                  Ratio(100 * answer[i].Value.den + answer[i].Value.num, answer[i].Value.den))

\* At most the given share of a window's returns is worse than its value at risk,
\* and more than that is at least as bad; and a percentile has that share of the
\* prices below it, up to the one it lies at.
QuantilesSplitTheirPrices ==
  /\ Done({"VaR"}) /\ request.confidence <= 100 => \A i \in DOMAIN answer :
       LET t == answer[i].Timestamp
           returns == SelectSeq(Until(Prices, t), LAMBDA p : t - request.window <= p.Timestamp)
           worse == SelectSeq(returns, LAMBDA p : p.Value < -answer[i].Value.num)
           asBad == SelectSeq(returns, LAMBDA p : p.Value <= -answer[i].Value.num)
       IN  answer[i] = Last(At(answer, t)) =>
             /\ 100 * Len(worse) <= (100 - request.confidence) * Len(returns)
             /\ request.confidence > 0 =>
                  100 * Len(asBad) > (100 - request.confidence) * Len(returns)
  /\ Done({"Percentile"}) /\ Prices # <<>> =>
       LET value == answer[1].Value
           below == SelectSeq(Prices, LAMBDA p : ~LessEq(value, Ratio(p.Value, 1)))
           above == SelectSeq(Prices, LAMBDA p : ~LessEq(Ratio(p.Value, 1), value))
           steps == Len(Prices) - 1
       IN  /\ 100 * (Len(below) - 1) < request.percentile * steps
           /\ 100 * (Len(above) - 1) < (100 - request.percentile) * steps

\* An exposure takes the latest price that is not later than the position, where there
\* is one.
ExposuresUseTheLatestPrice ==
  Done({"PositionExposure"}) => \A i \in DOMAIN answer :
    LET quotes == ByTimestamp(request.prices)
        Known == {k \in DOMAIN quotes : quotes[k].Timestamp <= Times[i].Timestamp}
    IN  Known # {} =>
          answer[i] = [Timestamp |-> Times[i].Timestamp,
                       Value |-> Ratio(Times[i].Value * quotes[Max(Known)].Value, 1)]

\* Whatever the order of the events, their ties and what they lack, results bear to
\* the prices the relation that the operator's name promises.
ResultsFitThePrices ==
  /\ AveragesStayAmongPrices
  /\ DrawdownsAreFallsFromThePeak
  /\ QuantilesSplitTheirPrices
  /\ ExposuresUseTheLatestPrice

\* Making windows ends, if each is later than the one before.
WindowsEnd ==
  (status = "windowing" /\ (request.Op = "sliding" => request.slide > 0)
                        /\ (request.Op = "tumbling" => request.size > 0)) ~> status = "done"

--------------------------------------------------------------------------------
(* What a comment promises, and the code does not keep.                    *)

\* fintech.go, in RSI: "Get price changes within window".
RSIIsOfItsWindow ==
  Done({"RSI"}) =>
    LET Inside(i) == SetToSortSeq({j \in 2 .. i :
          Times[j].Timestamp > Times[i].Timestamp - request.window}, <)
        changes == [i \in DOMAIN Times |-> [n \in DOMAIN Inside(i) |->
          Times[Inside(i)[n]].Value - Times[Inside(i)[n] - 1].Value]]
    IN  answer = RSIOf(Times, changes)
================================================================================
