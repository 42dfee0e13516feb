----------------------------- MODULE MCPriceQueries -----------------------------
(***************************************************************************)
(* Instance of PriceQueries for TLC: every list of up to three of a few    *)
(* events and some longer ones, in any order of time, with equal times,    *)
(* missing prices and no volumes, meets every operator and kind of windows *)
(* with small, large and zero parameters.                                  *)
(***************************************************************************)
EXTENDS PriceQueries

Priced(t, price, volume) ==
  [Timestamp |-> t, Value |-> "tick", Attrs |-> [price |-> price, volume |-> volume]]
Unpriced(t, value) == [Timestamp |-> t, Value |-> value, Attrs |-> [none |-> 0]]

Events == {Priced(1, 2, 1), Priced(2, 5, 0), Priced(3, 1, 3), Priced(3, 4, 1),
           Priced(6, 3, 0), Unpriced(1, "tick"), Unpriced(5, "")}

\* A price for each of the given values, a unit of time after each other.
Series(values) == [i \in DOMAIN values |-> Priced(i, values[i], 1)]

TheHistories ==
  UNION {[1 .. n -> Events] : n \in 0 .. 3}
    \union {Series(<<1, 2, 1, 3, 2, 4>>), Series(<<4, 2, 5, 5, 1>>),
            Reverse(Series(<<3, 1, 2, 0, 2>>)),
            Series(<<1, 3, 2>>) \o <<Priced(9, 4, 1), Priced(10, 2, 2), Priced(5, 6, 0)>>}

Operation(op, window) == [Op |-> op, value_field |-> "price", window |-> window]

Averages ==
  {Operation(op, w) : op \in {"TWAP", "VWAP", "MovingAverage", "TransactionVelocity"},
                      w \in {0, 2, 5}}
    \union {Operation(op, 2) : op \in {"MovingSum", "MovingMax", "MovingMin", "RSI"}}
    \union {[Operation("VWAP", 2) EXCEPT !.value_field = ""]}

Risks ==
  {[Op |-> "VaR", value_field |-> "price", window |-> w, confidence |-> c] :
     w \in {2, 9}, c \in {0, 50, 75, 100, 150}}
    \union {[Op |-> "VaR", value_field |-> "price", confidence |-> 50],
            [Op |-> "Drawdown", value_field |-> "price"]}

Others ==
  {[Op |-> "MACD", value_field |-> "price", fast_period |-> p[1], slow_period |-> p[2]] :
     p \in {<<1, 3>>, <<2, 4>>, <<3, 3>>}}
    \union {[Op |-> "Percentile", value_field |-> "price", percentile |-> p] :
             p \in {0, 50, 75, 100}}
    \union {[Op |-> "PositionExposure", value_field |-> "price",
             prices |-> ConvertEventTimelineToPriceTimeline(quotes, "price")] :
             quotes \in {<<>>, <<Priced(3, 2, 0), Priced(2, 1, 0)>>,
                         <<Priced(4, 2, 0), Priced(4, 3, 0), Priced(5, 1, 0)>>}}

Ranges ==
  {[Op |-> "sliding", value_field |-> "price", start |-> 1, end |-> e, size |-> d,
    slide |-> s, aggregation |-> "avg"] : e \in {0, 6}, d \in {0, 3}, s \in {0, 1, 2, 4}}
    \union {[Op |-> "tumbling", value_field |-> "price", start |-> 1, end |-> e,
             size |-> d, aggregation |-> a] :
             e \in {1, 4, 7}, d \in {0, 2, 9}, a \in {"sum", "median"}}
    \union {[Op |-> "session", value_field |-> "price", timeout |-> d, aggregation |-> a] :
             d \in {0, 1, 2}, a \in {"sum", "variance"}}

TheRequests == Averages \union Risks \union Others \union Ranges
================================================================================
