--------------------------- MODULE FinancialOperators ---------------------------
(***************************************************************************)
(* fintech.go: the financial operators over prices.  A result is a record  *)
(* [Timestamp, Value], one for some or all prices in the order of their    *)
(* times.  A ratio over 0 stands for an infinity or NaN, which JSON cannot *)
(* carry, and for an index that panics.                                    *)
(***************************************************************************)
EXTENDS Aggregations

CONSTANTS
  Hour,            \* units of time in an hour
  MinimumSample    \* VaR wants more than 10 returns

ASSUME FinancialAssumption == Hour \in Nat \ {0} /\ MinimumSample \in Nat

Usable(value) == value.den # 0
Panic == Ratio(0, 0)

\* The values of the prices that are reported, in the order of the prices.
Metrics(sorted, values) ==
  LET order == SetToSortSeq(DOMAIN values, <)
  IN  [n \in DOMAIN order |->
         [Timestamp |-> sorted[order[n]].Timestamp, Value |-> values[order[n]]]]

--------------------------------------------------------------------------------
(* Averages weighted by time and volume.                                   *)

\* Mutant of CalculateTWAP: each interval counts both of its ends.
TWAPOfBothEnds(data) ==
  LET doubled == Total([i \in 1 .. Len(data) - 1 |-> (data[i].Value + data[i + 1].Value)
                          * (data[i + 1].Timestamp - data[i].Timestamp)])
      totalTime == Last(data).Timestamp - Head(data).Timestamp
  IN  IF totalTime > 0 THEN Ratio(doubled, totalTime) ELSE Ratio(Last(data).Value, 1)

\* calculateTWAP: each interval counts the mean of its ends; if all is at one
\* instant, the last price.
CalculateTWAP(data) ==
  LET Span(i) == data[i + 1].Timestamp - data[i].Timestamp
      doubled == Total([i \in 1 .. Len(data) - 1 |->
                          (data[i].Value + data[i + 1].Value) * Span(i)])
      totalTime == Last(data).Timestamp - Head(data).Timestamp
  IN  IF totalTime > 0 THEN Ratio(doubled, 2 * totalTime) ELSE Ratio(Last(data).Value, 1)

TWAP(prices, window) ==
  LET sorted == ByTimestamp(prices)
      Reported == {i \in DOMAIN sorted : Len(Trailing(sorted, i, window)) > 1}
  IN  Metrics(sorted, [i \in Reported |-> CalculateTWAP(Trailing(sorted, i, window))])

\* Mutant of CalculateVWAP: without volumes it divides by zero.
UnguardedVWAP(data) ==
  Ratio(Total([i \in DOMAIN data |-> data[i].Value * data[i].Volume]),
        Total([i \in DOMAIN data |-> data[i].Volume]))

\* Without any volume, the simple average.
CalculateVWAP(data) ==
  LET traded == SelectSeq(data, LAMBDA p : p.Volume > 0)
      totalVolume == Total([i \in DOMAIN traded |-> traded[i].Volume])
      totalValue == Total([i \in DOMAIN traded |-> traded[i].Value * traded[i].Volume])
  IN  IF totalVolume > 0 THEN Ratio(totalValue, totalVolume)
      ELSE Ratio(Total(Values(data)), Len(data))

VWAP(prices, window) ==
  LET sorted == ByTimestamp(prices)
  IN  Metrics(sorted, [i \in DOMAIN sorted |-> CalculateVWAP(Trailing(sorted, i, window))])

--------------------------------------------------------------------------------
(* Momentum.                                                               *)

\* The changes the loop over j sees: it ends at the first price, from the second
\* one on, that the window no longer holds.
Changes(sorted, i, window) ==
  LET windowStart == sorted[i].Timestamp - window
      Left == {j \in 2 .. i : sorted[j].Timestamp <= windowStart}
      last == IF Left = {} THEN i ELSE Min(Left) - 1
  IN  [j \in 1 .. last - 1 |-> sorted[j + 1].Value - sorted[j].Value]

Gains(changes) == SelectSeq(changes, LAMBDA c : c > 0)
Losses(changes) == SelectSeq(changes, LAMBDA c : c < 0)

\* 100 - 100 / (1 + avgGain / avgLoss).
RSIValue(changes) ==
  LET gain == Total(Gains(changes)) * Len(Losses(changes))
      loss == -Total(Losses(changes)) * Len(Gains(changes))
  IN  Ratio(100 * gain, gain + loss)

\* Reported where there are both gains and losses.
RSIOf(sorted, changes) ==
  LET Reported == {i \in 2 .. Len(sorted) :
                     Gains(changes[i]) # <<>> /\ Losses(changes[i]) # <<>>}
  IN  Metrics(sorted, [i \in Reported |-> RSIValue(changes[i])])

RSI(prices, window) ==
  LET sorted == ByTimestamp(prices)
  IN  RSIOf(sorted, [i \in DOMAIN sorted |-> Changes(sorted, i, window)])

\* calculateEMA with alpha = 2 / (period.Hours() + 1), over values in their order.
CalculateEMA(values, period) ==
  LET ema[i \in Nat] ==
        IF i = 1 THEN Ratio(values[1], 1)
        ELSE Ratio(2 * Hour * values[i] * ema[i - 1].den + (period - Hour) * ema[i - 1].num,
                   (period + Hour) * ema[i - 1].den)
  IN  [i \in DOMAIN values |-> ema[i]]

\* The line, the difference of two averages; the signal and the histogram in its
\* metadata are left out.
MACD(prices, fastPeriod, slowPeriod) ==
  LET sorted == ByTimestamp(prices)
      fast == CalculateEMA(Values(sorted), fastPeriod)
      slow == CalculateEMA(Values(sorted), slowPeriod)
  IN  Metrics(sorted, [i \in DOMAIN sorted |->
        Ratio(fast[i].num * slow[i].den - slow[i].num * fast[i].den,
              fast[i].den * slow[i].den)])

--------------------------------------------------------------------------------
(* Risk.                                                                   *)

\* Mutant of VaRIndex: the share is rounded up.
VaRIndexAbove(n, confidence) ==
  IF confidence > 100 THEN 1 - ((confidence - 100) * n) \div 100
  ELSE Min({((100 - confidence) * n) \div 100 + 1, n - 1}) + 1

\* int((1 - confidence/100) * n), for a confidence that needs no rounding, cut at the
\* last index, counted from 1; it is less than 1, and reading it a panic, if the
\* confidence is far enough beyond 100.
VaRIndex(n, confidence) ==
  IF confidence > 100 THEN 1 - ((confidence - 100) * n) \div 100
  ELSE Min({((100 - confidence) * n) \div 100, n - 1}) + 1

VaR(prices, window, confidence) ==
  LET sorted == ByTimestamp(prices)
      Worst(returns) ==
        LET k == VaRIndex(Len(returns), confidence)
        IN  IF k < 1 THEN Panic ELSE Ratio(-SortSeq(returns, <)[k], 1)
      Reported == {i \in DOMAIN sorted : Len(Trailing(sorted, i, window)) > MinimumSample}
  IN  Metrics(sorted, [i \in Reported |-> Worst(Values(Trailing(sorted, i, window)))])

\* Mutant of Drawdown: the peak is that of the last two prices.
DrawdownFromLast(prices) ==
  LET sorted == ByTimestamp(prices)
      Peak(i) == Max({sorted[j].Value : j \in {i, i - 1} \ {0}})
  IN  Metrics(sorted, [i \in DOMAIN sorted |->
        Ratio(100 * (sorted[i].Value - Peak(i)), Peak(i))])

\* In percent of the highest price so far.
Drawdown(prices) ==
  LET sorted == ByTimestamp(prices)
      Peak(i) == Max({sorted[j].Value : j \in 1 .. i})
  IN  Metrics(sorted, [i \in DOMAIN sorted |->
        Ratio(100 * (sorted[i].Value - Peak(i)), Peak(i))])

\* Mutant of TransactionVelocity: it counts the transactions of all time.
VelocitySinceStart(prices, window) ==
  LET sorted == ByTimestamp(prices)
  IN  Metrics(sorted, [i \in DOMAIN sorted |-> Ratio(Hour * i, window)])

\* Transactions per hour.
TransactionVelocity(prices, window) ==
  LET sorted == ByTimestamp(prices)
  IN  Metrics(sorted, [i \in DOMAIN sorted |->
        Ratio(Hour * Len(Trailing(sorted, i, window)), window)])

\* Mutant of PositionExposure: a price at the instant of an update comes too late.
ExposureToEarlierPrice(positions, prices) ==
  LET updates == ByTimestamp(positions)
      quotes == ByTimestamp(prices)
      Moved(index, t) == Min({k \in index .. Len(quotes) :
                                k = Len(quotes) \/ quotes[k + 1].Timestamp >= t})
      priceIndex[i \in 0 .. Len(updates)] ==
        IF i = 0 THEN 1 ELSE Moved(priceIndex[i - 1], updates[i].Timestamp)
  IN  IF quotes = <<>> THEN <<>>
      ELSE Metrics(updates, [i \in DOMAIN updates |->
             Ratio(updates[i].Value * quotes[priceIndex[i]].Value, 1)])

\* PositionExposure.  priceIndex moves on while the next price is not later than
\* the update, and stays where it is for the next update.
PositionExposure(positions, prices) ==
  LET updates == ByTimestamp(positions)
      quotes == ByTimestamp(prices)
      Moved(index, t) == Min({k \in index .. Len(quotes) :
                                k = Len(quotes) \/ quotes[k + 1].Timestamp > t})
      priceIndex[i \in 0 .. Len(updates)] ==
        IF i = 0 THEN 1 ELSE Moved(priceIndex[i - 1], updates[i].Timestamp)
  IN  IF quotes = <<>> THEN <<>>
      ELSE Metrics(updates, [i \in DOMAIN updates |->
             Ratio(updates[i].Value * quotes[priceIndex[i]].Value, 1)])
================================================================================
