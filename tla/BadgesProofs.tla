------------------------------ MODULE BadgesProofs ------------------------------
(***************************************************************************)
(* Proofs about Badges, for any events, requests and required times and    *)
(* any number of executions.  A badge's operations come down to one        *)
(* timeline, which is true within a day after each counted event; its      *)
(* intervals lie apart, so that the longest of them is the longest span of *)
(* activity.  The rest is what an execution remembers of the events that   *)
(* were in storage when it loaded them.                                    *)
(***************************************************************************)
EXTENDS Badges, Lemmas

--------------------------------------------------------------------------------
(* Spans of activity.                                                      *)

\* A timeline whose true intervals lie apart.
Apart(timeline) ==
  timeline \in Seq(Interval) /\ Forward(timeline) /\ AllTrue(timeline) /\ Gapped(timeline)

\* Such a timeline begins with its first interval and ends with its last.
LEMMA ApartIsBounded ==
  ASSUME NEW c, Apart(c)
  PROVE  \E lo, hi \in Int : lo <= hi /\ \A t \in Int : TrueAt(c, t) => t \in lo .. hi
<1>1. PICK n \in Nat : n = Len(c)
  BY DEF Apart
<1>2. \A i \in 1 .. n : /\ c[i].Start \in Int /\ c[i].End \in Int /\ c[i].Start <= c[i].End
  <2>1. \A i \in 1 .. n : c[i] \in Interval
    BY <1>1 DEF Apart
  <2>2. QED
    BY <1>1, <2>1 DEF Interval, Apart, Forward
<1>3. CASE n = 0
  <2>1. \A t : ~TrueAt(c, t)
    BY <1>1, <1>3 DEF TrueAt
  <2>2. 0 \in Int /\ 0 <= 0
    OBVIOUS
  <2>3. QED
    BY <2>1, <2>2
<1>4. CASE n # 0
  <2>1. PICK lo, hi : lo = c[1].Start /\ hi = c[n].End
    OBVIOUS
  <2>2. 1 \in 1 .. n /\ n \in 1 .. n
    BY <1>4
  <2>3. lo \in Int /\ hi \in Int
    BY <1>2, <2>1, <2>2
  <2>4. ASSUME NEW t \in Int, TrueAt(c, t) PROVE lo <= t /\ t < hi
    <3>1. PICK i \in 1 .. n : c[i].Start <= t /\ t < c[i].End
      BY <1>1, <2>4 DEF TrueAt, During
    <3>2. lo <= c[i].Start
      <4>1. CASE i = 1
        BY <1>2, <2>1, <2>2, <4>1
      <4>2. CASE i # 1
        <5>1. 1 < i
          BY <4>2
        <5>2. c[1].End < c[i].Start
          BY <1>1, <2>2, <5>1 DEF Apart, Gapped
        <5>3. QED
          BY <1>2, <2>1, <2>2, <5>2
      <4>3. QED
        BY <4>1, <4>2
    <3>3. c[i].End <= hi
      <4>1. CASE i = n
        BY <1>2, <2>1, <2>2, <4>1
      <4>2. CASE i # n
        <5>1. i < n
          BY <4>2
        <5>2. c[i].End < c[n].Start
          BY <1>1, <2>2, <5>1 DEF Apart, Gapped
        <5>3. QED
          BY <1>2, <2>1, <2>2, <5>2
      <4>3. QED
        BY <4>1, <4>2
    <3>4. c[i].Start \in Int /\ c[i].End \in Int
      BY <1>2
    <3>5. QED
      BY <2>3, <3>1, <3>2, <3>3, <3>4
  <2>5. lo <= hi
    <3>1. CASE n = 1
      BY <1>2, <2>1, <2>2, <3>1
    <3>2. CASE n # 1
      <4>1. 1 < n
        BY <1>4, <3>2
      <4>2. c[1].End < c[n].Start
        BY <1>1, <2>2, <4>1 DEF Apart, Gapped
      <4>3. QED
        BY <1>2, <2>1, <2>2, <4>2
    <3>3. QED
      BY <3>1, <3>2
  <2>6. \A t \in Int : TrueAt(c, t) => t \in lo .. hi
    BY <2>3, <2>4
  <2>7. QED
    BY <2>3, <2>5, <2>6
<1>5. QED
  BY <1>3, <1>4

Longest(S) == Max({0} \union Runs(S))

\* The longest run of units between bounds.
LEMMA LongestIsFound ==
  ASSUME NEW S, NEW lo, NEW hi, LiesIn(S, lo, hi)
  PROVE  /\ Longest(S) \in {0} \union Runs(S) /\ Longest(S) \in Nat
         /\ \A d \in Runs(S) : d <= Longest(S)
<1>1. PICK V : V = {0} \union Runs(S)
  OBVIOUS
<1>2. Runs(S) \subseteq 0 .. hi - lo + 1
  BY RunsAreShort
<1>3. PICK h \in Nat : h = hi - lo + 1 /\ V \subseteq 0 .. h /\ 0 \in V
  BY <1>1, <1>2 DEF LiesIn
<1>4. Max(V) \in V /\ \A v \in V : v <= Max(V)
  BY <1>3, GreatestOfRuns
<1>5. Max(V) \in Nat
  <2>1. \A v \in 0 .. h : v \in Nat
    OBVIOUS
  <2>2. QED
    BY <1>3, <1>4, <2>1
<1>6. QED
  BY <1>1, <1>4, <1>5 DEF Longest

\* Of more units it is no shorter.
LEMMA LongestGrows ==
  ASSUME NEW S, NEW T, NEW lo, NEW hi, LiesIn(T, lo, hi), S \subseteq T
  PROVE  Longest(S) <= Longest(T)
<1>1. LiesIn(S, lo, hi)
  BY DEF LiesIn
<1>2. Longest(S) \in {0} \union Runs(S)
  BY <1>1, LongestIsFound
<1>3. Longest(T) \in Nat /\ \A d \in Runs(T) : d <= Longest(T)
  BY LongestIsFound
<1>4. Runs(S) \subseteq Runs(T)
  <2>1. /\ \A d : d \in Runs(S) => \E p, q \in S : /\ p <= q /\ p .. q \subseteq S
                                                 /\ d = q - p + 1
        /\ \A d : (\E p, q \in T : p <= q /\ p .. q \subseteq T /\ d = q - p + 1)
                 => d \in Runs(T)
    BY <1>1, RunsAreShort
  <2>2. QED
    BY <2>1
<1>5. QED
  BY <1>2, <1>3, <1>4

\* The streak of such a timeline is the longest run of units at which it is true.
LEMMA StreakIsLongestRun ==
  ASSUME NEW c, Apart(c), NEW S, S \subseteq Int, \A t \in Int : TrueAt(c, t) <=> t \in S
  PROVE  LongestConsecutiveTrueDuration(c, 0) = Longest(S)
<1>1. PICK lo, hi \in Int : lo <= hi /\ \A t \in Int : TrueAt(c, t) => t \in lo .. hi
  BY ApartIsBounded
<1>2. LiesIn(S, lo, hi)
  BY <1>1 DEF LiesIn
<1>3. Runs(S) \subseteq 0 .. hi - lo + 1
  BY <1>1, <1>2, RunsAreShort
<1>4. PICK min \in Int : min = 0
  OBVIOUS
<1>5. LongestConsecutiveTrueDuration(c, min) = Max({0} \union Runs(S))
  <2>1. c \in Seq(Interval) /\ AllTrue(c) /\ Gapped(c)
    BY DEF Apart
  <2>2. /\ LongestConsecutiveTrueDuration(c, min) <= Max({0} \union {d \in Runs(S) : d >= min})
        /\ AllTrue(c) /\ Gapped(c) =>
             LongestConsecutiveTrueDuration(c, min) = Max({0} \union {d \in Runs(S) : d >= min})
    BY <1>1, <1>2, <1>4, <2>1, StreakIsRun
  <2>3. {d \in Runs(S) : d >= min} = Runs(S)
    BY <1>3, <1>4
  <2>4. QED
    BY <2>1, <2>2, <2>3
<1>6. QED
  BY <1>4, <1>5 DEF Longest
--------------------------------------------------------------------------------
(* The turns of a badge's query.                                           *)

WithinDay(es, source) == HasExistedWithin(FilterEventsByType(es, source), "true", Day)

\* The units within a day after an event of one of the types.
Active(es, types) ==
  {t \in Int : \E e \in ToSet(es) : /\ e.Type \in types /\ e.Value = "true"
                                    /\ e.Timestamp <= t /\ t < e.Timestamp + Day}

\* HasExistedWithin finds the units within a day after the events of its type.
LEMMA WithinDayFacts ==
  ASSUME NEW es, Listed(es), NEW source
  PROVE  /\ Apart(WithinDay(es, source))
         /\ \A t \in Int : TrueAt(WithinDay(es, source), t) <=> t \in Active(es, {source})
<1>1. PICK E, s, w : /\ E = ToSet(es) /\ s = FilterEventsByType(es, source)
                     /\ w = WithinDay(es, source)
  OBVIOUS
<1>2. /\ s \in Seq(E) /\ Stamped(E)
      /\ \A e : Among(e, s) <=> Among(e, es) /\ e.Type = source
  BY <1>1, FilterKeeps DEF Listed
<1>3. \A e : Among(e, es) <=> e \in E
  BY <1>1, AmongPlaces DEF Listed
<1>4. Day \in Int /\ Day >= 0
  BY BadgesAssumption
<1>5. w = HasExistedWithin(s, "true", Day)
  BY <1>1 DEF WithinDay
<1>6. /\ w \in Seq(Interval)
      /\ \A t \in Int : TrueAt(w, t) <=>
           \E e \in E : /\ Among(e, s) /\ e.Value = "true"
                        /\ e.Timestamp <= t /\ t < e.Timestamp + Day
  BY <1>2, <1>4, <1>5, HasExistedWithinTimes
<1>7. Forward(w) /\ AllTrue(w) /\ Gapped(w)
  BY <1>2, <1>4, <1>5, HasExistedWithinShape
<1>8. \A t \in Int : TrueAt(w, t) <=> t \in Active(es, {source})
  BY <1>1, <1>2, <1>3, <1>6 DEF Active
<1>9. QED
  BY <1>1, <1>6, <1>7, <1>8 DEF Apart

\* The results after some operations: there is one for each of the IDs, a timeline, and
\* no error so far.
Holds(state, ids, timeline) ==
  /\ state.last.type # "error" /\ DOMAIN state.results = ids
  /\ \A id \in ids : state.results[id] = BoolTimeline(timeline[id])

\* A turn adds its operation's timeline.
LEMMA TurnAdds ==
  ASSUME NEW es, NEW state, NEW ids, NEW timeline, Holds(state, ids, timeline),
         NEW op, op.ID \notin ids, op.ID \in DOMAIN timeline,
         ExecuteOperation(es, op, state.results) = BoolTimeline(timeline[op.ID])
  PROVE  Holds(ExecuteNext(es, state, op), ids \union {op.ID}, timeline)
<1>1. PICK r, x : /\ r = state.results /\ x = BoolTimeline(timeline[op.ID])
                  /\ DOMAIN r = ids /\ \A id \in ids : r[id] = BoolTimeline(timeline[id])
  BY DEF Holds
<1>2. ExecuteNext(es, state, op) = [last |-> x, results |-> With(r, op.ID, x)]
  BY <1>1 DEF ExecuteNext, Recorded, Holds
<1>3. /\ DOMAIN With(r, op.ID, x) = ids \union {op.ID}
      /\ \A id \in ids \union {op.ID} : With(r, op.ID, x)[id] = BoolTimeline(timeline[id])
  <2>1. PICK n, f : n = op.ID /\ f = With(r, n, x)
    OBVIOUS
  <2>2. /\ DOMAIN f = DOMAIN r \union {n} /\ f[n] = x
        /\ \A i \in DOMAIN r : i # n => f[i] = r[i]
    BY <2>1 DEF With
  <2>3. n \notin ids
    BY <2>1
  <2>4. \A id \in ids : f[id] = BoolTimeline(timeline[id])
    BY <1>1, <2>2, <2>3
  <2>5. QED
    BY <1>1, <2>1, <2>2, <2>4
<1>4. x.type # "error"
  BY <1>1 DEF BoolTimeline
<1>5. QED
  BY <1>2, <1>3, <1>4 DEF Holds

\* The timelines of the IDs, in some order.
AreThose(c, ids, timeline) ==
  /\ c \in Seq(Seq(Interval))
  /\ \A i \in 1 .. Len(c) : \E k \in 1 .. Len(ids) : c[i] = timeline[ids[k]]
  /\ \A k \in 1 .. Len(ids) : \E i \in 1 .. Len(c) : c[i] = timeline[ids[k]]

\* Conditions that are all there are all found.
LEMMA ConditionsAreFound ==
  ASSUME NEW state, NEW done, NEW timeline, Holds(state, done, timeline),
         NEW ids, ids \in Seq(done), \A id \in done : timeline[id] \in Seq(Interval)
  PROVE  AreThose(Conditions(ids, state.results, Bool), ids, timeline)
<1>1. PICK previous, wanted, found :
        /\ previous = state.results
        /\ wanted = {id \in DOMAIN previous : previous[id].type \in Bool}
        /\ found = Select(ids, wanted)
  OBVIOUS
<1>2. /\ DOMAIN previous = done
      /\ \A id \in done : previous[id].type = "BoolTimeline" /\ previous[id].value = timeline[id]
  <2>1. DOMAIN previous = done /\ \A id \in done : previous[id] = BoolTimeline(timeline[id])
    BY <1>1 DEF Holds
  <2>2. \A v : BoolTimeline(v).type = "BoolTimeline" /\ BoolTimeline(v).value = v
    BY DEF BoolTimeline
  <2>3. QED
    BY <2>1, <2>2
<1>3. \A k \in 1 .. Len(ids) : ids[k] \in done /\ ids[k] \in wanted
  BY <1>1, <1>2 DEF Bool
<1>4. /\ found \in Seq(done)
      /\ \A k \in 1 .. Len(ids) : \E j \in 1 .. Len(found) : found[j] = ids[k]
      /\ \A j \in 1 .. Len(found) : \E k \in 1 .. Len(ids) : found[j] = ids[k]
  <2>1. /\ Select(ids, wanted) \in Seq(done)
        /\ \A k \in 1 .. Len(ids) : ids[k] \in wanted =>
             \E j \in 1 .. Len(Select(ids, wanted)) : Select(ids, wanted)[j] = ids[k]
        /\ \A j \in 1 .. Len(Select(ids, wanted)) :
             /\ Select(ids, wanted)[j] \in wanted
             /\ \E k \in 1 .. Len(ids) : Select(ids, wanted)[j] = ids[k]
    BY SelectFacts
  <2>2. QED
    BY <1>1, <1>3, <2>1
<1>5. /\ Len(found) \in Nat /\ DOMAIN found = 1 .. Len(found)
      /\ \A j \in 1 .. Len(found) : found[j] \in done
  BY <1>4
<1>6. PICK c : c = [j \in 1 .. Len(found) |-> timeline[found[j]]]
  OBVIOUS
<1>7. Conditions(ids, previous, Bool) = c
  BY <1>1, <1>2, <1>5, <1>6 DEF Conditions
<1>8. c \in Seq(Seq(Interval)) /\ Len(c) = Len(found)
  BY <1>5, <1>6
<1>9. \A j \in 1 .. Len(found) : c[j] = timeline[found[j]]
  BY <1>6
<1>10. QED
  <2>1. \A i \in 1 .. Len(c) : \E k \in 1 .. Len(ids) : c[i] = timeline[ids[k]]
    <3>1. ASSUME NEW i \in 1 .. Len(c) PROVE \E k \in 1 .. Len(ids) : c[i] = timeline[ids[k]]
      <4>1. i \in 1 .. Len(found)
        BY <1>8
      <4>2. PICK k \in 1 .. Len(ids) : found[i] = ids[k]
        BY <1>4, <4>1
      <4>3. QED
        BY <1>9, <4>1, <4>2
    <3>2. QED
      BY <3>1
  <2>2. \A k \in 1 .. Len(ids) : \E i \in 1 .. Len(c) : c[i] = timeline[ids[k]]
    <3>1. ASSUME NEW k \in 1 .. Len(ids) PROVE \E i \in 1 .. Len(c) : c[i] = timeline[ids[k]]
      <4>1. PICK j \in 1 .. Len(found) : found[j] = ids[k]
        BY <1>4
      <4>2. QED
        BY <1>8, <1>9, <4>1
    <3>2. QED
      BY <3>1
  <2>3. QED
    BY <1>1, <1>7, <1>8, <2>1, <2>2 DEF AreThose

\* At first there are no results.
LEMMA NothingHolds ==
  ASSUME NEW state, state = [last |-> Seconds(0), results |-> <<>>], NEW timeline
  PROVE  Holds(state, {}, timeline)
<1>1. DOMAIN <<>> = {}
  OBVIOUS
<1>2. state.last.type = "float64" /\ state.results = <<>>
  BY DEF Seconds
<1>3. QED
  BY <1>1, <1>2 DEF Holds

\* A turn of HasExistedWithin a day.
LEMMA WithinTurn ==
  ASSUME NEW es, NEW state, NEW ids, NEW timeline, Holds(state, ids, timeline),
         NEW id, NEW source, id \notin ids, id \in DOMAIN timeline,
         timeline[id] = WithinDay(es, source)
  PROVE  Holds(ExecuteNext(es, state, Within(id, source, "24h")), ids \union {id}, timeline)
<1>1. PICK op : op = Within(id, source, "24h")
  OBVIOUS
<1>2. /\ op.ID = id /\ op.Op = "HasExistedWithin" /\ op.Source = source /\ op.Equals = "true"
      /\ op.Params = [window |-> Day]
  BY <1>1 DEF Within, ParseWindow
<1>3. "window" \in DOMAIN op.Params /\ op.Params["window"] = Day
  BY <1>2
<1>4. ExecuteOperation(es, op, state.results) = BoolTimeline(WithinDay(es, source))
  BY <1>2, <1>3 DEF ExecuteOperation, ExecuteFlat, WithinDay
<1>5. QED
  BY <1>1, <1>2, <1>4, TurnAdds

\* A disjunction of such timelines is true within a day after an event of any of them.
LEMMA AnyWithinDay ==
  ASSUME NEW es, Listed(es), NEW state, NEW done, NEW timeline, Holds(state, done, timeline),
         NEW ids, ids \in Seq(done), NEW source,
         \A id \in done : timeline[id] = WithinDay(es, source[id])
  PROVE  LET any == OR(Conditions(ids, state.results, Bool))
         IN  /\ Apart(any)
             /\ \A t \in Int : TrueAt(any, t) <=>
                  t \in Active(es, {source[ids[k]] : k \in 1 .. Len(ids)})
<1>1. PICK c, any, types :
        /\ c = Conditions(ids, state.results, Bool) /\ any = OR(c)
        /\ types = {source[ids[k]] : k \in 1 .. Len(ids)}
  OBVIOUS
<1>2. \A k \in 1 .. Len(ids) :
        /\ ids[k] \in done /\ source[ids[k]] \in types
        /\ timeline[ids[k]] = WithinDay(es, source[ids[k]])
  BY <1>1
<1>3. \A id \in done : /\ Apart(timeline[id])
                       /\ \A t \in Int : TrueAt(timeline[id], t) <=> t \in Active(es, {source[id]})
  BY WithinDayFacts
<1>4. /\ c \in Seq(Seq(Interval))
      /\ \A i \in 1 .. Len(c) : \E k \in 1 .. Len(ids) : c[i] = timeline[ids[k]]
      /\ \A k \in 1 .. Len(ids) : \E i \in 1 .. Len(c) : c[i] = timeline[ids[k]]
  <2>1. \A id \in done : timeline[id] \in Seq(Interval)
    BY <1>3 DEF Apart
  <2>2. AreThose(c, ids, timeline)
    BY <1>1, <2>1, ConditionsAreFound
  <2>3. QED
    BY <2>2 DEF AreThose
<1>5. \A i \in 1 .. Len(c) : Apart(c[i])
  BY <1>2, <1>3, <1>4
<1>6. any \in Seq(Interval) /\ \A t \in Int : TrueAt(any, t) <=>
                                   \E i \in 1 .. Len(c) : TrueAt(c[i], t)
  BY <1>1, <1>4, OrTimes
<1>7. Forward(any) /\ AllTrue(any) /\ ((Len(c) = 1 /\ any = c[1]) \/ Gapped(any))
  <2>1. \A i \in 1 .. Len(c) : Forward(c[i]) /\ AllTrue(c[i])
    BY <1>5 DEF Apart
  <2>2. QED
    BY <1>1, <1>4, <2>1, OrShape
<1>8. Gapped(any)
  <2>1. Len(c) = 1 => 1 \in 1 .. Len(c)
    OBVIOUS
  <2>2. QED
    BY <1>5, <1>7, <2>1 DEF Apart
<1>9. ASSUME NEW t \in Int PROVE TrueAt(any, t) <=> t \in Active(es, types)
  <2>1. ASSUME TrueAt(any, t) PROVE t \in Active(es, types)
    <3>1. PICK i \in 1 .. Len(c) : TrueAt(c[i], t)
      BY <1>6, <1>9, <2>1
    <3>2. PICK k \in 1 .. Len(ids) : c[i] = timeline[ids[k]]
      BY <1>4
    <3>3. PICK type : type = source[ids[k]] /\ type \in types /\ t \in Active(es, {type})
      BY <1>2, <1>3, <1>9, <3>1, <3>2
    <3>4. QED
      BY <3>3 DEF Active
  <2>2. ASSUME t \in Active(es, types) PROVE TrueAt(any, t)
    <3>1. PICK e \in ToSet(es) : /\ e.Type \in types /\ e.Value = "true"
                                 /\ e.Timestamp <= t /\ t < e.Timestamp + Day
      BY <2>2 DEF Active
    <3>2. PICK k \in 1 .. Len(ids) : e.Type = source[ids[k]]
      BY <1>1, <3>1
    <3>3. t \in Active(es, {source[ids[k]]})
      BY <1>9, <3>1, <3>2 DEF Active
    <3>4. TrueAt(timeline[ids[k]], t)
      BY <1>2, <1>3, <1>9, <3>3
    <3>5. QED
      BY <1>4, <1>6, <1>9, <3>4
  <2>3. QED
    BY <2>1, <2>2
<1>10. QED
  BY <1>1, <1>6, <1>7, <1>8, <1>9 DEF Apart

\* So is a conjunction, if they are all of one type.
LEMMA AllWithinDay ==
  ASSUME NEW es, Listed(es), NEW state, NEW done, NEW timeline, Holds(state, done, timeline),
         NEW ids, ids \in Seq(done), Len(ids) > 0, NEW source,
         \A id \in done : timeline[id] = WithinDay(es, source)
  PROVE  LET all == AND(Conditions(ids, state.results, Bool))
         IN  /\ Apart(all)
             /\ \A t \in Int : TrueAt(all, t) <=> t \in Active(es, {source})
<1>1. PICK c, all : c = Conditions(ids, state.results, Bool) /\ all = AND(c)
  OBVIOUS
<1>2. \A k \in 1 .. Len(ids) : timeline[ids[k]] = WithinDay(es, source)
  OBVIOUS
<1>3. PICK w : /\ w = WithinDay(es, source) /\ Apart(w)
               /\ \A t \in Int : TrueAt(w, t) <=> t \in Active(es, {source})
  BY WithinDayFacts
<1>4. /\ c \in Seq(Seq(Interval))
      /\ \A i \in 1 .. Len(c) : \E k \in 1 .. Len(ids) : c[i] = timeline[ids[k]]
      /\ \A k \in 1 .. Len(ids) : \E i \in 1 .. Len(c) : c[i] = timeline[ids[k]]
  <2>1. \A id \in done : timeline[id] \in Seq(Interval)
    BY <1>3 DEF Apart
  <2>2. AreThose(c, ids, timeline)
    BY <1>1, <2>1, ConditionsAreFound
  <2>3. QED
    BY <2>2 DEF AreThose
<1>5. \A i \in 1 .. Len(c) : c[i] = w
  BY <1>2, <1>3, <1>4
<1>6. Len(c) > 0 /\ 1 \in 1 .. Len(c)
  <2>1. 1 \in 1 .. Len(ids)
    OBVIOUS
  <2>2. PICK i \in 1 .. Len(c) : c[i] = timeline[ids[1]]
    BY <1>4, <2>1
  <2>3. Len(c) \in Nat
    BY <1>4
  <2>4. QED
    BY <2>2, <2>3
<1>7. all \in Seq(Interval) /\ \A t \in Int : TrueAt(all, t) <=>
           Len(c) > 0 /\ \A i \in 1 .. Len(c) : TrueAt(c[i], t)
  BY <1>1, <1>4, AndTimes
<1>8. Forward(all) /\ AllTrue(all) /\ Gapped(all)
  <2>1. \/ Len(c) = 1 /\ all = c[1]
        \/ Forward(all) /\ AllTrue(all) /\ Gapped(all)
    BY <1>1, <1>4, AndShape
  <2>2. QED
    BY <1>3, <1>5, <1>6, <2>1 DEF Apart
<1>9. \A t \in Int : TrueAt(all, t) <=> t \in Active(es, {source})
  BY <1>3, <1>5, <1>6, <1>7
<1>10. QED
  BY <1>1, <1>7, <1>8, <1>9 DEF Apart

\* A timeline that is true at the units of S.
TrueIn(timeline, S) ==
  Apart(timeline) /\ S \subseteq Int /\ \A t \in Int : TrueAt(timeline, t) <=> t \in S

\* The answer of a query that ends with a streak.
LEMMA StreakIsAnswer ==
  ASSUME NEW es, NEW state, NEW done, NEW timeline, Holds(state, done, timeline),
         NEW id, NEW source, source \in done, "result" \notin done, id # "result",
         NEW S, TrueIn(timeline[source], S)
  PROVE  AnswerOf(ExecuteNext(es, state, LongestStreak(id, source))) = Seconds(Longest(S))
<1>1. PICK op, x, r : /\ op = LongestStreak(id, source) /\ r = state.results
                      /\ x = Seconds(LongestConsecutiveTrueDuration(timeline[source], 0))
  OBVIOUS
<1>2. /\ op.ID = id /\ op.Op = "LongestConsecutiveTrueDuration"
      /\ op.SourceOperation = source /\ op.MinDuration = 0
  BY <1>1 DEF LongestStreak
<1>3. DOMAIN r = done /\ r[source] = BoolTimeline(timeline[source]) /\ state.last.type # "error"
  BY <1>1 DEF Holds
<1>4. r[source].type = "BoolTimeline" /\ r[source].value = timeline[source]
  BY <1>3 DEF BoolTimeline
<1>5. ExecuteOperation(es, op, r) = x
  BY <1>1, <1>2, <1>3, <1>4 DEF ExecuteOperation, ExecuteFlat, LongestOfSource
<1>6. ExecuteNext(es, state, op) = [last |-> x, results |-> With(r, id, x)]
  BY <1>1, <1>2, <1>3, <1>5 DEF ExecuteNext, Recorded
<1>7. "result" \notin DOMAIN With(r, id, x)
  BY <1>3 DEF With
<1>8. AnswerOf([last |-> x, results |-> With(r, id, x)]) = x
  BY <1>7 DEF AnswerOf
<1>9. LongestConsecutiveTrueDuration(timeline[source], 0) = Longest(S)
  BY StreakIsLongestRun DEF TrueIn
<1>10. QED
  BY <1>1, <1>6, <1>8, <1>9

\* A turn of OR, or of AND, over timelines that are there.
LEMMA CombiningTurn ==
  ASSUME NEW es, NEW state, NEW done, NEW timeline, Holds(state, done, timeline),
         NEW op, op.ID \notin done, op.ID \in DOMAIN timeline,
         \/ /\ op.Op = "OR"
            /\ timeline[op.ID] = OR(Conditions(op.ConditionAny, state.results, Bool))
         \/ /\ op.Op = "AND"
            /\ timeline[op.ID] = AND(Conditions(op.ConditionAll, state.results, Bool))
  PROVE  Holds(ExecuteNext(es, state, op), done \union {op.ID}, timeline)
<1>1. ExecuteOperation(es, op, state.results) = BoolTimeline(timeline[op.ID])
  BY DEF ExecuteOperation, ExecuteFlat
<1>2. QED
  BY <1>1, TurnAdds

\* The states f of a query's loop.
Loops(f, es, ops, m) ==
  /\ ProcessQuery(es, ops) = AnswerOf(f[m])
  /\ f[0] = [last |-> Seconds(0), results |-> <<>>]
  /\ \A n \in 0 .. m - 1 : f[n + 1] = ExecuteNext(es, f[n], ops[n + 1])

LEMMA QueryLoops ==
  ASSUME NEW es, NEW ops, Len(ops) \in Nat
  PROVE  \E f : Loops(f, es, ops, Len(ops))
<1>1. PICK f : IsQuery(f, es, ops) /\ ProcessQuery(es, ops) = AnswerOf(f[Len(ops)])
  BY QueryUnfolds
<1>2. f[0] = [last |-> Seconds(0), results |-> <<>>]
  BY <1>1, QueryStep
<1>3. \A n \in 0 .. Len(ops) - 1 : f[n + 1] = ExecuteNext(es, f[n], ops[n + 1])
  BY <1>1, QueryStep
<1>4. QED
  BY <1>1, <1>2, <1>3 DEF Loops

\* The turns of four operations.
LEMMA FourTurns ==
  ASSUME NEW es, NEW ops, NEW f, Loops(f, es, ops, 4)
  PROVE  /\ ProcessQuery(es, ops) = AnswerOf(f[4])
         /\ f[0] = [last |-> Seconds(0), results |-> <<>>]
         /\ f[1] = ExecuteNext(es, f[0], ops[1])
         /\ f[2] = ExecuteNext(es, f[1], ops[2])
         /\ f[3] = ExecuteNext(es, f[2], ops[3])
         /\ f[4] = ExecuteNext(es, f[3], ops[4])
<1>1. /\ ProcessQuery(es, ops) = AnswerOf(f[4])
      /\ f[0] = [last |-> Seconds(0), results |-> <<>>]
      /\ \A n \in 0 .. 4 - 1 : f[n + 1] = ExecuteNext(es, f[n], ops[n + 1])
  BY DEF Loops
<1>2. \A n : n \in {0, 1, 2, 3} => n \in 0 .. 4 - 1
  OBVIOUS
<1>3. 0 + 1 = 1 /\ 1 + 1 = 2 /\ 2 + 1 = 3 /\ 3 + 1 = 4
  OBVIOUS
<1>4. QED
  BY <1>1, <1>2, <1>3

\* What a badge's query answers.
Answers(es, b) ==
  ProcessQuery(es, Operations(b)) = Seconds(Longest(Active(es, CountedTypes(b))))

LEMMA DailyEngagementAnswers ==
  ASSUME NEW es, Listed(es)
  PROVE  Answers(es, "daily_engagement")
<1>1. PICK ops : ops = DailyEngagementOperations
  OBVIOUS
<1>2. PICK app, act, post, any :
        /\ app = "app_open_within_day" /\ act = "user_interaction_within_day"
        /\ post = "post_created_within_day" /\ any = "daily_activity_bool_timeline"
  OBVIOUS
<1>3. PICK ids : ids = <<app, act, post>>
  OBVIOUS
<1>4. /\ Len(ops) = 5
      /\ ops[1] = Within(app, "app_open", "24h")
      /\ ops[2] = Within(act, "user_interaction", "24h")
      /\ ops[3] = Within(post, "post_created", "24h")
      /\ ops[4] = [ID |-> any, Op |-> "OR", ConditionAny |-> ids]
      /\ ops[5] = LongestStreak("longest_engagement_streak", any)
  BY <1>1, <1>2, <1>3 DEF DailyEngagementOperations
<1>5. PICK f : Loops(f, es, ops, 5)
  <2>1. Len(ops) \in Nat
    BY <1>4
  <2>2. PICK f : Loops(f, es, ops, Len(ops))
    BY <2>1, QueryLoops
  <2>3. QED
    BY <1>4, <2>2
<1>6. /\ ProcessQuery(es, ops) = AnswerOf(f[5])
      /\ f[0] = [last |-> Seconds(0), results |-> <<>>]
      /\ f[1] = ExecuteNext(es, f[0], ops[1])
      /\ f[2] = ExecuteNext(es, f[1], ops[2])
      /\ f[3] = ExecuteNext(es, f[2], ops[3])
      /\ f[4] = ExecuteNext(es, f[3], ops[4])
      /\ f[5] = ExecuteNext(es, f[4], ops[5])
  <2>1. /\ ProcessQuery(es, ops) = AnswerOf(f[5])
        /\ f[0] = [last |-> Seconds(0), results |-> <<>>]
        /\ \A n \in 0 .. 5 - 1 : f[n + 1] = ExecuteNext(es, f[n], ops[n + 1])
    BY <1>5 DEF Loops
  <2>2. \A n : n \in {0, 1, 2, 3, 4} => n \in 0 .. 5 - 1
    OBVIOUS
  <2>3. 0 + 1 = 1 /\ 1 + 1 = 2 /\ 2 + 1 = 3 /\ 3 + 1 = 4 /\ 4 + 1 = 5
    OBVIOUS
  <2>4. QED
    BY <2>1, <2>2, <2>3
<1>7. PICK source : source = [id \in {app, act, post} |->
                                IF id = app THEN "app_open"
                                ELSE IF id = act THEN "user_interaction" ELSE "post_created"]
  OBVIOUS
<1>8. PICK timeline : timeline = [id \in {app, act, post, any} |->
                                    IF id = any THEN OR(Conditions(ids, f[3].results, Bool))
                                    ELSE WithinDay(es, source[id])]
  OBVIOUS
<1>9. /\ timeline[app] = WithinDay(es, "app_open")
      /\ timeline[act] = WithinDay(es, "user_interaction")
      /\ timeline[post] = WithinDay(es, "post_created")
      /\ timeline[any] = OR(Conditions(ids, f[3].results, Bool))
      /\ DOMAIN timeline = {app, act, post, any}
      /\ \A id \in {app, act, post} : timeline[id] = WithinDay(es, source[id])
  BY <1>2, <1>7, <1>8
<1>10. Holds(f[0], {}, timeline)
  BY <1>6, NothingHolds
<1>11. Holds(f[1], {} \union {app}, timeline)
  BY <1>4, <1>6, <1>9, <1>10, WithinTurn
<1>12. Holds(f[2], {app} \union {act}, timeline)
  BY <1>2, <1>4, <1>6, <1>9, <1>11, WithinTurn
<1>13. Holds(f[3], {app, act} \union {post}, timeline)
  BY <1>2, <1>4, <1>6, <1>9, <1>12, WithinTurn
<1>14. Holds(f[3], {app, act, post}, timeline)
  BY <1>13
<1>15. Holds(f[4], {app, act, post} \union {any}, timeline)
  BY <1>2, <1>4, <1>6, <1>9, <1>14, CombiningTurn
<1>16. /\ Apart(timeline[any])
       /\ \A t \in Int : TrueAt(timeline[any], t) <=>
            t \in Active(es, {source[ids[k]] : k \in 1 .. Len(ids)})
  <2>1. ids \in Seq({app, act, post})
    BY <1>3
  <2>2. QED
    BY <1>9, <1>14, <2>1, AnyWithinDay
<1>17. {source[ids[k]] : k \in 1 .. Len(ids)} = CountedTypes("daily_engagement")
  <2>1. Len(ids) = 3 /\ ids[1] = app /\ ids[2] = act /\ ids[3] = post
    BY <1>3
  <2>2. /\ source[app] = "app_open" /\ source[act] = "user_interaction"
        /\ source[post] = "post_created"
    BY <1>2, <1>7
  <2>3. \A k : k \in 1 .. 3 <=> k = 1 \/ k = 2 \/ k = 3
    OBVIOUS
  <2>4. CountedTypes("daily_engagement") = {"app_open", "user_interaction", "post_created"}
    BY DEF CountedTypes
  <2>5. QED
    BY <2>1, <2>2, <2>3, <2>4
<1>18. PICK S : S = Active(es, CountedTypes("daily_engagement"))
  OBVIOUS
<1>19. TrueIn(timeline[any], S)
  <2>1. S \subseteq Int
    BY <1>18 DEF Active
  <2>2. QED
    BY <1>16, <1>17, <1>18, <2>1 DEF TrueIn
<1>20. AnswerOf(f[5]) = Seconds(Longest(S))
  BY <1>2, <1>4, <1>6, <1>15, <1>19, StreakIsAnswer
<1>21. Operations("daily_engagement") = ops
  BY <1>1 DEF Operations
<1>22. QED
  BY <1>6, <1>18, <1>20, <1>21 DEF Answers

LEMMA TopicDominatorAnswers ==
  ASSUME NEW es, Listed(es)
  PROVE  Answers(es, "topic_dominator")
<1>1. PICK ops : ops = TopicDominatorOperations
  OBVIOUS
<1>2. PICK liked, replied, any :
        /\ liked = "comment_liked_daily" /\ replied = "comment_replied_daily"
        /\ any = "high_engagement_daily"
  OBVIOUS
<1>3. PICK ids : ids = <<liked, replied>>
  OBVIOUS
<1>4. /\ Len(ops) = 4
      /\ ops[1] = Within(liked, "comment_liked", "24h")
      /\ ops[2] = Within(replied, "comment_replied", "24h")
      /\ ops[3] = [ID |-> any, Op |-> "OR", ConditionAny |-> ids]
      /\ ops[4] = LongestStreak("dominator_streak", any)
  BY <1>1, <1>2, <1>3 DEF TopicDominatorOperations
<1>5. PICK f : Loops(f, es, ops, 4)
  <2>1. Len(ops) \in Nat
    BY <1>4
  <2>2. PICK f : Loops(f, es, ops, Len(ops))
    BY <2>1, QueryLoops
  <2>3. QED
    BY <1>4, <2>2
<1>6. /\ ProcessQuery(es, ops) = AnswerOf(f[4])
      /\ f[0] = [last |-> Seconds(0), results |-> <<>>]
      /\ f[1] = ExecuteNext(es, f[0], ops[1])
      /\ f[2] = ExecuteNext(es, f[1], ops[2])
      /\ f[3] = ExecuteNext(es, f[2], ops[3])
      /\ f[4] = ExecuteNext(es, f[3], ops[4])
  BY <1>5, FourTurns
<1>7. PICK source : source = [id \in {liked, replied} |->
                                IF id = liked THEN "comment_liked" ELSE "comment_replied"]
  OBVIOUS
<1>8. PICK timeline : timeline = [id \in {liked, replied, any} |->
                                    IF id = any THEN OR(Conditions(ids, f[2].results, Bool))
                                    ELSE WithinDay(es, source[id])]
  OBVIOUS
<1>9. /\ timeline[liked] = WithinDay(es, "comment_liked")
      /\ timeline[replied] = WithinDay(es, "comment_replied")
      /\ timeline[any] = OR(Conditions(ids, f[2].results, Bool))
      /\ DOMAIN timeline = {liked, replied, any}
      /\ \A id \in {liked, replied} : timeline[id] = WithinDay(es, source[id])
  BY <1>2, <1>7, <1>8
<1>10. Holds(f[0], {}, timeline)
  BY <1>6, NothingHolds
<1>11. Holds(f[1], {} \union {liked}, timeline)
  BY <1>4, <1>6, <1>9, <1>10, WithinTurn
<1>12. Holds(f[2], {liked} \union {replied}, timeline)
  BY <1>2, <1>4, <1>6, <1>9, <1>11, WithinTurn
<1>13. Holds(f[2], {liked, replied}, timeline)
  BY <1>12
<1>14. Holds(f[3], {liked, replied} \union {any}, timeline)
  BY <1>2, <1>4, <1>6, <1>9, <1>13, CombiningTurn
<1>15. /\ Apart(timeline[any])
       /\ \A t \in Int : TrueAt(timeline[any], t) <=>
            t \in Active(es, {source[ids[k]] : k \in 1 .. Len(ids)})
  <2>1. ids \in Seq({liked, replied})
    BY <1>3
  <2>2. QED
    BY <1>9, <1>13, <2>1, AnyWithinDay
<1>16. {source[ids[k]] : k \in 1 .. Len(ids)} = CountedTypes("topic_dominator")
  <2>1. Len(ids) = 2 /\ ids[1] = liked /\ ids[2] = replied
    BY <1>3
  <2>2. source[liked] = "comment_liked" /\ source[replied] = "comment_replied"
    BY <1>2, <1>7
  <2>3. \A k : k \in 1 .. 2 <=> k = 1 \/ k = 2
    OBVIOUS
  <2>4. CountedTypes("topic_dominator") = {"comment_liked", "comment_replied"}
    BY DEF CountedTypes
  <2>5. QED
    BY <2>1, <2>2, <2>3, <2>4
<1>17. PICK S : S = Active(es, CountedTypes("topic_dominator"))
  OBVIOUS
<1>18. TrueIn(timeline[any], S)
  <2>1. S \subseteq Int
    BY <1>17 DEF Active
  <2>2. QED
    BY <1>15, <1>16, <1>17, <2>1 DEF TrueIn
<1>19. AnswerOf(f[4]) = Seconds(Longest(S))
  BY <1>2, <1>4, <1>6, <1>14, <1>18, StreakIsAnswer
<1>20. Operations("topic_dominator") = ops
  BY <1>1 DEF Operations
<1>21. QED
  BY <1>6, <1>17, <1>19, <1>20 DEF Answers

\* Both conditions of the Feature Pioneer are the same.
LEMMA FeaturePioneerAnswers ==
  ASSUME NEW es, Listed(es)
  PROVE  Answers(es, "feature_pioneer")
<1>1. PICK ops : ops = FeaturePioneerOperations
  OBVIOUS
<1>2. PICK early, continued, all :
        /\ early = "early_feature_adoption" /\ continued = "continued_feature_use"
        /\ all = "pioneer_behavior"
  OBVIOUS
<1>3. PICK ids : ids = <<early, continued>>
  OBVIOUS
<1>4. /\ Len(ops) = 4
      /\ ops[1] = Within(early, "new_feature_used", "24h")
      /\ ops[2] = Within(continued, "new_feature_used", "24h")
      /\ ops[3] = [ID |-> all, Op |-> "AND", ConditionAll |-> ids]
      /\ ops[4] = LongestStreak("pioneer_streak", all)
  BY <1>1, <1>2, <1>3 DEF FeaturePioneerOperations
<1>5. PICK f : Loops(f, es, ops, 4)
  <2>1. Len(ops) \in Nat
    BY <1>4
  <2>2. PICK f : Loops(f, es, ops, Len(ops))
    BY <2>1, QueryLoops
  <2>3. QED
    BY <1>4, <2>2
<1>6. /\ ProcessQuery(es, ops) = AnswerOf(f[4])
      /\ f[0] = [last |-> Seconds(0), results |-> <<>>]
      /\ f[1] = ExecuteNext(es, f[0], ops[1])
      /\ f[2] = ExecuteNext(es, f[1], ops[2])
      /\ f[3] = ExecuteNext(es, f[2], ops[3])
      /\ f[4] = ExecuteNext(es, f[3], ops[4])
  BY <1>5, FourTurns
<1>7. PICK timeline : timeline = [id \in {early, continued, all} |->
                                    IF id = all THEN AND(Conditions(ids, f[2].results, Bool))
                                    ELSE WithinDay(es, "new_feature_used")]
  OBVIOUS
<1>8. /\ timeline[early] = WithinDay(es, "new_feature_used")
      /\ timeline[continued] = WithinDay(es, "new_feature_used")
      /\ timeline[all] = AND(Conditions(ids, f[2].results, Bool))
      /\ DOMAIN timeline = {early, continued, all}
      /\ \A id \in {early, continued} : timeline[id] = WithinDay(es, "new_feature_used")
  BY <1>2, <1>7
<1>9. Holds(f[0], {}, timeline)
  BY <1>6, NothingHolds
<1>10. Holds(f[1], {} \union {early}, timeline)
  BY <1>4, <1>6, <1>8, <1>9, WithinTurn
<1>11. Holds(f[2], {early} \union {continued}, timeline)
  BY <1>2, <1>4, <1>6, <1>8, <1>10, WithinTurn
<1>12. Holds(f[2], {early, continued}, timeline)
  BY <1>11
<1>13. Holds(f[3], {early, continued} \union {all}, timeline)
  BY <1>2, <1>4, <1>6, <1>8, <1>12, CombiningTurn
<1>14. /\ Apart(timeline[all])
       /\ \A t \in Int : TrueAt(timeline[all], t) <=> t \in Active(es, {"new_feature_used"})
  <2>1. ids \in Seq({early, continued}) /\ Len(ids) > 0
    BY <1>3
  <2>2. PICK done, state, type : /\ done = {early, continued} /\ state = f[2]
                                 /\ type = "new_feature_used"
    OBVIOUS
  <2>3. PICK c : c = AND(Conditions(ids, state.results, Bool))
    OBVIOUS
  <2>4. Apart(c) /\ \A t \in Int : TrueAt(c, t) <=> t \in Active(es, {type})
    <3>1. Holds(state, done, timeline) /\ ids \in Seq(done)
      BY <1>12, <2>1, <2>2
    <3>2. \A id \in done : timeline[id] = WithinDay(es, type)
      BY <1>8, <2>2
    <3>3. Len(ids) > 0
      BY <2>1
    <3>4. QED
      BY <2>3, <3>1, <3>2, <3>3, AllWithinDay
  <2>5. QED
    BY <1>8, <2>2, <2>3, <2>4
<1>15. PICK S : S = Active(es, CountedTypes("feature_pioneer"))
  OBVIOUS
<1>16. TrueIn(timeline[all], S)
  <2>1. S \subseteq Int /\ S = Active(es, {"new_feature_used"})
    BY <1>15 DEF Active, CountedTypes
  <2>2. QED
    BY <1>14, <2>1 DEF TrueIn
<1>17. AnswerOf(f[4]) = Seconds(Longest(S))
  BY <1>2, <1>4, <1>6, <1>13, <1>16, StreakIsAnswer
<1>18. Operations("feature_pioneer") = ops
  BY <1>1 DEF Operations
<1>19. QED
  BY <1>6, <1>15, <1>17, <1>18 DEF Answers

\* A turn of HasExisted.
LEMMA ExistedTurn ==
  ASSUME NEW es, NEW state, NEW ids, NEW timeline, Holds(state, ids, timeline),
         NEW id, NEW source, id \notin ids, id \in DOMAIN timeline,
         timeline[id] = HasExisted(FilterEventsByType(es, source), "true")
  PROVE  Holds(ExecuteNext(es, state, Existed(id, source)), ids \union {id}, timeline)
<1>1. PICK op : op = Existed(id, source)
  OBVIOUS
<1>2. op.ID = id /\ op.Op = "HasExisted" /\ op.Source = source /\ op.Equals = "true"
  BY <1>1 DEF Existed
<1>3. ExecuteOperation(es, op, state.results) = BoolTimeline(timeline[id])
  BY <1>2 DEF ExecuteOperation, ExecuteFlat
<1>4. QED
  BY <1>1, <1>2, <1>3, TurnAdds

\* Where a condition is negated a conjunction is never true.
LEMMA AllWithNegation ==
  ASSUME NEW state, NEW done, NEW timeline, Holds(state, done, timeline),
         NEW a, NEW b, done = {a, b}, Apart(timeline[a]),
         timeline[b] \in Seq(Interval),
         \A i \in 1 .. Len(timeline[b]) : ~timeline[b][i].Value
  PROVE  LET all == AND(Conditions(<<a, b>>, state.results, Bool))
         IN  Apart(all) /\ \A t \in Int : ~TrueAt(all, t)
<1>1. PICK ids, c, all : /\ ids = <<a, b>> /\ c = Conditions(ids, state.results, Bool)
                         /\ all = AND(c)
  OBVIOUS
<1>2. /\ ids \in Seq(done) /\ ids[1] = a /\ ids[2] = b
      /\ 1 \in 1 .. Len(ids) /\ 2 \in 1 .. Len(ids)
  BY <1>1
<1>3. AreThose(c, ids, timeline)
  <2>1. \A id \in done : timeline[id] \in Seq(Interval)
    BY DEF Apart
  <2>2. QED
    BY <1>1, <1>2, <2>1, ConditionsAreFound
<1>4. PICK i \in 1 .. Len(c) : c[i] = timeline[a]
  BY <1>2, <1>3 DEF AreThose
<1>5. PICK j \in 1 .. Len(c) : c[j] = timeline[b]
  BY <1>2, <1>3 DEF AreThose
<1>6. c \in Seq(Seq(Interval)) /\ Len(c) \in Nat
  BY <1>3 DEF AreThose
<1>7. all \in Seq(Interval) /\ \A t \in Int : TrueAt(all, t) <=>
           Len(c) > 0 /\ \A k \in 1 .. Len(c) : TrueAt(c[k], t)
  BY <1>1, <1>6, AndTimes
<1>8. \A t \in Int : ~TrueAt(all, t)
  <2>1. \A t : ~TrueAt(c[j], t)
    BY <1>5 DEF TrueAt
  <2>2. QED
    BY <1>7, <2>1
<1>9. Forward(all) /\ AllTrue(all) /\ Gapped(all)
  <2>1. \/ Len(c) = 1 /\ all = c[1]
        \/ Forward(all) /\ AllTrue(all) /\ Gapped(all)
    BY <1>1, <1>6, AndShape
  <2>2. Len(c) = 1 => i = 1
    OBVIOUS
  <2>3. QED
    BY <1>4, <2>1, <2>2 DEF Apart
<1>10. QED
  BY <1>1, <1>7, <1>8, <1>9 DEF Apart

\* The Streak Maintainer never has a streak.
LEMMA StreakMaintainerAnswers ==
  ASSUME NEW es, Listed(es)
  PROVE  Answers(es, "streak_maintainer")
<1>1. PICK ops : ops = StreakMaintainerOperations
  OBVIOUS
<1>2. PICK paid, due, all :
        /\ paid = "payment_successful_exists" /\ due = "payment_due_not_exists"
        /\ all = "on_time_bool_timeline"
  OBVIOUS
<1>3. PICK negated :
        negated = [ID |-> due, Op |-> "Not", Of |-> Existed("", "payment_due")]
  OBVIOUS
<1>4. /\ Len(ops) = 4
      /\ ops[1] = Existed(paid, "payment_successful")
      /\ ops[2] = negated
      /\ ops[3] = [ID |-> all, Op |-> "AND", ConditionAll |-> <<paid, due>>]
      /\ ops[4] = LongestStreak("longest_streak", all)
  BY <1>1, <1>2, <1>3 DEF StreakMaintainerOperations
<1>5. PICK f : Loops(f, es, ops, 4)
  <2>1. Len(ops) \in Nat
    BY <1>4
  <2>2. PICK f : Loops(f, es, ops, Len(ops))
    BY <2>1, QueryLoops
  <2>3. QED
    BY <1>4, <2>2
<1>6. /\ ProcessQuery(es, ops) = AnswerOf(f[4])
      /\ f[0] = [last |-> Seconds(0), results |-> <<>>]
      /\ f[1] = ExecuteNext(es, f[0], ops[1])
      /\ f[2] = ExecuteNext(es, f[1], ops[2])
      /\ f[3] = ExecuteNext(es, f[2], ops[3])
      /\ f[4] = ExecuteNext(es, f[3], ops[4])
  BY <1>5, FourTurns
<1>7. PICK was, owed : /\ was = HasExisted(FilterEventsByType(es, "payment_successful"), "true")
                       /\ owed = HasExisted(FilterEventsByType(es, "payment_due"), "true")
  OBVIOUS
<1>8. Apart(was) /\ Apart(owed)
  <2>1. ASSUME NEW source PROVE Apart(HasExisted(FilterEventsByType(es, source), "true"))
    <3>1. PICK E, s : E = ToSet(es) /\ s = FilterEventsByType(es, source)
      OBVIOUS
    <3>2. s \in Seq(E) /\ Stamped(E)
      BY <3>1, FilterKeeps DEF Listed
    <3>3. HasExisted(s, "true") \in Seq(Interval)
      BY <3>2, HasExistedTimes
    <3>4. Forward(HasExisted(s, "true")) /\ AllTrue(HasExisted(s, "true"))
          /\ Gapped(HasExisted(s, "true"))
      BY <3>2, HasExistedShape
    <3>5. QED
      BY <3>1, <3>3, <3>4 DEF Apart
  <2>2. QED
    BY <1>7, <2>1
<1>9. NOT(owed) \in Seq(Interval) /\ \A i \in 1 .. Len(NOT(owed)) : ~NOT(owed)[i].Value
  <2>1. owed \in Seq(Interval)
    BY <1>8 DEF Apart
  <2>2. QED
    BY <2>1, NotTimes
<1>10. PICK timeline : timeline = [id \in {paid, due, all} |->
                                     IF id = all
                                     THEN AND(Conditions(<<paid, due>>, f[2].results, Bool))
                                     ELSE IF id = paid THEN was ELSE NOT(owed)]
  OBVIOUS
<1>11. /\ timeline[paid] = was /\ timeline[due] = NOT(owed)
       /\ timeline[all] = AND(Conditions(<<paid, due>>, f[2].results, Bool))
       /\ DOMAIN timeline = {paid, due, all}
  BY <1>2, <1>10
<1>12. Holds(f[0], {}, timeline)
  BY <1>6, NothingHolds
<1>13. Holds(f[1], {} \union {paid}, timeline)
  BY <1>4, <1>6, <1>7, <1>11, <1>12, ExistedTurn
<1>14. Holds(f[2], {paid} \union {due}, timeline)
  <2>1. PICK nested : nested = Existed("", "payment_due")
    OBVIOUS
  <2>2. nested.Op = "HasExisted" /\ nested.Source = "payment_due" /\ nested.Equals = "true"
    BY <2>1 DEF Existed
  <2>3. negated.ID = due /\ negated.Op = "Not" /\ negated.Of = nested
    BY <1>3, <2>1
  <2>4. ExecuteFlat(es, nested, f[1].results) = BoolTimeline(owed)
    BY <1>7, <2>2 DEF ExecuteFlat
  <2>5. BoolTimeline(owed).type = "BoolTimeline" /\ BoolTimeline(owed).value = owed
    BY DEF BoolTimeline
  <2>6. ExecuteOperation(es, negated, f[1].results) = BoolTimeline(NOT(owed))
    BY <2>3, <2>4, <2>5 DEF ExecuteOperation, NotOf
  <2>7. Holds(f[1], {paid}, timeline)
    BY <1>13
  <2>8. negated.ID \notin {paid} /\ negated.ID \in DOMAIN timeline
    BY <1>2, <1>11, <2>3
  <2>9. Holds(ExecuteNext(es, f[1], negated), {paid} \union {negated.ID}, timeline)
    BY <1>11, <2>3, <2>6, <2>7, <2>8, TurnAdds
  <2>10. QED
    BY <1>4, <1>6, <2>3, <2>9
<1>15. Holds(f[2], {paid, due}, timeline)
  BY <1>14
<1>16. Holds(f[3], {paid, due} \union {all}, timeline)
  BY <1>2, <1>4, <1>6, <1>11, <1>15, CombiningTurn
<1>17. Apart(timeline[all]) /\ \A t \in Int : ~TrueAt(timeline[all], t)
  <2>1. PICK done, state : done = {paid, due} /\ state = f[2]
    OBVIOUS
  <2>2. /\ Holds(state, done, timeline) /\ Apart(timeline[paid])
        /\ timeline[due] \in Seq(Interval)
        /\ \A i \in 1 .. Len(timeline[due]) : ~timeline[due][i].Value
    BY <1>8, <1>9, <1>11, <1>15, <2>1
  <2>3. PICK c : c = AND(Conditions(<<paid, due>>, state.results, Bool))
    OBVIOUS
  <2>4. Apart(c) /\ \A t \in Int : ~TrueAt(c, t)
    BY <2>1, <2>2, <2>3, AllWithNegation
  <2>5. QED
    BY <1>11, <2>1, <2>3, <2>4
<1>18. PICK S : S = Active(es, CountedTypes("streak_maintainer"))
  OBVIOUS
<1>19. S = {}
  BY <1>18 DEF Active, CountedTypes
<1>20. AnswerOf(f[4]) = Seconds(Longest(S))
  <2>1. PICK done, id, state :
          done = {paid, due} \union {all} /\ id = "longest_streak" /\ state = f[3]
    OBVIOUS
  <2>2. Holds(state, done, timeline)
    BY <1>16, <2>1
  <2>3. all \in done /\ "result" \notin done /\ id # "result"
    BY <1>2, <2>1
  <2>4. TrueIn(timeline[all], S)
    BY <1>17, <1>19 DEF TrueIn
  <2>5. AnswerOf(ExecuteNext(es, state, LongestStreak(id, all))) = Seconds(Longest(S))
    BY <2>2, <2>3, <2>4, StreakIsAnswer
  <2>6. QED
    BY <1>4, <1>6, <2>1, <2>5
<1>21. Operations("streak_maintainer") = ops
  BY <1>1 DEF Operations
<1>22. QED
  BY <1>6, <1>18, <1>20, <1>21 DEF Answers

\* The Weekend Warrior's window is no duration.
LEMMA WeekendWarriorFails ==
  ASSUME NEW es
  PROVE  ProcessQuery(es, Operations("weekend_warrior")).type = "error"
<1>1. PICK ops : ops = WeekendWarriorOperations
  OBVIOUS
<1>2. PICK op : op = Within("weekend_activity", "weekend_interaction", "4w")
  OBVIOUS
<1>3. Len(ops) = 4 /\ ops[3] = op
  BY <1>1, <1>2 DEF WeekendWarriorOperations
<1>4. PICK f : Loops(f, es, ops, 4)
  <2>1. Len(ops) \in Nat
    BY <1>3
  <2>2. PICK f : Loops(f, es, ops, Len(ops))
    BY <2>1, QueryLoops
  <2>3. QED
    BY <1>3, <2>2
<1>5. /\ ProcessQuery(es, ops) = AnswerOf(f[4])
      /\ f[3] = ExecuteNext(es, f[2], op)
      /\ f[4] = ExecuteNext(es, f[3], ops[4])
  BY <1>3, <1>4, FourTurns
<1>6. op.Op = "HasExistedWithin" /\ op.Params = [invalid |-> "4w"]
  BY <1>2 DEF Within, ParseWindow
<1>7. "window" \notin DOMAIN op.Params
  BY <1>6
<1>8. ExecuteOperation(es, op, f[2].results) = Failure
  BY <1>6, <1>7 DEF ExecuteOperation, ExecuteFlat
<1>9. f[3].last.type = "error"
  BY <1>5, <1>8 DEF ExecuteNext, Recorded, Failure
<1>10. f[4].last.type = "error"
  BY <1>5, <1>9 DEF ExecuteNext
<1>11. ProcessQuery(es, ops).type = "error"
  BY <1>5, <1>10 DEF AnswerOf
<1>12. Operations("weekend_warrior") = ops
  BY <1>1 DEF Operations
<1>13. QED
  BY <1>11, <1>12

\* What is answered for each badge.
LEMMA BadgeAnswers ==
  ASSUME NEW es, Listed(es), NEW b \in Badges
  PROVE  /\ b = "weekend_warrior" => ProcessQuery(es, Operations(b)).type = "error"
         /\ b # "weekend_warrior" => Answers(es, b)
<1>1. Answers(es, "streak_maintainer") /\ Answers(es, "daily_engagement")
  BY StreakMaintainerAnswers, DailyEngagementAnswers
<1>2. Answers(es, "topic_dominator") /\ Answers(es, "feature_pioneer")
  BY TopicDominatorAnswers, FeaturePioneerAnswers
<1>3. ProcessQuery(es, Operations("weekend_warrior")).type = "error"
  BY WeekendWarriorFails
<1>4. QED
  BY <1>1, <1>2, <1>3 DEF Badges

--------------------------------------------------------------------------------
(* What an execution remembers.                                            *)

\* The events that were in storage when w loaded them.
Stored(w) == [i \in 1 .. loaded[w] |-> log[i]]

\* Those of its time range.
SeenBy(w) == LoadEvents(Stored(w), request[w].TimeRange)

\* What the workflow of badge b answers of the events, evaluated at a time.
Judged(b, evs, time, answer) ==
  LET r == ProcessQuery(ClassifyEvents(evs, time), Operations(b))
  IN  r.type # "error" /\ answer = Judge(b, r)

Places == {"idle", "loading", "evaluating", "done", "failed"}

BadgeTypes ==
  /\ badge \in Badges /\ now \in Int /\ log \in Seq(Events[badge])
  /\ pc \in [Workflows -> Places] /\ request \in [Workflows -> Requests \union {None}]
  /\ loaded \in [Workflows -> Nat] /\ evaluatedAt \in [Workflows -> Int]
  /\ DOMAIN events = Workflows /\ DOMAIN result = Workflows
  /\ \A w \in Workflows : loaded[w] <= Len(log)

\* An execution has a request, has loaded what was in storage then, and has judged what
\* it has loaded.
WorkflowInv(w) ==
  /\ pc[w] \in {"loading", "evaluating", "done"} => request[w] \in Requests
  /\ pc[w] = "evaluating" => events[w] = SeenBy(w)
  /\ Done(w) => Judged(badge, SeenBy(w), evaluatedAt[w], result[w])

BadgeInv == BadgeTypes /\ \A w \in Workflows : WorkflowInv(w)

LEMMA BadgeInvInit ==
  ASSUME Init
  PROVE  BadgeInv
<1>1. BadgeTypes
  <2>1. log \in Seq(Events[badge]) /\ Len(log) = 0
    <3>1. log = <<>> /\ badge \in Badges
      BY DEF Init
    <3>2. PICK E : E = Events[badge]
      OBVIOUS
    <3>3. <<>> \in Seq(E) /\ Len(<<>>) = 0
      OBVIOUS
    <3>4. QED
      BY <3>1, <3>2, <3>3
  <2>2. pc \in [Workflows -> Places] /\ request \in [Workflows -> Requests \union {None}]
    <3>1. pc = [w \in Workflows |-> "idle"] /\ request = [w \in Workflows |-> None]
      BY DEF Init
    <3>2. pc \in [Workflows -> Places]
      BY <3>1 DEF Places
    <3>3. request \in [Workflows -> Requests \union {None}]
      BY <3>1
    <3>4. QED
      BY <3>2, <3>3
  <2>3. /\ loaded \in [Workflows -> Nat] /\ \A w \in Workflows : loaded[w] = 0
        /\ evaluatedAt \in [Workflows -> Int]
    BY DEF Init
  <2>4. DOMAIN events = Workflows /\ DOMAIN result = Workflows /\ now \in Int /\ badge \in Badges
    BY DEF Init
  <2>5. QED
    BY <2>1, <2>2, <2>3, <2>4 DEF BadgeTypes
<1>2. \A w \in Workflows : pc[w] = "idle"
  BY DEF Init
<1>3. QED
  BY <1>1, <1>2 DEF BadgeInv, WorkflowInv, Done

\* A step leaves w alone: it stays where it was and remembers what it did.
LeftAlone(w) ==
  /\ pc'[w] = pc[w] /\ request'[w] = request[w] /\ events'[w] = events[w]
  /\ result'[w] = result[w] /\ loaded'[w] = loaded[w] /\ evaluatedAt'[w] = evaluatedAt[w]

\* Storage only grows.
Grows ==
  /\ badge' = badge /\ Len(log) <= Len(log)' /\ \A i \in 1 .. Len(log) : log'[i] = log[i]

\* What w has seen stays what it was.
LEMMA SeenStays ==
  ASSUME BadgeTypes, Grows, NEW w \in Workflows, loaded'[w] = loaded[w],
         request'[w] = request[w]
  PROVE  SeenBy(w)' = SeenBy(w)
<1>1. loaded[w] \in Nat /\ loaded[w] <= Len(log) /\ Len(log) \in Nat
  BY DEF BadgeTypes
<1>2. \A i \in 1 .. loaded[w] : log'[i] = log[i]
  BY <1>1 DEF Grows
<1>3. Stored(w)' = Stored(w)
  BY <1>2 DEF Stored
<1>4. badge' = badge
  BY DEF Grows
<1>5. QED
  BY <1>3, <1>4 DEF SeenBy, LoadEvents, InTimeRange

LEMMA LeftAloneStays ==
  ASSUME BadgeInv, Grows, NEW w \in Workflows, LeftAlone(w)
  PROVE  WorkflowInv(w)'
<1>1. BadgeTypes
  BY DEF BadgeInv
<1>2. SeenBy(w)' = SeenBy(w)
  BY <1>1, SeenStays DEF LeftAlone
<1>3. /\ pc[w] \in {"loading", "evaluating", "done"} => request[w] \in Requests
      /\ pc[w] = "evaluating" => events[w] = SeenBy(w)
      /\ pc[w] = "done" => Judged(badge, SeenBy(w), evaluatedAt[w], result[w])
  BY DEF BadgeInv, WorkflowInv, Done
<1>4. /\ pc'[w] \in {"loading", "evaluating", "done"} => request'[w] \in Requests
      /\ pc'[w] = "evaluating" => events'[w] = SeenBy(w)'
  BY <1>2, <1>3 DEF LeftAlone
<1>5. pc'[w] = "done" => Judged(badge', SeenBy(w)', evaluatedAt'[w], result'[w])
  BY <1>2, <1>3 DEF LeftAlone, Grows
<1>6. QED
  BY <1>4, <1>5 DEF WorkflowInv, Done

\* Of what w has loaded it remembers what storage held.
LEMMA LoadKeeps ==
  ASSUME BadgeInv, NEW w \in Workflows, Load(w)
  PROVE  BadgeInv'
<1>1. BadgeTypes /\ WorkflowInv(w)
  BY DEF BadgeInv
<1>2. Grows
  BY <1>1 DEF Load, executions, BadgeTypes, Grows
<1>3. /\ pc' = [pc EXCEPT ![w] = "evaluating"] /\ request' = request
      /\ events' = [events EXCEPT ![w] = LoadEvents(log, request[w].TimeRange)]
      /\ loaded' = [loaded EXCEPT ![w] = Len(log)]
      /\ result' = result /\ evaluatedAt' = evaluatedAt /\ log' = log /\ now' = now
      /\ badge' = badge /\ pc[w] = "loading"
  BY DEF Load
<1>4. BadgeTypes'
  <2>1. Len(log) \in Nat
    BY <1>1 DEF BadgeTypes
  <2>2. loaded' \in [Workflows -> Nat] /\ \A v \in Workflows : loaded'[v] <= Len(log)
    BY <1>1, <1>3, <2>1 DEF BadgeTypes
  <2>3. pc' \in [Workflows -> Places] /\ DOMAIN events' = Workflows
    BY <1>1, <1>3 DEF BadgeTypes, Places
  <2>4. QED
    BY <1>1, <1>3, <2>2, <2>3 DEF BadgeTypes
<1>5. WorkflowInv(w)'
  <2>1. request'[w] \in Requests /\ pc'[w] = "evaluating"
    BY <1>1, <1>3 DEF WorkflowInv, BadgeTypes
  <2>2. loaded'[w] = Len(log)
    BY <1>1, <1>3 DEF BadgeTypes
  <2>3. [i \in 1 .. Len(log) |-> log[i]] = log
    BY <1>1 DEF BadgeTypes
  <2>4. Stored(w)' = log
    BY <1>3, <2>2, <2>3 DEF Stored
  <2>5. SeenBy(w)' = LoadEvents(log, request[w].TimeRange)
    BY <1>3, <2>4 DEF SeenBy, LoadEvents, InTimeRange
  <2>6. events'[w] = LoadEvents(log, request[w].TimeRange)
    BY <1>1, <1>3 DEF BadgeTypes
  <2>7. QED
    BY <2>1, <2>5, <2>6 DEF WorkflowInv, Done
<1>6. \A v \in Workflows : v # w => LeftAlone(v)
  BY <1>1, <1>3 DEF LeftAlone, BadgeTypes
<1>7. QED
  BY <1>2, <1>4, <1>5, <1>6, LeftAloneStays DEF BadgeInv

\* A failed execution has nothing left to remember.
LEMMA FailKeeps ==
  ASSUME BadgeInv, NEW w \in Workflows, Fail(w)
  PROVE  BadgeInv'
<1>1. BadgeTypes /\ WorkflowInv(w)
  BY DEF BadgeInv
<1>2. Grows
  BY <1>1 DEF Fail, BadgeTypes, Grows
<1>3. /\ pc' = [pc EXCEPT ![w] = "failed"] /\ request' = [request EXCEPT ![w] = None]
      /\ events' = [events EXCEPT ![w] = <<>>] /\ loaded' = [loaded EXCEPT ![w] = 0]
      /\ result' = result /\ evaluatedAt' = evaluatedAt /\ log' = log /\ now' = now
      /\ badge' = badge
  BY DEF Fail
<1>4. BadgeTypes'
  <2>1. loaded' \in [Workflows -> Nat] /\ \A v \in Workflows : loaded'[v] <= Len(log)
    BY <1>1, <1>3 DEF BadgeTypes
  <2>2. pc' \in [Workflows -> Places] /\ DOMAIN events' = Workflows
    BY <1>1, <1>3 DEF BadgeTypes, Places
  <2>3. request' \in [Workflows -> Requests \union {None}]
    BY <1>1, <1>3 DEF BadgeTypes
  <2>4. QED
    BY <1>1, <1>3, <2>1, <2>2, <2>3 DEF BadgeTypes
<1>5. WorkflowInv(w)'
  <2>1. pc'[w] = "failed"
    BY <1>1, <1>3 DEF BadgeTypes
  <2>2. QED
    BY <2>1 DEF WorkflowInv, Done
<1>6. \A v \in Workflows : v # w => LeftAlone(v)
  BY <1>1, <1>3 DEF LeftAlone, BadgeTypes
<1>7. QED
  BY <1>2, <1>4, <1>5, <1>6, LeftAloneStays DEF BadgeInv

LEMMA AttemptFailedKeeps ==
  ASSUME BadgeInv, NEW w \in Workflows, AttemptFailed(w)
  PROVE  BadgeInv'
<1>1. CASE Fail(w)
  BY <1>1, FailKeeps
<1>2. CASE UNCHANGED <<log, now, badge, pc, request, events, result, loaded, evaluatedAt>>
  <2>1. BadgeTypes
    BY DEF BadgeInv
  <2>2. Grows
    BY <1>2, <2>1 DEF Grows, BadgeTypes
  <2>3. BadgeTypes'
    BY <1>2, <2>1 DEF BadgeTypes
  <2>4. \A v \in Workflows : LeftAlone(v)
    BY <1>2 DEF LeftAlone
  <2>5. QED
    BY <2>2, <2>3, <2>4, LeftAloneStays DEF BadgeInv
<1>3. QED
  BY <1>1, <1>2 DEF AttemptFailed

\* An execution is done when it has judged what it has seen.
LEMMA EvaluateKeeps ==
  ASSUME BadgeInv, NEW w \in Workflows, EvaluateBadge(w)
  PROVE  BadgeInv'
<1>1. BadgeTypes /\ WorkflowInv(w)
  BY DEF BadgeInv
<1>2. PICK answer : answer = ProcessQuery(ClassifyEvents(events[w], now), Operations(badge))
  OBVIOUS
<1>3. CASE answer.type = "error"
  <2>1. AttemptFailed(w)
    BY <1>2, <1>3 DEF EvaluateBadge
  <2>2. QED
    BY <2>1, AttemptFailedKeeps
<1>4. CASE answer.type # "error"
  <2>1. /\ pc' = [pc EXCEPT ![w] = "done"] /\ result' = [result EXCEPT ![w] = Judge(badge, answer)]
        /\ evaluatedAt' = [evaluatedAt EXCEPT ![w] = now]
        /\ events' = [events EXCEPT ![w] = <<>>]
        /\ log' = log /\ now' = now /\ badge' = badge /\ request' = request /\ loaded' = loaded
        /\ pc[w] = "evaluating"
    BY <1>2, <1>4 DEF EvaluateBadge
  <2>2. Grows
    BY <1>1, <2>1 DEF Grows, BadgeTypes
  <2>3. BadgeTypes'
    <3>1. pc' \in [Workflows -> Places] /\ DOMAIN events' = Workflows /\ DOMAIN result' = Workflows
      BY <1>1, <2>1 DEF BadgeTypes, Places
    <3>2. evaluatedAt' \in [Workflows -> Int]
      BY <1>1, <2>1 DEF BadgeTypes
    <3>3. QED
      BY <1>1, <2>1, <3>1, <3>2 DEF BadgeTypes
  <2>4. WorkflowInv(w)'
    <3>1. request'[w] \in Requests /\ pc'[w] = "done"
      BY <1>1, <2>1 DEF WorkflowInv, BadgeTypes
    <3>2. SeenBy(w)' = SeenBy(w)
      BY <1>1, <2>1, <2>2, SeenStays
    <3>3. events[w] = SeenBy(w)
      BY <1>1, <2>1 DEF WorkflowInv
    <3>4. evaluatedAt'[w] = now /\ result'[w] = Judge(badge, answer)
      BY <1>1, <2>1 DEF BadgeTypes
    <3>5. Judged(badge, SeenBy(w), now, Judge(badge, answer))
      BY <1>2, <1>4, <3>3 DEF Judged
    <3>6. Judged(badge', SeenBy(w)', evaluatedAt'[w], result'[w])
      BY <2>1, <3>2, <3>4, <3>5
    <3>7. QED
      BY <3>1, <3>6 DEF WorkflowInv, Done
  <2>5. \A v \in Workflows : v # w => LeftAlone(v)
    BY <1>1, <2>1 DEF LeftAlone, BadgeTypes
  <2>6. QED
    BY <2>2, <2>3, <2>4, <2>5, LeftAloneStays DEF BadgeInv
<1>5. QED
  BY <1>3, <1>4

LEMMA StartKeeps ==
  ASSUME BadgeInv, NEW w \in Workflows, NEW r \in Requests, Start(w, r)
  PROVE  BadgeInv'
<1>1. BadgeTypes /\ WorkflowInv(w)
  BY DEF BadgeInv
<1>2. PICK place : /\ place \in {"loading", "failed"} /\ pc' = [pc EXCEPT ![w] = place]
                   /\ IF place = "loading" THEN request' = [request EXCEPT ![w] = r]
                                           ELSE request' = request
  BY DEF Start
<1>3. /\ log' = log /\ now' = now /\ badge' = badge /\ events' = events /\ result' = result
      /\ loaded' = loaded /\ evaluatedAt' = evaluatedAt
  BY DEF Start
<1>4. Grows
  BY <1>1, <1>3 DEF Grows, BadgeTypes
<1>5. BadgeTypes'
  <2>1. pc' \in [Workflows -> Places]
    BY <1>1, <1>2 DEF BadgeTypes, Places
  <2>2. request' \in [Workflows -> Requests \union {None}]
    BY <1>1, <1>2 DEF BadgeTypes
  <2>3. QED
    BY <1>1, <1>3, <2>1, <2>2 DEF BadgeTypes
<1>6. WorkflowInv(w)'
  <2>1. pc'[w] = place /\ (place = "loading" => request'[w] = r)
    BY <1>1, <1>2 DEF BadgeTypes
  <2>2. QED
    BY <1>2, <2>1 DEF WorkflowInv, Done
<1>7. \A v \in Workflows : v # w => LeftAlone(v)
  BY <1>1, <1>2, <1>3 DEF LeftAlone, BadgeTypes
<1>8. QED
  BY <1>4, <1>5, <1>6, <1>7, LeftAloneStays DEF BadgeInv

\* New events come after those that were seen.
LEMMA AppendKeeps ==
  ASSUME BadgeInv, NEW e \in Events[badge], AppendEvents(e)
  PROVE  BadgeInv'
<1>1. BadgeTypes
  BY DEF BadgeInv
<1>2. /\ log' = Append(log, e) /\ badge' = badge /\ now' = now /\ pc' = pc /\ request' = request
      /\ events' = events /\ result' = result /\ loaded' = loaded /\ evaluatedAt' = evaluatedAt
  BY DEF AppendEvents, executions
<1>3. PICK E : E = Events[badge]
  OBVIOUS
<1>4. log \in Seq(E) /\ e \in E
  BY <1>1, <1>3 DEF BadgeTypes
<1>5. /\ log' \in Seq(E) /\ Len(log') = Len(log) + 1 /\ Len(log) \in Nat
      /\ \A i \in 1 .. Len(log) : log'[i] = log[i]
  BY <1>2, <1>4
<1>6. Grows
  BY <1>2, <1>5 DEF Grows
<1>7. BadgeTypes'
  <2>1. \A w \in Workflows : loaded'[w] <= Len(log')
    BY <1>1, <1>2, <1>5 DEF BadgeTypes
  <2>2. QED
    BY <1>1, <1>2, <1>3, <1>5, <2>1 DEF BadgeTypes
<1>8. \A w \in Workflows : LeftAlone(w)
  BY <1>2 DEF LeftAlone
<1>9. QED
  BY <1>6, <1>7, <1>8, LeftAloneStays DEF BadgeInv

LEMMA TimeKeeps ==
  ASSUME BadgeInv, Tick \/ UNCHANGED vars
  PROVE  BadgeInv'
<1>1. BadgeTypes
  BY DEF BadgeInv
<1>2. /\ log' = log /\ badge' = badge /\ pc' = pc /\ request' = request
      /\ events' = events /\ result' = result /\ loaded' = loaded /\ evaluatedAt' = evaluatedAt
      /\ now' = now \/ now' = now + 1
  BY DEF Tick, vars, executions
<1>3. Grows
  BY <1>1, <1>2 DEF Grows, BadgeTypes
<1>4. BadgeTypes'
  <2>1. now' \in Int
    BY <1>1, <1>2 DEF BadgeTypes
  <2>2. QED
    BY <1>1, <1>2, <2>1 DEF BadgeTypes
<1>5. \A w \in Workflows : LeftAlone(w)
  BY <1>2 DEF LeftAlone
<1>6. QED
  BY <1>3, <1>4, <1>5, LeftAloneStays DEF BadgeInv

LEMMA BadgeInvNext ==
  ASSUME BadgeInv, [Next]_vars
  PROVE  BadgeInv'
<1>1. CASE \E e \in Events[badge] : AppendEvents(e)
  BY <1>1, AppendKeeps
<1>2. CASE Tick \/ UNCHANGED vars
  BY <1>2, TimeKeeps
<1>3. ASSUME NEW w \in Workflows, NEW r \in Requests, Start(w, r) PROVE BadgeInv'
  BY <1>3, StartKeeps
<1>4. ASSUME NEW w \in Workflows, Load(w) PROVE BadgeInv'
  BY <1>4, LoadKeeps
<1>5. ASSUME NEW w \in Workflows, LoadFails(w) PROVE BadgeInv'
  BY <1>5, AttemptFailedKeeps DEF LoadFails
<1>6. ASSUME NEW w \in Workflows, EvaluateBadge(w) PROVE BadgeInv'
  BY <1>6, EvaluateKeeps
<1>7. ASSUME NEW w \in Workflows, ScheduleToCloseTimeout(w) PROVE BadgeInv'
  BY <1>7, FailKeeps DEF ScheduleToCloseTimeout
<1>8. QED
  BY <1>1, <1>2, <1>3, <1>4, <1>5, <1>6, <1>7 DEF Next

--------------------------------------------------------------------------------
(* What an answered badge says.                                            *)

\* An event as it is classified.
TimeOf(e, time) == IF e.Timestamp = None THEN time ELSE e.Timestamp
Classified(e, time) == [Timestamp |-> TimeOf(e, time), Type |-> e.Type, Value |-> e.Value]

InRangeOf(e, range) ==
  range # None => e.Timestamp # None /\ e.Timestamp \in range.Start .. range.End

\* An execution has seen the events in storage that lie in its range.
LEMMA SeenEvents ==
  ASSUME BadgeTypes, NEW w \in Workflows
  PROVE  LET range == request[w].TimeRange
         IN  /\ SeenBy(w) \in Seq(Events[badge])
             /\ \A e : Among(e, SeenBy(w)) <=>
                  \E i \in 1 .. loaded[w] : log[i] = e /\ InRangeOf(e, range)
<1>1. PICK E, l, range : E = Events[badge] /\ l = Stored(w) /\ range = request[w].TimeRange
  OBVIOUS
<1>2. loaded[w] \in Nat /\ \A i \in 1 .. loaded[w] : log[i] \in E
  BY <1>1 DEF BadgeTypes
<1>3. l \in Seq(E) /\ Len(l) = loaded[w] /\ \A i \in 1 .. loaded[w] : l[i] = log[i]
  BY <1>1, <1>2 DEF Stored
<1>4. \A e : Among(e, l) <=> \E i \in 1 .. loaded[w] : log[i] = e
  BY <1>3 DEF Among
<1>5. CASE range = None
  <2>1. SeenBy(w) = l
    BY <1>1, <1>5 DEF SeenBy, LoadEvents
  <2>2. QED
    BY <1>1, <1>3, <1>4, <1>5, <2>1 DEF InRangeOf
<1>6. CASE range # None
  <2>1. PICK wanted : wanted = InTimeRange(range)
    OBVIOUS
  <2>2. SeenBy(w) = Select(l, wanted)
    BY <1>1, <1>6, <2>1 DEF SeenBy, LoadEvents
  <2>3. /\ Select(l, wanted) \in Seq(E)
        /\ \A e : Among(e, Select(l, wanted)) <=> Among(e, l) /\ e \in wanted
    BY <1>3, SelectElements
  <2>4. \A e \in E : e \in wanted <=> InRangeOf(e, range)
    BY <1>1, <1>6, <2>1 DEF InTimeRange, InRangeOf
  <2>5. \A e : Among(e, l) => e \in E
    BY <1>2, <1>4
  <2>6. \A e : Among(e, SeenBy(w)) <=> \E i \in 1 .. loaded[w] : log[i] = e /\ InRangeOf(e, range)
    BY <1>4, <2>2, <2>3, <2>4, <2>5
  <2>7. QED
    BY <1>1, <2>2, <2>3, <2>6
<1>7. QED
  BY <1>5, <1>6

\* The events of a query: those seen, each with a time.
LEMMA ClassifiedEvents ==
  ASSUME NEW b \in Badges, NEW evs \in Seq(Events[b]), NEW time \in Int, NEW es,
         es = ClassifyEvents(evs, time)
  PROVE  /\ Listed(es)
         /\ \A c : c \in ToSet(es) <=> \E e : Among(e, evs) /\ c = Classified(e, time)
<1>1. Events[b] \subseteq [Timestamp : Int \union {None}, Type : STRING, Value : STRING]
  BY BadgesAssumption
<1>2. PICK n \in Nat : n = Len(evs)
  OBVIOUS
<1>3. /\ DOMAIN evs = 1 .. n
      /\ \A i \in 1 .. n :
           evs[i] \in [Timestamp : Int \union {None}, Type : STRING, Value : STRING]
  BY <1>1, <1>2
<1>4. DOMAIN es = 1 .. n /\ es = [i \in 1 .. n |-> es[i]]
  BY <1>3 DEF ClassifyEvents
<1>5. \A i \in 1 .. n : es[i] = Classified(evs[i], time) /\ es[i].Timestamp \in Int
  BY <1>3 DEF ClassifyEvents, Classified, TimeOf
<1>6. \A c : c \in ToSet(es) <=> \E i \in 1 .. n : c = es[i]
  BY <1>4 DEF ToSet
<1>7. Listed(es)
  <2>1. \A i \in 1 .. n : es[i] \in ToSet(es)
    BY <1>6
  <2>2. es \in Seq(ToSet(es))
    BY <1>4, <2>1
  <2>3. Stamped(ToSet(es))
    BY <1>5, <1>6 DEF Stamped
  <2>4. QED
    BY <2>2, <2>3 DEF Listed
<1>8. \A c : c \in ToSet(es) <=> \E e : Among(e, evs) /\ c = Classified(e, time)
  <2>1. \A c : c \in ToSet(es) <=> \E i \in 1 .. n : c = Classified(evs[i], time)
    BY <1>5, <1>6
  <2>2. \A e : Among(e, evs) <=> \E i \in 1 .. n : evs[i] = e
    BY <1>2 DEF Among
  <2>3. QED
    BY <2>1, <2>2
<1>9. QED
  BY <1>7, <1>8

\* The units of which each is within a day after an event that counts.
ActiveUnits(w) == UNION {t .. t + Day - 1 : t \in CountedTimes(w)}

\* They are those that the query finds.
LEMMA ActiveIsCounted ==
  ASSUME BadgeTypes, NEW w \in Workflows, NEW es,
         es = ClassifyEvents(SeenBy(w), evaluatedAt[w])
  PROVE  Listed(es) /\ Active(es, CountedTypes(badge)) = ActiveUnits(w)
<1>1. PICK time, types, range :
        time = evaluatedAt[w] /\ types = CountedTypes(badge) /\ range = request[w].TimeRange
  OBVIOUS
<1>2. badge \in Badges /\ time \in Int /\ Day \in Int
  BY <1>1, BadgesAssumption DEF BadgeTypes
<1>3. PICK evs : evs = SeenBy(w)
  OBVIOUS
<1>4. /\ evs \in Seq(Events[badge])
      /\ \A e : Among(e, evs) <=> \E i \in 1 .. loaded[w] : log[i] = e /\ InRangeOf(e, range)
  BY <1>1, <1>3, SeenEvents
<1>5. /\ Listed(es)
      /\ \A c : c \in ToSet(es) <=> \E e : Among(e, evs) /\ c = Classified(e, time)
  BY <1>1, <1>2, <1>3, <1>4, ClassifiedEvents
<1>6. \A i : i \in InRange(w) <=> i \in 1 .. loaded[w] /\ InRangeOf(log[i], range)
  BY <1>1 DEF InRange, InRangeOf
<1>7. \A t : t \in CountedTimes(w) <=>
        \E i \in InRange(w) : /\ log[i].Type \in types /\ log[i].Value = "true"
                              /\ t = TimeOf(log[i], time)
  BY <1>1 DEF CountedTimes, TimeOf
<1>8. \A t : t \in CountedTimes(w) <=>
        \E e : /\ Among(e, evs) /\ e.Type \in types /\ e.Value = "true"
               /\ t = TimeOf(e, time)
  BY <1>4, <1>6, <1>7
<1>9. \A t : t \in CountedTimes(w) <=>
        \E c \in ToSet(es) : c.Type \in types /\ c.Value = "true" /\ t = c.Timestamp
  <2>1. \A e : /\ Classified(e, time).Type = e.Type /\ Classified(e, time).Value = e.Value
               /\ Classified(e, time).Timestamp = TimeOf(e, time)
    BY DEF Classified
  <2>2. QED
    BY <1>5, <1>8, <2>1
<1>10. \A c \in ToSet(es) : c.Timestamp \in Int
  BY <1>5 DEF Listed, Stamped
<1>11. \A u : u \in Active(es, types) <=>
         \E t \in CountedTimes(w) : u \in Int /\ t <= u /\ u < t + Day
  BY <1>9 DEF Active
<1>12. \A t \in CountedTimes(w) : t \in Int
  BY <1>9, <1>10
<1>13. \A u : u \in ActiveUnits(w) <=> \E t \in CountedTimes(w) : u \in t .. t + Day - 1
  BY DEF ActiveUnits
<1>14. \A u : u \in Active(es, types) <=> u \in ActiveUnits(w)
  <2>1. ASSUME NEW t \in CountedTimes(w), NEW u
        PROVE  u \in t .. t + Day - 1 <=> u \in Int /\ t <= u /\ u < t + Day
    BY <1>2, <1>12
  <2>2. QED
    BY <1>11, <1>13, <2>1
<1>15. QED
  BY <1>1, <1>5, <1>14

\* The units of a query's events lie between bounds.
LEMMA ActiveIsBounded ==
  ASSUME NEW es, Listed(es), NEW types
  PROVE  \E lo, hi : LiesIn(Active(es, types), lo, hi)
<1>1. PICK n \in Nat : n = Len(es)
  BY DEF Listed
<1>2. /\ \A i \in 1 .. n : es[i].Timestamp \in Int
      /\ \A e : e \in ToSet(es) <=> \E i \in 1 .. n : e = es[i]
  BY <1>1 DEF Listed, Stamped, ToSet
<1>3. Day \in Nat /\ Active(es, types) \subseteq Int
  BY BadgesAssumption DEF Active
<1>4. CASE n = 0
  <2>1. PICK lo \in Int : TRUE
    OBVIOUS
  <2>2. Active(es, types) = {}
    BY <1>2, <1>4 DEF Active
  <2>3. LiesIn(Active(es, types), lo, lo)
    BY <2>1, <2>2 DEF LiesIn
  <2>4. QED
    BY <2>3
<1>5. CASE n # 0
  <2>1. PICK f \in [1 .. n -> Int] : \A i \in 1 .. n : f[i] = es[i].Timestamp
    <3>1. [i \in 1 .. n |-> es[i].Timestamp] \in [1 .. n -> Int]
      BY <1>2
    <3>2. QED
      BY <3>1
  <2>2. PICK T : T = 1 .. n
    OBVIOUS
  <2>3. T \subseteq 1 .. n /\ T # {}
    BY <1>5, <2>2
  <2>4. PICK V : V = {f[i] : i \in T}
    OBVIOUS
  <2>5. /\ Max(V) \in V /\ \A v \in V : v <= Max(V)
        /\ Min(V) \in V /\ \A v \in V : Min(V) <= v
    BY <2>1, <2>3, <2>4, MaxAndMin
  <2>6. PICK lo, last : /\ last \in V /\ \A v \in V : v <= last
                        /\ lo \in V /\ \A v \in V : lo <= v
    BY <2>5
  <2>7. V \subseteq Int
    BY <2>1, <2>2, <2>4
  <2>8. PICK hi : hi = last + Day
    OBVIOUS
  <2>9. lo \in Int /\ last \in Int /\ hi \in Int /\ lo <= hi
    BY <1>3, <2>6, <2>7, <2>8
  <2>10. ASSUME NEW u \in Active(es, types) PROVE u \in lo .. hi
    <3>1. PICK e \in ToSet(es) : u \in Int /\ e.Timestamp <= u /\ u < e.Timestamp + Day
      BY <2>10 DEF Active
    <3>2. PICK t : t = e.Timestamp
      OBVIOUS
    <3>3. t \in V
      BY <1>2, <2>1, <2>2, <2>4, <3>1, <3>2
    <3>4. lo <= t /\ t <= last /\ t \in Int
      BY <2>6, <2>7, <3>3
    <3>5. QED
      BY <1>3, <2>8, <2>9, <3>1, <3>2, <3>4
  <2>11. LiesIn(Active(es, types), lo, hi)
    BY <2>9, <2>10 DEF LiesIn
  <2>12. QED
    BY <2>11
<1>6. QED
  BY <1>4, <1>5

LongestActivity(w) == LongestSpan(CountedTimes(w))

\* Whoever is done has answered what the events show.
LEMMA DoneShowsEvents ==
  ASSUME BadgeInv, NEW w \in Workflows, Done(w)
  PROVE  /\ badge # "weekend_warrior"
         /\ result[w].Earned <=> LongestActivity(w) >= RequiredDuration(badge)
         /\ result[w].Progress = Min({LongestActivity(w), RequiredDuration(badge)})
         /\ LongestActivity(w) = Longest(ActiveUnits(w))
         /\ \E lo, hi : LiesIn(ActiveUnits(w), lo, hi)
<1>1. BadgeTypes /\ Judged(badge, SeenBy(w), evaluatedAt[w], result[w])
  BY DEF BadgeInv, WorkflowInv
<1>2. PICK es : es = ClassifyEvents(SeenBy(w), evaluatedAt[w])
  OBVIOUS
<1>3. Listed(es) /\ Active(es, CountedTypes(badge)) = ActiveUnits(w)
  BY <1>1, <1>2, ActiveIsCounted
<1>4. badge \in Badges
  BY <1>1 DEF BadgeTypes
<1>5. PICK r : r = ProcessQuery(es, Operations(badge))
  OBVIOUS
<1>6. r.type # "error" /\ result[w] = Judge(badge, r)
  BY <1>1, <1>2, <1>5 DEF Judged
<1>7. badge # "weekend_warrior"
  BY <1>3, <1>4, <1>5, <1>6, BadgeAnswers
<1>8. Answers(es, badge)
  BY <1>3, <1>4, <1>7, BadgeAnswers
<1>9. r = Seconds(Longest(ActiveUnits(w)))
  BY <1>3, <1>5, <1>8 DEF Answers
<1>10. PICK longest : longest = Longest(ActiveUnits(w))
  OBVIOUS
<1>11. r.type = "float64" /\ r.value = longest
  BY <1>9, <1>10 DEF Seconds
<1>12. result[w] = [Earned |-> longest >= RequiredDuration(badge),
                    Progress |-> Min({longest, RequiredDuration(badge)})]
  BY <1>6, <1>11 DEF Judge
<1>13. LongestActivity(w) = longest
  BY <1>10 DEF LongestActivity, LongestSpan, Longest, ActiveUnits
<1>14. \E lo, hi : LiesIn(ActiveUnits(w), lo, hi)
  BY <1>3, ActiveIsBounded
<1>15. result[w].Earned <=> longest >= RequiredDuration(badge)
  <2>1. PICK earned : earned = (longest >= RequiredDuration(badge))
    OBVIOUS
  <2>2. result[w].Earned = earned
    BY <1>12, <2>1
  <2>3. QED
    BY <2>1, <2>2
<1>16. result[w].Progress = Min({longest, RequiredDuration(badge)})
  BY <1>12
<1>17. QED
  BY <1>7, <1>10, <1>13, <1>14, <1>15, <1>16

\* A badge for daily activity that is answered says what the events in storage at the
\* time of the load show, whatever their order, their days and their types.
THEOREM BadgesAreWhatEventsShow == Spec => []BadgeIsWhatEventsShow
<1>1. Init => BadgeInv
  BY BadgeInvInit
<1>2. BadgeInv /\ [Next]_vars => BadgeInv'
  BY BadgeInvNext
<1>3. BadgeInv => BadgeIsWhatEventsShow
  BY DoneShowsEvents DEF BadgeIsWhatEventsShow, LongestActivity
<1>4. QED
  BY <1>1, <1>2, <1>3, PTL DEF Spec

\* Who loads later and looks at no less time counts no fewer of the dated events.
LEMMA CountedLater ==
  ASSUME BadgeInv, NEW v \in Workflows, NEW w \in Workflows, Done(v), Done(w),
         loaded[v] <= loaded[w], Covers(request[w].TimeRange, request[v].TimeRange),
         \A i \in InRange(v) : log[i].Timestamp # None
  PROVE  CountedTimes(v) \subseteq CountedTimes(w)
<1>1. BadgeTypes /\ request[v] \in Requests /\ request[w] \in Requests
  BY DEF BadgeInv, WorkflowInv, Done
<1>2. PICK wide, narrow : wide = request[w].TimeRange /\ narrow = request[v].TimeRange
  OBVIOUS
<1>3. /\ wide # None => wide.Start \in Int /\ wide.End \in Int
      /\ narrow # None => narrow.Start \in Int /\ narrow.End \in Int
  BY <1>1, <1>2, BadgesAssumption
<1>4. loaded[v] \in Nat /\ loaded[w] \in Nat
  BY <1>1 DEF BadgeTypes
<1>5. ASSUME NEW i \in InRange(v) PROVE i \in InRange(w) /\ log[i].Timestamp # None
  <2>1. i \in 1 .. loaded[w] /\ log[i].Timestamp # None
    BY <1>4 DEF InRange
  <2>2. narrow # None => log[i].Timestamp \in narrow.Start .. narrow.End
    BY <1>2 DEF InRange
  <2>3. wide # None => log[i].Timestamp \in wide.Start .. wide.End
    BY <1>2, <1>3, <2>2 DEF Covers
  <2>4. QED
    BY <1>2, <2>1, <2>3 DEF InRange
<1>6. QED
  BY <1>5 DEF CountedTimes

\* A badge once earned is not taken back, and progress is not lost.
THEOREM NothingIsEverRevoked == Spec => []NothingIsRevoked
<1>1. Init => BadgeInv
  BY BadgeInvInit
<1>2. BadgeInv /\ [Next]_vars => BadgeInv'
  BY BadgeInvNext
<1>3. ASSUME BadgeInv PROVE NothingIsRevoked
  <2>1. SUFFICES ASSUME NEW v \in Workflows, NEW w \in Workflows, Done(v), Done(w),
                        loaded[v] <= loaded[w],
                        Covers(request[w].TimeRange, request[v].TimeRange),
                        \A i \in InRange(v) : log[i].Timestamp # None
                 PROVE  /\ result[v].Progress <= result[w].Progress
                        /\ result[v].Earned => result[w].Earned
    BY DEF NothingIsRevoked
  <2>2. PICK lo, hi : LiesIn(ActiveUnits(w), lo, hi)
    BY <1>3, <2>1, DoneShowsEvents
  <2>3. ActiveUnits(v) \subseteq ActiveUnits(w)
    BY <1>3, <2>1, CountedLater DEF ActiveUnits
  <2>4. LiesIn(ActiveUnits(v), lo, hi)
    BY <2>2, <2>3 DEF LiesIn
  <2>5. PICK before, after : before = LongestActivity(v) /\ after = LongestActivity(w)
    OBVIOUS
  <2>6. before = Longest(ActiveUnits(v)) /\ after = Longest(ActiveUnits(w))
    BY <1>3, <2>1, <2>5, DoneShowsEvents
  <2>7. before \in Nat /\ after \in Nat /\ before <= after
    BY <2>2, <2>3, <2>4, <2>6, LongestIsFound, LongestGrows
  <2>8. PICK required : required = RequiredDuration(badge)
    OBVIOUS
  <2>9. required \in Int
    <3>1. RequiredDays[badge] \in Int /\ Day \in Int
      BY <1>3, BadgesAssumption DEF BadgeInv, BadgeTypes
    <3>2. QED
      BY <2>8, <3>1 DEF RequiredDuration
  <2>10. /\ result[v].Earned <=> before >= required
         /\ result[w].Earned <=> after >= required
         /\ result[v].Progress = Min({before, required})
         /\ result[w].Progress = Min({after, required})
    BY <1>3, <2>1, <2>5, <2>8, DoneShowsEvents
  <2>11. PICK x, y : x = Min({before, required}) /\ y = Min({after, required})
    OBVIOUS
  <2>12. /\ x \in Int /\ x <= before /\ x <= required
         /\ y \in Int /\ (y = after \/ y = required)
    BY <2>7, <2>9, <2>11, MinOfTwo
  <2>13. x <= y /\ (before >= required => after >= required)
    BY <2>7, <2>9, <2>12
  <2>14. QED
    BY <2>10, <2>11, <2>13
<1>4. QED
  BY <1>1, <1>2, <1>3, PTL DEF Spec
================================================================================
