----------------------------- MODULE FraudDetection -----------------------------
(***************************************************************************)
(* detectCreditCardFraud: which spans of a customer's transactions show    *)
(* travel that is physically impossible.  Transactions are grouped by      *)
(* place; two places are suspicious together if some transaction in one    *)
(* and some in the other, at most a window apart, are too far from each    *)
(* other; and the spans are those in which both places of a suspicious     *)
(* pair were active within the window.                                     *)
(*                                                                         *)
(* A transaction is a record [Timestamp, Value] and its value the parsed   *)
(* location, a record [City, Type, At]: City stands for the lower-cased    *)
(* city and state, At for the coordinates.                                 *)
(***************************************************************************)
EXTENDS Timeline

CONSTANTS
  Distance,      \* Distance[a][b]: kilometres between two pairs of coordinates
  MinDistance,   \* MinDistanceKm
  Reach,         \* kilometres in a unit of time: FlyingSpeedKmH * SpeedBuffer
  MinOverlaps    \* 2 in the code

ASSUME FraudDetectionAssumption ==
  /\ MinDistance \in Nat \ {0} /\ Reach \in Nat /\ MinOverlaps \in Nat
  /\ \A a \in DOMAIN Distance, b \in DOMAIN Distance :
       Distance[a][b] \in Nat /\ Distance[a][b] = Distance[b][a]

--------------------------------------------------------------------------------
(* Travel.                                                                 *)

\* Online and in-store together never are; in no time, nobody gets anywhere that
\* is at least MinDistance away.
IsPossibleFraudTravel(a, b, time) ==
  /\ {a.Type, b.Type} # {"online", "in-store"}
  /\ \/ {a.Type, b.Type} = {"online"}
     \/ Distance[a.At][b.At] < MinDistance
     \/ time > 0 /\ Distance[a.At][b.At] <= Reach * time

Apart(e, f) == IF e.Timestamp < f.Timestamp THEN f.Timestamp - e.Timestamp
               ELSE e.Timestamp - f.Timestamp

--------------------------------------------------------------------------------
(* Groups and pairs of groups.                                             *)

LocationKey(location) == <<location.City, location.Type>>

Keys(events) == {LocationKey(events[i].Value) : i \in DOMAIN events}
EventsAt(events, key) == Select(events, {e \in ToSet(events) : LocationKey(e.Value) = key})

\* Mutant of SuspiciousPair: only the first transactions of the two places count.
FirstsSuspicious(events, window, key1, key2) ==
  LET e == EventsAt(events, key1)[1]
      f == EventsAt(events, key2)[1]
  IN  Apart(e, f) <= window /\ ~IsPossibleFraudTravel(e.Value, f.Value, Apart(e, f))

SuspiciousPair(events, window, key1, key2) ==
  \E e \in ToSet(EventsAt(events, key1)), f \in ToSet(EventsAt(events, key2)) :
    Apart(e, f) <= window /\ ~IsPossibleFraudTravel(e.Value, f.Value, Apart(e, f))

\* The spans in which both places were active, each for a window from each of its
\* transactions.
FraudulentOverlap(events, window, key1, key2) ==
  LET Labelled(key) == [i \in DOMAIN EventsAt(events, key) |->
        [Timestamp |-> EventsAt(events, key)[i].Timestamp, Value |-> key]]
      combinedEvents == Labelled(key1) \o Labelled(key2)
  IN  AND(<<HasExistedWithin(combinedEvents, key1, window),
            HasExistedWithin(combinedEvents, key2, window)>>)

--------------------------------------------------------------------------------
(* The detection.                                                          *)

\* Each two keys once, in the order of the two nested loops.
Pairs(keys) ==
  FlattenSeq([i \in DOMAIN keys |->
                [d \in 1 .. Len(keys) - i |-> <<keys[i], keys[i + d]>>]])

\* locationKeys are the keys in the order in which the Go map yields them.
DetectCreditCardFraud(events, window, locationKeys) ==
  LET pairs == Pairs(locationKeys)
      Overlap(pair) == FraudulentOverlap(events, window, pair[1], pair[2])
      suspiciousPairs == Select(pairs,
        {pair \in ToSet(pairs) : SuspiciousPair(events, window, pair[1], pair[2])})
      overlapping == Select(suspiciousPairs,
        {pair \in ToSet(suspiciousPairs) : Overlap(pair) # <<>>})
      allFraudTimelines == [n \in DOMAIN overlapping |-> Overlap(overlapping[n])]
  IN  IF Len(events) < 2 \/ Len(allFraudTimelines) < MinOverlaps THEN <<>>
      ELSE OR(allFraudTimelines)

--------------------------------------------------------------------------------
(* What it is meant to compute, unit of time by unit of time.              *)

\* Two places contradict each other if some transactions there are impossible for
\* one traveller, and some, maybe others, are less than a window apart.
Contradicting(events, window) ==
  {pair \in SUBSET Keys(events) :
     /\ Cardinality(pair) = 2
     /\ \E e, f \in ToSet(events) :
          /\ {LocationKey(e.Value), LocationKey(f.Value)} = pair
          /\ Apart(e, f) <= window
          /\ ~IsPossibleFraudTravel(e.Value, f.Value, Apart(e, f))
     /\ \E e, f \in ToSet(events) :
          /\ {LocationKey(e.Value), LocationKey(f.Value)} = pair
          /\ Apart(e, f) < window}

\* The units of time t with transactions in both places less than a window before.
FraudPoints(events, window, points) ==
  IF Cardinality(Contradicting(events, window)) < MinOverlaps THEN {}
  ELSE {t \in points : \E pair \in Contradicting(events, window) : \A key \in pair :
          \E e \in ToSet(EventsAt(events, key)) :
            e.Timestamp <= t /\ t < e.Timestamp + window}
================================================================================
