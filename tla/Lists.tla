---------------------------------- MODULE Lists --------------------------------
(***************************************************************************)
(* What the code does with slices all over: a loop that appends the wanted *)
(* elements to a new slice, a loop that adds up, and sort.Slice.           *)
(***************************************************************************)
EXTENDS Integers, Sequences, FiniteSets

\* The wanted elements, in their order.
Select(s, wanted) ==
  LET kept[n \in 0 .. Len(s)] ==
        IF n = 0 THEN <<>>
        ELSE IF s[n] \in wanted THEN Append(kept[n - 1], s[n]) ELSE kept[n - 1]
  IN  kept[Len(s)]

Total(values) ==
  LET total[n \in 0 .. Len(values)] == IF n = 0 THEN 0 ELSE total[n - 1] + values[n]
  IN  total[Len(values)]

\* The elements in the order of their keys: each has the place that is the number of
\* elements up to it.  sort.Slice leaves elements with equal keys where they are as
\* long as a slice has at most twelve elements, and so does this.
SortBy(s, key) ==
  LET UpTo(i) == {j \in DOMAIN s : key[j] < key[i] \/ (key[j] = key[i] /\ j <= i)}
      place == [i \in DOMAIN s |-> Cardinality(UpTo(i))]
  IN  [n \in DOMAIN s |-> s[CHOOSE i \in DOMAIN s : place[i] = n]]
================================================================================
