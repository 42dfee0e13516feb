----------------------------- MODULE MCFraudWorkflow ----------------------------
(***************************************************************************)
(* Instance of FraudWorkflow for TLC.  The first parent's batch has one    *)
(* request over any of many sets of transactions, or several requests that *)
(* repeat a customer or lack transactions; the second's meets it in the    *)
(* customers' IDs.                                                         *)
(***************************************************************************)
EXTENDS FraudWorkflow, TLC

CONSTANTS p1, p2, alice, bob

TheParents == {p1, p2}
TheCustomers == {alice, bob}

\* SF and LA are nearer than MinDistance, SF and Reno within Reach of each other in
\* two units, and NY is too far from everything.
Kilometres ==
  [SF |-> [SF |-> 0, LA |-> 4, Reno |-> 6, NY |-> 30],
   LA |-> [SF |-> 4, LA |-> 0, Reno |-> 7, NY |-> 30],
   Reno |-> [SF |-> 6, LA |-> 7, Reno |-> 0, NY |-> 30],
   NY |-> [SF |-> 30, LA |-> 30, Reno |-> 30, NY |-> 0]]

In(t, city, type) ==
  [Timestamp |-> t, Value |-> [City |-> city, Type |-> type, At |-> city]]

\* The last one is a place of the same name elsewhere.
Transactions ==
  {In(1, "SF", "in-store"), In(6, "SF", "in-store"), In(2, "SF", "online"),
   In(1, "NY", "in-store"), In(3, "NY", "in-store"), In(3, "NY", "atm"),
   In(3, "Reno", "in-store"), In(5, "LA", "in-store"),
   [In(4, "SF", "in-store") EXCEPT !.Value.At = "NY"]}

Placed(S) == {LocationKey(e.Value) : e \in S}

\* Sets of two, and of three and four at three places or more, which two pairs of
\* places need; those of three also backwards, with a wider window.
Triples == {S \in kSubset(3, Transactions) : Cardinality(Placed(S)) = 3}
Fours == {S \in kSubset(4, Transactions) :
  Cardinality(Placed(S)) >= 3 /\ In(1, "NY", "in-store") \in S}
Histories == {SetToSeq(S) : S \in kSubset(2, Transactions) \union Triples \union Fours}

Request(customer, events, window) ==
  [CustomerID |-> customer, Events |-> events, Window |-> window]

Obvious == <<In(1, "SF", "in-store"), In(1, "NY", "in-store"), In(2, "SF", "online")>>
Innocent == <<In(1, "SF", "in-store"), In(2, "LA", "in-store")>>

Together ==
  {<<>>,
   <<Request(alice, <<>>, 0), Request(bob, Obvious, 0)>>,
   <<Request(alice, Obvious, 0), Request(alice, Innocent, 0), Request(bob, Innocent, 3)>>,
   <<Request(bob, <<>>, 0), Request(bob, Obvious, 0), Request(alice, Innocent, 0)>>}

TheBatches ==
  (p1 :> Together \union {<<Request(alice, h, 0)>> : h \in Histories}
                 \union {<<Request(alice, Reverse(SetToSeq(S)), 3)>> : S \in Triples}
                 \union {<<Request(alice, Obvious, -1)>>}) @@
  (p2 :> {<<Request(bob, Obvious, 1)>>, <<Request(alice, <<>>, 0)>>})
================================================================================
