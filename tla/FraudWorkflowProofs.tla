--------------------------- MODULE FraudWorkflowProofs -------------------------
(***************************************************************************)
(* Proofs about FraudWorkflow, for every set of executions, customers and  *)
(* batches and every number of attempts.                                   *)
(*                                                                         *)
(* The inductive invariant ties three views of a child together: the state *)
(* of the workflow with its customer's ID, the request that owns it, and   *)
(* the future that request's parent waits for.  What a parent has          *)
(* collected is described by the place of each answered request: the       *)
(* number of answered requests up to it.                                   *)
(*                                                                         *)
(* That an answer is right is a fact about FraudDetection: the pairs of    *)
(* places it finds stand one to one for those that contradict each other.  *)
(***************************************************************************)
EXTENDS FraudWorkflow, Lemmas

AllBatches == {<<>>} \union UNION {Batches[p] : p \in Parents}
Phase == {"scheduled", "started", "completed", "failed"}

IsSeq(s) == s \in Seq(Range(s))

\* The shapes of the variables.
Shape ==
  /\ status \in [Parents -> {"idle", "running", "done"}]
  /\ requests \in [Parents -> AllBatches]
  /\ DOMAIN future = Parents
  /\ \A p \in Parents : future[p] \in [DOMAIN requests[p] -> Phase]
  /\ next \in [Parents -> Nat \ {0}]
  /\ DOMAIN results = Parents
  /\ \A p \in Parents : IsSeq(results[p])
  /\ DOMAIN execution = Customers
  /\ \A c \in Customers :
       execution[c] \in [state : {"none", "running", "completed", "failed"}, failures : Nat]
  /\ DOMAIN owner = Customers
  /\ DOMAIN answer = Customers

\* How far a future is, given the state of the child that its request owns.
PhaseOf(state) == IF state = "running" THEN "started" ELSE state

\* A customer's ID is free and owned by nobody, or owned by a request of that
\* customer, whose future shows the child's state.
OwnerInv ==
  \A c \in Customers :
    \/ execution[c].state = "none" /\ owner[c] = Nobody
    \/ \E p \in Parents : \E i \in DOMAIN requests[p] :
         /\ owner[c] = <<p, i>>
         /\ requests[p][i].CustomerID = c
         /\ execution[c].state # "none"
         /\ future[p][i] = PhaseOf(execution[c].state)
         /\ execution[c].state = "completed" =>
              /\ requests[p][i].Events # <<>>
              /\ answer[c] \in AnswersTo(requests[p][i])
         /\ execution[c].state = "failed" => requests[p][i].Events = <<>>

\* A request whose child was started owns its customer's ID; one that failed has
\* found it owned, by itself or by another.
FutureInv ==
  \A p \in Parents : \A i \in DOMAIN requests[p] :
    LET c == requests[p][i].CustomerID
    IN  /\ future[p][i] \in {"started", "completed"} => owner[c] = <<p, i>>
        /\ future[p][i] = "failed" => owner[c] # Nobody

\* The parent's loop: what lies behind it has settled.
LoopInv ==
  \A p \in Parents :
    /\ status[p] = "idle" => requests[p] = <<>> /\ next[p] = 1 /\ results[p] = <<>>
    /\ next[p] <= Len(requests[p]) + 1
    /\ \A i \in 1 .. next[p] - 1 : future[p][i] \in {"completed", "failed"}
    /\ status[p] = "done" => next[p] = Len(requests[p]) + 1

\* How many of p's requests up to i are answered: the place of i's result.
Place(p, i) == Cardinality({j \in Answered(p) : j <= i})

\* The results are the answers of the answered requests, each in its place.
ResultsOf(p) ==
  /\ Len(results[p]) = Cardinality(Answered(p))
  /\ \A i \in Answered(p) :
       results[p][Place(p, i)] = answer[requests[p][i].CustomerID]
  /\ \A n \in 1 .. Len(results[p]) : \E i \in Answered(p) :
       results[p][n] = answer[requests[p][i].CustomerID]
ResultInv == \A p \in Parents : ResultsOf(p)

IInv == Shape /\ OwnerInv /\ FutureInv /\ LoopInv /\ ResultInv

--------------------------------------------------------------------------------
(* Sequences and batches.                                                  *)

\* Append adds one element after those that are there.
LEMMA AppendIsSeq ==
  ASSUME NEW s, IsSeq(s), NEW e
  PROVE  /\ Len(s) \in Nat
         /\ IsSeq(Append(s, e))
         /\ Len(Append(s, e)) = Len(s) + 1
         /\ \A i \in 1 .. Len(s) : Append(s, e)[i] = s[i]
         /\ Append(s, e)[Len(s) + 1] = e
<1> DEFINE T == Range(s) \union {e}
           a == Append(s, e)
<1>1. s \in Seq(T) /\ e \in T
  BY DEF IsSeq
<1> HIDE DEF T
<1>2. /\ Len(s) \in Nat /\ a \in Seq(T) /\ Len(a) = Len(s) + 1
      /\ \A i \in 1 .. Len(s) : a[i] = s[i]
      /\ a[Len(s) + 1] = e
      /\ DOMAIN a = 1 .. Len(s) + 1
  BY <1>1
<1> HIDE DEF a
<1>3. a \in [1 .. Len(s) + 1 -> Range(a)]
  BY <1>2 DEF Range
<1>4. a \in Seq(Range(a))
  BY <1>2, <1>3
<1>5. QED
  BY <1>2, <1>4 DEF IsSeq, a

\* A batch is a list of requests for customers.
LEMMA BatchFacts ==
  ASSUME NEW b \in AllBatches
  PROVE  /\ Len(b) \in Nat /\ DOMAIN b = 1 .. Len(b)
         /\ \A i \in DOMAIN b : b[i].CustomerID \in Customers
<1>1. CASE b = <<>>
  BY <1>1
<1>2. CASE \E p \in Parents : b \in Batches[p]
  BY <1>2, FraudWorkflowAssumption
<1>3. QED
  BY <1>1, <1>2 DEF AllBatches

\* What a parent has and has collected are lists.
LEMMA ResultsLength ==
  ASSUME Shape, NEW p \in Parents
  PROVE  /\ Len(results[p]) \in Nat /\ DOMAIN results[p] = 1 .. Len(results[p])
         /\ Len(requests[p]) \in Nat /\ DOMAIN requests[p] = 1 .. Len(requests[p])
         /\ \A i \in DOMAIN requests[p] : requests[p][i].CustomerID \in Customers
BY BatchFacts DEF Shape, IsSeq

\* Answered requests are finitely many, and the loop has passed them.
LEMMA AnsweredFacts ==
  ASSUME Shape, LoopInv, NEW p \in Parents
  PROVE  /\ IsFiniteSet(Answered(p)) /\ Cardinality(Answered(p)) \in Nat
         /\ \A i \in Answered(p) : /\ i \in DOMAIN requests[p] /\ i \in Nat
                                   /\ i < next[p]
                                   /\ future[p][i] = "completed"
<1>1. /\ next[p] \in Nat /\ next[p] - 1 \in Int /\ next[p] <= Len(requests[p]) + 1
  BY DEF Shape, LoopInv
<1>2. IsFiniteSet(1 .. next[p] - 1)
  BY <1>1, FS_Interval
<1>3. IsFiniteSet(Answered(p)) /\ Cardinality(Answered(p)) \in Nat
  BY <1>2, FS_Subset, FS_CardinalityType DEF Answered
<1>4. QED
  BY <1>1, <1>3, ResultsLength DEF Answered

\* An answered request's place is within the results.
LEMMA PlaceWithin ==
  ASSUME Shape, LoopInv, ResultInv, NEW p \in Parents, NEW i \in Answered(p)
  PROVE  Place(p, i) \in 1 .. Len(results[p])
<1> DEFINE S == {j \in Answered(p) : j <= i}
<1>1. IsFiniteSet(Answered(p)) /\ i \in Nat
  BY AnsweredFacts
<1>2. S \subseteq Answered(p) /\ i \in S
  BY <1>1
<1>3. IsFiniteSet(S) /\ Cardinality(S) <= Cardinality(Answered(p)) /\ Cardinality(S) \in Nat
  BY <1>1, <1>2, FS_Subset, FS_CardinalityType
<1>4. Cardinality(S) # 0
  BY <1>2, <1>3, FS_EmptySet
<1>5. QED
  BY <1>3, <1>4 DEF Place, ResultInv, ResultsOf

--------------------------------------------------------------------------------
(* The steps.                                                              *)

\* No batch has begun at first.
LEMMA InitInv == Init => IInv
<1> SUFFICES ASSUME Init PROVE IInv
  OBVIOUS
<1> USE DEF Init
<1>1. <<>> \in AllBatches /\ IsSeq(<<>>) /\ DOMAIN <<>> = {} /\ Len(<<>>) = 0
  BY DEF AllBatches, IsSeq
<1>2. \A p \in Parents : requests[p] = <<>> /\ future[p] = <<>> /\ results[p] = <<>> /\ next[p] = 1
  OBVIOUS
<1>3. Shape
  BY <1>1, <1>2 DEF Shape
<1>4. OwnerInv /\ FutureInv /\ LoopInv
  BY <1>1, <1>2 DEF OwnerInv, FutureInv, LoopInv
<1>5. \A p \in Parents : Answered(p) = {}
  BY <1>2 DEF Answered
<1>6. ResultInv
  <2>1. \A p \in Parents : Len(results[p]) = 0 /\ Cardinality(Answered(p)) = 0
    BY <1>1, <1>2, <1>5, FS_EmptySet
  <2>2. QED
    BY <1>5, <2>1 DEF ResultInv, ResultsOf
<1>7. QED
  BY <1>3, <1>4, <1>6 DEF IInv

\* A parent's results stand as long as its answered requests and their answers do.
LEMMA ResultFrame ==
  ASSUME NEW p \in Parents, ResultsOf(p),
         results'[p] = results[p], Answered(p)' = Answered(p),
         \A i \in Answered(p) :
           /\ requests'[p][i] = requests[p][i]
           /\ answer'[requests[p][i].CustomerID] = answer[requests[p][i].CustomerID]
  PROVE  ResultsOf(p)'
<1>1. \A i : Place(p, i)' = Place(p, i)
  BY DEF Place
<1>2. QED
  BY <1>1 DEF ResultsOf

\* Which requests are answered does not depend on the futures not waited for yet.
LEMMA AnsweredFrame ==
  ASSUME NEW p \in Parents, next'[p] = next[p],
         \A i \in 1 .. next[p] - 1 :
           future'[p][i] = "completed" <=> future[p][i] = "completed"
  PROVE  Answered(p)' = Answered(p)
BY DEF Answered

\* A batch is begun: nothing of it has happened yet.
LEMMA BeginInv == ASSUME IInv, NEW p \in Parents, Begin(p) PROVE IInv'
<1> USE DEF IInv
<1>1. PICK batch \in Batches[p] :
        /\ requests' = [requests EXCEPT ![p] = batch]
        /\ future' = [future EXCEPT ![p] = [i \in DOMAIN batch |-> "scheduled"]]
  BY DEF Begin
<1>2. /\ status[p] = "idle" /\ status' = [status EXCEPT ![p] = "running"]
      /\ UNCHANGED <<next, results, execution, owner, answer>>
  BY DEF Begin, children
<1>3. batch \in AllBatches /\ Len(batch) \in Nat /\ DOMAIN batch = 1 .. Len(batch)
  BY BatchFacts DEF AllBatches
<1>4. /\ requests[p] = <<>> /\ next[p] = 1 /\ results[p] = <<>>
      /\ requests'[p] = batch /\ future'[p] = [i \in DOMAIN batch |-> "scheduled"]
      /\ \A q \in Parents : q # p => /\ requests'[q] = requests[q]
                                    /\ future'[q] = future[q]
                                    /\ status'[q] = status[q]
      /\ status'[p] = "running"
  BY <1>1, <1>2 DEF Shape, LoopInv
<1>5. Shape'
  BY <1>1, <1>2, <1>3, <1>4 DEF Shape, Phase
<1>6. OwnerInv'
  <2>1. \A q \in Parents : \A i \in DOMAIN requests[q] :
          /\ i \in DOMAIN requests'[q] /\ requests'[q][i] = requests[q][i]
          /\ future'[q][i] = future[q][i]
    BY <1>4
  <2>2. ASSUME NEW d \in Customers
        PROVE \/ execution'[d].state = "none" /\ owner'[d] = Nobody
              \/ \E q \in Parents : \E i \in DOMAIN requests'[q] :
                   /\ owner'[d] = <<q, i>>
                   /\ requests'[q][i].CustomerID = d
                   /\ execution'[d].state # "none"
                   /\ future'[q][i] = PhaseOf(execution'[d].state)
                   /\ execution'[d].state = "completed" =>
                        /\ requests'[q][i].Events # <<>>
                        /\ answer'[d] \in AnswersTo(requests'[q][i])
                   /\ execution'[d].state = "failed" => requests'[q][i].Events = <<>>
    <3>1. /\ execution'[d] = execution[d] /\ owner'[d] = owner[d] /\ answer'[d] = answer[d]
      BY <1>2
    <3>2. CASE execution[d].state = "none" /\ owner[d] = Nobody
      BY <3>1, <3>2
    <3>3. CASE ~(execution[d].state = "none" /\ owner[d] = Nobody)
      <4>1. PICK q \in Parents : \E i \in DOMAIN requests[q] :
              /\ owner[d] = <<q, i>>
              /\ requests[q][i].CustomerID = d
              /\ execution[d].state # "none"
              /\ future[q][i] = PhaseOf(execution[d].state)
              /\ execution[d].state = "completed" =>
                   /\ requests[q][i].Events # <<>>
                   /\ answer[d] \in AnswersTo(requests[q][i])
              /\ execution[d].state = "failed" => requests[q][i].Events = <<>>
        BY <3>3 DEF OwnerInv
      <4>2. QED
        BY <2>1, <3>1, <4>1
    <3>4. QED
      BY <3>2, <3>3
  <2>3. QED
    BY <2>2 DEF OwnerInv, PhaseOf
<1>7. FutureInv'
  BY <1>2, <1>4 DEF FutureInv
<1>8. LoopInv'
  BY <1>2, <1>3, <1>4 DEF LoopInv
<1>9. ResultInv'
  <2>1. ASSUME NEW q \in Parents PROVE ResultsOf(q)'
    <3>1. Answered(q)' = Answered(q)
      BY <1>2, <1>4, AnsweredFrame
    <3>2. \A i \in Answered(q) : requests'[q][i] = requests[q][i]
      BY <1>4 DEF Answered
    <3>3. QED
      BY <1>2, <3>1, <3>2, ResultFrame DEF ResultInv
  <2>2. QED
    BY <2>1 DEF ResultInv
<1>10. QED
  BY <1>5, <1>6, <1>7, <1>8, <1>9

\* A failed future is passed over; a completed one gets the next place.
LEMMA CollectInv == ASSUME IInv, NEW p \in Parents, Collect(p) PROVE IInv'
<1> USE DEF IInv
<1>1. PICK k \in Nat \ {0} : k = next[p]
  BY DEF Shape
<1>2. /\ status[p] = "running" /\ k <= Len(requests[p])
      /\ k \in DOMAIN requests[p]
      /\ future[p][k] \in {"completed", "failed"}
      /\ UNCHANGED <<status, requests, future, execution, owner, answer>>
      /\ next'[p] = k + 1
      /\ \A q \in Parents : q # p => next'[q] = next[q] /\ results'[q] = results[q]
      /\ DOMAIN results' = Parents /\ next' \in [Parents -> Nat \ {0}]
  BY <1>1, ResultsLength DEF Collect, children, Shape
<1>3. OwnerInv' /\ FutureInv'
  <2>1. UNCHANGED <<requests, future, execution, owner, answer>>
    BY <1>2
  <2>2. OwnerInv'
    BY <2>1 DEF OwnerInv
  <2>3. QED
    BY <2>1, <2>2 DEF FutureInv
<1>4. LoopInv'
  <2>1. \A i \in 1 .. next'[p] - 1 : i \in 1 .. k - 1 \/ i = k
    BY <1>2
  <2>2. next'[p] <= Len(requests[p]) + 1
    BY <1>2, ResultsLength
  <2>3. \A i \in 1 .. next'[p] - 1 : future'[p][i] \in {"completed", "failed"}
    BY <1>1, <1>2, <2>1 DEF LoopInv
  <2>4. UNCHANGED <<status, requests, future>> /\ status[p] = "running"
    BY <1>2
  <2>5. ASSUME NEW q \in Parents, q # p
        PROVE  next'[q] = next[q] /\ results'[q] = results[q]
    BY <1>2, <2>5
  <2>6. ASSUME NEW q \in Parents
        PROVE  /\ status'[q] = "idle" =>
                    requests'[q] = <<>> /\ next'[q] = 1 /\ results'[q] = <<>>
               /\ next'[q] <= Len(requests'[q]) + 1
               /\ \A i \in 1 .. next'[q] - 1 : future'[q][i] \in {"completed", "failed"}
               /\ status'[q] = "done" => next'[q] = Len(requests'[q]) + 1
    <3>1. CASE q = p
      BY <2>2, <2>3, <2>4, <3>1
    <3>2. CASE q # p
      BY <2>4, <2>5, <3>2 DEF LoopInv
    <3>3. QED
      BY <3>1, <3>2
  <2>7. QED
    BY <2>6 DEF LoopInv
<1>5. ASSUME NEW q \in Parents, q # p PROVE ResultsOf(q)'
  BY <1>2, <1>5, AnsweredFrame, ResultFrame DEF ResultInv
<1>6. CASE future[p][k] = "failed"
  <2>1. results'[p] = results[p]
    BY <1>1, <1>6 DEF Collect
  <2>2. Answered(p)' = Answered(p)
    BY <1>1, <1>2, <1>6 DEF Answered
  <2>3. Shape'
    BY <1>2, <2>1 DEF Shape
  <2>4. ResultsOf(p)'
    BY <1>2, <2>1, <2>2, ResultFrame DEF ResultInv
  <2>5. QED
    BY <1>3, <1>4, <1>5, <2>3, <2>4 DEF ResultInv
<1>7. CASE future[p][k] = "completed"
  <2> DEFINE found == answer[requests[p][k].CustomerID]
  <2>1. results'[p] = Append(results[p], found)
    BY <1>1, <1>2, <1>7 DEF Collect, Shape
  <2>2. /\ IsSeq(results'[p]) /\ Len(results[p]) \in Nat
        /\ Len(results'[p]) = Len(results[p]) + 1
        /\ \A n \in 1 .. Len(results[p]) : results'[p][n] = results[p][n]
        /\ results'[p][Len(results[p]) + 1] = found
    BY <2>1, AppendIsSeq DEF Shape
  <2>3. Shape'
    BY <1>2, <2>2 DEF Shape
  <2>4. Answered(p)' = Answered(p) \union {k} /\ k \notin Answered(p)
    BY <1>1, <1>2, <1>7 DEF Answered
  <2>5. ASSUME NEW i \in Answered(p) PROVE Place(p, i)' = Place(p, i)
    <3>1. {j \in Answered(p)' : j <= i} = {j \in Answered(p) : j <= i}
      BY <1>1, <2>4, AnsweredFacts
    <3>2. QED
      BY <3>1 DEF Place
  <2>6. Cardinality(Answered(p)') = Cardinality(Answered(p)) + 1
    BY <2>4, AnsweredFacts, FS_AddElement
  <2>7. Place(p, k)' = Len(results[p]) + 1
    <3>1. {j \in Answered(p)' : j <= k} = Answered(p)'
      BY <1>1, <2>4, AnsweredFacts
    <3>2. QED
      BY <2>6, <3>1 DEF Place, ResultInv, ResultsOf
  <2>8. \A i \in Answered(p) : Place(p, i) \in 1 .. Len(results[p])
    BY PlaceWithin
  <2>9. ResultsOf(p)'
    <3>1. Len(results'[p]) = Cardinality(Answered(p)')
      BY <2>2, <2>6 DEF ResultInv, ResultsOf
    <3>2. ASSUME NEW i \in Answered(p)'
          PROVE  results'[p][Place(p, i)'] = answer[requests[p][i].CustomerID]
      <4>1. CASE i = k
        BY <2>2, <2>7, <4>1
      <4>2. CASE i \in Answered(p)
        BY <2>2, <2>5, <2>8, <4>2 DEF ResultInv, ResultsOf
      <4>3. QED
        BY <2>4, <4>1, <4>2
    <3>3. ASSUME NEW n \in 1 .. Len(results'[p])
          PROVE  \E i \in Answered(p)' : results'[p][n] = answer[requests[p][i].CustomerID]
      <4>1. CASE n \in 1 .. Len(results[p])
        BY <2>2, <2>4, <4>1 DEF ResultInv, ResultsOf
      <4>2. CASE n = Len(results[p]) + 1
        BY <2>2, <2>4, <4>2
      <4>3. QED
        BY <2>2, <4>1, <4>2
    <3>4. QED
      BY <1>2, <3>1, <3>2, <3>3 DEF ResultsOf
  <2>10. QED
    BY <1>3, <1>4, <1>5, <2>3, <2>9 DEF ResultInv
<1>8. QED
  BY <1>2, <1>6, <1>7

\* A parent returns when its loop is through its batch.
LEMMA FinishInv == ASSUME IInv, NEW p \in Parents, Finish(p) PROVE IInv'
<1> USE DEF IInv
<1>1. /\ UNCHANGED <<requests, future, next, results, execution, owner, answer>>
      /\ status' = [status EXCEPT ![p] = "done"]
      /\ next[p] > Len(requests[p]) /\ status[p] = "running"
  BY DEF Finish, children
<1>2. Shape'
  BY <1>1 DEF Shape
<1>3. OwnerInv' /\ FutureInv'
  BY <1>1 DEF OwnerInv, FutureInv
<1>4. LoopInv'
  BY <1>1, ResultsLength DEF LoopInv, Shape
<1>5. ResultInv'
  BY <1>1, AnsweredFrame, ResultFrame DEF ResultInv
<1>6. QED
  BY <1>2, <1>3, <1>4, <1>5

\* The parents' collected results stand while only futures change that no parent has
\* waited for yet, and only answers that no collected result is.
LEMMA FutureStep ==
  ASSUME IInv, UNCHANGED <<status, requests, next, results>>,
         NEW q \in Parents, NEW j \in DOMAIN requests[q],
         NEW phase \in Phase,
         future' = [future EXCEPT ![q][j] = phase],
         future[q][j] \notin {"completed", "failed"},
         \A p \in Parents : \A i \in Answered(p) :
           answer'[requests[p][i].CustomerID] = answer[requests[p][i].CustomerID]
  PROVE  /\ DOMAIN future' = Parents
         /\ \A p \in Parents : future'[p] \in [DOMAIN requests[p] -> Phase]
         /\ future'[q][j] = phase
         /\ \A p \in Parents : \A i \in DOMAIN requests[p] :
              <<p, i>> # <<q, j>> => future'[p][i] = future[p][i]
         /\ LoopInv' /\ ResultInv'
<1> USE DEF IInv
<1>1. /\ DOMAIN future' = Parents
      /\ \A p \in Parents : future'[p] \in [DOMAIN requests[p] -> Phase]
      /\ future'[q][j] = phase
      /\ \A p \in Parents : \A i \in DOMAIN requests[p] :
           <<p, i>> # <<q, j>> => future'[p][i] = future[p][i]
  BY DEF Shape
<1>2. ASSUME NEW p \in Parents, NEW i \in 1 .. next[p] - 1
      PROVE  i \in DOMAIN requests[p] /\ future'[p][i] = future[p][i]
  <2>1. i \in DOMAIN requests[p]
    BY ResultsLength DEF LoopInv, Shape
  <2>2. future[p][i] \in {"completed", "failed"}
    BY DEF LoopInv
  <2>3. QED
    BY <1>1, <2>1, <2>2
<1>3. LoopInv'
  BY <1>2 DEF LoopInv
<1>4. ASSUME NEW p \in Parents PROVE ResultsOf(p)'
  <2>1. Answered(p)' = Answered(p)
    BY <1>2, AnsweredFrame
  <2>2. QED
    BY <2>1, ResultFrame DEF ResultInv
<1>5. QED
  BY <1>1, <1>3, <1>4 DEF ResultInv

\* An answer names the customer of the request that it answers.
LEMMA AnswersName ==
  ASSUME NEW request, NEW found \in AnswersTo(request)
  PROVE  found.CustomerID = request.CustomerID
<1>1. PICK keys : found = [CustomerID |-> request.CustomerID, locationKeys |-> keys,
                           ProcessedEvents |-> Len(request.Events)]
  BY DEF AnswersTo
<1>2. QED
  BY <1>1

\* The server starts a child whose ID is free, and refuses another.
LEMMA StartChildInv ==
  ASSUME IInv, NEW p \in Parents, NEW i \in DOMAIN requests[p], StartChild(p, i)
  PROVE  IInv'
<1> USE DEF IInv
<1> DEFINE c == requests[p][i].CustomerID
<1>1. /\ c \in Customers /\ future[p][i] = "scheduled"
      /\ UNCHANGED <<status, requests, next, results, answer>>
  BY ResultsLength DEF StartChild
<1>2. CASE execution[c].state = "none"
  <2>1. /\ execution' = [execution EXCEPT ![c].state = "running"]
        /\ owner' = [owner EXCEPT ![c] = <<p, i>>]
        /\ future' = [future EXCEPT ![p][i] = "started"]
    BY <1>2 DEF StartChild
  <2>2. /\ DOMAIN future' = Parents
        /\ \A q \in Parents : future'[q] \in [DOMAIN requests[q] -> Phase]
        /\ future'[p][i] = "started"
        /\ \A q \in Parents : \A j \in DOMAIN requests[q] :
             <<q, j>> # <<p, i>> => future'[q][j] = future[q][j]
        /\ LoopInv' /\ ResultInv'
    BY <1>1, <2>1, FutureStep DEF Phase
  <2>3. /\ owner[c] = Nobody
        /\ owner'[c] = <<p, i>> /\ execution'[c].state = "running"
        /\ execution'[c] \in
             [state : {"none", "running", "completed", "failed"}, failures : Nat]
        /\ \A d \in Customers : d # c => owner'[d] = owner[d] /\ execution'[d] = execution[d]
    <3>1. owner[c] = Nobody
      BY <1>1, <1>2 DEF OwnerInv
    <3>2. owner'[c] = <<p, i>> /\ \A d \in Customers : d # c => owner'[d] = owner[d]
      BY <1>1, <2>1 DEF Shape
    <3>3. /\ execution'[c] = [execution[c] EXCEPT !.state = "running"]
          /\ \A d \in Customers : d # c => execution'[d] = execution[d]
      BY <1>1, <2>1 DEF Shape
    <3>4. QED
      BY <1>1, <3>1, <3>2, <3>3 DEF Shape
  <2>4. Shape'
    BY <1>1, <2>1, <2>2, <2>3 DEF Shape
  <2>5. OwnerInv'
    <3>1. ASSUME NEW d \in Customers
          PROVE \/ execution'[d].state = "none" /\ owner'[d] = Nobody
                \/ \E q \in Parents : \E j \in DOMAIN requests'[q] :
                     /\ owner'[d] = <<q, j>>
                     /\ requests'[q][j].CustomerID = d
                     /\ execution'[d].state # "none"
                     /\ future'[q][j] = PhaseOf(execution'[d].state)
                     /\ execution'[d].state = "completed" =>
                          /\ requests'[q][j].Events # <<>>
                          /\ answer'[d] \in AnswersTo(requests'[q][j])
                     /\ execution'[d].state = "failed" => requests'[q][j].Events = <<>>
      <4>1. CASE d = c
        BY <1>1, <2>2, <2>3, <4>1 DEF PhaseOf
      <4>2. CASE d # c
        BY <1>1, <2>2, <2>3, <4>2 DEF OwnerInv
      <4>3. QED
        BY <4>1, <4>2
    <3>2. QED
      BY <3>1 DEF OwnerInv, PhaseOf
  <2>6. FutureInv'
    <3>1. ASSUME NEW q \in Parents, NEW j \in DOMAIN requests[q]
          PROVE  LET d == requests[q][j].CustomerID
                 IN  /\ future'[q][j] \in {"started", "completed"} => owner'[d] = <<q, j>>
                     /\ future'[q][j] = "failed" => owner'[d] # Nobody
      <4>1. <<q, j>> # Nobody /\ requests[q][j].CustomerID \in Customers
        BY ResultsLength DEF Nobody
      <4>2. CASE <<q, j>> = <<p, i>>
        BY <2>2, <2>3, <4>1, <4>2
      <4>3. CASE <<q, j>> # <<p, i>>
        <5>1. /\ future'[q][j] = future[q][j]
              /\ future[q][j] \in {"started", "completed"}
                   => owner[requests[q][j].CustomerID] = <<q, j>>
              /\ future[q][j] = "failed" => owner[requests[q][j].CustomerID] # Nobody
          BY <2>2, <4>3 DEF FutureInv
        <5>2. CASE requests[q][j].CustomerID = c
          BY <2>3, <4>1, <5>1, <5>2
        <5>3. CASE requests[q][j].CustomerID # c
          BY <2>3, <4>1, <5>1, <5>3
        <5>4. QED
          BY <5>2, <5>3
      <4>4. QED
        BY <4>2, <4>3
    <3>2. QED
      BY <1>1, <3>1 DEF FutureInv
  <2>7. QED
    BY <2>2, <2>4, <2>5, <2>6
<1>3. CASE execution[c].state # "none"
  <2>1. future' = [future EXCEPT ![p][i] = "failed"] /\ UNCHANGED <<execution, owner>>
    BY <1>3 DEF StartChild
  <2>2. /\ DOMAIN future' = Parents
        /\ \A q \in Parents : future'[q] \in [DOMAIN requests[q] -> Phase]
        /\ future'[p][i] = "failed"
        /\ \A q \in Parents : \A j \in DOMAIN requests[q] :
             <<q, j>> # <<p, i>> => future'[q][j] = future[q][j]
        /\ LoopInv' /\ ResultInv'
    BY <1>1, <2>1, FutureStep DEF Phase
  <2>3. owner[c] # Nobody
    <3>1. \E q \in Parents : \E j \in DOMAIN requests[q] : owner[c] = <<q, j>>
      BY <1>1, <1>3 DEF OwnerInv
    <3>2. QED
      BY <3>1 DEF Nobody
  <2>4. Shape'
    BY <1>1, <2>1, <2>2 DEF Shape
  <2>5. OwnerInv'
    <3>1. \A d \in Customers : \A q \in Parents : \A j \in DOMAIN requests[q] :
            /\ execution[d].state # "none"
            /\ future[q][j] = PhaseOf(execution[d].state)
            => future'[q][j] = future[q][j]
      BY <1>1, <2>2 DEF Shape, PhaseOf
    <3>2. QED
      BY <1>1, <2>1, <3>1 DEF OwnerInv
  <2>6. FutureInv'
    BY <1>1, <2>1, <2>2, <2>3 DEF FutureInv
  <2>7. QED
    BY <2>2, <2>4, <2>5, <2>6
<1>4. QED
  BY <1>2, <1>3

\* The child of a running workflow is waited for by the request that owns its ID,
\* which holds the request it judges, and no one has collected its answer.
LEMMA RunningChild ==
  ASSUME IInv, NEW c \in Customers, execution[c].state = "running"
  PROVE  /\ \E q \in Parents : \E j \in DOMAIN requests[q] :
              /\ owner[c] = <<q, j>> /\ RequestOf(c) = requests[q][j]
              /\ requests[q][j].CustomerID = c /\ future[q][j] = "started"
         /\ \A p \in Parents : \A i \in Answered(p) : requests[p][i].CustomerID # c
<1> USE DEF IInv
<1>0. PICK q \in Parents : \E j \in DOMAIN requests[q] :
        /\ owner[c] = <<q, j>> /\ requests[q][j].CustomerID = c
        /\ future[q][j] = "started"
  BY DEF OwnerInv, PhaseOf
<1>1. PICK j \in DOMAIN requests[q] :
        /\ owner[c] = <<q, j>> /\ requests[q][j].CustomerID = c
        /\ future[q][j] = "started"
  BY <1>0
<1>2. RequestOf(c) = requests[q][j]
  BY <1>1 DEF RequestOf
<1>3. ASSUME NEW p \in Parents, NEW i \in Answered(p), requests[p][i].CustomerID = c
      PROVE  FALSE
  <2>1. i \in DOMAIN requests[p] /\ future[p][i] = "completed"
    BY AnsweredFacts
  <2>2. owner[c] = <<p, i>>
    BY <1>3, <2>1 DEF FutureInv
  <2>3. QED
    BY <1>1, <2>1, <2>2
<1>4. QED
  BY <1>1, <1>2, <1>3

\* A child closes, with its answer or for want of transactions.
LEMMA CloseInv ==
  ASSUME IInv, NEW c \in Customers, execution[c].state = "running",
         NEW state \in {"completed", "failed"}, Close(c, state),
         UNCHANGED <<status, requests, next, results, owner>>,
         DOMAIN answer' = Customers,
         \A d \in Customers : d # c => answer'[d] = answer[d],
         state = "completed" =>
           RequestOf(c).Events # <<>> /\ answer'[c] \in AnswersTo(RequestOf(c)),
         state = "failed" => RequestOf(c).Events = <<>>
  PROVE  IInv'
<1> USE DEF IInv
<1>0. PICK q \in Parents : \E j \in DOMAIN requests[q] :
        /\ owner[c] = <<q, j>> /\ RequestOf(c) = requests[q][j]
        /\ requests[q][j].CustomerID = c /\ future[q][j] = "started"
  BY RunningChild
<1>1. PICK j \in DOMAIN requests[q] :
        /\ owner[c] = <<q, j>> /\ RequestOf(c) = requests[q][j]
        /\ requests[q][j].CustomerID = c /\ future[q][j] = "started"
  BY <1>0
<1>2. future' = [future EXCEPT ![q][j] = state]
  BY <1>1 DEF Close
<1>3. /\ execution'[c] = [execution[c] EXCEPT !.state = state]
      /\ DOMAIN execution' = Customers
      /\ \A d \in Customers : d # c => execution'[d] = execution[d]
  BY DEF Close, Shape
<1>4. /\ execution'[c].state = state
      /\ execution'[c] \in
           [state : {"none", "running", "completed", "failed"}, failures : Nat]
  BY <1>3 DEF Shape
<1>5. \A p \in Parents : \A i \in Answered(p) :
        answer'[requests[p][i].CustomerID] = answer[requests[p][i].CustomerID]
  BY RunningChild, AnsweredFacts, ResultsLength
<1>6. /\ DOMAIN future' = Parents
      /\ \A p \in Parents : future'[p] \in [DOMAIN requests[p] -> Phase]
      /\ future'[q][j] = state
      /\ \A p \in Parents : \A i \in DOMAIN requests[p] :
           <<p, i>> # <<q, j>> => future'[p][i] = future[p][i]
      /\ LoopInv' /\ ResultInv'
  BY <1>1, <1>2, <1>5, FutureStep DEF Phase
<1>7. Shape'
  BY <1>3, <1>4, <1>6 DEF Shape
<1>8. OwnerInv'
  <2>1. ASSUME NEW d \in Customers
        PROVE \/ execution'[d].state = "none" /\ owner'[d] = Nobody
              \/ \E p \in Parents : \E i \in DOMAIN requests'[p] :
                   /\ owner'[d] = <<p, i>>
                   /\ requests'[p][i].CustomerID = d
                   /\ execution'[d].state # "none"
                   /\ future'[p][i] = PhaseOf(execution'[d].state)
                   /\ execution'[d].state = "completed" =>
                        /\ requests'[p][i].Events # <<>>
                        /\ answer'[d] \in AnswersTo(requests'[p][i])
                   /\ execution'[d].state = "failed" => requests'[p][i].Events = <<>>
    <3>1. CASE d = c
      BY <1>1, <1>4, <1>6, <3>1 DEF PhaseOf
    <3>2. CASE d # c
      BY <1>1, <1>3, <1>6, <3>2 DEF OwnerInv
    <3>3. QED
      BY <3>1, <3>2
  <2>2. QED
    BY <2>1 DEF OwnerInv, PhaseOf
<1>9. FutureInv'
  <2>1. ASSUME NEW p \in Parents, NEW i \in DOMAIN requests[p]
        PROVE  LET d == requests[p][i].CustomerID
               IN  /\ future'[p][i] \in {"started", "completed"} => owner'[d] = <<p, i>>
                   /\ future'[p][i] = "failed" => owner'[d] # Nobody
    <3>1. CASE <<p, i>> = <<q, j>>
      <4>1. p = q /\ i = j
        BY <3>1
      <4>2. owner'[requests[p][i].CustomerID] = <<p, i>>
        BY <1>1, <4>1
      <4>3. QED
        BY <4>2 DEF Nobody
    <3>2. CASE <<p, i>> # <<q, j>>
      <4>1. future'[p][i] = future[p][i]
        BY <1>6, <3>2
      <4>2. QED
        BY <1>1, <4>1 DEF FutureInv
    <3>3. QED
      BY <3>1, <3>2
  <2>2. QED
    BY <2>1 DEF FutureInv
<1>10. QED
  BY <1>6, <1>7, <1>8, <1>9

\* A child returns the contradictions of the request that it judges.
LEMMA CompleteChildInv == ASSUME IInv, NEW c \in Customers, CompleteChild(c) PROVE IInv'
<1>1. PICK found \in SetToSeqs(Keys(RequestOf(c).Events)) : answer' = [answer EXCEPT ![c] =
        [CustomerID |-> c, locationKeys |-> found,
         ProcessedEvents |-> Len(RequestOf(c).Events)]]
  BY DEF CompleteChild
<1>2. RequestOf(c).CustomerID = c
  BY RunningChild DEF CompleteChild
<1>3. /\ DOMAIN answer' = Customers /\ answer'[c] \in AnswersTo(RequestOf(c))
      /\ \A d \in Customers : d # c => answer'[d] = answer[d]
  BY <1>1, <1>2 DEF IInv, Shape, AnswersTo
<1>4. QED
  BY <1>3, CloseInv DEF CompleteChild

\* A failed attempt is counted; the last one closes the child.
LEMMA FailChildInv == ASSUME IInv, NEW c \in Customers, FailChild(c) PROVE IInv'
<1> USE DEF IInv
<1>1. /\ execution[c].state = "running" /\ RequestOf(c).Events = <<>>
      /\ UNCHANGED <<status, requests, next, results, owner, answer>>
  BY DEF FailChild
<1>2. CASE execution[c].failures + 1 < MaximumAttempts
  <2>1. /\ execution' = [execution EXCEPT ![c].failures = @ + 1]
        /\ UNCHANGED future
    BY <1>2 DEF FailChild
  <2>2. /\ DOMAIN execution' = Customers
        /\ \A d \in Customers :
             /\ execution'[d].state = execution[d].state
             /\ execution'[d] \in
                  [state : {"none", "running", "completed", "failed"}, failures : Nat]
    BY <2>1 DEF Shape
  <2>3. Shape' /\ OwnerInv' /\ FutureInv' /\ LoopInv'
    <3>1. Shape'
      BY <1>1, <2>1, <2>2 DEF Shape
    <3>2. OwnerInv'
      BY <1>1, <2>1, <2>2 DEF OwnerInv, PhaseOf
    <3>3. QED
      BY <1>1, <2>1, <3>1, <3>2 DEF FutureInv, LoopInv
  <2>4. ResultInv'
    BY <1>1, <2>1, AnsweredFrame, ResultFrame DEF ResultInv
  <2>5. QED
    BY <2>3, <2>4
<1>3. CASE ~(execution[c].failures + 1 < MaximumAttempts)
  BY <1>1, <1>3, CloseInv DEF FailChild, Shape
<1>4. QED
  BY <1>2, <1>3

\* Every step keeps the invariant.
LEMMA NextInv == IInv /\ [Next]_vars => IInv'
<1> SUFFICES ASSUME IInv, [Next]_vars PROVE IInv'
  OBVIOUS
<1>1. CASE \E p \in Parents : Begin(p) \/ Collect(p) \/ Finish(p)
  BY <1>1, BeginInv, CollectInv, FinishInv
<1>2. CASE \E p \in Parents : \E i \in DOMAIN requests[p] : StartChild(p, i)
  BY <1>2, StartChildInv
<1>3. CASE \E c \in Customers : CompleteChild(c) \/ FailChild(c)
  BY <1>3, CompleteChildInv, FailChildInv
<1>4. CASE UNCHANGED vars
  <2>1. UNCHANGED <<status, requests, future, next, results, execution, owner, answer>>
    BY <1>4 DEF vars, parents, children
  <2>2. Shape' /\ OwnerInv' /\ FutureInv' /\ LoopInv'
    <3>1. Shape'
      BY <2>1 DEF IInv, Shape
    <3>2. OwnerInv'
      BY <2>1 DEF IInv, OwnerInv
    <3>3. FutureInv' /\ LoopInv'
      BY <2>1 DEF IInv, FutureInv, LoopInv
    <3>4. QED
      BY <3>1, <3>2, <3>3
  <2>3. ResultInv'
    BY <2>1, AnsweredFrame, ResultFrame DEF IInv, ResultInv
  <2>4. QED
    BY <2>2, <2>3 DEF IInv
<1>5. QED
  BY <1>1, <1>2, <1>3, <1>4 DEF Next, Proceed

--------------------------------------------------------------------------------
(* The theorems.                                                           *)

\* The invariant holds always.
LEMMA Invariance == Spec => []IInv
BY InitInv, NextInv, PTL DEF Spec

\* What is known of a customer's child from the request that owns its ID.
LEMMA OwnerFacts ==
  ASSUME OwnerInv, NEW c \in Customers, NEW p \in Parents, NEW i \in DOMAIN requests[p],
         owner[c] = <<p, i>>
  PROVE  /\ execution[c].state # "none"
         /\ future[p][i] = PhaseOf(execution[c].state)
         /\ execution[c].state = "completed" =>
              requests[p][i].Events # <<>> /\ answer[c] \in AnswersTo(requests[p][i])
         /\ execution[c].state = "failed" => requests[p][i].Events = <<>>
<1>1. PICK q \in Parents : \E j \in DOMAIN requests[q] :
        /\ owner[c] = <<q, j>> /\ execution[c].state # "none"
        /\ future[q][j] = PhaseOf(execution[c].state)
        /\ execution[c].state = "completed" =>
             requests[q][j].Events # <<>> /\ answer[c] \in AnswersTo(requests[q][j])
        /\ execution[c].state = "failed" => requests[q][j].Events = <<>>
  <2>1. owner[c] # Nobody
    BY DEF Nobody
  <2>2. QED
    BY <2>1 DEF OwnerInv
<1>2. QED
  BY <1>1

\* In whatever order the children of several batches start, are refused, end and are
\* waited for, what a parent has collected are, one for one and in its batch's order,
\* answers to those of its requests that were answered, made of that request's
\* transactions and of no other's.
THEOREM ResultsAreTheirRequests == Spec => []ResultsStayWithTheirRequests
<1>1. IInv => ResultsStayWithTheirRequests
  <2> SUFFICES ASSUME IInv, NEW p \in Parents
               PROVE  /\ Len(results[p]) = Cardinality(Answered(p))
                      /\ \A i \in Answered(p) :
                           results[p][Place(p, i)] \in AnswersTo(requests[p][i])
    BY DEF ResultsStayWithTheirRequests, Place
  <2> USE DEF IInv
  <2>1. Len(results[p]) = Cardinality(Answered(p))
    BY DEF ResultInv, ResultsOf
  <2>2. ASSUME NEW i \in Answered(p)
        PROVE  results[p][Place(p, i)] \in AnswersTo(requests[p][i])
    <3> DEFINE c == requests[p][i].CustomerID
    <3>1. i \in DOMAIN requests[p] /\ future[p][i] = "completed" /\ c \in Customers
      BY AnsweredFacts, ResultsLength
    <3>2. results[p][Place(p, i)] = answer[c] /\ owner[c] = <<p, i>>
      BY <3>1 DEF FutureInv, ResultInv, ResultsOf
    <3>3. answer[c] \in AnswersTo(requests[p][i])
      BY <3>1, <3>2, OwnerFacts DEF PhaseOf
    <3>4. QED
      BY <3>2, <3>3
  <2>3. QED
    BY <2>1, <2>2
<1>2. QED
  BY <1>1, Invariance, PTL

\* When a batch is done, a request lacks its result only if it has no transactions
\* or if another request for its customer took the ID, and every other has it: the
\* failure of one child costs no other request its answer.
THEOREM NoOtherIsMissing == Spec => []OnlyRefusedAreMissing
<1>1. IInv => OnlyRefusedAreMissing
  <2> SUFFICES ASSUME IInv, NEW p \in Parents, status[p] = "done",
                      NEW i \in DOMAIN requests[p]
               PROVE  (\E n \in DOMAIN results[p] :
                         /\ results[p][n].CustomerID = requests[p][i].CustomerID
                         /\ owner[requests[p][i].CustomerID] = <<p, i>>)
                      <=> /\ requests[p][i].Events # <<>>
                          /\ owner[requests[p][i].CustomerID] \in {Nobody, <<p, i>>}
    BY DEF OnlyRefusedAreMissing
  <2> USE DEF IInv
  <2> DEFINE c == requests[p][i].CustomerID
  <2>1. /\ c \in Customers /\ i \in 1 .. next[p] - 1
        /\ DOMAIN results[p] = 1 .. Len(results[p]) /\ <<p, i>> # Nobody
    BY ResultsLength DEF LoopInv, Nobody
  <2>2. future[p][i] \in {"completed", "failed"} /\ owner[c] # Nobody
    BY <2>1 DEF LoopInv, FutureInv
  <2>3. owner[c] = <<p, i>> => (future[p][i] = "completed" <=> requests[p][i].Events # <<>>)
    <3>1. SUFFICES ASSUME owner[c] = <<p, i>>
                   PROVE future[p][i] = "completed" <=> requests[p][i].Events # <<>>
      OBVIOUS
    <3>2. /\ future[p][i] = PhaseOf(execution[c].state)
          /\ execution[c].state = "completed" => requests[p][i].Events # <<>>
          /\ execution[c].state = "failed" => requests[p][i].Events = <<>>
      BY <2>1, <3>1, OwnerFacts
    <3>3. QED
      BY <2>2, <3>2 DEF PhaseOf
  <2>4. ASSUME future[p][i] = "completed"
        PROVE  \E n \in DOMAIN results[p] : results[p][n].CustomerID = c
    <3>1. i \in Answered(p)
      BY <2>1, <2>4 DEF Answered
    <3>2. /\ Place(p, i) \in DOMAIN results[p]
          /\ results[p][Place(p, i)] = answer[c]
      BY <2>1, <3>1, PlaceWithin DEF ResultInv, ResultsOf
    <3>3. answer[c].CustomerID = c
      <4>1. owner[c] = <<p, i>>
        BY <2>4 DEF FutureInv
      <4>2. answer[c] \in AnswersTo(requests[p][i])
        BY <2>1, <2>4, <4>1, OwnerFacts DEF PhaseOf
      <4>3. QED
        BY <4>2, AnswersName
    <3>4. QED
      BY <3>2, <3>3
  <2>5. ASSUME NEW n \in DOMAIN results[p], results[p][n].CustomerID = c,
               owner[c] = <<p, i>>
        PROVE  future[p][i] = "completed"
    <3>1. PICK k \in Answered(p) : results[p][n] = answer[requests[p][k].CustomerID]
      BY <2>1 DEF ResultInv, ResultsOf
    <3> DEFINE d == requests[p][k].CustomerID
    <3>2. k \in DOMAIN requests[p] /\ future[p][k] = "completed" /\ d \in Customers
      BY AnsweredFacts, ResultsLength
    <3>3. owner[d] = <<p, k>>
      BY <3>2 DEF FutureInv
    <3>4. answer[d].CustomerID = d
      <4>1. answer[d] \in AnswersTo(requests[p][k])
        BY <3>2, <3>3, OwnerFacts DEF PhaseOf
      <4>2. QED
        BY <2>1, <3>1, <3>2, <4>1, AnswersName
    <3>5. d = c
      BY <2>5, <3>1, <3>4
    <3>6. k = i
      BY <2>5, <3>3, <3>5
    <3>7. QED
      BY <3>2, <3>6
  <2>6. QED
    BY <2>1, <2>2, <2>3, <2>4, <2>5
<1>2. QED
  BY <1>1, Invariance, PTL
--------------------------------------------------------------------------------
(* Pairs of places.                                                        *)

\* Each two places once, in one of the two orders.
LEMMA PairsFacts ==
  ASSUME NEW K, NEW keys \in Seq(K), Once(keys)
  PROVE  /\ Pairs(keys) \in Seq(K \X K)
         /\ \A n \in 1 .. Len(Pairs(keys)) : \E i, j \in 1 .. Len(keys) :
              i < j /\ Pairs(keys)[n] = <<keys[i], keys[j]>>
         /\ \A i, j \in 1 .. Len(keys) : i < j =>
              \E n \in 1 .. Len(Pairs(keys)) : Pairs(keys)[n] = <<keys[i], keys[j]>>
         /\ Once(Pairs(keys))
<1> DEFINE m == Len(keys)
           row(i) == [d \in 1 .. Len(keys) - i |-> <<keys[i], keys[i + d]>>]
           rows == [i \in 1 .. m |-> row(i)]
<1>1. m \in Nat /\ DOMAIN keys = 1 .. m /\ \A i \in 1 .. m : keys[i] \in K
  OBVIOUS
<1>2. Pairs(keys) = FlattenSeq(rows)
  BY <1>1 DEF Pairs
<1>3. ASSUME NEW i \in 1 .. m
      PROVE  /\ row(i) \in Seq(K \X K) /\ Len(row(i)) = m - i
             /\ \A d \in 1 .. m - i : row(i)[d] = <<keys[i], keys[i + d]>>
  <2>1. m - i \in Nat /\ \A d \in 1 .. m - i : i + d \in 1 .. m
    BY <1>1
  <2>2. \A d \in 1 .. m - i : <<keys[i], keys[i + d]>> \in K \X K
    BY <1>1, <2>1
  <2>3. QED
    BY <2>1, <2>2
<1> HIDE DEF row, m
<1>4. ASSUME NEW i \in 1 .. m
      PROVE  \A e : Among(e, row(i)) <=> \E j \in 1 .. m : i < j /\ e = <<keys[i], keys[j]>>
  <2>1. \A d \in 1 .. m - i : i + d \in 1 .. m /\ i < i + d
    BY <1>1
  <2>2. \A j \in 1 .. m : i < j => j - i \in 1 .. m - i /\ i + (j - i) = j
    BY <1>1
  <2>3. ASSUME NEW e, Among(e, row(i)) PROVE \E j \in 1 .. m : i < j /\ e = <<keys[i], keys[j]>>
    <3>1. PICK d \in 1 .. m - i : row(i)[d] = e
      BY <1>3, <2>3 DEF Among
    <3>2. QED
      BY <1>3, <2>1, <3>1
  <2>4. ASSUME NEW j \in 1 .. m, i < j PROVE Among(<<keys[i], keys[j]>>, row(i))
    <3>1. j - i \in 1 .. m - i /\ i + (j - i) = j
      BY <2>2, <2>4
    <3>2. row(i)[j - i] = <<keys[i], keys[i + (j - i)]>>
      BY <1>3, <3>1
    <3>3. row(i)[j - i] = <<keys[i], keys[j]>>
      BY <3>1, <3>2
    <3>4. QED
      BY <1>3, <3>1, <3>3 DEF Among
  <2>5. QED
    BY <2>3, <2>4
<1>5. /\ rows \in Seq(Seq(K \X K)) /\ Len(rows) = m
      /\ \A i \in 1 .. m : rows[i] = row(i)
  BY <1>1, <1>3
<1> HIDE DEF rows
<1>6. /\ FlattenSeq(rows) \in Seq(K \X K)
      /\ \A e \in K \X K : Among(e, FlattenSeq(rows)) <=>
           \E i \in 1 .. Len(rows) : Among(e, rows[i])
  BY <1>5, FlattenElements
<1>7. \A e \in K \X K : Among(e, FlattenSeq(rows)) <=>
        \E i, j \in 1 .. m : i < j /\ e = <<keys[i], keys[j]>>
  BY <1>4, <1>5, <1>6
<1>8. \A i, j \in 1 .. m : i # j => keys[i] # keys[j]
  BY DEF Once, m
<1>9. Once(FlattenSeq(rows))
  <2>1. ASSUME NEW i \in 1 .. m PROVE Once(row(i))
    <3>1. \A c, d \in 1 .. m - i : c # d => i + c # i + d /\ i + c \in 1 .. m /\ i + d \in 1 .. m
      BY <1>1
    <3>2. \A c, d \in 1 .. m - i : c # d => keys[i + c] # keys[i + d]
      BY <1>8, <3>1
    <3>3. \A c, d \in 1 .. m - i : c # d => row(i)[c] # row(i)[d]
      BY <1>3, <3>2
    <3>4. QED
      BY <1>3, <3>3 DEF Once
  <2>2. ASSUME NEW i \in 1 .. m, NEW j \in 1 .. m, i # j,
               NEW e, Among(e, row(i)), Among(e, row(j))
        PROVE  FALSE
    <3>1. PICK k \in 1 .. m : e = <<keys[i], keys[k]>>
      BY <1>4, <2>2
    <3>2. PICK l \in 1 .. m : e = <<keys[j], keys[l]>>
      BY <1>4, <2>2
    <3>3. QED
      BY <1>8, <2>2, <3>1, <3>2
  <2>3. \A i \in 1 .. Len(rows) : Once(rows[i])
    BY <1>5, <2>1
  <2>4. \A i, j \in 1 .. Len(rows) : i # j =>
          \A e \in K \X K : ~(Among(e, rows[i]) /\ Among(e, rows[j]))
    BY <1>5, <2>2
  <2>5. QED
    BY <1>5, <2>3, <2>4, FlattenOnce
<1> DEFINE flat == FlattenSeq(rows)
<1>10. flat \in Seq(K \X K)
  BY <1>6
<1>11. \A n \in 1 .. Len(flat) : \E i, j \in 1 .. m : i < j /\ flat[n] = <<keys[i], keys[j]>>
  <2>1. ASSUME NEW n \in 1 .. Len(flat) PROVE flat[n] \in K \X K /\ Among(flat[n], flat)
    BY <1>10 DEF Among
  <2>2. QED
    BY <1>7, <2>1
<1>12. \A i, j \in 1 .. m : i < j =>
         \E n \in 1 .. Len(flat) : flat[n] = <<keys[i], keys[j]>>
  <2>1. ASSUME NEW i \in 1 .. m, NEW j \in 1 .. m, i < j PROVE Among(<<keys[i], keys[j]>>, flat)
    BY <1>1, <1>7, <2>1
  <2>2. QED
    BY <2>1 DEF Among
<1>13. Pairs(keys) = flat /\ Once(flat)
  BY <1>2, <1>9
<1> HIDE DEF flat
<1>14. QED
  BY <1>10, <1>11, <1>12, <1>13 DEF m

\* Only one of two places' two orders.
LEMMA PairsDiffer ==
  ASSUME NEW K, NEW keys \in Seq(K), Once(keys),
         NEW m \in 1 .. Len(Pairs(keys)), NEW n \in 1 .. Len(Pairs(keys)),
         {Pairs(keys)[m][1], Pairs(keys)[m][2]} = {Pairs(keys)[n][1], Pairs(keys)[n][2]}
  PROVE  m = n
<1> DEFINE pairs == Pairs(keys)
<1>1. Once(pairs)
  BY PairsFacts
<1>2. PICK i \in 1 .. Len(keys), j \in 1 .. Len(keys) : i < j /\ pairs[m] = <<keys[i], keys[j]>>
  BY PairsFacts
<1>3. PICK k \in 1 .. Len(keys), l \in 1 .. Len(keys) : k < l /\ pairs[n] = <<keys[k], keys[l]>>
  BY PairsFacts
<1>4. \A a, b \in 1 .. Len(keys) : keys[a] = keys[b] => a = b
  BY DEF Once
<1>5. {keys[i], keys[j]} = {keys[k], keys[l]}
  <2>1. /\ pairs[m][1] = keys[i] /\ pairs[m][2] = keys[j]
        /\ pairs[n][1] = keys[k] /\ pairs[n][2] = keys[l]
    BY <1>2, <1>3
  <2>2. {pairs[m][1], pairs[m][2]} = {pairs[n][1], pairs[n][2]}
    OBVIOUS
  <2> HIDE DEF pairs
  <2>3. QED
    BY <2>1, <2>2
<1>6. \/ keys[i] = keys[k] /\ keys[j] = keys[l]
      \/ keys[i] = keys[l] /\ keys[j] = keys[k]
  BY <1>5
<1>7. (i = k /\ j = l) \/ (i = l /\ j = k)
  BY <1>4, <1>6
<1>8. i = k /\ j = l
  BY <1>2, <1>3, <1>7
<1>9. pairs[m] = pairs[n]
  BY <1>2, <1>3, <1>8
<1>10. QED
  BY <1>1, <1>9 DEF Once

--------------------------------------------------------------------------------
(* Transactions at two places.                                             *)

\* What the detection is given: each transaction has a time and coordinates.
Dated(events) ==
  /\ events \in Seq(ToSet(events))
  /\ \A e \in ToSet(events) : e.Timestamp \in Int /\ e.Value.At \in DOMAIN Distance

\* A transaction at the place is less than a window before.
Active(events, window, key, t) ==
  \E e \in ToSet(EventsAt(events, key)) : e.Timestamp <= t /\ t < e.Timestamp + window

\* A group holds the transactions of its place.
LEMMA GroupFacts ==
  ASSUME NEW events, Dated(events), NEW key
  PROVE  /\ EventsAt(events, key) \in Seq(ToSet(events))
         /\ ToSet(EventsAt(events, key)) = {e \in ToSet(events) : LocationKey(e.Value) = key}
<1> DEFINE E == ToSet(events)
           wanted == {e \in E : LocationKey(e.Value) = key}
           group == Select(events, wanted)
<1>1. events \in Seq(E)
  BY DEF Dated
<1>2. DOMAIN events = 1 .. Len(events) /\ \A e : e \in E <=> Among(e, events)
  <2>1. DOMAIN events = 1 .. Len(events)
    BY <1>1
  <2>2. QED
    BY <2>1 DEF ToSet, Among
<1>3. group = EventsAt(events, key)
  BY DEF EventsAt
<1> HIDE DEF E
<1>4. group \in Seq(E) /\ \A e : Among(e, group) <=> Among(e, events) /\ e \in wanted
  BY <1>1, SelectElements
<1> HIDE DEF group
<1>5. \A e : e \in ToSet(group) <=> Among(e, group)
  <2>1. DOMAIN group = 1 .. Len(group)
    BY <1>4
  <2>2. QED
    BY <2>1 DEF ToSet, Among
<1>6. \A e : e \in ToSet(group) <=> e \in wanted
  BY <1>2, <1>4, <1>5
<1>7. ToSet(group) = wanted
  BY <1>6
<1>8. QED
  BY <1>3, <1>4, <1>7 DEF E

\* It does not matter in which order a traveller was at two places.
LEMMA TravelIsSymmetric ==
  ASSUME NEW a, NEW b, a.At \in DOMAIN Distance, b.At \in DOMAIN Distance, NEW time
  PROVE  IsPossibleFraudTravel(a, b, time) <=> IsPossibleFraudTravel(b, a, time)
<1>1. {a.Type, b.Type} = {b.Type, a.Type}
  OBVIOUS
<1>2. Distance[a.At][b.At] = Distance[b.At][a.At]
  BY FraudDetectionAssumption
<1>3. QED
  BY <1>1, <1>2 DEF IsPossibleFraudTravel

\* Nor how the time between two transactions is taken.
LEMMA ApartIsSymmetric ==
  ASSUME NEW e, NEW f, e.Timestamp \in Int, f.Timestamp \in Int
  PROVE  Apart(e, f) = Apart(f, e) /\ Apart(e, f) \in Int
BY DEF Apart

\* The spans of two places together are the times at which both are active, with
\* gaps in between, and there are some if two transactions are less than a window
\* apart.
LEMMA OverlapFacts ==
  ASSUME NEW events, Dated(events), NEW window \in Int, NEW key1, NEW key2, key1 # key2
  PROVE  LET overlap == FraudulentOverlap(events, window, key1, key2)
         IN  /\ overlap \in Seq(Interval) /\ AllTrue(overlap) /\ Gapped(overlap)
             /\ \A t \in Int : TrueAt(overlap, t) <=>
                  Active(events, window, key1, t) /\ Active(events, window, key2, t)
             /\ overlap # <<>> <=> \E t \in Int : TrueAt(overlap, t)
<1> DEFINE E == [Timestamp : Int, Value : {key1, key2}]
           Labelled(key) == [i \in DOMAIN EventsAt(events, key) |->
             [Timestamp |-> EventsAt(events, key)[i].Timestamp, Value |-> key]]
           combined == Labelled(key1) \o Labelled(key2)
           within(key) == HasExistedWithin(combined, key, window)
<1>1. FraudulentOverlap(events, window, key1, key2) = AND(<<within(key1), within(key2)>>)
  BY DEF FraudulentOverlap
<1>2. ASSUME NEW key \in {key1, key2}
      PROVE  /\ Labelled(key) \in Seq(E)
             /\ \A x \in E : Among(x, Labelled(key)) <=>
                  /\ x.Value = key
                  /\ \E e \in ToSet(EventsAt(events, key)) : x.Timestamp = e.Timestamp
  <2> DEFINE group == EventsAt(events, key)
             list == Labelled(key)
  <2>1. group \in Seq(ToSet(events)) /\ \A e \in ToSet(events) : e.Timestamp \in Int
    BY GroupFacts DEF Dated
  <2>2. DOMAIN group = 1 .. Len(group) /\ Len(group) \in Nat
    BY <2>1
  <2> HIDE DEF group
  <2>3. \A i \in 1 .. Len(group) : group[i].Timestamp \in Int
    BY <2>1
  <2>4. \A i \in 1 .. Len(group) : [Timestamp |-> group[i].Timestamp, Value |-> key] \in E
    BY <2>3
  <2>5. list = [i \in 1 .. Len(group) |-> [Timestamp |-> group[i].Timestamp, Value |-> key]]
    BY <2>2 DEF group
  <2> HIDE DEF list
  <2>6. list \in Seq(E) /\ Len(list) = Len(group)
        /\ \A i \in 1 .. Len(group) : list[i] = [Timestamp |-> group[i].Timestamp, Value |-> key]
    BY <2>2, <2>4, <2>5
  <2>7. ASSUME NEW x \in E, Among(x, list)
        PROVE  x.Value = key /\ \E e \in ToSet(group) : x.Timestamp = e.Timestamp
    <3>1. PICK i \in 1 .. Len(group) : x = [Timestamp |-> group[i].Timestamp, Value |-> key]
      BY <2>6, <2>7 DEF Among
    <3>2. group[i] \in ToSet(group)
      BY <2>2 DEF ToSet
    <3>3. QED
      BY <3>1, <3>2
  <2>8. ASSUME NEW x \in E, x.Value = key, NEW e \in ToSet(group), x.Timestamp = e.Timestamp
        PROVE  Among(x, list)
    <3>1. PICK i \in 1 .. Len(group) : e = group[i]
      BY <2>2 DEF ToSet
    <3>2. x = [Timestamp |-> group[i].Timestamp, Value |-> key]
      BY <2>8, <3>1
    <3>3. QED
      BY <2>6, <3>2 DEF Among
  <2>9. QED
    BY <2>6, <2>7, <2>8 DEF list, group
<1> HIDE DEF Labelled
<1>3. /\ combined \in Seq(E)
      /\ \A x \in E : Among(x, combined) <=> Among(x, Labelled(key1)) \/ Among(x, Labelled(key2))
  <2>1. Labelled(key1) \in Seq(E) /\ Labelled(key2) \in Seq(E)
    BY <1>2
  <2> HIDE DEF E
  <2>2. QED
    BY <2>1, AmongBoth
<1> HIDE DEF combined
<1>4. Stamped(E)
  BY DEF Stamped
<1>5. ASSUME NEW key \in {key1, key2}
      PROVE  /\ within(key) \in Seq(Interval)
             /\ AllTrue(within(key)) /\ Gapped(within(key))
             /\ \A t \in Int : TrueAt(within(key), t) <=> Active(events, window, key, t)
  <2>1. /\ within(key) \in Seq(Interval)
        /\ \A t \in Int : TrueAt(within(key), t) <=>
             \E x \in E : /\ Among(x, combined) /\ x.Value = key
                          /\ x.Timestamp <= t /\ t < x.Timestamp + window
    <3> HIDE DEF E
    <3>1. QED
      BY <1>3, <1>4, HasExistedWithinTimes
  <2>2. AllTrue(within(key)) /\ Gapped(within(key))
    <3> HIDE DEF E
    <3>1. QED
      BY <1>3, <1>4, HasExistedWithinShape
  <2>3. \A x \in E : Among(x, combined) /\ x.Value = key <=>
          /\ x.Value = key
          /\ \E e \in ToSet(EventsAt(events, key)) : x.Timestamp = e.Timestamp
    BY <1>2, <1>3
  <2>4. \A e \in ToSet(EventsAt(events, key)) : [Timestamp |-> e.Timestamp, Value |-> key] \in E
    BY GroupFacts DEF Dated
  <2>5. ASSUME NEW t \in Int
        PROVE  (\E x \in E : /\ Among(x, combined) /\ x.Value = key
                             /\ x.Timestamp <= t /\ t < x.Timestamp + window)
               <=> Active(events, window, key, t)
    <3>1. ASSUME NEW x \in E, Among(x, combined), x.Value = key,
                 x.Timestamp <= t, t < x.Timestamp + window
          PROVE  Active(events, window, key, t)
      <4>1. PICK e \in ToSet(EventsAt(events, key)) : x.Timestamp = e.Timestamp
        BY <2>3, <3>1
      <4>2. QED
        BY <3>1, <4>1 DEF Active
    <3>2. ASSUME NEW e \in ToSet(EventsAt(events, key)), e.Timestamp <= t, t < e.Timestamp + window
          PROVE  \E x \in E : /\ Among(x, combined) /\ x.Value = key
                              /\ x.Timestamp <= t /\ t < x.Timestamp + window
      <4> DEFINE x == [Timestamp |-> e.Timestamp, Value |-> key]
      <4>1. x \in E /\ x.Timestamp = e.Timestamp /\ x.Value = key
        BY <2>4
      <4> HIDE DEF x
      <4>2. Among(x, combined)
        BY <2>3, <4>1
      <4>3. QED
        BY <3>2, <4>1, <4>2
    <3>3. QED
      BY <3>1, <3>2 DEF Active
  <2>6. QED
    BY <2>1, <2>2, <2>5
<1> HIDE DEF within
<1> DEFINE a == within(key1)
           b == within(key2)
           overlap == AND(<<a, b>>)
<1>6. a \in Seq(Interval) /\ b \in Seq(Interval)
  BY <1>5
<1>7. \A t \in Int : /\ TrueAt(a, t) <=> Active(events, window, key1, t)
                     /\ TrueAt(b, t) <=> Active(events, window, key2, t)
  BY <1>5
<1>8. FraudulentOverlap(events, window, key1, key2) = overlap
  BY <1>1
<1> HIDE DEF a, b
<1>9. overlap = AndTwoTimelines(a, b)
  BY <1>6, AndOfTwo
<1>10. /\ overlap \in Seq(Interval)
       /\ \A t \in Int : TrueAt(overlap, t) <=> TrueAt(a, t) /\ TrueAt(b, t)
  BY <1>6, <1>9, AndTwoTimes
<1>11. AllTrue(overlap) /\ Gapped(overlap)
  <2>1. <<a, b>> \in Seq(Seq(Interval)) /\ Len(<<a, b>>) # 1
    BY <1>6
  <2>2. QED
    BY <2>1, AndShape
<1>12. overlap # <<>> <=> \E t \in Int : TrueAt(a, t) /\ TrueAt(b, t)
  BY <1>6, <1>9, AndTwoEmpty
<1> HIDE DEF overlap
<1>13. QED
  BY <1>7, <1>8, <1>10, <1>11, <1>12

--------------------------------------------------------------------------------
(* The detection.                                                          *)

\* There are only so many places.
LEMMA KeysAreFinite ==
  ASSUME NEW events, Dated(events)
  PROVE  IsFiniteSet(Keys(events)) /\ Cardinality(Keys(events)) <= Len(events)
<1> DEFINE n == Len(events)
           at == [i \in 1 .. n |-> LocationKey(events[i].Value)]
           K == Keys(events)
<1>1. n \in Nat /\ DOMAIN events = 1 .. n
  BY DEF Dated
<1>2. K = {LocationKey(events[i].Value) : i \in 1 .. n}
  BY <1>1 DEF Keys
<1> HIDE DEF n, K
<1>3. at \in Surjection(1 .. n, K)
  BY <1>2 DEF Surjection
<1>4. IsFiniteSet(1 .. n) /\ Cardinality(1 .. n) = n
  BY <1>1, FS_Interval
<1>5. IsFiniteSet(K) /\ Cardinality(K) <= Cardinality(1 .. n)
  <2> HIDE DEF at
  <2>1. QED
    BY <1>3, <1>4, FS_Surjection
<1>6. QED
  BY <1>4, <1>5 DEF n, K

\* Two make two.
LEMMA PairOfTwo ==
  /\ \A a, b : a # b => Cardinality({a, b}) = 2
  /\ \A S : IsFiniteSet(S) /\ Cardinality(S) = 2 => \E a, b : a # b /\ S = {a, b}
<1>1. ASSUME NEW a, NEW b, a # b PROVE Cardinality({a, b}) = 2
  <2>1. IsFiniteSet({a}) /\ Cardinality({a}) = 1
    BY FS_Singleton
  <2>2. Cardinality({a} \cup {b}) = 1 + 1
    BY <1>1, <2>1, FS_AddElement
  <2>3. {a} \cup {b} = {a, b}
    OBVIOUS
  <2>4. QED
    BY <2>2, <2>3
<1>2. ASSUME NEW S, IsFiniteSet(S), Cardinality(S) = 2
      PROVE  \E a, b : a # b /\ S = {a, b}
  <2>1. S # {}
    BY <1>2, FS_EmptySet
  <2>2. PICK a : a \in S
    BY <2>1
  <2>3. IsFiniteSet(S \ {a}) /\ Cardinality(S \ {a}) = 2 - 1
    BY <1>2, <2>2, FS_RemoveElement
  <2>4. PICK b : S \ {a} = {b}
    <3>1. 2 - 1 = 1
      OBVIOUS
    <3>2. QED
      BY <2>3, <3>1, FS_Singleton
  <2>5. a # b /\ S = {a, b}
    BY <2>2, <2>4
  <2>6. QED
    BY <2>5
<1>3. QED
  BY <1>1, <1>2

\* The loops over two places find them suspicious, and then a common span, exactly if
\* the two contradict each other.
LEMMA ContradictionFacts ==
  ASSUME NEW events, Dated(events), NEW window \in Int,
         NEW key1 \in Keys(events), NEW key2 \in Keys(events), key1 # key2
  PROVE  {key1, key2} \in Contradicting(events, window) <=>
           /\ SuspiciousPair(events, window, key1, key2)
           /\ FraudulentOverlap(events, window, key1, key2) # <<>>
<1> DEFINE At(key) == {e \in ToSet(events) : LocationKey(e.Value) = key}
           pair == {key1, key2}
           Suspicious(e, f) == /\ Apart(e, f) <= window
                               /\ ~IsPossibleFraudTravel(e.Value, f.Value, Apart(e, f))
           Between(e, f) == {LocationKey(e.Value), LocationKey(f.Value)} = pair
<1>1. \A e \in ToSet(events) : e.Timestamp \in Int /\ e.Value.At \in DOMAIN Distance
  BY DEF Dated
<1>2. ToSet(EventsAt(events, key1)) = At(key1) /\ ToSet(EventsAt(events, key2)) = At(key2)
  BY GroupFacts
<1>3. pair \in SUBSET Keys(events) /\ Cardinality(pair) = 2
  BY PairOfTwo
<1>4. ASSUME NEW e \in ToSet(events), NEW f \in ToSet(events)
      PROVE  /\ Suspicious(e, f) <=> Suspicious(f, e)
             /\ Apart(e, f) = Apart(f, e)
             /\ Between(e, f) <=> \/ e \in At(key1) /\ f \in At(key2)
                                  \/ f \in At(key1) /\ e \in At(key2)
  <2>1. Apart(e, f) = Apart(f, e)
    BY <1>1, ApartIsSymmetric
  <2>2. IsPossibleFraudTravel(e.Value, f.Value, Apart(e, f)) <=>
          IsPossibleFraudTravel(f.Value, e.Value, Apart(e, f))
    BY <1>1, TravelIsSymmetric
  <2>3. QED
    BY <2>1, <2>2
<1>5. (\E e, f \in ToSet(events) : Between(e, f) /\ Suspicious(e, f)) <=>
        \E e \in At(key1), f \in At(key2) : Suspicious(e, f)
  <2> HIDE DEF Between, Suspicious
  <2>1. QED
    BY <1>4
<1>6. SuspiciousPair(events, window, key1, key2) <=>
        \E e \in At(key1), f \in At(key2) : Suspicious(e, f)
  BY <1>2 DEF SuspiciousPair
<1>7. (\E e, f \in ToSet(events) : Between(e, f) /\ Apart(e, f) < window) <=>
        \E e \in At(key1), f \in At(key2) : Apart(e, f) < window
  <2> HIDE DEF Between, Suspicious
  <2>1. QED
    BY <1>4
<1>8. (\E e \in At(key1), f \in At(key2) : Apart(e, f) < window) <=>
        \E t \in Int : Active(events, window, key1, t) /\ Active(events, window, key2, t)
  <2>1. \A e \in At(key1) : e.Timestamp \in Int
    BY <1>1
  <2>2. \A f \in At(key2) : f.Timestamp \in Int
    BY <1>1
  <2>3. ASSUME NEW e \in At(key1), NEW f \in At(key2), Apart(e, f) < window
        PROVE  \E t \in Int : Active(events, window, key1, t) /\ Active(events, window, key2, t)
    <3> DEFINE t == IF e.Timestamp < f.Timestamp THEN f.Timestamp ELSE e.Timestamp
    <3>1. /\ t \in Int
          /\ e.Timestamp <= t /\ t < e.Timestamp + window
          /\ f.Timestamp <= t /\ t < f.Timestamp + window
      BY <2>1, <2>2, <2>3 DEF Apart
    <3> HIDE DEF t
    <3>2. QED
      BY <1>2, <3>1 DEF Active
  <2>4. ASSUME NEW t \in Int, Active(events, window, key1, t), Active(events, window, key2, t)
        PROVE  \E e \in At(key1), f \in At(key2) : Apart(e, f) < window
    <3>1. PICK e \in At(key1) : e.Timestamp <= t /\ t < e.Timestamp + window
      BY <1>2, <2>4 DEF Active
    <3>2. PICK f \in At(key2) : f.Timestamp <= t /\ t < f.Timestamp + window
      BY <1>2, <2>4 DEF Active
    <3>3. Apart(e, f) < window
      BY <2>1, <2>2, <3>1, <3>2 DEF Apart
    <3>4. QED
      BY <3>3
  <2>5. QED
    BY <2>3, <2>4
<1>9. FraudulentOverlap(events, window, key1, key2) # <<>> <=>
        \E t \in Int : Active(events, window, key1, t) /\ Active(events, window, key2, t)
  <2> DEFINE overlap == FraudulentOverlap(events, window, key1, key2)
  <2>1. /\ \A t \in Int : TrueAt(overlap, t) <=>
             Active(events, window, key1, t) /\ Active(events, window, key2, t)
        /\ overlap # <<>> <=> \E t \in Int : TrueAt(overlap, t)
    BY OverlapFacts
  <2> HIDE DEF overlap
  <2>2. overlap # <<>> <=>
          \E t \in Int : Active(events, window, key1, t) /\ Active(events, window, key2, t)
    BY <2>1
  <2>3. QED
    BY <2>2 DEF overlap
<1>10. pair \in Contradicting(events, window) <=>
         /\ \E e, f \in ToSet(events) : Between(e, f) /\ Suspicious(e, f)
         /\ \E e, f \in ToSet(events) : Between(e, f) /\ Apart(e, f) < window
  BY <1>3 DEF Contradicting
<1>11. QED
  BY <1>5, <1>6, <1>7, <1>8, <1>9, <1>10

\* The pairs for which the detection finds a span, from the order of the places.
SpansOf(events, window, pairs) ==
  LET suspiciousPairs == Select(pairs,
        {pair \in ToSet(pairs) : SuspiciousPair(events, window, pair[1], pair[2])})
  IN  Select(suspiciousPairs,
        {pair \in ToSet(suspiciousPairs) :
           FraudulentOverlap(events, window, pair[1], pair[2]) # <<>>})

\* They are the places that contradict each other, each two once, in whatever order
\* the map yields the places.
LEMMA PairsWithSpans ==
  ASSUME NEW events, Dated(events), NEW window \in Int,
         NEW locationKeys \in SetToSeqs(Keys(events))
  PROVE  LET found == SpansOf(events, window, Pairs(locationKeys))
         IN  /\ found \in Seq(Keys(events) \X Keys(events))
             /\ \A n \in 1 .. Len(found) :
                  /\ found[n][1] # found[n][2]
                  /\ {found[n][1], found[n][2]} \in Contradicting(events, window)
             /\ \A pair \in Contradicting(events, window) :
                  \E n \in 1 .. Len(found) : pair = {found[n][1], found[n][2]}
             /\ Len(found) = Cardinality(Contradicting(events, window))
<1> DEFINE K == Keys(events)
           keys == locationKeys
           pairs == Pairs(keys)
           Suspicious(pair) == SuspiciousPair(events, window, pair[1], pair[2])
           Overlaps(pair) == FraudulentOverlap(events, window, pair[1], pair[2]) # <<>>
           suspiciousPairs == Select(pairs, {pair \in ToSet(pairs) : Suspicious(pair)})
           found == Select(suspiciousPairs, {pair \in ToSet(suspiciousPairs) : Overlaps(pair)})
           All == Contradicting(events, window)
<1>1. /\ IsFiniteSet(K) /\ Cardinality(K) \in Nat
      /\ keys \in [1 .. Cardinality(K) -> K]
      /\ \A i, j \in 1 .. Cardinality(K) : i # j => keys[i] # keys[j]
  BY KeysAreFinite, FS_CardinalityType DEF SetToSeqs
<1>2. keys \in Seq(K) /\ Len(keys) = Cardinality(K) /\ Once(keys)
  BY <1>1 DEF Once
<1>3. \A key \in K : \E i \in 1 .. Len(keys) : keys[i] = key
  <2>1. keys \in Injection(1 .. Cardinality(K), K)
    BY <1>1 DEF Injection, IsInjective
  <2>2. Cardinality(1 .. Cardinality(K)) = Cardinality(K)
    BY <1>1, FS_Interval
  <2>3. keys \in Surjection(1 .. Cardinality(K), K)
    BY <1>1, <2>1, <2>2, FS_Injection
  <2>4. QED
    BY <1>2, <2>3 DEF Surjection
<1> HIDE DEF K, keys
<1>4. /\ pairs \in Seq(K \X K) /\ Once(pairs)
      /\ \A n \in 1 .. Len(pairs) : \E i, j \in 1 .. Len(keys) :
           i < j /\ pairs[n] = <<keys[i], keys[j]>>
      /\ \A i, j \in 1 .. Len(keys) : i < j =>
           \E n \in 1 .. Len(pairs) : pairs[n] = <<keys[i], keys[j]>>
  BY <1>2, PairsFacts
<1>5. \A m, n \in 1 .. Len(pairs) :
        {pairs[m][1], pairs[m][2]} = {pairs[n][1], pairs[n][2]} => m = n
  BY <1>2, PairsDiffer
<1>6. \A x : x \in ToSet(pairs) <=> Among(x, pairs)
  <2>1. DOMAIN pairs = 1 .. Len(pairs)
    BY <1>4
  <2>2. QED
    BY <2>1 DEF ToSet, Among
<1> HIDE DEF pairs
<1>7. /\ suspiciousPairs \in Seq(K \X K) /\ Once(suspiciousPairs)
      /\ \A x : Among(x, suspiciousPairs) <=> Among(x, pairs) /\ Suspicious(x)
  <2>1. /\ suspiciousPairs \in Seq(K \X K) /\ Once(suspiciousPairs)
        /\ \A x : Among(x, suspiciousPairs) <=>
             Among(x, pairs) /\ x \in {pair \in ToSet(pairs) : Suspicious(pair)}
    BY <1>4, SelectElements, SelectOnce
  <2> HIDE DEF Suspicious, suspiciousPairs
  <2>2. QED
    BY <1>6, <2>1
<1>8. \A x : x \in ToSet(suspiciousPairs) <=> Among(x, suspiciousPairs)
  <2>1. DOMAIN suspiciousPairs = 1 .. Len(suspiciousPairs)
    BY <1>7
  <2>2. QED
    BY <2>1 DEF ToSet, Among
<1> HIDE DEF suspiciousPairs
<1>9. /\ found \in Seq(K \X K) /\ Once(found)
      /\ \A x : Among(x, found) <=> Among(x, suspiciousPairs) /\ Overlaps(x)
  <2>1. /\ found \in Seq(K \X K) /\ Once(found)
        /\ \A x : Among(x, found) <=>
             Among(x, suspiciousPairs) /\ x \in {pair \in ToSet(suspiciousPairs) : Overlaps(pair)}
    BY <1>7, SelectElements, SelectOnce
  <2> HIDE DEF Overlaps, found
  <2>2. QED
    BY <1>8, <2>1
<1> HIDE DEF found
<1>10. ASSUME NEW i \in 1 .. Len(keys), NEW j \in 1 .. Len(keys), i # j
       PROVE  /\ keys[i] \in K /\ keys[j] \in K /\ keys[i] # keys[j]
              /\ {keys[i], keys[j]} \in All <=>
                   Suspicious(<<keys[i], keys[j]>>) /\ Overlaps(<<keys[i], keys[j]>>)
  <2>1. keys[i] \in K /\ keys[j] \in K /\ keys[i] # keys[j]
    BY <1>2, <1>10 DEF Once
  <2>2. QED
    BY <2>1, ContradictionFacts DEF K
<1> HIDE DEF Suspicious, Overlaps, All
<1>11. ASSUME NEW n \in 1 .. Len(found)
       PROVE  \E m \in 1 .. Len(pairs) : \E i, j \in 1 .. Len(keys) :
                /\ found[n] = pairs[m] /\ i < j /\ pairs[m] = <<keys[i], keys[j]>>
                /\ Suspicious(<<keys[i], keys[j]>>) /\ Overlaps(<<keys[i], keys[j]>>)
  <2>1. Among(found[n], pairs) /\ Suspicious(found[n]) /\ Overlaps(found[n])
    <3>1. Among(found[n], found)
      BY DEF Among
    <3>2. QED
      BY <1>7, <1>9, <3>1
  <2>2. PICK m \in 1 .. Len(pairs) : pairs[m] = found[n]
    BY <2>1 DEF Among
  <2>3. PICK i \in 1 .. Len(keys), j \in 1 .. Len(keys) : i < j /\ pairs[m] = <<keys[i], keys[j]>>
    BY <1>4
  <2>4. QED
    BY <2>1, <2>2, <2>3
<1>12. ASSUME NEW n \in 1 .. Len(found)
       PROVE  found[n][1] # found[n][2] /\ {found[n][1], found[n][2]} \in All
  <2>0. PICK m \in 1 .. Len(pairs) : \E i, j \in 1 .. Len(keys) :
          /\ found[n] = pairs[m] /\ i < j /\ pairs[m] = <<keys[i], keys[j]>>
          /\ Suspicious(<<keys[i], keys[j]>>) /\ Overlaps(<<keys[i], keys[j]>>)
    BY <1>11
  <2>1. PICK i \in 1 .. Len(keys), j \in 1 .. Len(keys) :
          /\ found[n] = <<keys[i], keys[j]>> /\ i < j
          /\ Suspicious(<<keys[i], keys[j]>>) /\ Overlaps(<<keys[i], keys[j]>>)
    BY <2>0
  <2>2. i # j
    BY <2>1
  <2>3. keys[i] # keys[j] /\ {keys[i], keys[j]} \in All
    BY <1>10, <2>1, <2>2
  <2>4. found[n][1] = keys[i] /\ found[n][2] = keys[j]
    BY <2>1
  <2>5. QED
    BY <2>3, <2>4
<1>13. ASSUME NEW pair \in All
       PROVE  \E n \in 1 .. Len(found) : pair = {found[n][1], found[n][2]}
  <2>1. pair \subseteq K /\ Cardinality(pair) = 2 /\ IsFiniteSet(pair)
    BY <1>1, FS_Subset DEF All, Contradicting, K
  <2>2. PICK a, b : a # b /\ pair = {a, b}
    BY <2>1, PairOfTwo
  <2>3. PICK i \in 1 .. Len(keys), j \in 1 .. Len(keys) : i < j /\ pair = {keys[i], keys[j]}
    <3>1. PICK i \in 1 .. Len(keys) : keys[i] = a
      BY <1>3, <2>1, <2>2
    <3>2. PICK j \in 1 .. Len(keys) : keys[j] = b
      BY <1>3, <2>1, <2>2
    <3>3. i < j \/ j < i
      BY <2>2, <3>1, <3>2
    <3>4. pair = {keys[i], keys[j]} /\ pair = {keys[j], keys[i]}
      BY <2>2, <3>1, <3>2
    <3>5. QED
      BY <3>3, <3>4
  <2> DEFINE x == <<keys[i], keys[j]>>
  <2>4. i # j
    BY <2>3
  <2>5. Suspicious(x) /\ Overlaps(x)
    BY <1>10, <2>3, <2>4
  <2>6. Among(x, pairs)
    BY <1>4, <2>3 DEF Among
  <2>7. x[1] = keys[i] /\ x[2] = keys[j]
    OBVIOUS
  <2> HIDE DEF x
  <2>8. Among(x, found)
    BY <1>7, <1>9, <2>5, <2>6
  <2>9. PICK n \in 1 .. Len(found) : found[n] = x
    BY <2>8 DEF Among
  <2>10. QED
    BY <2>3, <2>7, <2>9
<1>14. Len(found) = Cardinality(All)
  <2> DEFINE pairOf == [n \in 1 .. Len(found) |-> {found[n][1], found[n][2]}]
  <2>1. Len(found) \in Nat
    BY <1>9
  <2>2. pairOf \in [1 .. Len(found) -> All]
    BY <1>12
  <2>3. \A pair \in All : \E n \in 1 .. Len(found) : pairOf[n] = pair
    BY <1>13
  <2>4. ASSUME NEW m \in 1 .. Len(found), NEW n \in 1 .. Len(found), pairOf[m] = pairOf[n]
        PROVE  m = n
    <3>0. \A c \in 1 .. Len(found) : \E k \in 1 .. Len(pairs) : found[c] = pairs[k]
      BY <1>11
    <3>1. PICK k \in 1 .. Len(pairs) : found[m] = pairs[k]
      BY <3>0
    <3>2. PICK l \in 1 .. Len(pairs) : found[n] = pairs[l]
      BY <3>0
    <3>3. {found[m][1], found[m][2]} = {found[n][1], found[n][2]}
      BY <2>4
    <3>4. k = l
      BY <1>5, <3>1, <3>2, <3>3
    <3>5. found[m] = found[n]
      BY <3>1, <3>2, <3>4
    <3>6. QED
      BY <1>9, <3>5 DEF Once
  <2> HIDE DEF pairOf
  <2>5. pairOf \in Bijection(1 .. Len(found), All)
    BY <2>2, <2>3, <2>4 DEF Bijection, Injection, Surjection, IsInjective
  <2>6. ExistsBijection(1 .. Len(found), All)
    BY <2>5 DEF ExistsBijection
  <2>7. QED
    BY <2>1, <2>6, FS_CountingElements
<1>15. SpansOf(events, window, pairs) = found
  BY DEF SpansOf, found, suspiciousPairs, Suspicious, Overlaps
<1>16. QED
  BY <1>9, <1>12, <1>13, <1>14, <1>15 DEF All, pairs, keys, K

\* Where there is no interval nothing is shown.
LEMMA NothingShown ==
  /\ <<>> \in Seq(Interval) /\ AllTrue(<<>>) /\ Gapped(<<>>)
  /\ \A t : ~TrueAt(<<>>, t)
BY DEF AllTrue, Gapped, TrueAt

\* The detection computes what it is meant to: its spans are true at the times at which
\* two places that contradict each other are active, and they lie apart.
LEMMA DetectionFacts ==
  ASSUME NEW events, Dated(events), NEW window \in Int,
         NEW locationKeys \in SetToSeqs(Keys(events)), NEW points \in SUBSET Int
  PROVE  LET spans == DetectCreditCardFraud(events, window, locationKeys)
         IN  /\ spans \in Seq(Interval) /\ AllTrue(spans) /\ Gapped(spans)
             /\ \A t : t \in FraudPoints(events, window, points) <=>
                  t \in points /\ TrueAt(spans, t)
<1> DEFINE found == SpansOf(events, window, Pairs(locationKeys))
           Overlap(pair) == FraudulentOverlap(events, window, pair[1], pair[2])
           timelines == [n \in DOMAIN found |-> Overlap(found[n])]
           All == Contradicting(events, window)
           spans == DetectCreditCardFraud(events, window, locationKeys)
           Shown(t) == \E pair \in All : \A key \in pair : Active(events, window, key, t)
           expected == FraudPoints(events, window, points)
<1>1. spans = IF Len(events) < 2 \/ Len(timelines) < MinOverlaps THEN <<>> ELSE OR(timelines)
  BY DEF DetectCreditCardFraud, SpansOf
<1>2. expected = IF Cardinality(All) < MinOverlaps THEN {} ELSE {t \in points : Shown(t)}
  BY DEF FraudPoints, Active
<1>3. /\ found \in Seq(Keys(events) \X Keys(events))
      /\ \A n \in 1 .. Len(found) :
           found[n][1] # found[n][2] /\ {found[n][1], found[n][2]} \in All
      /\ \A pair \in All : \E n \in 1 .. Len(found) : pair = {found[n][1], found[n][2]}
      /\ Len(found) = Cardinality(All)
  BY PairsWithSpans
<1> HIDE DEF found, spans, expected
<1>4. Len(found) \in Nat /\ DOMAIN found = 1 .. Len(found)
  BY <1>3
<1>5. ASSUME NEW n \in 1 .. Len(found)
      PROVE  LET o == Overlap(found[n])
             IN  /\ o \in Seq(Interval) /\ AllTrue(o) /\ Gapped(o)
                 /\ \A t \in Int : TrueAt(o, t) <=>
                      /\ Active(events, window, found[n][1], t)
                      /\ Active(events, window, found[n][2], t)
  BY <1>3, OverlapFacts
<1>6. /\ timelines \in Seq(Seq(Interval)) /\ Len(timelines) = Len(found)
      /\ \A n \in 1 .. Len(found) : timelines[n] = Overlap(found[n])
  BY <1>4, <1>5
<1> HIDE DEF timelines, Overlap, All
<1>7. \A t \in Int : Shown(t) <=> \E n \in 1 .. Len(timelines) : TrueAt(timelines[n], t)
  <2>1. ASSUME NEW t \in Int, NEW pair \in All, \A key \in pair : Active(events, window, key, t)
        PROVE  \E n \in 1 .. Len(timelines) : TrueAt(timelines[n], t)
    <3>1. PICK n \in 1 .. Len(found) : pair = {found[n][1], found[n][2]}
      BY <1>3
    <3>2. Active(events, window, found[n][1], t) /\ Active(events, window, found[n][2], t)
      BY <2>1, <3>1
    <3>3. TrueAt(timelines[n], t)
      BY <1>5, <1>6, <3>2
    <3>4. QED
      BY <1>6, <3>3
  <2>2. ASSUME NEW t \in Int, NEW n \in 1 .. Len(timelines), TrueAt(timelines[n], t)
        PROVE  Shown(t)
    <3>1. n \in 1 .. Len(found)
      BY <1>6
    <3>2. Active(events, window, found[n][1], t) /\ Active(events, window, found[n][2], t)
      BY <1>5, <1>6, <2>2, <3>1
    <3>3. {found[n][1], found[n][2]} \in All
      BY <1>3, <3>1
    <3>4. QED
      BY <3>2, <3>3
  <2>3. QED
    BY <2>1, <2>2
<1>8. CASE Len(events) < 2
  <2>1. All = {}
    <3>1. SUFFICES ASSUME NEW pair \in All PROVE FALSE
      OBVIOUS
    <3>2. pair \subseteq Keys(events) /\ Cardinality(pair) = 2
      BY DEF All, Contradicting
    <3>3. IsFiniteSet(Keys(events)) /\ Cardinality(Keys(events)) <= Len(events)
      BY KeysAreFinite
    <3>4. Cardinality(pair) <= Cardinality(Keys(events)) /\ Cardinality(Keys(events)) \in Nat
      BY <3>2, <3>3, FS_Subset, FS_CardinalityType
    <3>5. Len(events) \in Nat
      BY DEF Dated
    <3>6. QED
      BY <1>8, <3>2, <3>3, <3>4, <3>5
  <2>2. expected = {}
    BY <1>2, <2>1
  <2>3. spans = <<>>
    BY <1>1, <1>8
  <2>4. QED
    BY <2>2, <2>3, NothingShown DEF spans, expected
<1>9. CASE Len(timelines) < MinOverlaps
  <2>1. expected = {}
    BY <1>2, <1>3, <1>6, <1>9
  <2>2. spans = <<>>
    BY <1>1, <1>9
  <2>3. QED
    BY <2>1, <2>2, NothingShown DEF spans, expected
<1>10. CASE ~(Len(events) < 2) /\ ~(Len(timelines) < MinOverlaps)
  <2>1. spans = OR(timelines)
    BY <1>1, <1>10
  <2>2. expected = {t \in points : Shown(t)}
    BY <1>2, <1>3, <1>6, <1>10
  <2>3. /\ spans \in Seq(Interval)
        /\ \A t \in Int : TrueAt(spans, t) <=>
             \E n \in 1 .. Len(timelines) : TrueAt(timelines[n], t)
    BY <1>6, <2>1, OrTimes
  <2>4. \A n \in 1 .. Len(timelines) : AllTrue(timelines[n]) /\ Gapped(timelines[n])
    BY <1>5, <1>6
  <2>5. AllTrue(spans) /\ ((Len(timelines) = 1 /\ spans = timelines[1]) \/ Gapped(spans))
    BY <1>6, <2>1, <2>4, OrShape
  <2>6. Gapped(spans)
    BY <2>4, <2>5
  <2>7. \A t : t \in expected <=> t \in points /\ TrueAt(spans, t)
    <3> HIDE DEF Shown
    <3>1. QED
      BY <1>7, <2>2, <2>3
  <2>8. QED
    BY <2>3, <2>5, <2>6, <2>7 DEF spans, expected
<1>11. QED
  BY <1>8, <1>9, <1>10

--------------------------------------------------------------------------------
(* The answers.                                                            *)

\* What a child answers is right for its own request.
LEMMA ChildIsRight ==
  ASSUME IInv, NEW c \in Customers, CompleteChild(c)
  PROVE  Judged(RequestOf(c), answer'[c])
<1> DEFINE request == RequestOf(c)
           events == request.Events
           found == answer'[c]
           window == Window(request)
           spans == DetectCreditCardFraud(events, window, found.locationKeys)
<1>1. /\ request.CustomerID = c /\ window \in Int /\ Dated(events)
      /\ window = IF request.Window # 0 THEN request.Window ELSE DefaultWindow
  <2>0. PICK p \in Parents : \E i \in DOMAIN requests[p] :
          owner[c] = <<p, i>> /\ requests[p][i].CustomerID = c
    BY DEF CompleteChild, IInv, OwnerInv
  <2>1. PICK i \in DOMAIN requests[p] : owner[c] = <<p, i>> /\ requests[p][i].CustomerID = c
    BY <2>0
  <2>2. request = requests[p][i]
    BY <2>1 DEF RequestOf
  <2>3. PICK q \in Parents : requests[p] \in Batches[q]
    BY <2>1 DEF IInv, Shape, AllBatches
  <2>4. /\ request.Window \in Int /\ Dated(request.Events)
    BY <2>1, <2>2, <2>3, TransactionsAssumption DEF Dated
  <2>5. QED
    BY <2>1, <2>2, <2>4, FraudWorkflowAssumption DEF Window
<1>2. /\ found.CustomerID = c /\ found.ProcessedEvents = Len(events)
      /\ found.locationKeys \in SetToSeqs(Keys(events))
  BY DEF CompleteChild, IInv, Shape
<1> HIDE DEF request, found
<1>3. 0 .. Horizon \in SUBSET Int
  BY FraudWorkflowAssumption
<1>4. /\ spans \in Seq(Interval) /\ AllTrue(spans) /\ Gapped(spans)
      /\ \A t : t \in FraudPoints(events, window, 0 .. Horizon) <=>
           t \in 0 .. Horizon /\ TrueAt(spans, t)
  <2> HIDE DEF events, window
  <2>1. QED
    BY <1>1, <1>2, <1>3, DetectionFacts
<1>5. spans = FraudIntervals(request, found)
  BY DEF FraudIntervals
<1> HIDE DEF spans
<1>6. DOMAIN spans = 1 .. Len(spans) /\ Len(spans) \in Nat
  BY <1>4
<1>7. \A t : TrueAt(spans, t) <=>
        \E i \in DOMAIN spans : spans[i].Start <= t /\ t < spans[i].End
  BY <1>4, <1>6 DEF TrueAt, During, AllTrue
<1>8. \A i \in 1 .. Len(spans) - 1 : spans[i].End < spans[i + 1].Start
  <2>1. \A i \in 1 .. Len(spans) - 1 : i \in 1 .. Len(spans) /\ i + 1 \in 1 .. Len(spans) /\ i < i + 1
    BY <1>6
  <2>2. QED
    BY <1>4, <2>1 DEF Gapped
<1>9. {t \in 0 .. Horizon : \E i \in DOMAIN spans : spans[i].Start <= t /\ t < spans[i].End}
      = FraudPoints(events, window, 0 .. Horizon)
  BY <1>4, <1>7
<1>10. Judged(request, found)
  BY <1>1, <1>2, <1>5, <1>8, <1>9 DEF Judged
<1>11. QED
  BY <1>10 DEF request, found

\* A child that completes tells exactly the units of time its customer's own
\* transactions show, as spans in order that do not touch: for whatever transactions
\* and distances, in whatever order the map of places is iterated, and whichever batch
\* the child was started for.
THEOREM AnswersAreRight == Spec => SpansAreWhatTransactionsShow
<1>1. ASSUME IInv, [Next]_vars, NEW c \in Customers,
             answer[c] # answer'[c], answer'[c] # NoAnswer
      PROVE  Judged(RequestOf(c), answer'[c])
  <2>1. CASE \E p \in Parents : Begin(p) \/ Collect(p) \/ Finish(p)
    BY <1>1, <2>1 DEF Begin, Collect, Finish, children
  <2>2. CASE \E p \in Parents : \E i \in DOMAIN requests[p] : StartChild(p, i)
    BY <1>1, <2>2 DEF StartChild
  <2>3. CASE \E d \in Customers : FailChild(d)
    BY <1>1, <2>3 DEF FailChild
  <2>4. CASE UNCHANGED vars
    BY <1>1, <2>4 DEF vars, children
  <2>5. ASSUME NEW d \in Customers, CompleteChild(d) PROVE Judged(RequestOf(c), answer'[c])
    <3>1. d = c
      BY <1>1, <2>5 DEF CompleteChild, IInv, Shape
    <3>2. QED
      BY <1>1, <2>5, <3>1, ChildIsRight
  <2>6. QED
    BY <1>1, <2>1, <2>2, <2>3, <2>4, <2>5 DEF Next, Proceed
<1>2. IInv /\ [Next]_vars =>
        [\A c \in Customers : answer[c] # answer'[c] /\ answer'[c] # NoAnswer =>
           Judged(RequestOf(c), answer'[c])]_vars
  BY <1>1
<1>3. QED
  BY <1>2, Invariance, PTL DEF Spec, SpansAreWhatTransactionsShow
================================================================================
