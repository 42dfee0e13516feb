------------------------------ MODULE FraudWorkflow -----------------------------
(***************************************************************************)
(* ProcessMultiCustomerFraudWorkflow: an execution gets a batch of         *)
(* requests, starts a child CreditCardFraudWorkflow for each, and collects *)
(* their results in the batch's order.  A child's workflow ID is its       *)
(* customer's, and the reuse policy rejects an ID that is or was in use,   *)
(* so that executions meet in the children's IDs.                          *)
(***************************************************************************)
EXTENDS FraudDetection

CONSTANTS
  Parents,           \* executions of the multi-customer workflow
  Customers,
  Batches,           \* for each of Parents, the batches it may be started with
  DefaultWindow,     \* DefaultFraudDetectionWindow, 30 minutes
  MaximumAttempts,   \* of a child, 3 in the code
  Horizon            \* bound: no span of these transactions ends after it

ASSUME FraudWorkflowAssumption ==
  /\ DefaultWindow \in Nat \ {0} /\ MaximumAttempts \in Nat \ {0} /\ Horizon \in Nat
  /\ \A p \in Parents : \A batch \in Batches[p] :
       /\ batch \in Seq(Range(batch))
       /\ \A i \in DOMAIN batch : batch[i].CustomerID \in Customers

\* Transactions have a time, and a place with coordinates.
ASSUME TransactionsAssumption ==
  \A p \in Parents : \A batch \in Batches[p] : \A i \in DOMAIN batch :
    /\ batch[i].Window \in Int
    /\ batch[i].Events \in Seq(ToSet(batch[i].Events))
    /\ \A e \in ToSet(batch[i].Events) : e.Timestamp \in Int /\ e.Value.At \in DOMAIN Distance

VARIABLES
  status,     \* of each parent: "idle", "running" or "done"
  requests,   \* its batch
  future,     \* per request: "scheduled", "started", "completed" or "failed"
  next,       \* the request whose future it waits for
  results,    \* what it collected
  execution,  \* per customer, the child with that ID: its state and failed attempts
  owner,      \* per customer: the request that child was started for
  answer      \* per customer: that child's CreditCardFraudResult

parents == <<status, requests, future, next, results>>
children == <<execution, owner, answer>>
vars == <<parents, children>>

Nobody == <<>>
NoAnswer == [CustomerID |-> Nobody]

Init ==
  /\ status = [p \in Parents |-> "idle"]
  /\ requests = [p \in Parents |-> <<>>]
  /\ future = [p \in Parents |-> <<>>]
  /\ next = [p \in Parents |-> 1]
  /\ results = [p \in Parents |-> <<>>]
  /\ execution = [c \in Customers |-> [state |-> "none", failures |-> 0]]
  /\ owner = [c \in Customers |-> Nobody]
  /\ answer = [c \in Customers |-> NoAnswer]

--------------------------------------------------------------------------------
(* The detection in a child.                                               *)

Window(request) == IF request.Window = 0 THEN DefaultWindow ELSE request.Window

\* Mutant of RequestOf: every child of a batch is given the same request.
FirstRequestOf(customer) == requests[owner[customer][1]][1]

\* The request that the child with the customer's ID was started for.
RequestOf(customer) == requests[owner[customer][1]][owner[customer][2]]

\* What a child found for its request.  Its answer keeps the order in which the map
\* of places was iterated, all else that decides this being in the request.
FraudIntervals(request, found) ==
  DetectCreditCardFraud(request.Events, Window(request), found.locationKeys)

--------------------------------------------------------------------------------
(* The parent.                                                             *)

\* Every child is scheduled before any is waited for.
Begin(p) ==
  /\ status[p] = "idle"
  /\ \E batch \in Batches[p] :
       /\ requests' = [requests EXCEPT ![p] = batch]
       /\ future' = [future EXCEPT ![p] = [i \in DOMAIN batch |-> "scheduled"]]
  /\ status' = [status EXCEPT ![p] = "running"]
  /\ UNCHANGED <<next, results, children>>

\* Mutants of Collect: the first failure ends the batch; a failed child is waited for.
CollectOrAbort(p) ==
  /\ status[p] = "running" /\ next[p] <= Len(requests[p])
  /\ \/ /\ future[p][next[p]] = "completed"
        /\ results' = [results EXCEPT ![p] = Append(@, answer[requests[p][next[p]].CustomerID])]
        /\ next' = [next EXCEPT ![p] = @ + 1]
     \/ /\ future[p][next[p]] = "failed"
        /\ next' = [next EXCEPT ![p] = Len(requests[p]) + 1]
        /\ UNCHANGED results
  /\ UNCHANGED <<status, requests, future, children>>
CollectCompleted(p) ==
  /\ status[p] = "running" /\ next[p] <= Len(requests[p])
  /\ future[p][next[p]] = "completed"
  /\ results' = [results EXCEPT ![p] = Append(@, answer[requests[p][next[p]].CustomerID])]
  /\ next' = [next EXCEPT ![p] = @ + 1]
  /\ UNCHANGED <<status, requests, future, children>>

\* Get of the next future: a failure is logged and passed over.
Collect(p) ==
  /\ status[p] = "running" /\ next[p] <= Len(requests[p])
  /\ future[p][next[p]] \in {"completed", "failed"}
  /\ results' = IF future[p][next[p]] = "failed" THEN results
                ELSE [results EXCEPT ![p] = Append(@, answer[requests[p][next[p]].CustomerID])]
  /\ next' = [next EXCEPT ![p] = @ + 1]
  /\ UNCHANGED <<status, requests, future, children>>

Finish(p) ==
  /\ status[p] = "running" /\ next[p] > Len(requests[p])
  /\ status' = [status EXCEPT ![p] = "done"]
  /\ UNCHANGED <<requests, future, next, results, children>>

--------------------------------------------------------------------------------
(* The children.                                                           *)

\* The server starts the children of a batch in any order, and refuses an ID that
\* is or was in use.
StartChild(p, i) ==
  LET customer == requests[p][i].CustomerID
  IN  /\ future[p][i] = "scheduled"
      /\ IF execution[customer].state = "none"
         THEN /\ execution' = [execution EXCEPT ![customer].state = "running"]
              /\ owner' = [owner EXCEPT ![customer] = <<p, i>>]
              /\ future' = [future EXCEPT ![p][i] = "started"]
         ELSE future' = [future EXCEPT ![p][i] = "failed"] /\ UNCHANGED <<execution, owner>>
      /\ UNCHANGED <<status, requests, next, results, answer>>

Close(customer, state) ==
  /\ execution' = [execution EXCEPT ![customer].state = state]
  /\ future' = [future EXCEPT ![owner[customer][1]][owner[customer][2]] = state]

\* CreditCardFraudWorkflow over transactions.
CompleteChild(customer) ==
  /\ execution[customer].state = "running"
  /\ RequestOf(customer).Events # <<>>
  /\ \E locationKeys \in SetToSeqs(Keys(RequestOf(customer).Events)) :
       answer' = [answer EXCEPT ![customer] =
         [CustomerID |-> customer, locationKeys |-> locationKeys,
          ProcessedEvents |-> Len(RequestOf(customer).Events)]]
  /\ Close(customer, "completed")
  /\ UNCHANGED <<status, requests, next, results, owner>>

\* Without transactions it fails; Temporal starts it again until its attempts are
\* used up.
FailChild(customer) ==
  /\ execution[customer].state = "running"
  /\ RequestOf(customer).Events = <<>>
  /\ IF execution[customer].failures + 1 < MaximumAttempts
     THEN execution' = [execution EXCEPT ![customer].failures = @ + 1] /\ UNCHANGED future
     ELSE Close(customer, "failed")
  /\ UNCHANGED <<status, requests, next, results, owner, answer>>

\* What the workflows and the server do of themselves.
Proceed ==
  \/ \E p \in Parents :
       \/ Collect(p) \/ Finish(p)
       \/ \E i \in DOMAIN requests[p] : StartChild(p, i)
  \/ \E c \in Customers : CompleteChild(c) \/ FailChild(c)

Next == Proceed \/ \E p \in Parents : Begin(p)

Spec == Init /\ [][Next]_vars

\* Workflow tasks are run again until they succeed, and the server acts on every
\* command: something happens as long as something can.  Whether a batch is begun
\* is up to its caller.
FairSpec == Spec /\ WF_vars(Proceed)

--------------------------------------------------------------------------------
(* Properties.                                                             *)

\* The answer a request is meant to get.
Judged(request, found) ==
  LET spans == FraudIntervals(request, found)
      window == IF request.Window # 0 THEN request.Window ELSE DefaultWindow
  IN  /\ found.CustomerID = request.CustomerID
      /\ found.ProcessedEvents = Len(request.Events)
      /\ {t \in 0 .. Horizon : \E i \in DOMAIN spans :
            spans[i].Start <= t /\ t < spans[i].End}
         = FraudPoints(request.Events, window, 0 .. Horizon)
      /\ \A i \in 1 .. Len(spans) - 1 : spans[i].End < spans[i + 1].Start

\* A child that completes tells exactly the units of time its customer's own
\* transactions show, as spans in order that do not touch, whatever order the map
\* was iterated in and whichever batch the child was started for.
SpansAreWhatTransactionsShow ==
  [][\A c \in Customers :
       answer[c] # answer'[c] /\ answer'[c] # NoAnswer =>
         Judged(RequestOf(c), answer'[c])]_vars

\* The requests of a batch whose answers its parent has collected.
Answered(p) == {i \in 1 .. next[p] - 1 : future[p][i] = "completed"}

\* What a child may answer a request: the customer that it names, its number of
\* transactions and their places.
AnswersTo(request) ==
  {[CustomerID |-> request.CustomerID, locationKeys |-> locationKeys,
    ProcessedEvents |-> Len(request.Events)] :
      locationKeys \in SetToSeqs(Keys(request.Events))}

\* AGENT.md, "Isolation: Each customer's data is processed independently": in
\* whatever order the children of several batches start, are refused, end and are
\* waited for, what a parent has collected are, one for one and in its batch's order,
\* answers to those of its requests that were answered, made of that request's
\* transactions and of no other's.
ResultsStayWithTheirRequests ==
  \A p \in Parents :
    /\ Len(results[p]) = Cardinality(Answered(p))
    /\ \A i \in Answered(p) :
         results[p][Cardinality({j \in Answered(p) : j <= i})] \in AnswersTo(requests[p][i])

\* AGENT.md, "Resilience: Failure in one customer's workflow doesn't affect others":
\* when a batch is done, a request lacks its result only if it has no transactions
\* or if another request for its customer took the ID, and every other has it.
OnlyRefusedAreMissing ==
  \A p \in Parents : status[p] = "done" => \A i \in DOMAIN requests[p] :
    LET request == requests[p][i]
        Taken == owner[request.CustomerID] \notin {Nobody, <<p, i>>}
    IN  (\E n \in DOMAIN results[p] :
           /\ results[p][n].CustomerID = request.CustomerID
           /\ owner[request.CustomerID] = <<p, i>>)
        <=> request.Events # <<>> /\ ~Taken

\* Every batch that was begun ends, whatever becomes of its children.
BatchesEnd == \A p \in Parents : status[p] = "running" ~> status[p] = "done"
================================================================================
