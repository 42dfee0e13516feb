------------------------------ MODULE Orchestrator -----------------------------
(***************************************************************************)
(* Micro-workflow processing of one query: OperatorOrchestratorWorkflow    *)
(* starts a child workflow for every operation and event partition, waits  *)
(* for them one after the other with a timer for each, counts progress     *)
(* from the signals the children send, and assembles the answer.           *)
(*                                                                         *)
(* A child is named <<k, p>>: operation k of the request on partition p.   *)
(* Time is counted in units of which the code's 10 and 15 minutes are      *)
(* multiples.  A query's operations, events and flags are its request; the *)
(* events matter by their number only.                                     *)
(***************************************************************************)
EXTENDS Naturals, Sequences, FiniteSets

CONSTANTS
  Requests,             \* the orchestrator requests considered
  PartitionSize,        \* DefaultPartitionSize (5000 in the code)
  ChildTimeout,         \* a child's WorkflowExecutionTimeout (10 minutes)
  OperatorTimeout,      \* operatorTimeout, for each wait (10 minutes)
  OrchestratorTimeout   \* the orchestrator's WorkflowExecutionTimeout (15)

ASSUME OrchestratorAssumption ==
  /\ \A r \in Requests :
       /\ r.operations \in Seq([id : STRING, op : STRING])
       /\ r.events \in Nat
       /\ r.partitionEvents \in BOOLEAN /\ r.streamResults \in BOOLEAN
  /\ PartitionSize \in Nat \ {0}
  /\ ChildTimeout \in Nat /\ OperatorTimeout \in Nat /\ OrchestratorTimeout \in Nat

VARIABLES
  request,     \* the OrchestratorRequest; fixed
  prompt,      \* the worker runs the orchestrator without delay; fixed
  pc,          \* "launch", "wait", "panicked", "done" or "timedOut"
  clock,       \* time since the orchestrator was started
  launchedAt,  \* when it started its children
  child,       \* per child: its workflow's state
  focus,       \* the future the wait loop is selecting on
  armedAt,     \* when the timer of this wait was created
  results,     \* state.Results: per awaited child, its OperatorResult
  completed,   \* state.CompletedOperators
  failed,      \* state.FailedOperators
  progress,    \* ProgressPercent of the latest signal, as a fraction
  signals,     \* signals sent to the orchestrator and not yet handled
  streamed,    \* state.StreamingEvents, the orchestrator's last one excepted
  sources      \* the awaited children whose result became the answer

vars == <<request, prompt, pc, clock, launchedAt, child, focus, armedAt, results,
          completed, failed, progress, signals, streamed, sources>>

--------------------------------------------------------------------------------
(* The request.                                                            *)

Operations == 1 .. Len(request.operations)

\* partitionEvents, as far as the number of partitions goes; without
\* partitioning there is one, however large.
PartitionCount ==
  IF request.partitionEvents /\ request.events > PartitionSize
    THEN (request.events + PartitionSize - 1) \div PartitionSize
    ELSE 1

Children == Operations \X (0 .. PartitionCount - 1)

\* An operation without an ID is given one made of its name and workflow.Now,
\* which does not move while the children are being started.
OperatorID(k) ==
  IF request.operations[k].id = "" THEN <<"at-launch", request.operations[k].op>>
                                   ELSE <<"given", request.operations[k].id>>

Named == {"LatestEventToState", "HasExisted", "DurationWhere"}
WorkflowName(k) ==
  IF request.operations[k].op \in Named THEN request.operations[k].op
                                        ELSE "LatestEventToState"
WorkflowID(c) == <<WorkflowName(c[1]), OperatorID(c[1]), c[2]>>

\* The wait loop's futures: a later operation with the same ID takes the place
\* of an earlier one in operatorFutures.
Awaited ==
  {c \in Children :
     \A k \in Operations : k > c[1] => OperatorID(k) # OperatorID(c[1])}

\* Only LatestEventToStateWorkflow signals the orchestrator.
Reports(c) == WorkflowName(c[1]) = "LatestEventToState"

NoChild == <<0, 0>>
ChildState == {"unstarted", "scheduled", "running", "ok", "failed"}
Closed(c) == child[c] \in {"ok", "failed"}

Init ==
  /\ request \in Requests
  /\ prompt \in BOOLEAN
  /\ pc = "launch"
  /\ clock = 0
  /\ launchedAt = 0
  /\ child = [c \in Children |-> "unstarted"]
  /\ focus = NoChild
  /\ armedAt = 0
  /\ results = [c \in Awaited |-> "open"]
  /\ completed = 0
  /\ failed = 0
  /\ progress = <<0, 1>>
  /\ signals = {}
  /\ streamed = {}
  /\ sources = {}

--------------------------------------------------------------------------------
(* The orchestrator.                                                       *)

\* Mutant of NextFocus: the loop ends with the first success.
NextFocusUntilSuccess(rs) ==
  LET open == {c \in DOMAIN rs : rs[c] = "open"}
  IN  IF open = {} \/ \E c \in DOMAIN rs : rs[c] = "ok" THEN {NoChild} ELSE open

\* Where the wait loop goes next: through the operators in any order (it ranges
\* over a Go map), through the partitions of each in theirs.
NextFocus(rs) ==
  LET open   == {c \in DOMAIN rs : rs[c] = "open"}
      begun  == {c \in open : \E d \in DOMAIN rs : d[1] = c[1] /\ rs[d] # "open"}
      within == IF begun = {} THEN open ELSE begun
  IN  IF open = {} THEN {NoChild}
      ELSE {c \in within : \A d \in within : d[1] = c[1] => c[2] <= d[2]}

\* ExecuteChildWorkflow for all: a workflow ID that is already in use fails the
\* later child at once.
LaunchChildren ==
  child' = [c \in Children |->
              IF \E d \in Children : d[1] < c[1] /\ WorkflowID(d) = WorkflowID(c)
                THEN "failed" ELSE "scheduled"]

\* The first workflow task: start the children, and the goroutine that handles
\* signals, and select on a first future.
Launch ==
  /\ pc = "launch"
  /\ pc' = "wait"
  /\ LaunchChildren
  /\ launchedAt' = clock
  /\ focus' \in NextFocus(results)
  /\ armedAt' = clock
  /\ UNCHANGED <<request, prompt, clock, results, completed, failed, progress, signals,
                 streamed, sources>>

\* Mutant of Settle: the wait loop counts whatever streaming does.
SettleAndCount(r) ==
  /\ results' = [results EXCEPT ![focus] = r]
  /\ completed' = completed + (IF r = "ok" THEN 1 ELSE 0)
  /\ failed' = failed + (IF r = "ok" THEN 0 ELSE 1)
  /\ focus' \in NextFocus(results')
  /\ armedAt' = clock
  /\ UNCHANGED <<request, prompt, pc, clock, launchedAt, child, progress, signals, sources>>

\* The selected callback stores the result, and counts it when nothing streams;
\* the loop goes on to its next future and makes a new timer for it.
Settle(r) ==
  /\ results' = [results EXCEPT ![focus] = r]
  /\ IF request.streamResults
       THEN UNCHANGED <<completed, failed>>
       ELSE /\ completed' = completed + (IF r = "ok" THEN 1 ELSE 0)
            /\ failed' = failed + (IF r = "ok" THEN 0 ELSE 1)
  /\ focus' \in NextFocus(results')
  /\ armedAt' = clock
  /\ UNCHANGED <<request, prompt, pc, clock, launchedAt, child, progress, signals, sources>>

\* Mutants of CollectResult: any child that has closed is taken for a success;
\* only a child that succeeded makes its future ready.
CollectSuccess ==
  /\ pc = "wait"
  /\ focus # NoChild
  /\ child[focus] = "ok"
  /\ Settle("ok")
  /\ UNCHANGED streamed
CollectAnyResult ==
  /\ pc = "wait"
  /\ focus # NoChild
  /\ Closed(focus)
  /\ Settle("ok")
  /\ UNCHANGED streamed

\* The future is ready.  A child that failed returned an OperatorResult whose
\* Error does not survive JSON, so that Get fails for it as for a child that
\* timed out or was never started.
CollectResult ==
  /\ pc = "wait"
  /\ focus # NoChild
  /\ Closed(focus)
  /\ Settle(child[focus])
  /\ UNCHANGED streamed

\* Mutant of TimeOutOperator: one timer, made with the orchestrator.
TimeOutSinceStart ==
  /\ pc = "wait"
  /\ focus # NoChild
  /\ ~Closed(focus)
  /\ clock >= OperatorTimeout
  /\ Settle("timeout")
  /\ streamed' = IF request.streamResults
                   THEN streamed \union {<<focus, "timeout">>} ELSE streamed

\* The timer is ready and the future, which the selector looks at first, is not.
TimeOutOperator ==
  /\ pc = "wait"
  /\ focus # NoChild
  /\ ~Closed(focus)
  /\ clock >= armedAt + OperatorTimeout
  /\ Settle("timeout")
  /\ streamed' = IF request.streamResults
                   THEN streamed \union {<<focus, "timeout">>} ELSE streamed

\* The streaming goroutine, on one partial-result signal; signals that children
\* send at about the same time may arrive in any order.
HandleSignal(s) ==
  /\ pc = "wait"
  /\ request.streamResults
  /\ s \in signals
  /\ signals' = signals \ {s}
  /\ progress' = <<completed + failed, Cardinality(Awaited)>>
  /\ streamed' = streamed \union {s}
  /\ completed' = completed + (IF s[2] = "completed" THEN 1 ELSE 0)
  /\ failed' = failed + (IF s[2] = "failed" THEN 1 ELSE 0)
  /\ UNCHANGED <<request, prompt, pc, clock, launchedAt, child, focus, armedAt, results,
                 sources>>

Successes == {c \in Awaited : results[c] = "ok"}

\* Mutant of AssembledFrom: a child whose future was replaced by that of a later
\* operation of the same ID may give the answer.
AssembledFromAnyChild ==
  LET finished == {c \in Children : child[c] = "ok"}
  IN  IF finished = {} THEN {{}} ELSE {{c} : c \in finished}

\* assembleOperatorResults, the children it may take the answer from: partition
\* 0 of the last operation if it succeeded and was given an ID, else whichever
\* success the results map yields first; nil ({}) when all failed.
AssembledFrom ==
  LET preferred == <<Len(request.operations), 0>> IN
  CASE Successes = {} -> {{}}
    [] preferred \in Successes /\ request.operations[preferred[1]].id # "" ->
         {{preferred}}
    [] OTHER -> {{c} : c \in Successes}

\* After the loop.  With no results at all, assembleOperatorResults returns a
\* QueryResult without Metadata, and writing to that nil map panics: Temporal
\* fails the workflow task and tries it again, to the same end.  Children that
\* are still running are terminated with their parent.
Finish ==
  /\ pc = "wait"
  /\ focus = NoChild
  /\ IF Awaited = {}
       THEN /\ pc' = "panicked"
            /\ UNCHANGED <<child, sources>>
       ELSE /\ pc' = "done"
            /\ sources' \in AssembledFrom
            /\ child' = [c \in Children |-> IF Closed(c) THEN child[c] ELSE "failed"]
  /\ UNCHANGED <<request, prompt, clock, launchedAt, focus, armedAt, results, completed,
                 failed, progress, signals, streamed>>

--------------------------------------------------------------------------------
(* The children.                                                           *)

ParentOpen == pc \in {"wait", "panicked"}

\* A worker picks the child up; it signals its start, and runs its activity.
StartChild(c) ==
  /\ ParentOpen
  /\ child[c] = "scheduled"
  /\ child' = [child EXCEPT ![c] = "running"]
  /\ signals' = IF Reports(c) THEN signals \union {<<c, "started">>} ELSE signals
  /\ UNCHANGED <<request, prompt, pc, clock, launchedAt, focus, armedAt, results,
                 completed, failed, progress, streamed, sources>>

\* The activity has succeeded, or failed for good; the child signals that and
\* completes without waiting for the signal, which is then sent or lost: the
\* server drops what a closed workflow still had to send.
CloseChild(c, r) ==
  /\ ParentOpen
  /\ child[c] = "running"
  /\ child' = [child EXCEPT ![c] = r]
  /\ \/ UNCHANGED signals
     \/ /\ Reports(c)
        /\ signals' = signals \union
             {<<c, IF r = "ok" THEN "completed" ELSE "failed">>}
  /\ UNCHANGED <<request, prompt, pc, clock, launchedAt, focus, armedAt, results,
                 completed, failed, progress, streamed, sources>>

\* Workflow IDs are the operators' IDs, not the query's: the server refuses to
\* start a child while another query runs one of the same ID.
RefuseChild(c) ==
  /\ ParentOpen
  /\ child[c] = "scheduled"
  /\ child' = [child EXCEPT ![c] = "failed"]
  /\ UNCHANGED <<request, prompt, pc, clock, launchedAt, focus, armedAt, results,
                 completed, failed, progress, signals, streamed, sources>>

\* Mutant of Overdue: only a child some worker has picked up times out.
OverdueOnceRunning(c) ==
  /\ ParentOpen
  /\ child[c] = "running"
  /\ clock >= launchedAt + ChildTimeout

\* A child's WorkflowExecutionTimeout counts from its start, its wait for a
\* worker included.
Overdue(c) ==
  /\ ParentOpen
  /\ child[c] \in {"scheduled", "running"}
  /\ clock >= launchedAt + ChildTimeout

TimeOutChild(c) ==
  /\ Overdue(c)
  /\ child' = [child EXCEPT ![c] = "failed"]
  /\ UNCHANGED <<request, prompt, pc, clock, launchedAt, focus, armedAt, results,
                 completed, failed, progress, signals, streamed, sources>>

--------------------------------------------------------------------------------
(* Time.                                                                   *)

\* The orchestrator has a workflow task to run.
OrchestratorReady ==
  \/ pc = "launch"
  \/ /\ pc = "wait"
     /\ focus = NoChild \/ Closed(focus) \/ clock >= armedAt + OperatorTimeout

\* The server's timers are on time; the orchestrator is if it is prompt.
Tick ==
  /\ pc \in {"launch", "wait", "panicked"}
  /\ clock < OrchestratorTimeout
  /\ \A c \in Children : ~Overdue(c)
  /\ prompt => ~OrchestratorReady
  /\ clock' = clock + 1
  /\ UNCHANGED <<request, prompt, pc, launchedAt, child, focus, armedAt, results,
                 completed, failed, progress, signals, streamed, sources>>

\* ProcessEventsWithMicroWorkflows sees its child time out, and the query fails.
\* (The retry policy does not apply: the timeout spans all attempts.)
TimeOutOrchestrator ==
  /\ pc \in {"launch", "wait", "panicked"}
  /\ clock = OrchestratorTimeout
  /\ prompt => ~OrchestratorReady
  /\ pc' = "timedOut"
  /\ UNCHANGED <<request, prompt, clock, launchedAt, child, focus, armedAt, results,
                 completed, failed, progress, signals, streamed, sources>>

Next ==
  \/ Launch \/ CollectResult \/ TimeOutOperator \/ Finish
  \/ \E s \in signals : HandleSignal(s)
  \/ \E c \in Children : \/ StartChild(c)
                         \/ RefuseChild(c)
                         \/ \E r \in {"ok", "failed"} : CloseChild(c, r)
                         \/ TimeOutChild(c)
  \/ Tick \/ TimeOutOrchestrator

Spec == Init /\ [][Next]_vars

\* Temporal's timers fire and its workers run the orchestrator; nothing is
\* assumed of the workers that run the children.
FairSpec ==
  /\ Spec
  /\ WF_vars(Launch \/ CollectResult \/ TimeOutOperator \/ Finish)
  /\ WF_vars(Tick \/ TimeOutOrchestrator)
  /\ WF_vars(\E c \in Children : TimeOutChild(c))

--------------------------------------------------------------------------------
(* Properties.                                                             *)

Outcome == {"open", "ok", "failed", "timeout"}
Signal == Children \X {"started", "completed", "failed"}

TypeOK ==
  /\ request \in Requests
  /\ prompt \in BOOLEAN
  /\ pc \in {"launch", "wait", "panicked", "done", "timedOut"}
  /\ clock \in 0 .. OrchestratorTimeout
  /\ launchedAt \in 0 .. OrchestratorTimeout
  /\ child \in [Children -> ChildState]
  /\ focus \in Awaited \union {NoChild}
  /\ armedAt \in 0 .. OrchestratorTimeout
  /\ results \in [Awaited -> Outcome]
  /\ completed \in Nat /\ failed \in Nat
  /\ progress \in Nat \X Nat
  /\ signals \subseteq Signal
  /\ streamed \subseteq Signal \union (Children \X {"timeout"})
  /\ sources \subseteq Awaited

Having(f, v) == {c \in DOMAIN f : f[c] = v}

\* The answer is the result of a child that really succeeded; it is nil only if
\* every awaited child failed, or was still running when its timer fired.
AnswerIsReal ==
  pc = "done" =>
    /\ \A c \in sources : child[c] = "ok"
    /\ sources = {} =>
         \A c \in Awaited : child[c] = "failed" \/ results[c] = "timeout"

\* Without streaming the counters are exactly the settled results; with it, where
\* only signals count, they never run ahead of what the children did, and progress
\* never exceeds 100 %: whatever IDs the operations share and in which order signals
\* arrive, each awaited future has at most one child that signals an outcome.
\* (streaming_test.go: "Progress should not exceed 100%".)
CountersAreTruthful ==
  /\ progress[1] <= progress[2]
  /\ IF request.streamResults
     THEN /\ completed <= Cardinality(Having(child, "ok"))
          /\ failed <= Cardinality(Having(child, "failed"))
     ELSE /\ completed = Cardinality(Having(results, "ok"))
          /\ failed = Cardinality(Having(results, "failed"))
                        + Cardinality(Having(results, "timeout"))

\* The wait loop's timer never cuts a child off before the child's own timeout
\* does, however late the orchestrator launched it.
TimerNeverCutsShort ==
  [][\A c \in Awaited :
       results[c] = "open" /\ results'[c] = "timeout"
         => clock >= launchedAt + ChildTimeout]_vars

\* Waiting for the operators one by one, each with a timer of its own, keeps
\* within the orchestrator's timeout however many there are, since the children
\* all time out together; so a prompt orchestrator with an operation to run
\* answers.
AnswersInTime ==
  prompt /\ request.operations # <<>> => pc # "timedOut"

\* A request is eventually answered or timed out, even if no child ever runs, and
\* even if the orchestrator's task panics over and over.
EventuallyAnswered == <>(pc \in {"done", "timedOut"})

\* The orchestrator implements FanOut over the awaited children.
Parts == INSTANCE FanOut
           WITH outcome <- [c \in DOMAIN results |->
                              IF results[c] = "timeout" THEN "failed" ELSE results[c]],
                status  <- CASE pc = "done"     -> "answered"
                             [] pc = "timedOut" -> "aborted"
                             [] OTHER           -> "open",
                sources <- sources
ImplementsFanOut == Parts!Spec

================================================================================
