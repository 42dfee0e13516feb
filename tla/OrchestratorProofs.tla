--------------------------- MODULE OrchestratorProofs --------------------------
(***************************************************************************)
(* Proofs about Orchestrator, for every request, partition size and (but   *)
(* where an assumption says how they compare) every timeout.               *)
(*                                                                         *)
(* The inductive invariant has three layers.  Core says how the wait loop's*)
(* results follow the children, how the clock runs, and what an answer is  *)
(* made of.  SignalInv says what a signal, sent or handled, tells of its   *)
(* child.  CountInv reads the counters off the results or the signals.     *)
(***************************************************************************)
EXTENDS Orchestrator, Lemmas, FiniteSetTheorems, TLAPS

\* The phases after the children were launched, and the orchestrator not closed
\* from outside.
Launched == pc \in {"wait", "panicked", "done"}

\* Children exist exactly once the first workflow task is over.
StartInv ==
  /\ pc = "launch" => /\ child = [c \in Children |-> "unstarted"]
                      /\ results = [c \in Awaited |-> "open"]
                      /\ signals = {} /\ streamed = {}
  /\ Launched => \A c \in Children : child[c] # "unstarted"

\* A result other than a timeout is its child's; the loop has a focus as long as
\* a result is open.
WaitInv ==
  /\ \A c \in Awaited : results[c] \in {"ok", "failed"} => child[c] = results[c]
  /\ Launched /\ focus = NoChild => \A c \in Awaited : results[c] # "open"
  /\ Launched /\ focus # NoChild => focus \in Awaited /\ results[focus] = "open"
  /\ pc \in {"panicked", "done"} => focus = NoChild
  /\ pc = "panicked" => Awaited = {}

AnswerInv ==
  /\ pc = "done" => /\ sources \subseteq Successes
                    /\ sources = {} => Successes = {}
  /\ pc # "done" => sources = {}

\* No child outlives its timeout, which counts from the launch; a prompt
\* orchestrator launches at once.
TimeInv ==
  /\ launchedAt <= armedAt /\ armedAt <= clock
  /\ ParentOpen => \A c \in Children :
       child[c] \in {"scheduled", "running"} => clock <= launchedAt + ChildTimeout
  /\ prompt => launchedAt = 0 /\ (pc = "launch" => clock = 0)

Core == TypeOK /\ StartInv /\ WaitInv /\ AnswerInv /\ TimeInv

--------------------------------------------------------------------------------
(* The request, and what is computed from it.                              *)

\* A query has at least one partition.
LEMMA PartitionCountType ==
  ASSUME request \in Requests
  PROVE  PartitionCount \in Nat \ {0}
<1>1. CASE request.partitionEvents /\ request.events > PartitionSize
  <2> DEFINE m == request.events + PartitionSize - 1
  <2>1. m \in Nat /\ PartitionSize \in Nat /\ PartitionSize > 0 /\ m >= PartitionSize
    BY <1>1, OrchestratorAssumption
  <2>2. m \div PartitionSize \in Nat /\ m < PartitionSize * (m \div PartitionSize) + PartitionSize
    BY <2>1, DivBounds
  <2>3. m \div PartitionSize # 0
    BY <2>1, <2>2
  <2>4. QED
    BY <1>1, <2>2, <2>3 DEF PartitionCount
<1>2. CASE ~(request.partitionEvents /\ request.events > PartitionSize)
  BY <1>2 DEF PartitionCount
<1>3. QED
  BY <1>1, <1>2

\* There are finitely many children, and NoChild is not one of them.
LEMMA ChildrenFacts ==
  ASSUME request \in Requests
  PROVE  /\ Len(request.operations) \in Nat
         /\ Operations \subseteq Nat \ {0}
         /\ IsFiniteSet(Children) /\ IsFiniteSet(Awaited)
         /\ Awaited \subseteq Children
         /\ NoChild \notin Children
<1>1. Len(request.operations) \in Nat /\ Operations \subseteq Nat \ {0}
  BY OrchestratorAssumption DEF Operations
<1>2. IsFiniteSet(Operations)
  BY <1>1, FS_Interval DEF Operations
<1>3. IsFiniteSet(0 .. PartitionCount - 1)
  BY PartitionCountType, FS_Interval
<1>4. IsFiniteSet(Children)
  BY <1>2, <1>3, FS_Product DEF Children
<1>5. Awaited \subseteq Children
  BY DEF Awaited
<1>6. IsFiniteSet(Awaited)
  BY <1>4, <1>5, FS_Subset
<1>7. NoChild \notin Children
  BY <1>1 DEF NoChild, Children
<1>8. QED
  BY <1>1, <1>4, <1>5, <1>6, <1>7

\* The request does not change, nor does what is computed from it.
LEMMA SameRequest ==
  ASSUME UNCHANGED request
  PROVE  /\ Children' = Children /\ Awaited' = Awaited
         /\ Operations' = Operations
         /\ \A c : Reports(c)' = Reports(c)
         /\ \A c : WorkflowID(c)' = WorkflowID(c)
BY DEF Children, Awaited, Operations, PartitionCount, OperatorID, Reports,
       WorkflowName, WorkflowID

\* The wait loop goes on with an open result, and stops when there is none.
LEMMA NextFocusIsOpen ==
  ASSUME request \in Requests, NEW rs \in [Awaited -> Outcome],
         NEW f \in NextFocus(rs)
  PROVE  \/ f = NoChild /\ \A c \in Awaited : rs[c] # "open"
         \/ f # NoChild /\ f \in Awaited /\ rs[f] = "open"
<1> DEFINE open == {c \in DOMAIN rs : rs[c] = "open"}
<1>1. CASE open = {}
  BY <1>1 DEF NextFocus
<1>2. CASE open # {}
  <2>1. f \in open
    BY <1>2 DEF NextFocus
  <2>2. QED
    BY <2>1, ChildrenFacts
<1>3. QED
  BY <1>1, <1>2

--------------------------------------------------------------------------------
(* The wait loop, the clock and the answer.                                *)

\* A query starts without children, results or timers.
LEMMA InitCore == Init => Core
<1> SUFFICES ASSUME Init PROVE Core
  OBVIOUS
<1> USE OrchestratorAssumption DEF Init
<1>1. TypeOK
  BY DEF TypeOK, ChildState, Outcome
<1>2. StartInv /\ WaitInv
  BY DEF StartInv, WaitInv, Launched
<1>3. AnswerInv /\ TimeInv
  BY DEF AnswerInv, TimeInv, ParentOpen
<1>4. QED
  BY <1>1, <1>2, <1>3 DEF Core

\* The first task starts each child whose ID is free, and the rest fail at once.
LEMMA LaunchCore == ASSUME Core, Launch PROVE Core'
<1> USE OrchestratorAssumption DEF Core, Launch
<1>1. request \in Requests /\ Children' = Children /\ Awaited' = Awaited
  BY SameRequest DEF TypeOK
<1>2. /\ child' \in [Children -> {"failed", "scheduled"}]
      /\ \A c \in Awaited : results[c] = "open"
  BY DEF LaunchChildren, StartInv
<1>3. \/ focus' = NoChild /\ \A c \in Awaited : results[c] # "open"
      \/ focus' # NoChild /\ focus' \in Awaited /\ results[focus'] = "open"
  BY <1>1, NextFocusIsOpen DEF TypeOK
<1>4. TypeOK'
  BY <1>1, <1>2, <1>3 DEF TypeOK, ChildState, Signal
<1>5. StartInv'
  BY <1>1, <1>2 DEF StartInv, Launched
<1>6. WaitInv'
  BY <1>1, <1>2, <1>3 DEF WaitInv, Launched
<1>7. AnswerInv' /\ TimeInv'
  BY <1>1 DEF AnswerInv, TimeInv, ParentOpen, TypeOK
<1>8. QED
  BY <1>4, <1>5, <1>6, <1>7

\* Settling takes the focus's result: its child's, or a timeout.
LEMMA SettleCore ==
  ASSUME Core, pc = "wait", focus # NoChild,
         NEW r \in {"ok", "failed", "timeout"}, r # "timeout" => child[focus] = r,
         Settle(r),
         streamed' \in {streamed, streamed \union {<<focus, "timeout">>}}
  PROVE  Core'
<1> USE OrchestratorAssumption DEF Core, Settle
<1>1. /\ request \in Requests
      /\ Children' = Children /\ Awaited' = Awaited
      /\ Awaited \subseteq Children /\ focus \in Awaited
  BY SameRequest, ChildrenFacts DEF TypeOK
<1>2. /\ results' \in [Awaited -> Outcome]
      /\ results'[focus] = r
      /\ \A c \in Awaited : c # focus => results'[c] = results[c]
  BY <1>1 DEF TypeOK, Outcome
<1>3. \/ focus' = NoChild /\ \A c \in Awaited : results'[c] # "open"
      \/ focus' # NoChild /\ focus' \in Awaited /\ results'[focus'] = "open"
  BY <1>1, <1>2, NextFocusIsOpen
<1>4. TypeOK'
  <2>1. completed' \in Nat /\ failed' \in Nat
    BY DEF TypeOK
  <2>2. streamed' \subseteq Signal' \union (Children' \X {"timeout"})
    BY <1>1 DEF TypeOK, Signal
  <2>3. signals' \subseteq Signal'
    BY <1>1 DEF TypeOK, Signal
  <2>4. focus' \in Awaited' \union {NoChild}
    BY <1>1, <1>3 DEF NoChild
  <2>5. QED
    BY <1>1, <1>2, <2>1, <2>2, <2>3, <2>4 DEF TypeOK
<1>5. StartInv'
  BY <1>1 DEF StartInv, Launched
<1>6. WaitInv'
  BY <1>1, <1>2, <1>3 DEF WaitInv, Launched, NoChild
<1>7. AnswerInv' /\ TimeInv'
  BY <1>1 DEF AnswerInv, TimeInv, ParentOpen, TypeOK
<1>8. QED
  BY <1>4, <1>5, <1>6, <1>7

\* A handled signal disturbs no result, wait or answer.
LEMMA SignalCore ==
  ASSUME Core, NEW s \in signals, HandleSignal(s)
  PROVE  Core'
<1> USE OrchestratorAssumption DEF Core, HandleSignal
<1>1. request \in Requests /\ Children' = Children /\ Awaited' = Awaited
  BY SameRequest DEF TypeOK
<1>2. progress' \in Nat \X Nat
  BY <1>1, ChildrenFacts, FS_CardinalityType DEF TypeOK
<1>3. completed' \in Nat /\ failed' \in Nat
  BY DEF TypeOK
<1>4. TypeOK'
  BY <1>1, <1>2, <1>3 DEF TypeOK, Signal
<1>5. StartInv' /\ WaitInv'
  BY <1>1 DEF StartInv, WaitInv, Launched, NoChild
<1>6. AnswerInv' /\ TimeInv'
  BY <1>1 DEF AnswerInv, TimeInv, ParentOpen, Successes
<1>7. QED
  BY <1>4, <1>5, <1>6

\* The answer is taken from successes, if there are any.
LEMMA FinishCore == ASSUME Core, Finish PROVE Core'
<1> USE OrchestratorAssumption DEF Core, Finish
<1>1. request \in Requests /\ Children' = Children /\ Awaited' = Awaited
  BY SameRequest DEF TypeOK
<1>2. CASE Awaited = {} /\ pc' = "panicked" /\ UNCHANGED <<child, sources>>
  <2>1. TypeOK'
    BY <1>1, <1>2 DEF TypeOK, Signal
  <2>2. StartInv' /\ WaitInv'
    BY <1>1, <1>2 DEF StartInv, WaitInv, Launched, NoChild
  <2>3. AnswerInv' /\ TimeInv'
    BY <1>1, <1>2 DEF AnswerInv, TimeInv, ParentOpen
  <2>4. QED
    BY <2>1, <2>2, <2>3
<1>3. CASE /\ pc' = "done" /\ sources' \in AssembledFrom
           /\ child' = [c \in Children |-> IF Closed(c) THEN child[c] ELSE "failed"]
  <2>1. /\ sources' \subseteq Successes
        /\ sources' = {} => Successes = {}
    BY <1>3 DEF AssembledFrom
  <2>2. Successes' = Successes /\ Successes \subseteq Awaited
    BY <1>1 DEF Successes
  <2>3. child' \in [Children -> {"ok", "failed"}]
    BY <1>3 DEF Closed
  <2>4. \A c \in Awaited : results[c] \in {"ok", "failed"} => child'[c] = child[c]
    BY <1>1, <1>3, ChildrenFacts DEF WaitInv, Closed
  <2>5. TypeOK'
    BY <1>1, <1>3, <2>1, <2>2, <2>3 DEF TypeOK, ChildState, Signal
  <2>6. StartInv'
    BY <1>1, <1>3, <2>3 DEF StartInv, Launched
  <2>7. WaitInv'
    BY <1>1, <1>3, <2>4 DEF WaitInv, Launched, NoChild
  <2>8. AnswerInv' /\ TimeInv'
    BY <1>3, <2>1, <2>2 DEF AnswerInv, TimeInv, ParentOpen
  <2>9. QED
    BY <2>5, <2>6, <2>7, <2>8
<1>4. QED
  BY <1>2, <1>3

\* What a child's step may do: pick a scheduled child up, or close an open one.
ChildMoves(c, to) ==
  /\ ParentOpen
  /\ child[c] \in {"scheduled", "running"}
  /\ child' = [child EXCEPT ![c] = to]
  /\ to = "running" => child[c] = "scheduled"
  /\ UNCHANGED <<request, prompt, pc, clock, launchedAt, focus, armedAt, results,
                 completed, failed, progress, streamed, sources>>

\* A child starts or ends, with the signals that it sends.
LEMMA ChildCore ==
  ASSUME Core, NEW c \in Children, NEW to \in {"running", "ok", "failed"},
         ChildMoves(c, to), signals' \subseteq Signal
  PROVE  Core'
<1> USE OrchestratorAssumption DEF Core, ChildMoves
<1>1. request \in Requests /\ Children' = Children /\ Awaited' = Awaited
  BY SameRequest DEF TypeOK
<1>2. /\ child' \in [Children -> ChildState]
      /\ child'[c] = to
      /\ \A d \in Children : d # c => child'[d] = child[d]
  BY DEF TypeOK, ChildState
<1>3. TypeOK'
  BY <1>1, <1>2 DEF TypeOK, Signal
<1>4. StartInv'
  BY <1>1, <1>2 DEF StartInv, Launched, ParentOpen
<1>5. WaitInv'
  BY <1>1, <1>2, ChildrenFacts DEF WaitInv, Launched, NoChild
<1>6. AnswerInv'
  BY <1>1 DEF AnswerInv, Successes
<1>7. TimeInv'
  BY <1>1, <1>2 DEF TimeInv, ParentOpen
<1>8. QED
  BY <1>3, <1>4, <1>5, <1>6, <1>7

\* The steps of children are such moves.
LEMMA ChildSteps ==
  ASSUME TypeOK, NEW c \in Children,
         StartChild(c) \/ RefuseChild(c) \/ TimeOutChild(c)
           \/ \E r \in {"ok", "failed"} : CloseChild(c, r)
  PROVE  \E to \in {"running", "ok", "failed"} :
           ChildMoves(c, to) /\ signals' \subseteq Signal
<1> USE DEF ChildMoves
<1>1. CASE StartChild(c)
  <2>1. <<c, "started">> \in Signal
    BY DEF Signal
  <2>2. ChildMoves(c, "running") /\ signals' \subseteq Signal
    BY <1>1, <2>1 DEF StartChild, TypeOK
  <2>3. QED
    BY <2>2
<1>2. CASE RefuseChild(c)
  <2>1. ChildMoves(c, "failed") /\ signals' \subseteq Signal
    BY <1>2 DEF RefuseChild, TypeOK
  <2>2. QED
    BY <2>1
<1>3. CASE TimeOutChild(c)
  <2>1. ChildMoves(c, "failed") /\ signals' \subseteq Signal
    BY <1>3 DEF TimeOutChild, Overdue, TypeOK
  <2>2. QED
    BY <2>1
<1>4. ASSUME NEW r \in {"ok", "failed"}, CloseChild(c, r)
      PROVE  ChildMoves(c, r) /\ signals' \subseteq Signal
  <2>1. <<c, "completed">> \in Signal /\ <<c, "failed">> \in Signal
    BY DEF Signal
  <2>2. QED
    BY <1>4, <2>1 DEF CloseChild, TypeOK
<1>5. QED
  BY <1>1, <1>2, <1>3, <1>4

\* Time does not pass while a child is overdue, nor while a prompt orchestrator
\* has its first task to run.
LEMMA TickCore == ASSUME Core, Tick PROVE Core'
<1> USE OrchestratorAssumption DEF Core, Tick
<1>1. request \in Requests /\ Children' = Children /\ Awaited' = Awaited
  BY SameRequest DEF TypeOK
<1>2. TypeOK'
  BY <1>1 DEF TypeOK, Signal
<1>3. StartInv' /\ WaitInv' /\ AnswerInv'
  BY <1>1 DEF StartInv, WaitInv, AnswerInv, Launched, NoChild, Successes
<1>4. ParentOpen => \A c \in Children :
        child[c] \in {"scheduled", "running"} => clock + 1 <= launchedAt + ChildTimeout
  <2> SUFFICES ASSUME ParentOpen, NEW c \in Children,
                      child[c] \in {"scheduled", "running"}
               PROVE  clock + 1 <= launchedAt + ChildTimeout
    OBVIOUS
  <2>1. ~(clock >= launchedAt + ChildTimeout)
    BY DEF Overdue
  <2>2. QED
    BY <2>1 DEF TypeOK
<1>5. TimeInv'
  BY <1>1, <1>4 DEF TimeInv, ParentOpen, OrchestratorReady, TypeOK
<1>6. QED
  BY <1>2, <1>3, <1>5

\* The orchestrator's own timeout ends it without an answer.
LEMMA ExpireCore == ASSUME Core, TimeOutOrchestrator PROVE Core'
<1> USE OrchestratorAssumption DEF Core, TimeOutOrchestrator
<1>1. request \in Requests /\ Children' = Children /\ Awaited' = Awaited
  BY SameRequest DEF TypeOK
<1>2. TypeOK'
  BY <1>1 DEF TypeOK, Signal
<1>3. StartInv' /\ WaitInv' /\ AnswerInv' /\ TimeInv'
  BY <1>1 DEF StartInv, WaitInv, AnswerInv, TimeInv, ParentOpen, Launched
<1>4. QED
  BY <1>2, <1>3

\* What leaves the variables alone keeps the invariant.
LEMMA StutterCore == ASSUME Core, UNCHANGED vars PROVE Core'
<1> USE DEF Core, vars
<1>1. Children' = Children /\ Awaited' = Awaited
  BY SameRequest
<1>2. TypeOK'
  BY <1>1 DEF TypeOK, Signal
<1>3. StartInv' /\ WaitInv' /\ AnswerInv' /\ TimeInv'
  BY <1>1 DEF StartInv, WaitInv, AnswerInv, TimeInv, ParentOpen, Launched, Successes,
              NoChild
<1>4. QED
  BY <1>2, <1>3

\* The two ways a wait ends, as steps of Settle.
LEMMA CollectSettles ==
  ASSUME CollectResult
  PROVE  /\ pc = "wait" /\ focus # NoChild /\ child[focus] \in {"ok", "failed"}
         /\ Settle(child[focus]) /\ streamed' = streamed
BY DEF CollectResult, Closed

\* A timer that fires settles the child that is waited for as a timeout.
LEMMA TimeOutSettles ==
  ASSUME TimeOutOperator
  PROVE  /\ pc = "wait" /\ focus # NoChild /\ Settle("timeout")
         /\ streamed' = IF request.streamResults
                          THEN streamed \union {<<focus, "timeout">>} ELSE streamed
BY DEF TimeOutOperator

\* Every step keeps the invariant.
LEMMA NextCore == Core /\ [Next]_vars => Core'
<1> SUFFICES ASSUME Core, [Next]_vars PROVE Core'
  OBVIOUS
<1>1. CASE CollectResult
  BY <1>1, CollectSettles, SettleCore
<1>2. CASE TimeOutOperator
  BY <1>2, TimeOutSettles, SettleCore
<1>3. ASSUME NEW c \in Children,
             StartChild(c) \/ RefuseChild(c) \/ TimeOutChild(c)
               \/ \E r \in {"ok", "failed"} : CloseChild(c, r)
      PROVE  Core'
  BY <1>3, ChildSteps, ChildCore DEF Core
<1>4. QED
  BY <1>1, <1>2, <1>3, LaunchCore, SignalCore, FinishCore, TickCore, ExpireCore,
     StutterCore DEF Next

\* The invariant holds always.
LEMMA SpecCore == Spec => []Core
BY InitCore, NextCore, PTL DEF Spec

\* Type correctness of the orchestrator, its children, timers and signals.
THEOREM TypeCorrect == Spec => []TypeOK
<1>1. Core => TypeOK
  BY DEF Core
<1>2. QED
  BY <1>1, SpecCore, PTL

\* The answer is the result of a child that succeeded, and nil only when none
\* did, whatever IDs the operations share and whatever times out.
THEOREM AnswersAreReal == Spec => []AnswerIsReal
<1>1. Core => AnswerIsReal
  <2> SUFFICES ASSUME Core, pc = "done"
               PROVE  /\ \A c \in sources : child[c] = "ok"
                      /\ sources = {} => \A c \in Awaited :
                           child[c] = "failed" \/ results[c] = "timeout"
    BY DEF AnswerIsReal
  <2>1. \A c \in sources : child[c] = "ok"
    BY DEF Core, AnswerInv, WaitInv, Successes
  <2>2. \A c \in Awaited : results[c] \in {"ok", "failed", "timeout"}
    BY DEF Core, TypeOK, Outcome, WaitInv, Launched
  <2>3. sources = {} => \A c \in Awaited :
          child[c] = "failed" \/ results[c] = "timeout"
    BY <2>2 DEF Core, AnswerInv, WaitInv, Successes
  <2>4. QED
    BY <2>1, <2>3
<1>2. QED
  BY <1>1, SpecCore, PTL

--------------------------------------------------------------------------------
(* Timeouts.                                                               *)

\* No step changes what was asked for, or the worker's speed.
LEMMA RequestIsFixed == [Next]_vars => UNCHANGED request /\ UNCHANGED prompt
<1> SUFFICES ASSUME [Next]_vars PROVE UNCHANGED request /\ UNCHANGED prompt
  OBVIOUS
<1>1. CASE \/ Launch \/ Finish \/ CollectResult \/ TimeOutOperator
           \/ \E s \in signals : HandleSignal(s)
  BY <1>1 DEF Launch, Finish, CollectResult, TimeOutOperator, Settle, HandleSignal
<1>2. ASSUME NEW c \in Children,
             StartChild(c) \/ RefuseChild(c) \/ TimeOutChild(c)
               \/ \E r \in {"ok", "failed"} : CloseChild(c, r)
      PROVE  UNCHANGED request /\ UNCHANGED prompt
  BY <1>2 DEF StartChild, RefuseChild, TimeOutChild, CloseChild
<1>3. CASE Tick \/ TimeOutOrchestrator \/ UNCHANGED vars
  BY <1>3 DEF Tick, TimeOutOrchestrator, vars
<1>4. QED
  BY <1>1, <1>2, <1>3 DEF Next

\* A prompt orchestrator's wait ends with the child's timeout, before its own.
LEMMA InTimeNext ==
  ASSUME ChildTimeout < OrchestratorTimeout
  PROVE  Core /\ AnswersInTime /\ [Next]_vars => AnswersInTime'
<1> SUFFICES ASSUME Core, AnswersInTime, [Next]_vars,
                    prompt, request.operations # <<>>,
                    pc # "timedOut", pc' = "timedOut"
             PROVE  FALSE
  BY RequestIsFixed DEF AnswersInTime
<1> USE OrchestratorAssumption DEF Core
<1>1. TimeOutOrchestrator
  BY DEF Next, vars, Launch, CollectResult, TimeOutOperator, Settle, HandleSignal,
     Finish, StartChild, RefuseChild, CloseChild, TimeOutChild, Tick
<1>2. pc \in {"wait", "panicked"} /\ clock = OrchestratorTimeout /\ launchedAt = 0
  BY <1>1 DEF TimeOutOrchestrator, OrchestratorReady, TimeInv
<1>3. Awaited # {}
  <2> DEFINE last == Len(request.operations)
  <2>1. last \in Operations /\ \A k \in Operations : ~(k > last)
    BY DEF Operations, TypeOK
  <2>2. 0 \in 0 .. PartitionCount - 1
    BY PartitionCountType DEF TypeOK
  <2>3. <<last, 0>> \in Awaited
    BY <2>1, <2>2 DEF Awaited, Children
  <2>4. QED
    BY <2>3
<1>4. pc = "wait" /\ focus # NoChild /\ ~Closed(focus)
  BY <1>1, <1>2, <1>3 DEF WaitInv, TimeOutOrchestrator, OrchestratorReady
<1>5. focus \in Children /\ child[focus] \in {"scheduled", "running"}
  BY <1>4, ChildrenFacts DEF WaitInv, StartInv, TypeOK, ChildState, Launched, Closed
<1>6. QED
  BY <1>2, <1>4, <1>5 DEF TimeInv, ParentOpen, TypeOK

\* However many operators a request has, a prompt orchestrator with something to
\* wait for answers before its own timeout, since the children's is shorter (10
\* minutes against 15) and they all run out together.
THEOREM PromptOrchestratorAnswers ==
  ASSUME ChildTimeout < OrchestratorTimeout
  PROVE  Spec => []AnswersInTime
<1>1. Init => AnswersInTime
  BY DEF Init, AnswersInTime
<1>2. Core /\ AnswersInTime /\ [Next]_vars => AnswersInTime'
  BY InTimeNext
<1>3. QED
  BY <1>1, <1>2, SpecCore, PTL DEF Spec

\* A wait that times out does so no sooner than the child it waits for, because a
\* wait starts after the launch and its timer is not shorter than the child's
\* timeout (10 minutes both).
THEOREM TimersAreNotShort ==
  ASSUME ChildTimeout <= OperatorTimeout
  PROVE  Spec => TimerNeverCutsShort
<1> USE OrchestratorAssumption
<1>1. ASSUME Core, [Next]_vars, NEW c \in Awaited,
             results[c] = "open", results'[c] = "timeout"
      PROVE  clock >= launchedAt + ChildTimeout
  <2>1. CASE CollectResult
    BY <1>1, <2>1, CollectSettles DEF Settle, Core, TypeOK
  <2>2. CASE TimeOutOperator
    BY <1>1, <2>2 DEF TimeOutOperator, Core, TimeInv, TypeOK
  <2>3. CASE UNCHANGED results
    BY <1>1, <2>3
  <2>4. UNCHANGED results \/ CollectResult \/ TimeOutOperator
    BY <1>1 DEF Next, vars, Launch, HandleSignal, Finish, StartChild, RefuseChild,
       CloseChild, TimeOutChild, Tick, TimeOutOrchestrator
  <2>5. QED
    BY <2>1, <2>2, <2>3, <2>4
<1>2. Core /\ [Next]_vars =>
        [\A c \in Awaited : results[c] = "open" /\ results'[c] = "timeout"
           => clock >= launchedAt + ChildTimeout]_vars
  BY <1>1
<1>3. QED
  BY <1>2, SpecCore, PTL DEF Spec, TimerNeverCutsShort

--------------------------------------------------------------------------------
(* Refinement: the orchestrator implements FanOut over the awaited children. *)

\* An orchestrator not yet launched is a FanOut not yet split.
LEMMA PartsInit == Init => Parts!Init
BY DEF Init, Parts!Init

\* A result settles one part.
LEMMA SettleRefines ==
  ASSUME Core, pc = "wait", focus # NoChild,
         NEW r \in {"ok", "failed", "timeout"}, Settle(r)
  PROVE  Parts!Next
<1> DEFINE Shown(rs) == [c \in DOMAIN rs |-> IF rs[c] = "timeout" THEN "failed" ELSE rs[c]]
           o == IF r = "timeout" THEN "failed" ELSE r
<1>1. /\ focus \in Awaited /\ results[focus] = "open"
      /\ DOMAIN results = Awaited
  BY DEF Core, WaitInv, Launched, TypeOK
<1>2. Shown(results') = [Shown(results) EXCEPT ![focus] = o]
  BY <1>1 DEF Settle
<1>3. Shown(results)[focus] = "open" /\ o \in {"ok", "failed"} /\ focus \in DOMAIN Shown(results)
  BY <1>1
<1>4. PICK p \in DOMAIN Shown(results) : p = focus
  BY <1>3
<1>5. Parts!Settle(p)
  BY <1>2, <1>3, <1>4 DEF Settle, Parts!Settle
<1>6. QED
  BY <1>5 DEF Parts!Next

\* The end of the loop is the answer: everything has settled.
LEMMA FinishRefines ==
  ASSUME Core, Finish
  PROVE  Parts!Next \/ UNCHANGED Parts!vars
<1>1. CASE pc' = "panicked" /\ UNCHANGED sources
  BY <1>1 DEF Finish, Parts!vars
<1>2. CASE pc' = "done" /\ sources' \in AssembledFrom
  <2>1. DOMAIN results = Awaited /\ Parts!With("ok") = Successes
    BY DEF Core, TypeOK, Parts!With, Successes
  <2>2. Parts!With("open") = {}
    BY <2>1 DEF Finish, Core, WaitInv, Launched, Parts!With
  <2>3. sources' \subseteq Successes /\ (sources' = {} => Successes = {})
    BY <1>2 DEF AssembledFrom
  <2>4. Parts!Answer
    BY <1>2, <2>1, <2>2, <2>3 DEF Finish, Parts!Answer
  <2>5. QED
    BY <2>4 DEF Parts!Next
<1>3. QED
  BY <1>1, <1>2 DEF Finish

\* Every step is one of FanOut's or changes nothing that FanOut sees.
LEMMA PartsStep == Core /\ [Next]_vars => [Parts!Next]_(Parts!vars)
<1> SUFFICES ASSUME Core, [Next]_vars PROVE Parts!Next \/ UNCHANGED Parts!vars
  OBVIOUS
<1>1. CASE UNCHANGED vars
  BY <1>1 DEF vars, Parts!vars
<1>2. CASE Launch
  BY <1>2 DEF Launch, Parts!vars
<1>3. CASE CollectResult
  BY <1>3, CollectSettles, SettleRefines
<1>4. CASE TimeOutOperator
  BY <1>4, TimeOutSettles, SettleRefines
<1>5. CASE Finish
  BY <1>5, FinishRefines
<1>6. ASSUME NEW s \in signals, HandleSignal(s) PROVE UNCHANGED Parts!vars
  BY <1>6 DEF HandleSignal, Parts!vars
<1>7. ASSUME NEW c \in Children,
             StartChild(c) \/ RefuseChild(c) \/ TimeOutChild(c)
               \/ \E r \in {"ok", "failed"} : CloseChild(c, r)
      PROVE  UNCHANGED Parts!vars
  BY <1>7 DEF StartChild, RefuseChild, TimeOutChild, CloseChild, Parts!vars
<1>8. CASE Tick
  BY <1>8 DEF Tick, Parts!vars
<1>9. CASE TimeOutOrchestrator
  BY <1>9 DEF TimeOutOrchestrator, Parts!Abort, Parts!Next
<1>10. QED
  BY <1>1, <1>2, <1>3, <1>4, <1>5, <1>6, <1>7, <1>8, <1>9 DEF Next

\* Whatever the request and the timeouts: each awaited child settles once, there is
\* no answer before all have, and it is made of results that children produced.
THEOREM OrchestratorImplementsFanOut == Spec => ImplementsFanOut
BY SpecCore, PartsInit, PartsStep, PTL DEF Spec, ImplementsFanOut, Parts!Spec

--------------------------------------------------------------------------------
(* Signals and counters.                                                   *)

\* No operation before c's has c's child workflow ID, so that c may start.
FirstOfID(c) == \A d \in Children : d[1] < c[1] => WorkflowID(d) # WorkflowID(c)

Sent == signals \union streamed

\* A signal is handled once, and tells of its child what is, and stays, true; a
\* child that signals an outcome was really started.
SignalInv ==
  /\ signals \intersect streamed = {}
  /\ \A c \in Children :
       /\ child[c] \in {"scheduled", "running", "ok"} => FirstOfID(c)
       /\ <<c, "started">> \in Sent => child[c] \in {"running", "ok", "failed"}
       /\ <<c, "completed">> \in Sent => /\ child[c] = "ok"
                                        /\ Reports(c) /\ FirstOfID(c)
       /\ <<c, "failed">> \in Sent => /\ child[c] = "failed"
                                     /\ Reports(c) /\ FirstOfID(c)

\* Which child gets an ID depends on the request only.
LEMMA FirstOfIDFixed ==
  ASSUME UNCHANGED request
  PROVE  \A c : FirstOfID(c)' <=> FirstOfID(c)
BY SameRequest DEF FirstOfID

\* There are no signals at first.
LEMMA InitSignals == Init => SignalInv
BY DEF Init, SignalInv, Sent

\* A child that moves has sent no outcome yet; it sends what its move makes true.
LEMMA ChildSignals ==
  ASSUME Core, SignalInv, NEW c \in Children,
         StartChild(c) \/ RefuseChild(c) \/ TimeOutChild(c)
           \/ \E r \in {"ok", "failed"} : CloseChild(c, r)
  PROVE  SignalInv'
<1>1. UNCHANGED <<request, streamed>>
  BY DEF StartChild, RefuseChild, TimeOutChild, CloseChild
<1>2. /\ Children' = Children
      /\ \A d : Reports(d)' = Reports(d)
      /\ \A d : FirstOfID(d)' <=> FirstOfID(d)
  BY <1>1, SameRequest, FirstOfIDFixed
<1>3. child \in [Children -> ChildState]
  BY DEF Core, TypeOK
<1>4. child[c] \in {"scheduled", "running"} /\ FirstOfID(c)
  BY DEF StartChild, RefuseChild, TimeOutChild, Overdue, CloseChild, SignalInv
<1>5. <<c, "completed">> \notin Sent /\ <<c, "failed">> \notin Sent
  BY <1>4 DEF SignalInv
<1>6. CASE StartChild(c)
  <2>1. <<c, "started">> \notin Sent
    BY <1>6 DEF StartChild, SignalInv
  <2>2. /\ child' = [child EXCEPT ![c] = "running"]
        /\ signals' \subseteq signals \union {<<c, "started">>}
    BY <1>6 DEF StartChild
  <2>3. signals' \intersect streamed' = {}
    BY <1>1, <2>1, <2>2 DEF SignalInv, Sent
  <2>4. QED
    BY <1>1, <1>2, <1>3, <1>4, <1>5, <2>2, <2>3 DEF SignalInv, Sent
<1>7. CASE RefuseChild(c) \/ TimeOutChild(c)
  <2>1. child' = [child EXCEPT ![c] = "failed"] /\ UNCHANGED signals
    BY <1>7 DEF RefuseChild, TimeOutChild
  <2>2. QED
    BY <1>1, <1>2, <1>3, <1>4, <1>5, <2>1 DEF SignalInv, Sent
<1>8. ASSUME NEW r \in {"ok", "failed"}, CloseChild(c, r) PROVE SignalInv'
  <2> DEFINE sig == <<c, IF r = "ok" THEN "completed" ELSE "failed">>
  <2>1. /\ child' = [child EXCEPT ![c] = r]
        /\ signals' = signals \/ (signals' = signals \union {sig} /\ Reports(c))
    BY <1>8 DEF CloseChild
  <2>2. signals' \intersect streamed' = {}
    BY <1>1, <1>5, <2>1 DEF SignalInv, Sent
  <2>3. QED
    BY <1>1, <1>2, <1>3, <1>4, <1>5, <2>1, <2>2 DEF SignalInv, Sent
<1>9. QED
  BY <1>6, <1>7, <1>8

\* Launching schedules only first bearers of an ID.
LEMMA LaunchSignals == ASSUME Core, SignalInv, Launch PROVE SignalInv'
<1>1. UNCHANGED request /\ signals' = {} /\ streamed' = {}
  BY DEF Launch, Core, StartInv
<1>2. Children' = Children /\ \A c : FirstOfID(c)' <=> FirstOfID(c)
  BY <1>1, SameRequest, FirstOfIDFixed
<1>3. \A c \in Children : child'[c] = "failed" \/ FirstOfID(c)
  BY DEF Launch, LaunchChildren, FirstOfID
<1>4. QED
  BY <1>1, <1>2, <1>3 DEF SignalInv, Sent

\* Finishing fails the open children, which have signalled no outcome.
LEMMA FinishSignals == ASSUME Core, SignalInv, Finish PROVE SignalInv'
<1>1. UNCHANGED <<request, signals, streamed>>
  BY DEF Finish
<1>2. /\ Children' = Children
      /\ \A d : Reports(d)' = Reports(d)
      /\ \A d : FirstOfID(d)' <=> FirstOfID(d)
  BY <1>1, SameRequest, FirstOfIDFixed
<1>3. \A c \in Children : child'[c] = child[c] \/ (~Closed(c) /\ child'[c] = "failed")
  BY DEF Finish
<1>4. QED
  BY <1>1, <1>2, <1>3 DEF SignalInv, Sent, Closed

\* Handling a signal moves it; a timeout's entry is not a child's signal.
LEMMA HandlingSignals ==
  ASSUME Core, SignalInv,
         UNCHANGED <<request, child>>,
         \/ /\ signals' = signals
            /\ streamed' = streamed \/ \E c : streamed' = streamed \union {<<c, "timeout">>}
         \/ \E s \in signals : /\ signals' = signals \ {s}
                               /\ streamed' = streamed \union {s}
  PROVE  SignalInv'
<1>1. /\ Children' = Children
      /\ \A d : Reports(d)' = Reports(d)
      /\ \A d : FirstOfID(d)' <=> FirstOfID(d)
  BY SameRequest, FirstOfIDFixed
<1>2. \A s \in signals : s[2] # "timeout"
  BY DEF Core, TypeOK, Signal
<1>3. signals' \intersect streamed' = {}
  BY <1>2 DEF SignalInv
<1>4. \A c : \A o \in {"started", "completed", "failed"} :
        <<c, o>> \in Sent' => <<c, o>> \in Sent
  BY DEF Sent
<1>5. QED
  BY <1>1, <1>3, <1>4 DEF SignalInv

\* Signals are sent by children that started, and handled after they are sent.
LEMMA NextSignals == Core /\ SignalInv /\ [Next]_vars => SignalInv'
<1> SUFFICES ASSUME Core, SignalInv, [Next]_vars PROVE SignalInv'
  OBVIOUS
<1>1. CASE CollectResult
  BY <1>1, CollectSettles, HandlingSignals DEF Settle
<1>2. CASE TimeOutOperator
  BY <1>2, TimeOutSettles, HandlingSignals DEF Settle
<1>3. ASSUME NEW s \in signals, HandleSignal(s) PROVE SignalInv'
  BY <1>3, HandlingSignals DEF HandleSignal
<1>4. CASE Tick \/ TimeOutOrchestrator \/ UNCHANGED vars
  BY <1>4, HandlingSignals DEF Tick, TimeOutOrchestrator, vars
<1>5. QED
  BY <1>1, <1>2, <1>3, <1>4, LaunchSignals, FinishSignals, ChildSignals DEF Next

\* The children whose handled signals say o.
StreamedAs(o) == {c \in Children : <<c, o>> \in streamed}

\* The counters count settled results, or handled signals when results stream.
CountInv ==
  /\ progress[1] <= progress[2]
  /\ IF request.streamResults
       THEN /\ completed = Cardinality(StreamedAs("completed"))
            /\ failed = Cardinality(StreamedAs("failed"))
       ELSE /\ completed = Cardinality(Having(results, "ok"))
            /\ failed = Cardinality(Having(results, "failed"))
                          + Cardinality(Having(results, "timeout"))

\* Results of one kind are finitely many.
LEMMA HavingFinite ==
  ASSUME Core, NEW v
  PROVE  IsFiniteSet(Having(results, v)) /\ Cardinality(Having(results, v)) \in Nat
<1>1. Having(results, v) \subseteq Awaited
  BY DEF Core, TypeOK, Having
<1>2. QED
  BY <1>1, ChildrenFacts, FS_Subset, FS_CardinalityType DEF Core, TypeOK

\* Handled signals of one kind are finitely many.
LEMMA StreamedFinite ==
  ASSUME Core, NEW o
  PROVE  IsFiniteSet(StreamedAs(o)) /\ Cardinality(StreamedAs(o)) \in Nat
<1>1. StreamedAs(o) \subseteq Children
  BY DEF StreamedAs
<1>2. QED
  BY <1>1, ChildrenFacts, FS_Subset, FS_CardinalityType DEF Core, TypeOK

\* The counters start at zero.
LEMMA InitCount == Init => CountInv
<1> SUFFICES ASSUME Init PROVE CountInv
  OBVIOUS
<1>1. StreamedAs("completed") = {} /\ StreamedAs("failed") = {}
  BY DEF Init, StreamedAs
<1>2. \A v \in {"ok", "failed", "timeout"} : Having(results, v) = {}
  BY DEF Init, Having
<1>3. QED
  BY <1>1, <1>2, FS_EmptySet DEF Init, CountInv

\* The focus's result is counted under its own heading only.
LEMMA SettleCounts ==
  ASSUME Core, CountInv, pc = "wait", focus # NoChild,
         NEW r \in {"ok", "failed", "timeout"}, Settle(r),
         streamed' \in {streamed, streamed \union {<<focus, "timeout">>}}
  PROVE  CountInv'
<1>1. Children' = Children /\ UNCHANGED <<request, progress>>
  BY SameRequest DEF Settle
<1>2. CASE request.streamResults
  <2>1. \A c : \A o \in {"completed", "failed"} : <<c, o>> \in streamed' <=> <<c, o>> \in streamed
    OBVIOUS
  <2>2. StreamedAs("completed")' = StreamedAs("completed")
    BY <1>1, <2>1 DEF StreamedAs
  <2>3. StreamedAs("failed")' = StreamedAs("failed")
    BY <1>1, <2>1 DEF StreamedAs
  <2>4. QED
    BY <1>1, <1>2, <2>2, <2>3 DEF CountInv, Settle
<1>3. CASE ~request.streamResults
  <2>1. /\ results \in [Awaited -> Outcome]
        /\ focus \in Awaited /\ results[focus] = "open"
        /\ results' = [results EXCEPT ![focus] = r]
    BY DEF Core, TypeOK, WaitInv, Launched, Settle
  <2>2. /\ Having(results, r)' = Having(results, r) \union {focus}
        /\ focus \notin Having(results, r)
    BY <2>1 DEF Having
  <2>3. \A v \in {"ok", "failed", "timeout"} : v # r => Having(results', v) = Having(results, v)
    BY <2>1 DEF Having
  <2>4. Cardinality(Having(results', r)) = Cardinality(Having(results, r)) + 1
    BY <2>2, HavingFinite, FS_AddElement
  <2>5. /\ completed' = Cardinality(Having(results', "ok"))
        /\ failed' = Cardinality(Having(results', "failed"))
                       + Cardinality(Having(results', "timeout"))
    BY <1>3, <2>3, <2>4, HavingFinite DEF CountInv, Settle
  <2>6. QED
    BY <1>1, <1>3, <2>5 DEF CountInv
<1>4. QED
  BY <1>2, <1>3

--------------------------------------------------------------------------------
(* Progress: at most one signalled outcome per awaited future.             *)

\* The operation whose futures take the place of k's: the last of its ID.
Heir(k) == CHOOSE j \in Operations :
             /\ OperatorID(j) = OperatorID(k)
             /\ \A i \in Operations : i > j => OperatorID(i) # OperatorID(k)

\* An operation's heir is the last operation with its operator ID.
LEMMA HeirFacts ==
  ASSUME request \in Requests, NEW k \in Operations
  PROVE  /\ Heir(k) \in Operations
         /\ OperatorID(Heir(k)) = OperatorID(k)
         /\ \A i \in Operations : i > Heir(k) => OperatorID(i) # OperatorID(k)
<1> DEFINE n == Len(request.operations)
           Same == {j \in Operations : OperatorID(j) = OperatorID(k)}
<1>1. n \in Nat /\ Operations \subseteq 0 .. n
  BY ChildrenFacts DEF Operations
<1>2. Same \subseteq 0 .. n /\ Same # {}
  BY <1>1
<1>3. PICK j \in Same : \A i \in Same : i <= j
  BY <1>1, <1>2, GreatestNumber
<1>4. \A i \in Operations : i > j => OperatorID(i) # OperatorID(k)
  BY <1>1, <1>3
<1>5. QED
  BY <1>3, <1>4 DEF Heir

\* Children that signal have one workflow name, so two of the same operator ID and
\* partition would have the same workflow ID, and only the first was started.
LEMMA ReportersShareNoFuture ==
  ASSUME request \in Requests, NEW c \in Children, NEW d \in Children,
         Reports(c), FirstOfID(c), Reports(d), FirstOfID(d),
         OperatorID(c[1]) = OperatorID(d[1]), c[2] = d[2]
  PROVE  c = d
<1>1. WorkflowID(c) = WorkflowID(d)
  BY DEF WorkflowID, Reports
<1>2. ~(c[1] < d[1]) /\ ~(d[1] < c[1])
  BY <1>1 DEF FirstOfID
<1>3. c[1] = d[1]
  BY <1>2, ChildrenFacts DEF Children
<1>4. c = <<c[1], c[2]>> /\ d = <<d[1], d[2]>>
  BY DEF Children
<1>5. QED
  BY <1>3, <1>4

\* Completed and failed signals together are no more than the awaited futures:
\* each signalling child has one of its own.
LEMMA OutcomesWithinAwaited ==
  ASSUME Core, SignalInv
  PROVE  Cardinality(StreamedAs("completed")) + Cardinality(StreamedAs("failed"))
           <= Cardinality(Awaited)
<1> DEFINE C == StreamedAs("completed")
           F == StreamedAs("failed")
           future == [c \in C \union F |-> <<Heir(c[1]), c[2]>>]
<1>1. request \in Requests
  BY DEF Core, TypeOK
<1>2. \A c \in C \union F : /\ c \in Children /\ Reports(c) /\ FirstOfID(c)
                          /\ c[1] \in Operations /\ c[2] \in 0 .. PartitionCount - 1
  BY DEF StreamedAs, SignalInv, Sent, Children
<1>3. future \in Injection(C \union F, Awaited)
  <2>1. ASSUME NEW c \in C \union F PROVE <<Heir(c[1]), c[2]>> \in Awaited
    BY <1>1, <1>2, HeirFacts DEF Awaited, Children
  <2>2. ASSUME NEW c \in C \union F, NEW d \in C \union F,
               Heir(c[1]) = Heir(d[1]), c[2] = d[2]
        PROVE  c = d
    <3>1. OperatorID(c[1]) = OperatorID(d[1])
      BY <1>1, <1>2, <2>2, HeirFacts
    <3>2. QED
      BY <1>1, <1>2, <2>2, <3>1, ReportersShareNoFuture
  <2>3. QED
    BY <2>1, <2>2 DEF Injection, IsInjective
<1>4. IsFiniteSet(C) /\ IsFiniteSet(F)
  BY StreamedFinite
<1>5. C \intersect F = {}
  BY DEF StreamedAs, SignalInv, Sent
<1> HIDE DEF C, F, future
<1>6. Cardinality(C \union F) = Cardinality(C) + Cardinality(F)
  <2>1. Cardinality(C \union F) = Cardinality(C) + Cardinality(F) - Cardinality(C \intersect F)
    BY <1>4, FS_Union
  <2>2. Cardinality(C \intersect F) = 0
    BY <1>5, FS_EmptySet
  <2>3. Cardinality(C) \in Nat /\ Cardinality(F) \in Nat
    BY <1>4, FS_CardinalityType
  <2>4. QED
    BY <2>1, <2>2, <2>3
<1>7. Cardinality(C \union F) <= Cardinality(Awaited)
  BY <1>1, <1>3, ChildrenFacts, FS_Injection
<1>8. QED
  BY <1>6, <1>7 DEF C, F

\* Handling a signal counts it, and reports the counts from before it.
LEMMA HandlingCounts ==
  ASSUME Core, SignalInv, CountInv, NEW s \in signals, HandleSignal(s)
  PROVE  CountInv'
<1>1. /\ Children' = Children /\ UNCHANGED request /\ request.streamResults
      /\ streamed' = streamed \union {s} /\ s \notin streamed
  BY SameRequest DEF HandleSignal, SignalInv
<1>2. PICK c \in Children, o \in {"started", "completed", "failed"} : s = <<c, o>>
  BY DEF Core, TypeOK, Signal
<1>3. ASSUME NEW v \in {"completed", "failed"}
      PROVE  Cardinality(StreamedAs(v)') = Cardinality(StreamedAs(v)) + (IF s[2] = v THEN 1 ELSE 0)
  <2>1. CASE o = v
    <3>1. StreamedAs(v)' = StreamedAs(v) \union {c} /\ c \notin StreamedAs(v)
      BY <1>1, <1>2, <2>1 DEF StreamedAs
    <3>2. QED
      BY <1>2, <2>1, <3>1, StreamedFinite, FS_AddElement
  <2>2. CASE o # v
    <3>1. StreamedAs(v)' = StreamedAs(v)
      BY <1>1, <1>2, <2>2 DEF StreamedAs
    <3>2. QED
      BY <1>2, <2>2, <3>1, StreamedFinite
  <2>3. QED
    BY <2>1, <2>2
<1>4. /\ completed' = Cardinality(StreamedAs("completed")')
      /\ failed' = Cardinality(StreamedAs("failed")')
  BY <1>1, <1>3 DEF CountInv, HandleSignal
<1>5. progress'[1] <= progress'[2]
  <2>1. completed + failed <= Cardinality(Awaited)
    BY <1>1, OutcomesWithinAwaited DEF CountInv
  <2>2. progress' = <<completed + failed, Cardinality(Awaited)>>
    BY DEF HandleSignal
  <2>3. QED
    BY <2>1, <2>2
<1>6. QED
  BY <1>1, <1>4, <1>5 DEF CountInv

\* Steps that touch neither results nor handled signals.
LEMMA CountFrame ==
  ASSUME CountInv, UNCHANGED <<request, results, completed, failed, progress, streamed>>
  PROVE  CountInv'
<1>1. Children' = Children
  BY SameRequest
<1>2. QED
  BY <1>1 DEF CountInv, StreamedAs, Having

\* Every step keeps the counters at what they count.
LEMMA NextCount == Core /\ SignalInv /\ CountInv /\ [Next]_vars => CountInv'
<1> SUFFICES ASSUME Core, SignalInv, CountInv, [Next]_vars PROVE CountInv'
  OBVIOUS
<1>1. CASE CollectResult
  BY <1>1, CollectSettles, SettleCounts
<1>2. CASE TimeOutOperator
  BY <1>2, TimeOutSettles, SettleCounts
<1>3. CASE Launch \/ Finish
  BY <1>3, CountFrame DEF Launch, Finish
<1>4. ASSUME NEW c \in Children,
             StartChild(c) \/ RefuseChild(c) \/ TimeOutChild(c)
               \/ \E r \in {"ok", "failed"} : CloseChild(c, r)
      PROVE  CountInv'
  BY <1>4, CountFrame DEF StartChild, RefuseChild, TimeOutChild, CloseChild
<1>5. CASE Tick \/ TimeOutOrchestrator \/ UNCHANGED vars
  BY <1>5, CountFrame DEF Tick, TimeOutOrchestrator, vars
<1>6. QED
  BY <1>1, <1>2, <1>3, <1>4, <1>5, HandlingCounts DEF Next

\* The counters follow from the invariants: a handled outcome is its child's.
LEMMA CountersFollow == Core /\ SignalInv /\ CountInv => CountersAreTruthful
<1> SUFFICES ASSUME Core, SignalInv, CountInv PROVE CountersAreTruthful
  OBVIOUS
<1>1. child \in [Children -> ChildState] /\ IsFiniteSet(Children)
  BY ChildrenFacts DEF Core, TypeOK
<1>2. /\ StreamedAs("completed") \subseteq Having(child, "ok")
      /\ StreamedAs("failed") \subseteq Having(child, "failed")
  BY <1>1 DEF StreamedAs, Having, SignalInv, Sent
<1>3. IsFiniteSet(Having(child, "ok")) /\ IsFiniteSet(Having(child, "failed"))
  BY <1>1, FS_Subset DEF Having
<1>4. /\ Cardinality(StreamedAs("completed")) <= Cardinality(Having(child, "ok"))
      /\ Cardinality(StreamedAs("failed")) <= Cardinality(Having(child, "failed"))
  BY <1>2, <1>3, FS_Subset
<1>5. QED
  BY <1>4 DEF CountInv, CountersAreTruthful

\* Progress stays within 100 % and the counters are never ahead of the children,
\* whatever IDs the operations share, however many partitions there are, and in
\* whichever order signals arrive; without streaming they are the settled results.
THEOREM CountersTellTheTruth == Spec => []CountersAreTruthful
<1>1. Spec => [](Core /\ SignalInv)
  BY SpecCore, InitSignals, NextSignals, PTL DEF Spec
<1>2. QED
  BY <1>1, InitCount, NextCount, CountersFollow, PTL DEF Spec
================================================================================
