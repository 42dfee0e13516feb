--------------------------- MODULE QueryReplayProofs ---------------------------
(***************************************************************************)
(* Proofs about QueryReplay, for every number of posted events, every set  *)
(* of readers and requests and every assignment of timestamps.             *)
(*                                                                         *)
(* The log only grows at its end, and so does the selection of any range   *)
(* from it.  The inductive invariant therefore compares what a reader has  *)
(* read with the present selection of its range, and a reader with an      *)
(* earlier one through that selection.                                     *)
(***************************************************************************)
EXTENDS QueryReplay, Lemmas, FiniteSetTheorems, TLAPS

\* What has been confirmed is in the log, and each event is indexed once.
StoreInv ==
  /\ \A e \in confirmed : Log!Logged(e)
  /\ \A i, j \in DOMAIN index : index[i] = index[j] => i = j

\* A reader knows only of events confirmed by now, and of readers that have
\* finished reading.
HistoryInv ==
  \A r \in Readers :
    /\ seen[r] \subseteq confirmed
    /\ pc[r] = "idle" => before[r] = {}
    /\ pc[r] # "idle" => request[r] \in Requests
    /\ \A s \in before[r] : pc[s] \in {"process", "done", "error"}

\* What r has read is a beginning of what its range selects now; without a limit
\* it has all that was confirmed, and all that earlier unlimited readers have.
ReadOf(r) ==
  HasRead(r) =>
    /\ IsPrefix(events[r], Select(log, Within(request[r].range)))
    /\ Unlimited(r) =>
         /\ \A e \in seen[r] : InRange(e, request[r].range) => Contains(events[r], e)
         /\ \A s \in before[r] :
              HasRead(s) /\ Unlimited(s) /\ request[r].range = request[s].range =>
                IsPrefix(events[s], events[r])
ReadInv == \A r \in Readers : ReadOf(r)

IInv == TypeOK /\ StoreInv /\ HistoryInv /\ ReadInv

--------------------------------------------------------------------------------
(* Prefixes.                                                               *)

\* A prefix is no longer and has the same elements.
LEMMA PrefixElements ==
  ASSUME NEW E, NEW s \in Seq(E), NEW t \in Seq(E)
  PROVE  IsPrefix(s, t) <=> Len(s) <= Len(t) /\ \A i \in 1 .. Len(s) : s[i] = t[i]
<1>1. SubSeq(s, 1, Len(s)) = s
  OBVIOUS
<1>2. ASSUME Len(s) <= Len(t)
      PROVE  /\ SubSeq(t, 1, Len(s)) \in Seq(E) /\ Len(SubSeq(t, 1, Len(s))) = Len(s)
             /\ \A i \in 1 .. Len(s) : SubSeq(t, 1, Len(s))[i] = t[i]
  BY <1>2
<1>3. ASSUME Len(s) <= Len(t), \A i \in 1 .. Len(s) : s[i] = t[i]
      PROVE  s = SubSeq(t, 1, Len(s))
  BY <1>2, <1>3
<1>4. QED
  BY <1>1, <1>2, <1>3 DEF IsPrefix

--------------------------------------------------------------------------------
(* The steps.                                                              *)

\* Growing the log extends what a range selects from it.
LEMMA SelectGrows ==
  ASSUME NEW E, NEW s \in Seq(E), NEW t, t = s \/ \E e \in E : t = Append(s, e),
         NEW wanted, NEW read \in Seq(E), IsPrefix(read, Select(s, wanted))
  PROVE  IsPrefix(read, Select(t, wanted))
<1>1. CASE t = s
  BY <1>1
<1>2. ASSUME NEW e \in E, t = Append(s, e) PROVE IsPrefix(read, Select(t, wanted))
  <2>1. t \in Seq(E)
    BY <1>2
  <2>2. Select(s, wanted) \in Seq(E) /\ Select(t, wanted) \in Seq(E)
    BY <2>1, SelectFacts
  <2>3. Select(t, wanted) = Select(s, wanted)
        \/ Select(t, wanted) = Append(Select(s, wanted), e)
    BY <1>2, SelectAppend
  <2>4. /\ Len(Select(s, wanted)) <= Len(Select(t, wanted))
        /\ \A i \in 1 .. Len(Select(s, wanted)) : Select(t, wanted)[i] = Select(s, wanted)[i]
    <3>1. CASE Select(t, wanted) = Select(s, wanted)
      BY <2>2, <3>1
    <3>2. CASE Select(t, wanted) = Append(Select(s, wanted), e)
      BY <2>2, <3>2
    <3>3. QED
      BY <2>3, <3>1, <3>2
  <2>5. /\ Len(read) <= Len(Select(s, wanted))
        /\ \A i \in 1 .. Len(read) : read[i] = Select(s, wanted)[i]
    BY <2>2, PrefixElements
  <2>6. /\ Len(read) <= Len(Select(t, wanted))
        /\ \A i \in 1 .. Len(read) : read[i] = Select(t, wanted)[i]
    BY <2>2, <2>4, <2>5
  <2>7. QED
    BY <2>2, <2>6, PrefixElements
<1>3. QED
  BY <1>1, <1>2

\* What holds of a reader's events stands while it and its predecessors take no step.
LEMMA ReadFrame ==
  ASSUME TypeOK, NEW r \in Readers, ReadOf(r),
         log' = log \/ \E e \in Event : log' = Append(log, e),
         HasRead(r)' => HasRead(r),
         request'[r] = request[r], pointers'[r] = pointers[r], events'[r] = events[r],
         seen'[r] = seen[r], before'[r] = before[r],
         \A s \in before[r] : HasRead(s)' =>
           /\ HasRead(s)
           /\ request'[s] = request[s] /\ pointers'[s] = pointers[s] /\ events'[s] = events[s]
  PROVE  ReadOf(r)'
<1> SUFFICES ASSUME HasRead(r)' PROVE ReadOf(r)'
  BY DEF ReadOf
<1>1. HasRead(r)
  OBVIOUS
<1>2. IsPrefix(events'[r], Select(log', Within(request'[r].range)))
  <2>1. log \in Seq(Event) /\ events[r] \in Seq(Event)
    BY DEF TypeOK
  <2>2. IsPrefix(events[r], Select(log, Within(request[r].range)))
    BY <1>1 DEF ReadOf
  <2>3. IsPrefix(events[r], Select(log', Within(request[r].range)))
    BY <2>1, <2>2, SelectGrows
  <2>4. QED
    BY <2>3
<1>3. ASSUME Unlimited(r)'
      PROVE  \A e \in seen'[r] :
               InRange(e, request'[r].range) => Contains(events'[r], e)
  BY <1>1, <1>3 DEF ReadOf, Unlimited
<1>4. ASSUME Unlimited(r)', NEW s \in before'[r], HasRead(s)', Unlimited(s)',
             request'[r].range = request'[s].range
      PROVE  IsPrefix(events'[s], events'[r])
  BY <1>1, <1>4 DEF ReadOf, Unlimited
<1>5. QED
  BY <1>2, <1>3, <1>4 DEF ReadOf

\* A step of the ingestion keeps the log's promise.
LEMMA IngestInv == ASSUME IInv, Ingest PROVE IInv'
<1> USE QueryReplayAssumption DEF IInv
<1>1. Log!Next /\ UNCHANGED <<index, foreign, pc, request, pointers, events, mode, seen, before>>
  BY DEF Ingest, readerVars
<1>2. /\ posted' \in 0 .. MaxPosts
      /\ confirmed' \subseteq Event /\ confirmed \subseteq confirmed' /\ givenUp' \subseteq Event
      /\ log' = log \/ \E e \in Event : log' = Append(log, e)
      /\ \A e \in confirmed' : Log!Logged(e)'
  <2>1. CASE Log!Post
    BY <2>1 DEF Log!Post, Log!Logged, TypeOK, StoreInv
  <2>2. ASSUME NEW b \in 1 .. posted, Log!Write(b)
        PROVE  /\ UNCHANGED <<posted, confirmed, givenUp>>
               /\ b \in Event /\ log' = Append(log, b)
               /\ \A e \in confirmed : Log!Logged(e)'
    <3>1. /\ UNCHANGED <<posted, confirmed, givenUp>>
          /\ b \in Event /\ log' = Append(log, b)
      BY <2>2 DEF Log!Write, TypeOK, Event
    <3>2. /\ log \in Seq(Event)
          /\ \A i \in DOMAIN log : i \in DOMAIN log' /\ log'[i] = log[i]
      BY <3>1 DEF TypeOK
    <3>3. QED
      BY <3>1, <3>2 DEF StoreInv, Log!Logged
  <2>3. Log!Open \subseteq Event
    BY DEF Log!Open, TypeOK, Event
  <2>4. CASE \E b \in Log!Open : Log!GiveUp(b)
    BY <2>3, <2>4 DEF Log!GiveUp, Log!Logged, TypeOK, StoreInv
  <2>5. CASE \E b \in Log!Open : Log!Confirm(b)
    BY <2>3, <2>5 DEF Log!Confirm, Log!Logged, TypeOK, StoreInv
  <2>6. QED
    BY <1>1, <2>1, <2>2, <2>4, <2>5 DEF Log!Next, TypeOK
<1>3. TypeOK'
  <2>1. log' \in Seq(Event)
    <3>1. log \in Seq(Event)
      BY DEF TypeOK
    <3>2. QED
      BY <1>2, <3>1
  <2>2. QED
    BY <1>1, <1>2, <2>1 DEF TypeOK
<1>4. StoreInv'
  BY <1>1, <1>2 DEF StoreInv
<1>5. HistoryInv'
  BY <1>1, <1>2 DEF HistoryInv
<1>6. ReadInv'
  BY <1>1, <1>2, ReadFrame DEF ReadInv, HasRead
<1>7. QED
  BY <1>3, <1>4, <1>5, <1>6

\* Pointers of a confirmed batch are added to the index.
LEMMA IndexEventsInv == ASSUME IInv, NEW e \in Event, IndexEvents(e) PROVE IInv'
<1> USE DEF IInv
<1>1. /\ index' = Append(index, e) /\ ~Contains(index, e)
      /\ UNCHANGED <<posted, log, confirmed, givenUp, foreign,
                     pc, request, pointers, events, mode, seen, before>>
  BY DEF IndexEvents, logVars, readerVars
<1>2. TypeOK'
  BY <1>1 DEF TypeOK
<1>3. StoreInv'
  <2>1. /\ Len(index) \in Nat /\ DOMAIN index = 1 .. Len(index)
        /\ DOMAIN index' = 1 .. Len(index) + 1
        /\ index'[Len(index) + 1] = e
        /\ \A i \in 1 .. Len(index) : index'[i] = index[i] /\ index[i] # e
    BY <1>1 DEF TypeOK, Contains
  <2>2. ASSUME NEW i \in DOMAIN index', NEW j \in DOMAIN index', index'[i] = index'[j]
        PROVE  i = j
    <3>1. (i \in 1 .. Len(index) \/ i = Len(index) + 1)
          /\ (j \in 1 .. Len(index) \/ j = Len(index) + 1)
      BY <2>1
    <3>2. QED
      BY <2>1, <2>2, <3>1 DEF StoreInv
  <2>3. QED
    BY <1>1, <2>2 DEF StoreInv, Log!Logged
<1>4. HistoryInv'
  BY <1>1 DEF HistoryInv
<1>5. ReadInv'
  BY <1>1, ReadFrame DEF ReadInv, HasRead
<1>6. QED
  BY <1>2, <1>3, <1>4, <1>5

\* So are those of another timeline's events.
LEMMA IndexForeignInv == ASSUME IInv, IndexForeignEvent PROVE IInv'
<1> USE DEF IInv
<1>1. /\ foreign' = foreign + 1 /\ foreign < MaxForeign
      /\ UNCHANGED <<posted, log, confirmed, givenUp, index,
                     pc, request, pointers, events, mode, seen, before>>
  BY DEF IndexForeignEvent, logVars, readerVars
<1>2. TypeOK'
  BY <1>1, QueryReplayAssumption DEF TypeOK
<1>3. StoreInv' /\ HistoryInv'
  BY <1>1 DEF StoreInv, HistoryInv, Log!Logged
<1>4. ReadInv'
  BY <1>1, ReadFrame DEF ReadInv, HasRead
<1>5. QED
  BY <1>2, <1>3, <1>4

\* A workflow starts and remembers what is confirmed and who has read.
LEMMA StartWorkflowInv ==
  ASSUME IInv, NEW r \in Readers, NEW q \in Requests, StartWorkflow(r, q)
  PROVE  IInv'
<1> USE DEF IInv
<1>1. /\ pc[r] = "idle" /\ request' = [request EXCEPT ![r] = q]
      /\ seen' = [seen EXCEPT ![r] = confirmed]
      /\ before' = [before EXCEPT ![r] = {s \in Readers : HasRead(s)}]
      /\ UNCHANGED <<posted, log, confirmed, givenUp, index, foreign, pointers, events, mode>>
  BY DEF StartWorkflow, logVars
<1>2. PICK start \in {"index", "load", "read"} : pc' = [pc EXCEPT ![r] = start]
  BY DEF StartWorkflow
<1>3. TypeOK'
  BY <1>1, <1>2 DEF TypeOK
<1>4. StoreInv'
  BY <1>1 DEF StoreInv, Log!Logged
<1>5. /\ pc'[r] = start /\ request'[r] = q /\ seen'[r] = confirmed
      /\ before'[r] = {s \in Readers : HasRead(s)} /\ r \notin before'[r]
      /\ \A s \in Readers : s # r => /\ pc'[s] = pc[s] /\ request'[s] = request[s]
                                    /\ seen'[s] = seen[s] /\ before'[s] = before[s]
      /\ \A s \in Readers : before[s] \subseteq Readers /\ r \notin before[s]
  BY <1>1, <1>2 DEF TypeOK, HistoryInv, HasRead
<1>6. HistoryInv'
  BY <1>1, <1>5 DEF HistoryInv, HasRead
<1>7. ASSUME NEW s \in Readers PROVE ReadOf(s)'
  <2>1. CASE s = r
    BY <1>2, <1>5, <2>1 DEF ReadOf, HasRead
  <2>2. CASE s # r
    BY <1>1, <1>5, <2>2, ReadFrame DEF ReadInv, HasRead
  <2>3. QED
    BY <2>1, <2>2
<1>8. QED
  BY <1>3, <1>4, <1>6, <1>7 DEF ReadInv

\* The index holds each event at most once, so it cannot return more pointers than
\* there are events.
LEMMA PointersBounded ==
  ASSUME TypeOK, StoreInv, NEW range
  PROVE  QueryEvents(range) \in 0 .. MaxPosts + MaxForeign
<1> USE QueryReplayAssumption
<1>1. /\ index \in Seq(Event) /\ Len(index) \in Nat /\ foreign \in 0 .. MaxForeign
      /\ index \in [1 .. Len(index) -> Event]
  BY DEF TypeOK
<1>2. index \in Injection(1 .. Len(index), Event)
  BY <1>1 DEF StoreInv, Injection, IsInjective
<1>3. Len(index) <= MaxPosts
  <2>1. /\ IsFiniteSet(Event) /\ Cardinality(Event) = MaxPosts
        /\ Cardinality(1 .. Len(index)) = Len(index)
    <3>1. \A n \in Nat : IsFiniteSet(1 .. n) /\ Cardinality(1 .. n) = n
      BY FS_Interval
    <3>2. QED
      BY <1>1, <3>1 DEF Event
  <2>2. QED
    BY <1>2, <2>1, FS_Injection
<1>4. /\ Select(index, Matching \intersect Within(range)) \in Seq(Event)
      /\ Len(Select(index, Matching \intersect Within(range))) <= Len(index)
  BY <1>1, SelectFacts
<1>5. QED
  BY <1>1, <1>3, <1>4 DEF QueryEvents

\* While a reader has not read, only its position and its pointers may change.
LEMMA QueryVictoriaLogsInv ==
  ASSUME IInv, NEW r \in Readers, QueryVictoriaLogs(r)
  PROVE  IInv'
<1> USE DEF IInv
<1>1. /\ pc[r] = "index" /\ pc' = [pc EXCEPT ![r] = "read"]
      /\ UNCHANGED <<posted, log, confirmed, givenUp, index, foreign,
                     request, events, mode, seen, before>>
  BY DEF QueryVictoriaLogs, logVars
<1>2. PICK n \in 0 .. MaxPosts + MaxForeign : pointers' = [pointers EXCEPT ![r] = n]
  <2>1. pointers = [pointers EXCEPT ![r] = pointers[r]]
        /\ pointers[r] \in 0 .. MaxPosts + MaxForeign
    BY DEF TypeOK
  <2>2. QED
    BY <2>1, PointersBounded DEF QueryVictoriaLogs
<1>3. TypeOK'
  BY <1>1, <1>2 DEF TypeOK
<1>4. StoreInv'
  BY <1>1 DEF StoreInv, Log!Logged
<1>5. /\ pc'[r] = "read"
      /\ \A s \in Readers : s # r => pc'[s] = pc[s] /\ pointers'[s] = pointers[s]
      /\ \A s \in Readers : before[s] \subseteq Readers /\ r \notin before[s]
  BY <1>1, <1>2 DEF TypeOK, HistoryInv
<1>6. HistoryInv'
  BY <1>1, <1>5 DEF HistoryInv
<1>7. ASSUME NEW s \in Readers PROVE ReadOf(s)'
  <2>1. CASE s = r
    BY <1>5, <2>1 DEF ReadOf, HasRead
  <2>2. CASE s # r
    BY <1>1, <1>5, <2>2, ReadFrame DEF ReadInv, HasRead
  <2>3. QED
    BY <2>1, <2>2
<1>8. QED
  BY <1>3, <1>4, <1>6, <1>7 DEF ReadInv

\* A reader reads a beginning of what its range selects, all of it without a limit.
LEMMA FinishReadInv ==
  ASSUME IInv, NEW r \in Readers, pc[r] \in {"load", "read"},
         NEW es \in Seq(Event), FinishRead(r, es),
         IsPrefix(es, LoadEvents(request[r].range)),
         Unlimited(r) => es = LoadEvents(request[r].range)
  PROVE  IInv'
<1> USE DEF IInv
<1>1. UNCHANGED <<posted, log, confirmed, givenUp, index, foreign, request,
                  pointers, seen, before>>
  BY DEF FinishRead, logVars
<1>2. \/ /\ pc' = [pc EXCEPT ![r] = "process"] /\ events' = [events EXCEPT ![r] = es]
         /\ \E m \in {"micro-workflow", "concurrent", "single"} :
              mode' = [mode EXCEPT ![r] = m]
      \/ pc' = [pc EXCEPT ![r] = "error"] /\ events' = events /\ mode' = mode
  BY DEF FinishRead, ChosenMode
<1>3. TypeOK'
  <2>1. pc' \in [Readers ->
                {"idle", "index", "load", "read", "process", "done", "error"}]
    BY <1>2 DEF TypeOK
  <2>2. events' \in [Readers -> Seq(Event)]
    BY <1>2 DEF TypeOK
  <2>3. mode' \in [Readers -> {"none", "micro-workflow", "concurrent", "single"}]
    BY <1>2 DEF TypeOK
  <2>4. QED
    BY <1>1, <2>1, <2>2, <2>3 DEF TypeOK
<1>4. StoreInv'
  BY <1>1 DEF StoreInv, Log!Logged
<1>5. /\ pc'[r] \in {"process", "error"}
      /\ \A s \in Readers : s # r => pc'[s] = pc[s] /\ events'[s] = events[s]
      /\ \A s \in Readers : before[s] \subseteq Readers /\ r \notin before[s]
  BY <1>2 DEF TypeOK, HistoryInv
<1>6. HistoryInv'
  BY <1>1, <1>5 DEF HistoryInv
<1>7. ReadOf(r)'
  <2> SUFFICES ASSUME HasRead(r)' PROVE ReadOf(r)'
    BY DEF ReadOf
  <2> DEFINE wanted == Within(request[r].range)
             now == Select(log, wanted)
  <2>1. events'[r] = es
    BY <1>2 DEF TypeOK, HasRead
  <2>2. IsPrefix(es, now) /\ (Unlimited(r) => es = now)
    BY DEF LoadEvents
  <2>3. ASSUME Unlimited(r), NEW e \in seen[r], InRange(e, request[r].range)
        PROVE  Contains(es, e)
    <3>1. e \in Event /\ e \in wanted
      BY <2>3 DEF TypeOK, Within
    <3>2. PICK i \in 1 .. Len(log) : log[i] = e
      BY DEF HistoryInv, StoreInv, Log!Logged, TypeOK
    <3>3. QED
      <4> HIDE DEF wanted
      <4>1. \E j \in 1 .. Len(now) : now[j] = e
        <5>1. log \in Seq(Event)
          BY DEF TypeOK
        <5>2. \A k \in 1 .. Len(log) : log[k] \in wanted =>
                \E j \in 1 .. Len(now) : now[j] = log[k]
          BY <5>1, SelectFacts
        <5>3. QED
          BY <3>1, <3>2, <5>2
      <4>2. now \in Seq(Event) /\ es = now
        BY <2>2, <2>3, SelectFacts DEF TypeOK
      <4>3. QED
        BY <4>1, <4>2 DEF Contains
  <2>4. ASSUME Unlimited(r), NEW s \in before[r], HasRead(s), Unlimited(s),
               request[r].range = request[s].range
        PROVE  IsPrefix(events[s], es)
    <3>1. IsPrefix(events[s], Select(log, Within(request[s].range)))
      BY <1>5, <2>4 DEF ReadInv, ReadOf
    <3>2. QED
      BY <2>2, <2>4, <3>1
  <2>5. \A s \in before[r] : s # r /\ s \in Readers
    BY <1>5
  <2>6. IsPrefix(events'[r], Select(log', Within(request'[r].range)))
    BY <1>1, <2>1, <2>2
  <2>7. Unlimited(r)' =>
          \A e \in seen'[r] : InRange(e, request'[r].range) => Contains(events'[r], e)
    BY <1>1, <2>1, <2>3 DEF Unlimited
  <2>8. Unlimited(r)' =>
          \A s \in before'[r] :
            HasRead(s)' /\ Unlimited(s)' /\ request'[r].range = request'[s].range =>
              IsPrefix(events'[s], events'[r])
    BY <1>1, <1>5, <2>1, <2>4, <2>5 DEF Unlimited, HasRead
  <2>9. QED
    BY <2>6, <2>7, <2>8 DEF ReadOf
<1>8. ASSUME NEW s \in Readers, s # r PROVE ReadOf(s)'
  BY <1>1, <1>5, <1>8, ReadFrame DEF ReadInv, HasRead
<1>9. QED
  BY <1>3, <1>4, <1>6, <1>7, <1>8 DEF ReadInv

\* A read is a snapshot of the log, limited by its range and its pointers.
LEMMA ReadingInv ==
  ASSUME IInv, NEW r \in Readers, LoadForQuery(r) \/ ReadForReplay(r)
  PROVE  IInv'
<1> USE DEF IInv
<1> DEFINE now == LoadEvents(request[r].range)
<1>1. now \in Seq(Event) /\ log \in Seq(Event)
  BY SelectFacts DEF LoadEvents, TypeOK
<1>2. IsPrefix(now, now)
  BY <1>1, PrefixElements
<1>3. CASE LoadForQuery(r)
  BY <1>1, <1>2, <1>3, FinishReadInv DEF LoadForQuery
<1>4. CASE ReadForReplay(r)
  <2> DEFINE es == ReadEvents(request[r].range, pointers[r])
  <2>1. pointers[r] \in Nat
    BY QueryReplayAssumption DEF TypeOK
  <2> HIDE DEF now
  <2>2. es = IF pointers[r] > 0 /\ Len(now) > pointers[r]
             THEN SubSeq(now, 1, pointers[r]) ELSE now
    BY DEF ReadEvents, now
  <2>3. CASE pointers[r] > 0 /\ Len(now) > pointers[r]
    <3>1. /\ es \in Seq(Event) /\ Len(es) = pointers[r]
          /\ \A i \in 1 .. Len(es) : es[i] = now[i]
      BY <1>1, <2>1, <2>2, <2>3
    <3>2. IsPrefix(es, now)
      <4>1. Len(es) <= Len(now)
        BY <1>1, <2>1, <2>3, <3>1
      <4>2. QED
        BY <1>1, <3>1, <4>1, PrefixElements
    <3>3. pc[r] = "read" /\ FinishRead(r, es)
      BY <1>4 DEF ReadForReplay
    <3> HIDE DEF es
    <3>4. QED
      BY <2>3, <3>1, <3>2, <3>3, FinishReadInv DEF now, Unlimited
  <2>4. CASE ~(pointers[r] > 0 /\ Len(now) > pointers[r])
    <3>1. pc[r] = "read" /\ FinishRead(r, now)
      BY <1>4, <2>2, <2>4 DEF ReadForReplay
    <3>2. QED
      BY <1>1, <1>2, <3>1, FinishReadInv DEF now
  <2>5. QED
    BY <2>3, <2>4
<1>5. QED
  BY <1>3, <1>4

\* A reader that has processed its events keeps them.
LEMMA ProcessInv == ASSUME IInv, NEW r \in Readers, Process(r) PROVE IInv'
<1> USE DEF IInv
<1>1. /\ pc[r] = "process"
      /\ UNCHANGED <<posted, log, confirmed, givenUp, index, foreign,
                     request, pointers, events, mode, seen, before>>
  BY DEF Process, logVars
<1>2. PICK end \in {"done", "error"} : pc' = [pc EXCEPT ![r] = end]
  BY DEF Process
<1>3. TypeOK'
  BY <1>1, <1>2 DEF TypeOK
<1>4. /\ pc'[r] \in {"done", "error"}
      /\ \A s \in Readers : s # r => pc'[s] = pc[s]
      /\ \A s \in Readers : before[s] \subseteq Readers
  BY <1>2 DEF TypeOK
<1>5. StoreInv' /\ HistoryInv'
  BY <1>1, <1>4 DEF StoreInv, HistoryInv, Log!Logged
<1>6. \A s \in Readers : HasRead(s)' => HasRead(s)
  BY <1>1, <1>4 DEF HasRead
<1>7. ReadInv'
  BY <1>1, <1>4, <1>6, ReadFrame DEF ReadInv
<1>8. QED
  BY <1>3, <1>5, <1>7

\* Nobody has read anything at first.
LEMMA InitInv == Init => IInv
<1> SUFFICES ASSUME Init PROVE IInv
  OBVIOUS
<1> USE QueryReplayAssumption DEF Init, Log!Init
<1>1. TypeOK
  BY DEF TypeOK
<1>2. StoreInv /\ HistoryInv
  BY DEF StoreInv, HistoryInv
<1>3. ReadInv
  BY DEF ReadInv, ReadOf, HasRead
<1>4. QED
  BY <1>1, <1>2, <1>3 DEF IInv

\* Every step keeps the invariant.
LEMMA NextInv == IInv /\ [Next]_vars => IInv'
<1> SUFFICES ASSUME IInv, [Next]_vars PROVE IInv'
  OBVIOUS
<1>1. CASE Ingest \/ IndexForeignEvent \/ \E e \in Event : IndexEvents(e)
  BY <1>1, IngestInv, IndexForeignInv, IndexEventsInv
<1>2. CASE \E r \in Readers : \E q \in Requests : StartWorkflow(r, q)
  BY <1>2, StartWorkflowInv
<1>3. CASE \E r \in Readers : ReaderStep(r)
  BY <1>3, QueryVictoriaLogsInv, ReadingInv, ProcessInv DEF ReaderStep
<1>4. CASE UNCHANGED vars
  <2>1. UNCHANGED <<posted, log, confirmed, givenUp, index, foreign,
                    pc, request, pointers, events, mode, seen, before>>
    BY <1>4 DEF vars, logVars, readerVars
  <2>2. TypeOK'
    BY <2>1 DEF IInv, TypeOK
  <2>3. StoreInv' /\ HistoryInv'
    BY <2>1 DEF IInv, StoreInv, HistoryInv, Log!Logged
  <2>4. ReadInv'
    BY <2>1, ReadFrame DEF IInv, ReadInv, HasRead
  <2>5. QED
    BY <2>2, <2>3, <2>4 DEF IInv
<1>5. QED
  BY <1>1, <1>2, <1>3, <1>4 DEF Next

--------------------------------------------------------------------------------
(* The theorems.                                                           *)

\* The invariant holds always.
LEMMA Invariance == Spec => []IInv
BY InitInv, NextInv, PTL DEF Spec

\* The variables stay within their types; in particular the index, which holds each
\* event at most once, never returns more pointers than there are matching events.
THEOREM TypeCorrect == Spec => []TypeOK
BY Invariance, PTL DEF IInv

\* Events confirmed before an unlimited reader started are in what it reads,
\* however its steps interleave with the ingestion of further events.
THEOREM ConfirmedIsRead == Spec => []ConfirmedIsVisible
<1>1. IInv => ConfirmedIsVisible
  BY DEF IInv, ReadInv, ReadOf, ConfirmedIsVisible
<1>2. QED
  BY <1>1, Invariance, PTL

\* What a reader has read is a beginning of what its range selects, forever after;
\* and a reader started after another had read sees at least as much.
THEOREM ReadsStayPrefixes == Spec => []ReadsAreOrdered
<1>1. IInv => ReadsAreOrdered
  BY DEF IInv, ReadInv, ReadOf, ReadsAreOrdered
<1>2. QED
  BY <1>1, Invariance, PTL
================================================================================
