---------------------------- MODULE IngestionProofs ----------------------------
(***************************************************************************)
(* Proofs about Ingestion, for every number of posts, every batch size,    *)
(* every threshold and every number of attempts.                           *)
(*                                                                         *)
(* The inductive invariant says where each batch can be.  The channel of   *)
(* the current run always holds the most recent signals, one after the     *)
(* other, so one number, Received, separates the batches the workflow has  *)
(* taken (or thrown away) from those it has not; nothing has happened yet  *)
(* to the latter.                                                          *)
(***************************************************************************)
EXTENDS Ingestion, FiniteSetTheorems, TLAPS

\* How many signals have left the channel.
Received == Len(batches) - Len(channel)

\* The channel holds the signals Received + 1, ..., Len(batches), in order.
ChannelIsSuffix ==
  /\ Len(channel) <= Len(batches)
  /\ \A k \in 1 .. Len(channel) : channel[k] = Received + k

\* Nothing has happened to a batch that has not been received.
UntouchedBeforeReceived ==
  /\ \A i \in DOMAIN storage : storage[i] <= Received
  /\ \A b \in Batch : b > Received => attempt[b] = "idle"
  /\ \A b \in counted \union dropped \union abandoned : b <= Received
  /\ pc = "append" => /\ current = Received
                      /\ current \in Recorded
                      /\ current \notin counted \union dropped \union abandoned

\* An attempt is past its first write exactly when the batch is in storage.
AttemptsMatchStorage ==
  \A b \in Recorded :
    /\ attempt[b] = "started" => ~Stored(b)
    /\ attempt[b] \in {"stored", "indexed"} => Stored(b)

\* Every batch that has been received, but for the one being appended, is
\* settled.
EarlierAreSettled ==
  \A c \in Recorded :
    c <= Received => c \in counted \union dropped \union abandoned \/ Awaited(c)

IInv ==
  /\ TypeOK
  /\ ChannelIsSuffix
  /\ UntouchedBeforeReceived
  /\ EarlierAreSettled
  /\ AttemptsMatchStorage
  /\ CountedIsStored
  /\ CountedInOrder
  /\ StoredAtMostOnce
  /\ IndexedIsStored

--------------------------------------------------------------------------------

\* There are no batches at first.
LEMMA InitInv == Init => IInv
<1> SUFFICES ASSUME Init PROVE IInv
  OBVIOUS
<1> USE IngestionAssumption DEF Init
<1>1. TypeOK
  BY DEF TypeOK, Batch, AttemptPhase
<1>2. ChannelIsSuffix
  BY DEF ChannelIsSuffix, Received
<1>3. UntouchedBeforeReceived
  BY DEF UntouchedBeforeReceived, Received, Batch
<1>4. AttemptsMatchStorage /\ EarlierAreSettled
  BY DEF AttemptsMatchStorage, EarlierAreSettled, Recorded
<1>5. CountedIsStored /\ CountedInOrder
  BY DEF CountedIsStored, CountedInOrder
<1>6. StoredAtMostOnce /\ IndexedIsStored
  BY DEF StoredAtMostOnce, IndexedIsStored
<1>7. QED
  BY <1>1, <1>2, <1>3, <1>4, <1>5, <1>6 DEF IInv

\* Posting adds one signal at both ends of the bookkeeping.
LEMMA PostInv ==
  ASSUME IInv, NEW size \in BatchSizes, NEW answered \in Answers,
         HandleIngestEvents(size, answered)
  PROVE  IInv'
<1> USE IngestionAssumption DEF IInv, HandleIngestEvents
<1>1. TypeOK'
  <2>1. /\ Len(batches) \in Nat
        /\ Len(batches) + 1 \in Batch
    BY DEF TypeOK, Batch
  <2>2. batches' \in Seq(BatchSizes) /\ Len(batches') = Len(batches) + 1
    BY DEF TypeOK
  <2>3. channel' \in Seq(Batch) /\ acked' \subseteq Batch
    BY <2>1 DEF TypeOK
  <2>4. QED
    BY <2>1, <2>2, <2>3 DEF TypeOK, Batch
<1>2. /\ Len(batches') = Len(batches) + 1
      /\ Len(channel') = Len(channel) + 1
      /\ Received' = Received
  BY DEF TypeOK, Received
<1>3. ChannelIsSuffix'
  BY <1>2 DEF ChannelIsSuffix, TypeOK, Received
<1>4. UntouchedBeforeReceived'
  BY <1>2 DEF UntouchedBeforeReceived, TypeOK, Recorded
<1>5. AttemptsMatchStorage'
  <2> SUFFICES ASSUME NEW b \in Recorded'
               PROVE  /\ attempt[b] = "started" => ~Stored(b)
                      /\ attempt[b] \in {"stored", "indexed"} => Stored(b)
    BY DEF AttemptsMatchStorage, Stored
  <2>1. CASE b \in Recorded
    BY <2>1 DEF AttemptsMatchStorage
  <2>2. CASE b = Len(batches) + 1
    <3>1. b \in Batch /\ b > Received
      BY <2>2, <1>2 DEF TypeOK, Batch, Received
    <3>2. QED
      BY <3>1 DEF UntouchedBeforeReceived
  <2>3. QED
    BY <2>1, <2>2, <1>2 DEF Recorded, TypeOK
<1>6. /\ CountedIsStored' /\ CountedInOrder'
      /\ StoredAtMostOnce' /\ IndexedIsStored'
  BY DEF CountedIsStored, CountedInOrder, StoredAtMostOnce, IndexedIsStored, Stored
<1>7. EarlierAreSettled'
  <2>1. /\ Len(batches) \in Nat /\ Len(channel) \in Nat
        /\ Received <= Len(batches) /\ Received \in Int
    BY DEF TypeOK, Received
  <2>2. ASSUME NEW c \in Recorded', c <= Received PROVE c \in Recorded
    BY <1>2, <2>1, <2>2 DEF Recorded
  <2>3. QED
    BY <1>2, <2>2 DEF EarlierAreSettled, Awaited
<1>8. QED
  BY <1>1, <1>3, <1>4, <1>5, <1>6, <1>7

\* Receiving takes the oldest signal: a batch nothing has happened to.
LEMMA ReceiveInv == ASSUME IInv, ReceiveSignal PROVE IInv'
<1> USE IngestionAssumption DEF IInv, ReceiveSignal
<1>1. /\ Len(channel) \in Nat \ {0} /\ Len(batches) \in Nat
      /\ Head(channel) = channel[1]
      /\ Head(channel) \in Batch
      /\ Len(channel') = Len(channel) - 1
      /\ \A k \in 1 .. Len(channel') : channel'[k] = channel[k + 1]
  BY DEF TypeOK
<1>2. /\ Head(channel) = Received + 1
      /\ Received' = Received + 1
      /\ Received \in Nat
      /\ Head(channel) \in Recorded
  BY <1>1 DEF ChannelIsSuffix, Received, Recorded
<1>3. TypeOK'
  <2>1. /\ channel' \in Seq(Batch)
        /\ attempt' \in [Batch -> AttemptPhase]
        /\ handled' \subseteq Batch
        /\ tries' \in 0 .. MaximumAttempts
    BY <1>1 DEF TypeOK, AttemptPhase
  <2>2. current' \in 0 .. MaxPosts
    BY <1>1 DEF Batch
  <2>3. QED
    BY <2>1, <2>2 DEF TypeOK
<1>4. ChannelIsSuffix'
  BY <1>1, <1>2 DEF ChannelIsSuffix
<1>5. UntouchedBeforeReceived'
  BY <1>1, <1>2 DEF UntouchedBeforeReceived, TypeOK, Recorded, Batch
<1>6. ~Stored(Head(channel))
  BY <1>1, <1>2 DEF Stored, UntouchedBeforeReceived, TypeOK, Batch
<1>7. AttemptsMatchStorage'
  BY <1>1, <1>6 DEF AttemptsMatchStorage, Stored, TypeOK, Recorded
<1>8. /\ CountedIsStored' /\ CountedInOrder'
      /\ StoredAtMostOnce' /\ IndexedIsStored'
  BY DEF CountedIsStored, CountedInOrder, StoredAtMostOnce, IndexedIsStored, Stored
<1>9. EarlierAreSettled'
  BY <1>1, <1>2 DEF EarlierAreSettled, Recorded, Awaited
<1>10. QED
  BY <1>3, <1>4, <1>5, <1>7, <1>8, <1>9

\* Whatever ends the activity with an error, the batch it was appending is
\* settled as dropped, and the stores are as they were.
LEMMA DropInv ==
  ASSUME IInv, pc = "append", AppendFailed,
         UNCHANGED <<batches, acked, current, tries, storage, index>>,
         attempt' = attempt \/ attempt' = [attempt EXCEPT ![current] = "idle"]
  PROVE  IInv'
<1> USE IngestionAssumption DEF IInv, AppendFailed
<1>1. Received' = Received /\ current \in Batch
  BY DEF Received, UntouchedBeforeReceived, Recorded, TypeOK, Batch
<1>2. TypeOK'
  BY <1>1 DEF TypeOK, AttemptPhase
<1>3. ChannelIsSuffix'
  BY <1>1 DEF ChannelIsSuffix
<1>4. UntouchedBeforeReceived'
  BY <1>1 DEF UntouchedBeforeReceived, TypeOK, Recorded
<1>5. AttemptsMatchStorage'
  BY <1>1 DEF AttemptsMatchStorage, Stored, TypeOK, Recorded, Batch
<1>6. /\ CountedIsStored' /\ CountedInOrder'
      /\ StoredAtMostOnce' /\ IndexedIsStored'
  BY DEF CountedIsStored, CountedInOrder, StoredAtMostOnce, IndexedIsStored, Stored
<1>7. EarlierAreSettled'
  BY <1>1 DEF EarlierAreSettled, Recorded, Awaited
<1>8. QED
  BY <1>2, <1>3, <1>4, <1>5, <1>6, <1>7

\* A batch with an attempt under way has been received.
LEMMA StartedIsReceived ==
  ASSUME IInv, NEW b \in Batch, attempt[b] # "idle"
  PROVE  /\ Received \in Nat /\ Received <= Len(batches)
         /\ b <= Received
         /\ b \in Recorded
<1>1. /\ Len(batches) \in Nat /\ Len(channel) \in Nat
      /\ Len(channel) <= Len(batches)
  BY DEF IInv, TypeOK, ChannelIsSuffix
<1>2. Received \in Nat /\ Received <= Len(batches)
  BY <1>1 DEF Received
<1>3. b \in Nat /\ b >= 1
  BY IngestionAssumption DEF Batch
<1>4. ~(b > Received)
  BY DEF IInv, UntouchedBeforeReceived
<1>5. QED
  BY <1>1, <1>2, <1>3, <1>4 DEF Recorded

\* Writing: the batch was not in storage, every counted batch already was.
LEMMA StoreInv == ASSUME IInv, NEW b \in Batch, StoreBatch(b) PROVE IInv'
<1> USE IngestionAssumption DEF IInv, StoreBatch
<1>1. /\ Len(storage) \in Nat
      /\ DOMAIN storage = 1 .. Len(storage)
      /\ DOMAIN storage' = 1 .. Len(storage) + 1
      /\ \A i \in 1 .. Len(storage) : storage'[i] = storage[i]
      /\ storage'[Len(storage) + 1] = b
  BY DEF TypeOK
<1>2. /\ Received' = Received
      /\ Received \in Nat /\ Received <= Len(batches)
      /\ b <= Received
      /\ b \in Recorded
  BY StartedIsReceived DEF Received
<1>3. TypeOK'
  BY DEF TypeOK, AttemptPhase
<1>4. ChannelIsSuffix'
  BY <1>2 DEF ChannelIsSuffix
<1>5. UntouchedBeforeReceived'
  BY <1>1, <1>2 DEF UntouchedBeforeReceived, TypeOK, Recorded
<1>6. /\ ~Stored(b)
      /\ Stored(b)'
      /\ \A c : Stored(c) => Stored(c)'
      /\ \A c : Stored(c)' => Stored(c) \/ c = b
  BY <1>1, <1>2 DEF Stored, AttemptsMatchStorage
<1>7. AttemptsMatchStorage'
  BY <1>2, <1>6 DEF AttemptsMatchStorage, TypeOK, Recorded
<1>8. CountedIsStored' /\ IndexedIsStored'
  BY <1>6 DEF CountedIsStored, IndexedIsStored
<1>9. CountedInOrder'
  <2> SUFFICES ASSUME NEW c \in counted, NEW i \in 1 .. Len(storage) + 1,
                      storage'[i] > c
               PROVE  \E j \in 1 .. i - 1 : storage'[j] = c
    BY <1>1 DEF CountedInOrder
  <2>1. CASE i \in 1 .. Len(storage)
    BY <2>1, <1>1 DEF CountedInOrder
  <2>2. CASE i = Len(storage) + 1
    BY <2>2, <1>1 DEF CountedIsStored, Stored
  <2>3. QED
    BY <2>1, <2>2, <1>1
<1>10. StoredAtMostOnce'
  BY <1>1, <1>6 DEF StoredAtMostOnce, Stored
<1>11. EarlierAreSettled'
  BY <1>2 DEF EarlierAreSettled, Recorded, Awaited
<1>12. QED
  BY <1>3, <1>4, <1>5, <1>7, <1>8, <1>9, <1>10, <1>11

\* Indexing: an attempt at that point has stored its batch.
LEMMA IndexInv == ASSUME IInv, NEW b \in Batch, IndexBatch(b) PROVE IInv'
<1> USE IngestionAssumption DEF IInv, IndexBatch
<1>1. b \in Recorded /\ Stored(b) /\ Received' = Received
  BY StartedIsReceived DEF AttemptsMatchStorage, Received
<1>2. TypeOK'
  <2>1. index' \in Seq(Batch)
    <3>1. CASE index' = index
      BY <3>1 DEF TypeOK
    <3>2. CASE index' = Append(index, b)
      BY <3>2 DEF TypeOK
    <3>3. QED
      BY <3>1, <3>2
  <2>2. QED
    BY <2>1 DEF TypeOK, AttemptPhase
<1>3. ChannelIsSuffix'
  BY <1>1 DEF ChannelIsSuffix
<1>4. UntouchedBeforeReceived'
  BY <1>1 DEF UntouchedBeforeReceived, TypeOK, Recorded
<1>5. AttemptsMatchStorage'
  BY <1>1 DEF AttemptsMatchStorage, Stored, TypeOK, Recorded
<1>6. CountedIsStored' /\ CountedInOrder' /\ StoredAtMostOnce'
  BY DEF CountedIsStored, CountedInOrder, StoredAtMostOnce, Stored
<1>7. IndexedIsStored'
  <2>1. CASE index' = index
    BY <2>1 DEF IndexedIsStored, Stored
  <2>2. CASE index' = Append(index, b)
    <3>1. \A i \in DOMAIN index' :
            index'[i] = b \/ (i \in DOMAIN index /\ index'[i] = index[i])
      BY <2>2 DEF TypeOK
    <3>2. QED
      BY <3>1, <1>1 DEF IndexedIsStored, Stored
  <2>3. QED
    BY <2>1, <2>2
<1>8. EarlierAreSettled'
  BY <1>1 DEF EarlierAreSettled, Recorded, Awaited
<1>9. QED
  BY <1>2, <1>3, <1>4, <1>5, <1>6, <1>7, <1>8

\* An attempt nobody waits for ends, or any attempt dies: no store changes.
LEMMA SettleAttemptInv ==
  ASSUME IInv, NEW b \in Batch, NEW phase \in {"idle", "gone"},
         attempt[b] # "idle",
         attempt' = [attempt EXCEPT ![b] = phase],
         UNCHANGED <<batches, acked, channel, pc, current, tries, eventCount,
                     storage, index, handled, counted, dropped, abandoned>>
  PROVE  IInv'
<1> USE IngestionAssumption DEF IInv
<1>1. Received' = Received /\ b <= Received
  BY StartedIsReceived DEF Received
<1>2. TypeOK'
  BY DEF TypeOK, AttemptPhase
<1>3. ChannelIsSuffix'
  BY <1>1 DEF ChannelIsSuffix
<1>4. UntouchedBeforeReceived'
  BY <1>1, StartedIsReceived DEF UntouchedBeforeReceived, TypeOK, Recorded, Batch
<1>5. AttemptsMatchStorage'
  BY DEF AttemptsMatchStorage, Stored, TypeOK, Recorded
<1>6. /\ CountedIsStored' /\ CountedInOrder'
      /\ StoredAtMostOnce' /\ IndexedIsStored'
  BY DEF CountedIsStored, CountedInOrder, StoredAtMostOnce, IndexedIsStored, Stored
<1>7. EarlierAreSettled'
  BY <1>1 DEF EarlierAreSettled, Recorded, Awaited
<1>8. QED
  BY <1>2, <1>3, <1>4, <1>5, <1>6, <1>7

\* A failing attempt changes no store: it is retried, or drops the batch, or
\* nobody listens to it any more.
LEMMA FailInv == ASSUME IInv, NEW b \in Batch, AttemptFails(b) PROVE IInv'
<1> USE IngestionAssumption DEF IInv
<1>1. CASE /\ Awaited(b) /\ tries < MaximumAttempts
           /\ tries' = tries + 1
           /\ UNCHANGED <<pc, channel, eventCount, handled, counted, dropped,
                          abandoned, attempt>>
           /\ UNCHANGED <<batches, acked, current, storage, index>>
  <2>1. Received' = Received /\ tries' \in 0 .. MaximumAttempts
    BY <1>1 DEF Received, TypeOK
  <2>2. TypeOK'
    BY <1>1, <2>1 DEF TypeOK
  <2>3. /\ ChannelIsSuffix' /\ UntouchedBeforeReceived'
        /\ AttemptsMatchStorage'
    BY <1>1, <2>1 DEF ChannelIsSuffix, UntouchedBeforeReceived,
                      AttemptsMatchStorage, Stored, Recorded
  <2>4. /\ CountedIsStored' /\ CountedInOrder'
        /\ StoredAtMostOnce' /\ IndexedIsStored'
    BY <1>1 DEF CountedIsStored, CountedInOrder, StoredAtMostOnce,
                IndexedIsStored, Stored
  <2>5. EarlierAreSettled'
    BY <1>1, <2>1 DEF EarlierAreSettled, Recorded, Awaited
  <2>6. QED
    BY <2>2, <2>3, <2>4, <2>5
<1>2. CASE /\ Awaited(b) /\ AppendFailed
           /\ attempt' = [attempt EXCEPT ![b] = "idle"]
           /\ UNCHANGED <<batches, acked, current, tries, storage, index>>
  BY <1>2, DropInv DEF Awaited
<1>3. CASE /\ attempt' = [attempt EXCEPT ![b] = "idle"]
           /\ UNCHANGED <<pc, tries, channel, eventCount, handled, counted,
                          dropped, abandoned>>
           /\ UNCHANGED <<batches, acked, current, storage, index>>
  <2>1. attempt[b] # "idle"
    BY DEF AttemptFails
  <2>2. "idle" \in {"idle", "gone"}
    OBVIOUS
  <2>3. QED
    BY <1>3, <2>1, <2>2, SettleAttemptInv
<1>4. QED
  BY <1>1, <1>2, <1>3 DEF AttemptFails

\* The channel holds exactly the recorded batches not yet received.
LEMMA ChannelHoldsTheRest ==
  ASSUME IInv
  PROVE  Range(channel) = {c \in Recorded : c > Received}
<1>1. /\ Len(channel) \in Nat /\ Len(batches) \in Nat
      /\ Len(channel) <= Len(batches)
      /\ DOMAIN channel = 1 .. Len(channel)
      /\ \A k \in 1 .. Len(channel) : channel[k] = Len(batches) - Len(channel) + k
  BY DEF IInv, TypeOK, ChannelIsSuffix, Received
<1>2. ASSUME NEW k \in DOMAIN channel
      PROVE  channel[k] \in Recorded /\ channel[k] > Received
  BY <1>1 DEF Recorded, Received
<1>3. ASSUME NEW c \in Recorded, c > Received
      PROVE  \E k \in DOMAIN channel : channel[k] = c
  <2>1. c - Received \in DOMAIN channel
    BY <1>1, <1>3 DEF Recorded, Received
  <2>2. channel[c - Received] = c
    BY <1>1, <1>3, <2>1 DEF Recorded, Received
  <2>3. QED
    BY <2>1, <2>2
<1>4. QED
  BY <1>2, <1>3 DEF Range

\* An awaited attempt that returns nil had written the batch, and no later batch
\* has been received, so none is in storage yet.
LEMMA SucceedInv == ASSUME IInv, NEW b \in Batch, AttemptSucceeds(b) PROVE IInv'
<1> USE IngestionAssumption DEF IInv
<1>1. CASE /\ Awaited(b) /\ AppendSucceeded
  <2> USE <1>1 DEF AttemptSucceeds, Awaited, AppendSucceeded
  <2>1. /\ Stored(b) /\ b = Received /\ b \in Recorded
        /\ Received \in Nat /\ Received <= Len(batches)
    BY StartedIsReceived DEF AttemptsMatchStorage, UntouchedBeforeReceived
  <2>2. Range(channel) \subseteq Recorded
    BY ChannelHoldsTheRest
  <2>3. Recorded \subseteq Batch /\ Recorded' = Recorded
    BY DEF Recorded, Batch, TypeOK
  <2>4. batches[current] \in Nat \ {0}
    <3>1. batches[b] \in BatchSizes
      BY <2>1 DEF TypeOK, Recorded
    <3>2. QED
      BY <3>1
  <2>5. TypeOK'
    <3>1. eventCount' \in 0 .. ContinueAsNewThreshold - 1
      <4>1. eventCount \in Nat
        BY DEF TypeOK
      <4>2. QED
        BY <2>4, <4>1
    <3>2. /\ channel' \in Seq(Batch) /\ handled' \subseteq Batch
          /\ counted' \subseteq Batch /\ abandoned' \subseteq Batch
      <4>1. CASE eventCount + batches[current] >= ContinueAsNewThreshold
        <5>1. channel' = <<>> /\ handled' = {}
          BY <4>1
        <5>2. counted' \subseteq Batch
          BY DEF TypeOK
        <5>3. abandoned' \subseteq Batch
          BY <4>1, <2>2, <2>3 DEF TypeOK
        <5>4. <<>> \in Seq(Batch) /\ {} \subseteq Batch
          OBVIOUS
        <5>5. QED
          BY <5>1, <5>2, <5>3, <5>4
      <4>2. CASE ~(eventCount + batches[current] >= ContinueAsNewThreshold)
        BY <4>2 DEF TypeOK
      <4>3. QED
        BY <4>1, <4>2
    <3>3. attempt' \in [Batch -> AttemptPhase]
      BY DEF TypeOK, AttemptPhase
    <3>4. QED
      BY <3>1, <3>2, <3>3 DEF TypeOK
  <2>6. ChannelIsSuffix' /\ Received' \in Nat /\ Received' >= Received
    <3>1. CASE channel' = channel
      BY <3>1, <2>1 DEF ChannelIsSuffix, Received
    <3>2. CASE channel' = <<>>
      BY <3>2, <2>1 DEF ChannelIsSuffix, Received, TypeOK
    <3>3. QED
      BY <3>1, <3>2
  <2>7. UntouchedBeforeReceived'
    <3>1. \A i \in DOMAIN storage : storage[i] <= Received'
      BY <2>1, <2>6 DEF UntouchedBeforeReceived, TypeOK, Batch
    <3>2. \A c \in Batch : c > Received' => attempt'[c] = "idle"
      BY <2>1, <2>6 DEF UntouchedBeforeReceived, TypeOK, Batch
    <3>3. \A c \in counted' \union dropped' \union abandoned' : c <= Received'
      <4>1. \A c \in counted \union dropped \union abandoned \union {b} :
              c <= Received'
        BY <2>1, <2>6 DEF UntouchedBeforeReceived, TypeOK, Batch
      <4>2. CASE abandoned' = abandoned
        BY <4>1, <4>2
      <4>3. CASE channel' = <<>> /\ abandoned' = abandoned \union Range(channel)
        <5>1. Received' = Len(batches)
          BY <4>3 DEF Received, TypeOK
        <5>2. QED
          BY <4>1, <4>3, <5>1, <2>2 DEF Recorded
      <4>4. QED
        BY <4>2, <4>3
    <3>4. QED
      BY <3>1, <3>2, <3>3 DEF UntouchedBeforeReceived
  <2>8. AttemptsMatchStorage'
    BY <2>3 DEF AttemptsMatchStorage, Stored, TypeOK
  <2>9. CountedIsStored' /\ StoredAtMostOnce' /\ IndexedIsStored'
    BY <2>1 DEF CountedIsStored, StoredAtMostOnce, IndexedIsStored, Stored
  <2>10. CountedInOrder'
    <3>1. \A i \in DOMAIN storage : ~(storage[i] > b)
      BY <2>1 DEF UntouchedBeforeReceived, TypeOK, Batch
    <3>2. QED
      BY <3>1 DEF CountedInOrder
  <2>11. EarlierAreSettled'
    <3>1. CASE channel' = channel /\ abandoned' = abandoned
      BY <3>1, <2>1 DEF EarlierAreSettled, Recorded, Received
    <3>2. CASE channel' = <<>> /\ abandoned' = abandoned \union Range(channel)
      BY <3>2, <2>1, ChannelHoldsTheRest DEF EarlierAreSettled, Recorded
    <3>3. QED
      BY <3>1, <3>2
  <2>12. QED
    BY <2>5, <2>6, <2>7, <2>8, <2>9, <2>10, <2>11
<1>2. CASE ~Awaited(b)
  <2>1. attempt[b] # "idle" /\ "idle" \in {"idle", "gone"}
    BY DEF AttemptSucceeds
  <2>2. QED
    BY <1>2, <2>1, SettleAttemptInv DEF AttemptSucceeds
<1>3. QED
  BY <1>1, <1>2 DEF AttemptSucceeds

\* The ingestion workflow, its attempts and the stores keep the invariant.
LEMMA NextInv == IInv /\ [Next]_vars => IInv'
<1> SUFFICES ASSUME IInv, [Next]_vars PROVE IInv'
  OBVIOUS
<1>1. CASE UNCHANGED vars
  BY <1>1 DEF vars, IInv, TypeOK, ChannelIsSuffix, UntouchedBeforeReceived,
    EarlierAreSettled, Awaited,
    AttemptsMatchStorage, CountedIsStored, CountedInOrder, StoredAtMostOnce,
    IndexedIsStored, Stored, Received, Recorded
<1>2. CASE ScheduleToCloseTimeout
  BY <1>2, DropInv DEF ScheduleToCloseTimeout
<1>3. ASSUME NEW b \in Batch, AttemptDies(b) PROVE IInv'
  BY <1>3, SettleAttemptInv DEF AttemptDies
<1>4. QED
  BY <1>1, <1>2, <1>3, PostInv, ReceiveInv, StoreInv, IndexInv, FailInv,
     SucceedInv DEF Next

--------------------------------------------------------------------------------

\* Type correctness of the workflow's state, its attempts and the two stores.
THEOREM TypeCorrect == Spec => []TypeOK
<1>1. IInv => TypeOK
  BY DEF IInv
<1>2. QED
  BY <1>1, InitInv, NextInv, PTL DEF Spec

\* A batch the workflow counted is in storage, whatever its attempts went
\* through, for every number of attempts and every threshold.
THEOREM CountedBatchesAreStored == Spec => []CountedIsStored
<1>1. IInv => CountedIsStored
  BY DEF IInv
<1>2. QED
  BY <1>1, InitInv, NextInv, PTL DEF Spec

\* Storage holds the counted batches in the order their signals were recorded.
THEOREM CountedBatchesInOrder == Spec => []CountedInOrder
<1>1. IInv => CountedInOrder
  BY DEF IInv
<1>2. QED
  BY <1>1, InitInv, NextInv, PTL DEF Spec

\* No interleaving of retries, dead attempts and timeouts duplicates a batch.
THEOREM NoDuplicates == Spec => []StoredAtMostOnce
<1>1. IInv => StoredAtMostOnce
  BY DEF IInv
<1>2. QED
  BY <1>1, InitInv, NextInv, PTL DEF Spec

\* The index never runs ahead of storage.
THEOREM IndexFollowsStorage == Spec => []IndexedIsStored
<1>1. IInv => IndexedIsStored
  BY DEF IInv
<1>2. QED
  BY <1>1, InitInv, NextInv, PTL DEF Spec

--------------------------------------------------------------------------------
(* Where every batch is, and what EventCount counts.                       *)

\* A batch has at most one outcome.
OutcomesExclude ==
  /\ counted \intersect dropped = {}
  /\ counted \intersect abandoned = {}
  /\ dropped \intersect abandoned = {}

\* What the current run has received, the batch being appended included, has
\* left the channel; EventCount is what it saw succeed.
RunCounts ==
  /\ \A b \in handled : b <= Received
  /\ pc = "append" => current \in handled
  /\ IsFiniteSet(CountedEvents)
  /\ eventCount = Cardinality(CountedEvents)

AccInv == OutcomesExclude /\ RunCounts

\* There is nothing to account for at first.
LEMMA AccInit == Init => AccInv
<1> SUFFICES ASSUME Init PROVE AccInv
  OBVIOUS
<1>1. CountedEvents = {}
  BY DEF Init, CountedEvents
<1>2. QED
  BY <1>1, FS_EmptySet DEF Init, AccInv, OutcomesExclude, RunCounts

\* The events of one batch are as many as its size says.
LEMMA EventsOfBatch ==
  ASSUME NEW b, NEW n \in Nat
  PROVE  IsFiniteSet({b} \X (1 .. n)) /\ Cardinality({b} \X (1 .. n)) = n
<1>1. IsFiniteSet({b}) /\ Cardinality({b}) = 1
  BY FS_Singleton
<1>2. IsFiniteSet(1 .. n) /\ Cardinality(1 .. n) = n
  BY FS_Interval
<1>3. /\ IsFiniteSet({b} \X (1 .. n))
      /\ Cardinality({b} \X (1 .. n)) = Cardinality({b}) * Cardinality(1 .. n)
  BY <1>1, <1>2, FS_Product, Zenon
<1>4. QED
  BY <1>1, <1>2, <1>3

\* A step that neither counts a batch nor starts a run leaves the count alone.
LEMMA SameCount ==
  ASSUME IInv, RunCounts, UNCHANGED eventCount,
         handled' \intersect counted' = handled \intersect counted,
         \A b \in Recorded : batches'[b] = batches[b]
  PROVE  IsFiniteSet(CountedEvents)' /\ eventCount' = Cardinality(CountedEvents)'
<1>1. \A b \in handled \intersect counted : b \in Recorded
  BY DEF IInv, TypeOK, RunCounts, Recorded, Received, Batch
<1>2. CountedEvents' = CountedEvents
  BY <1>1 DEF CountedEvents
<1>3. QED
  BY <1>2 DEF RunCounts

\* Steps that concern one attempt only.
LEMMA AccFrame ==
  ASSUME AccInv, UNCHANGED <<batches, channel, pc, current, eventCount, handled,
                             counted, dropped, abandoned>>
  PROVE  AccInv'
BY DEF AccInv, OutcomesExclude, RunCounts, Received, CountedEvents

\* A recorded signal is in the channel and nowhere else.
LEMMA AccPost ==
  ASSUME IInv, AccInv, NEW size \in BatchSizes, NEW answered \in Answers,
         HandleIngestEvents(size, answered)
  PROVE  AccInv'
<1> USE DEF HandleIngestEvents, AccInv
<1>1. Received' = Received /\ \A b \in Recorded : batches'[b] = batches[b]
  BY DEF IInv, TypeOK, Received, Recorded
<1>2. IsFiniteSet(CountedEvents)' /\ eventCount' = Cardinality(CountedEvents)'
  BY <1>1, SameCount
<1>3. QED
  BY <1>1, <1>2 DEF OutcomesExclude, RunCounts

\* The signal received has no outcome yet, so it adds nothing to the count.
LEMMA AccReceive == ASSUME IInv, AccInv, ReceiveSignal PROVE AccInv'
<1> USE DEF ReceiveSignal, AccInv
<1>1. /\ Received' = Received + 1 /\ Received \in Int
      /\ Head(channel) = Received + 1
  BY DEF IInv, TypeOK, ChannelIsSuffix, Received
<1>2. /\ Head(channel) \notin counted
      /\ \A b \in handled' : b <= Received'
  BY <1>1 DEF IInv, TypeOK, UntouchedBeforeReceived, RunCounts, Batch
<1>3. IsFiniteSet(CountedEvents)' /\ eventCount' = Cardinality(CountedEvents)'
  BY <1>2, SameCount
<1>4. QED
  BY <1>2, <1>3 DEF OutcomesExclude, RunCounts

\* A batch whose append fails for good is dropped and not counted.
LEMMA AccDrop ==
  ASSUME IInv, AccInv, pc = "append", AppendFailed, UNCHANGED <<batches, current>>
  PROVE  AccInv'
<1> USE DEF AppendFailed, AccInv
<1>1. OutcomesExclude'
  BY DEF OutcomesExclude, IInv, UntouchedBeforeReceived
<1>2. IsFiniteSet(CountedEvents)' /\ eventCount' = Cardinality(CountedEvents)'
  BY SameCount
<1>3. QED
  BY <1>1, <1>2 DEF RunCounts, Received

\* A successful append adds exactly its events; a run that continues as new
\* starts at zero, and what its channel held had no outcome.
LEMMA AccCount ==
  ASSUME IInv, AccInv, NEW b \in Batch, AttemptSucceeds(b), Awaited(b)
  PROVE  AccInv'
<1> USE DEF AttemptSucceeds, Awaited, AppendSucceeded, AccInv
<1>1. /\ b = current /\ b \in handled
      /\ b \in Recorded /\ b = Received
      /\ b \notin counted \union dropped \union abandoned
      /\ Received \in Int
  BY DEF RunCounts, IInv, UntouchedBeforeReceived, TypeOK, Received
<1>2. Range(channel) \intersect (counted \union dropped \union abandoned \union {b}) = {}
  <2>1. \A c \in Range(channel) : c \in Nat /\ c > Received
    BY ChannelHoldsTheRest DEF IInv, Recorded
  <2>2. \A c \in counted \union dropped \union abandoned \union {b} :
           c \in Nat /\ c <= Received
    BY <1>1 DEF IInv, UntouchedBeforeReceived, TypeOK, Batch
  <2>3. QED
    BY <1>1, <2>1, <2>2
<1>3. OutcomesExclude'
  BY <1>1, <1>2 DEF OutcomesExclude
<1>4. CASE handled' = {} /\ eventCount' = 0
  <2>1. CountedEvents' = {}
    BY <1>4 DEF CountedEvents
  <2>2. QED
    BY <1>3, <1>4, <2>1, FS_EmptySet DEF RunCounts
<1>5. CASE /\ eventCount' = eventCount + batches[b]
           /\ UNCHANGED <<handled, abandoned, channel>>
  <2>1. batches[b] \in Nat
    <3>1. batches[b] \in BatchSizes
      BY <1>1 DEF IInv, TypeOK, Recorded
    <3>2. QED
      BY <3>1, IngestionAssumption
  <2> DEFINE events == {b} \X (1 .. batches[b])
  <2>2. IsFiniteSet(events) /\ Cardinality(events) = batches[b]
    BY <2>1, EventsOfBatch
  <2>3. CountedEvents' = CountedEvents \union events
    <3>1. /\ handled' \intersect counted' = (handled \intersect counted) \union {b}
          /\ batches' = batches
      BY <1>1, <1>5
    <3>2. /\ \A e : e \in CountedEvents <=>
                     \E c \in handled \intersect counted : e \in {c} \X (1 .. batches[c])
          /\ \A e : e \in CountedEvents' <=>
                     \E c \in handled' \intersect counted' : e \in {c} \X (1 .. batches[c])
      BY <3>1 DEF CountedEvents
    <3>3. QED
      BY <3>1, <3>2
  <2>4. CountedEvents \intersect events = {}
    BY <1>1 DEF CountedEvents
  <2>5. /\ IsFiniteSet(CountedEvents)'
        /\ Cardinality(CountedEvents)' = Cardinality(CountedEvents) + batches[b]
    <3> HIDE DEF events
    <3>1. IsFiniteSet(CountedEvents) /\ Cardinality(CountedEvents) \in Nat
      BY FS_CardinalityType DEF RunCounts
    <3>2. /\ IsFiniteSet(CountedEvents \union events)
          /\ Cardinality(CountedEvents \union events) =
               Cardinality(CountedEvents) + Cardinality(events)
                 - Cardinality(CountedEvents \intersect events)
      BY <2>2, <3>1, FS_Union, Zenon
    <3>3. Cardinality(CountedEvents \intersect events) = 0
      BY <2>4, FS_EmptySet, Zenon
    <3>4. QED
      BY <2>1, <2>2, <2>3, <3>1, <3>2, <3>3
  <2>6. QED
    BY <1>3, <1>5, <2>5 DEF RunCounts, Received
<1>6. QED
  BY <1>1, <1>4, <1>5

\* Every step keeps every batch in one place and the count at its batches.
LEMMA AccNext == IInv /\ AccInv /\ [Next]_vars => AccInv'
<1> SUFFICES ASSUME IInv, AccInv, [Next]_vars PROVE AccInv'
  OBVIOUS
<1>1. CASE UNCHANGED vars
  BY <1>1, AccFrame DEF vars
<1>2. CASE ScheduleToCloseTimeout
  BY <1>2, AccDrop DEF ScheduleToCloseTimeout
<1>3. ASSUME NEW b \in Batch, StoreBatch(b) \/ IndexBatch(b) \/ AttemptDies(b)
      PROVE  AccInv'
  BY <1>3, AccFrame DEF StoreBatch, IndexBatch, AttemptDies
<1>4. ASSUME NEW b \in Batch, AttemptFails(b) PROVE AccInv'
  <2>1. CASE Awaited(b) /\ AppendFailed
    BY <1>4, <2>1, AccDrop DEF AttemptFails, Awaited
  <2>2. CASE ~(Awaited(b) /\ AppendFailed)
    BY <1>4, <2>2, AccFrame DEF AttemptFails
  <2>3. QED
    BY <2>1, <2>2
<1>5. ASSUME NEW b \in Batch, AttemptSucceeds(b) PROVE AccInv'
  <2>1. CASE Awaited(b)
    BY <1>5, <2>1, AccCount
  <2>2. CASE ~Awaited(b)
    BY <1>5, <2>2, AccFrame DEF AttemptSucceeds
  <2>3. QED
    BY <2>1, <2>2
<1>6. QED
  BY <1>1, <1>2, <1>3, <1>4, <1>5, AccPost, AccReceive DEF Next

\* One place per batch: what is in the channel or being appended has no outcome,
\* and what has left both has one.
LEMMA OnePlaceEach ==
  ASSUME IInv, AccInv, NEW b \in Recorded
  PROVE  Cardinality({k \in 1 .. 5 : Whereabouts(b)[k]}) = 1
<1> DEFINE Places == {k \in 1 .. 5 : Whereabouts(b)[k]}
<1>1. /\ Received \in Int /\ b \in Nat
      /\ b \in Range(channel) <=> b > Received
      /\ Awaited(b) => b = Received
      /\ b \in counted \union dropped \union abandoned => b <= Received /\ ~Awaited(b)
      /\ b <= Received => b \in counted \union dropped \union abandoned \/ Awaited(b)
  <2>1. /\ Received \in Int /\ b \in Nat
        /\ b \in Range(channel) <=> b > Received
    <3>1. Len(batches) \in Nat /\ Received \in Int
      BY DEF IInv, TypeOK, Received
    <3>2. QED
      BY <3>1, ChannelHoldsTheRest DEF Recorded
  <2>2. Awaited(b) => b = Received
    BY DEF IInv, Awaited, UntouchedBeforeReceived
  <2>3. b \in counted \union dropped \union abandoned => b <= Received /\ ~Awaited(b)
    BY DEF IInv, Awaited, UntouchedBeforeReceived
  <2>4. b <= Received => b \in counted \union dropped \union abandoned \/ Awaited(b)
    BY DEF IInv, Recorded, Awaited, EarlierAreSettled
  <2>5. QED
    BY <2>1, <2>2, <2>3, <2>4
<1>2. /\ 1 \in Places <=> b \in Range(channel)
      /\ 2 \in Places <=> Awaited(b)
      /\ 3 \in Places <=> b \in counted
      /\ 4 \in Places <=> b \in dropped
      /\ 5 \in Places <=> b \in abandoned
  <2>1. /\ Whereabouts(b)[1] <=> b \in Range(channel)
        /\ Whereabouts(b)[2] <=> Awaited(b)
        /\ Whereabouts(b)[3] <=> b \in counted
        /\ Whereabouts(b)[4] <=> b \in dropped
        /\ Whereabouts(b)[5] <=> b \in abandoned
    BY DEF Whereabouts
  <2>2. 1 \in 1 .. 5 /\ 2 \in 1 .. 5 /\ 3 \in 1 .. 5 /\ 4 \in 1 .. 5 /\ 5 \in 1 .. 5
    OBVIOUS
  <2>3. QED
    BY <2>1, <2>2, Zenon
<1>3. \E k \in 1 .. 5 : Places = {k}
  <2>1. Places \subseteq {1, 2, 3, 4, 5}
    OBVIOUS
  <2> HIDE DEF Places
  <2>2. PICK k \in 1 .. 5 : k \in Places
    BY <1>1, <1>2
  <2>3. \A i, j \in Places : i = j
    BY <1>1, <1>2, <2>1 DEF AccInv, OutcomesExclude
  <2>4. Places = {k}
    BY <2>2, <2>3
  <2>5. QED
    BY <2>4
<1>4. QED
  BY <1>3, FS_Singleton

\* Every recorded batch is in exactly one place, whatever fails, times out or
\* continues as new, and EventCount counts what the current run has appended.
THEOREM BatchesAreAccounted == Spec => []EveryBatchAccounted
<1>1. IInv /\ AccInv => EveryBatchAccounted
  BY OnePlaceEach DEF EveryBatchAccounted, AccInv, RunCounts
<1>2. QED
  BY <1>1, InitInv, NextInv, AccInit, AccNext, PTL DEF Spec

--------------------------------------------------------------------------------
(* Refinement: ingestion implements EventLog.                              *)

\* A timeline without signals is an empty log.
LEMMA LogInit == Init => Log!Init
BY DEF Init, Log!Init

\* Only the oldest open batch can be waiting for its append.
LEMMA OldestOpen ==
  ASSUME IInv, pc = "append"
  PROVE  /\ current \in Log!Open
         /\ \A c \in Log!Open : current <= c
<1>1. /\ Len(batches) \in Nat /\ Received \in Int
      /\ Recorded = 1 .. Len(batches)
  BY DEF IInv, TypeOK, Received, Recorded
<1>2. current \in Log!Open /\ current = Received
  BY <1>1 DEF IInv, UntouchedBeforeReceived, Log!Open, Log!Settled
<1>3. ASSUME NEW c \in Log!Open PROVE current <= c
  <2>1. c \in Recorded /\ c \notin counted \union dropped \union abandoned
    BY <1>1 DEF Log!Open, Log!Settled
  <2>2. c > Received \/ c = current
    BY <1>1, <2>1 DEF IInv, EarlierAreSettled, Awaited
  <2>3. QED
    BY <1>1, <1>2, <2>1, <2>2
<1>4. QED
  BY <1>2, <1>3

\* An activity that ends with an error gives its batch up.
LEMMA DropRefines ==
  ASSUME IInv, pc = "append", AppendFailed, UNCHANGED <<batches, storage>>
  PROVE  Log!Next
<1>1. Log!GiveUp(current)
  BY OldestOpen DEF AppendFailed, Log!GiveUp
<1>2. QED
  BY <1>1, OldestOpen DEF Log!Next

\* An activity that ends well confirms its batch, and gives up the channel's
\* batches when the run continues as new.
LEMMA CountRefines ==
  ASSUME IInv, NEW b \in Batch, AttemptSucceeds(b), Awaited(b)
  PROVE  Log!Next
<1> USE DEF AttemptSucceeds, Awaited, AppendSucceeded
<1>1. /\ pc = "append" /\ b = current /\ b \in Log!Open
      /\ \A c \in Log!Open : b <= c
  BY OldestOpen
<1>2. Log!Logged(b)
  BY StartedIsReceived DEF IInv, AttemptsMatchStorage, Stored, Log!Logged
<1>3. Log!Open \ {b} = Range(channel) \ (counted \union dropped \union abandoned)
  <2>1. Range(channel) = {c \in Recorded : c > Received}
    BY ChannelHoldsTheRest
  <2>2. /\ Len(batches) \in Nat /\ Received \in Int /\ b = Received
    BY <1>1 DEF IInv, TypeOK, Received, UntouchedBeforeReceived
  <2>3. ASSUME NEW c \in Recorded, c \notin counted \union dropped \union abandoned
        PROVE  c # b <=> c > Received
    <3>1. c > Received \/ c = b
      BY <1>1, <2>2, <2>3 DEF IInv, EarlierAreSettled, Recorded
    <3>2. QED
      BY <2>2, <3>1 DEF Recorded
  <2>4. QED
    BY <2>1, <2>3 DEF Log!Open, Log!Settled, Recorded
<1>4. \/ dropped' \union abandoned' = dropped \union abandoned
      \/ /\ dropped' \union abandoned' = dropped \union abandoned \union (Log!Open \ {b})
  <2>1. ASSUME NEW c \in Range(channel) PROVE c \notin counted \union dropped \union abandoned
    <3>1. c \in Nat /\ c > Received /\ Received \in Int
      <4>1. Len(batches) \in Nat /\ Received \in Int
        BY DEF IInv, TypeOK, Received
      <4>2. QED
        BY <4>1, ChannelHoldsTheRest DEF Recorded
    <3>2. \A d \in counted \union dropped \union abandoned : d \in Nat /\ d <= Received
      BY DEF IInv, UntouchedBeforeReceived, TypeOK, Batch
    <3>3. QED
      BY <3>1, <3>2
  <2>2. QED
    BY <1>3, <2>1
<1>5. Log!Confirm(b)
  BY <1>1, <1>2, <1>4 DEF Log!Confirm
<1>6. QED
  BY <1>1, <1>5 DEF Log!Next

\* Every step of ingestion is a step of the log or changes nothing of it.
LEMMA LogStep == IInv /\ [Next]_vars => [Log!Next]_(Log!vars)
<1> SUFFICES ASSUME IInv, [Next]_vars PROVE [Log!Next]_(Log!vars)
  OBVIOUS
<1> USE DEF Log!vars
<1>1. CASE UNCHANGED vars
  BY <1>1 DEF vars
<1>2. ASSUME NEW size \in BatchSizes, NEW answered \in Answers,
             HandleIngestEvents(size, answered)
      PROVE  Log!Next
  BY <1>2 DEF HandleIngestEvents, Log!Next, Log!Post, IInv, TypeOK
<1>3. CASE ReceiveSignal
  BY <1>3 DEF ReceiveSignal
<1>4. CASE ScheduleToCloseTimeout
  BY <1>4, DropRefines DEF ScheduleToCloseTimeout
<1>5. ASSUME NEW b \in Batch, StoreBatch(b) PROVE Log!Next
  <2>1. b \in Recorded
    BY <1>5, StartedIsReceived DEF StoreBatch
  <2>2. Log!Write(b)
    BY <1>5, <2>1 DEF StoreBatch, IInv, AttemptsMatchStorage, Stored, Log!Write, Log!Logged
  <2>3. QED
    BY <2>1, <2>2 DEF Log!Next, Recorded
<1>6. ASSUME NEW b \in Batch, IndexBatch(b) PROVE UNCHANGED Log!vars
  BY <1>6 DEF IndexBatch
<1>7. ASSUME NEW b \in Batch, AttemptDies(b) PROVE UNCHANGED Log!vars
  BY <1>7 DEF AttemptDies
<1>8. ASSUME NEW b \in Batch, AttemptFails(b) PROVE Log!Next \/ UNCHANGED Log!vars
  <2>1. CASE Awaited(b) /\ AppendFailed
    BY <1>8, <2>1, DropRefines DEF AttemptFails, Awaited
  <2>2. CASE ~(Awaited(b) /\ AppendFailed)
    BY <1>8, <2>2 DEF AttemptFails
  <2>3. QED
    BY <2>1, <2>2
<1>9. ASSUME NEW b \in Batch, AttemptSucceeds(b) PROVE Log!Next \/ UNCHANGED Log!vars
  <2>1. CASE Awaited(b)
    BY <1>9, <2>1, CountRefines
  <2>2. CASE ~Awaited(b)
    BY <1>9, <2>2 DEF AttemptSucceeds
  <2>3. QED
    BY <2>1, <2>2
<1>10. QED
  BY <1>1, <1>2, <1>3, <1>4, <1>5, <1>6, <1>7, <1>8, <1>9 DEF Next

\* Whatever the batches, the threshold and the number of attempts, ingestion is
\* an EventLog: at most one copy of each batch, confirmed only when written and
\* in order, settled once.
THEOREM IngestionImplementsEventLog == Spec => ImplementsEventLog
<1>1. Spec => []IInv
  BY InitInv, NextInv, PTL DEF Spec
<1>2. QED
  BY <1>1, LogInit, LogStep, PTL DEF Spec, ImplementsEventLog, Log!Spec
================================================================================
