----------------------------- MODULE MCChunkedQuery ----------------------------
(***************************************************************************)
(* Instances of ChunkedQuery for TLC.  Chunks hold two events and batches  *)
(* two chunks; up to five chunks make a third, partial batch.              *)
(***************************************************************************)
EXTENDS ChunkedQuery

QueriesOf(sizes, ops) == [events : sizes, op : ops]

Merged == QueriesOf(0 .. 9, {"DurationWhere"})
            \union QueriesOf({0, 3, 7}, {"LatestEventToState"})
Long == QueriesOf({7}, {"DurationWhere"})

\* Workers as the documents describe them, and the one cmd/server/main.go runs.
AsDocumented == {"timeline-task-queue", "timeline-processing"}
AsShipped == {"timeline-task-queue"}
================================================================================
