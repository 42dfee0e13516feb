----------------------------- MODULE MCOrchestrator ----------------------------
(***************************************************************************)
(* Instances of Orchestrator for TLC.  A unit of time is five minutes: the *)
(* code's 10 and 15 minutes are 2 and 3.  Partitions hold two events.      *)
(***************************************************************************)
EXTENDS Orchestrator

Op(i, o) == [id |-> i, op |-> o]
Request(ops, n, streaming) ==
  [operations |-> ops, events |-> n, partitionEvents |-> n > PartitionSize,
   streamResults |-> streaming]

\* Two operators, on one or two partitions: one child workflow signals, one is silent.
TwoByTwo == <<Op("x", "LatestEventToState"), Op("y", "HasExisted")>>

\* One operator that signals, on two partitions.
OnPartitions == <<Op("x", "LatestEventToState")>>

\* One ID for three operations, of which the first and the last have the same
\* child workflow ID, and only the last is awaited.
SharedID == <<Op("x", "LatestEventToState"), Op("x", "HasExisted"), Op("x", "AND")>>

\* Operations without IDs: two of the same name are given the same one.
Unnamed == <<Op("", "DurationWhere"), Op("", "LatestEventToState"),
             Op("", "LatestEventToState")>>

\* No operations at all.
Empty == {Request(<<>>, 1, TRUE), Request(<<>>, 0, FALSE)}

AllRequests ==
  Empty
    \union {Request(TwoByTwo, 3, FALSE), Request(TwoByTwo, 2, TRUE)}
    \union {Request(OnPartitions, 3, TRUE)}
    \union {Request(SharedID, 1, s) : s \in BOOLEAN}
    \union {Request(Unnamed, 2, s) : s \in BOOLEAN}
================================================================================
