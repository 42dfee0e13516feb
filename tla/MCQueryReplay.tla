----------------------------- MODULE MCQueryReplay -----------------------------
(***************************************************************************)
(* Instance of QueryReplay for TLC: two workflows on a timeline of two     *)
(* events, one of them without a timestamp, both together enough for a     *)
(* chunk.                                                                  *)
(***************************************************************************)
EXTENDS QueryReplay

TwoTimes == <<NoTime, 1>>
OneMatching == {1}

Query(range, m) ==
  [kind |-> "query", range |-> range, filtered |-> FALSE, mode |-> "", queryMode |-> m]
Replay(range, f, m) ==
  [kind |-> "replay", range |-> range, filtered |-> f, mode |-> m,
   queryMode |-> "single"]

BothKinds ==
  {Query(Everything, "unknown"), Replay({1}, FALSE, ""),
   Replay(Everything, TRUE, "micro-workflow")}
================================================================================
