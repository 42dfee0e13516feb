------------------------------ MODULE MCIngestion ------------------------------
(***************************************************************************)
(* Instance of Ingestion for TLC.  Three or four batches of one or two     *)
(* events against a threshold of three make continue-as-new happen with an *)
(* empty and with a non-empty channel, and leave room for attempts that    *)
(* outlive their activity.                                                 *)
(***************************************************************************)
EXTENDS Ingestion

\* The names a worker must register for the workflow's calls to resolve.
AsInvoked == {AppendEventActivityName}

\* The names cmd/server/main.go registers (a method's name is the default).
AsShipped == {"AppendEventActivity", "LoadEventsActivity",
              "ProcessEventsActivity", "QueryVictoriaLogsActivity",
              "ReadIcebergActivity"}
================================================================================
