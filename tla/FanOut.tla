--------------------------------- MODULE FanOut --------------------------------
(***************************************************************************)
(* What splitting one query into parts promises, whichever way the parts   *)
(* are run: every part settles once, with a result or without; only when   *)
(* all have settled is there an answer; and an answer is made of results   *)
(* that parts really produced, unless no part produced any.  The whole may *)
(* be given up instead.                                                    *)
(***************************************************************************)

VARIABLES
  outcome,   \* per part: "open", "ok" or "failed"
  status,    \* "open", "answered" or "aborted"
  sources    \* the parts whose results the answer is made of

vars == <<outcome, status, sources>>

With(o) == {p \in DOMAIN outcome : outcome[p] = o}

Init ==
  /\ outcome = [p \in DOMAIN outcome |-> "open"]
  /\ status = "open"
  /\ sources = {}

Settle(p) ==
  /\ status = "open"
  /\ outcome[p] = "open"
  /\ \E o \in {"ok", "failed"} : outcome' = [outcome EXCEPT ![p] = o]
  /\ UNCHANGED <<status, sources>>

Answer ==
  /\ status = "open"
  /\ With("open") = {}
  /\ status' = "answered"
  /\ sources' \in SUBSET With("ok")
  /\ sources' = {} => With("ok") = {}
  /\ UNCHANGED outcome

Abort ==
  /\ status = "open"
  /\ status' = "aborted"
  /\ UNCHANGED <<outcome, sources>>

Next == Answer \/ Abort \/ \E p \in DOMAIN outcome : Settle(p)

Spec == Init /\ [][Next]_vars
================================================================================
