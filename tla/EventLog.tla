-------------------------------- MODULE EventLog -------------------------------
(***************************************************************************)
(* What ingesting into one timeline promises, whatever the workflow does:  *)
(* posted batches are written to a log at most once each; a batch is       *)
(* confirmed only when it is in the log, in posting order, and each batch  *)
(* is settled, confirmed or given up, once.  A given-up batch may or may   *)
(* not be in the log, and may still reach it later.                        *)
(***************************************************************************)
EXTENDS Naturals, Sequences

CONSTANT MaxPosts   \* bound: number of posted batches

VARIABLES posted, log, confirmed, givenUp

vars == <<posted, log, confirmed, givenUp>>

Init == posted = 0 /\ log = <<>> /\ confirmed = {} /\ givenUp = {}

Logged(b) == \E i \in DOMAIN log : log[i] = b
Settled == confirmed \union givenUp
Open == {b \in 1 .. posted : b \notin Settled}

Post ==
  /\ posted < MaxPosts
  /\ posted' = posted + 1
  /\ UNCHANGED <<log, confirmed, givenUp>>

Write(b) ==
  /\ ~Logged(b)
  /\ log' = Append(log, b)
  /\ UNCHANGED <<posted, confirmed, givenUp>>

GiveUp(b) ==
  /\ \A c \in Open : b <= c
  /\ givenUp' = givenUp \union {b}
  /\ UNCHANGED <<posted, log, confirmed>>

\* Confirming the oldest open batch may take the writer past its threshold,
\* and then gives up every other open batch.
Confirm(b) ==
  /\ Logged(b)
  /\ \A c \in Open : b <= c
  /\ confirmed' = confirmed \union {b}
  /\ givenUp' \in {givenUp, givenUp \union (Open \ {b})}
  /\ UNCHANGED <<posted, log>>

Next ==
  \/ Post
  \/ \E b \in 1 .. posted : Write(b)
  \/ \E b \in Open : GiveUp(b) \/ Confirm(b)

Spec == Init /\ [][Next]_vars
================================================================================
