----------------------------- MODULE MCSnapshot -----------------------------
(* Model-checking instance of Snapshot. *)
EXTENDS Snapshot

CONSTANTS c1, c2, t1, t2

MCCallers == {c1, c2}
MCTasks == {t1, t2}
=============================================================================
