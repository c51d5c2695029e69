------------------------------ MODULE MCMetrics ------------------------------
(* Model-checking instance of Metrics: a manager and a request that uses   *)
(* the snapshot directly.                                                  *)
EXTENDS Metrics

CONSTANTS m, r

MCManagers == {m}
MCCallers == {m, r}
=============================================================================
