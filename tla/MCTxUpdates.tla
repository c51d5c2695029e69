---------------------------- MODULE MCTxUpdates ----------------------------
(***************************************************************************)
(* TxUpdates for TLC: three requests on one transaction of every kind.     *)
(***************************************************************************)
EXTENDS TxUpdates, TLC

Symmetry == Permutations(Requests)
=============================================================================
