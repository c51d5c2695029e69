------------------------------- MODULE JobData -------------------------------
(* The outcomes of an apply job, which a client polls.                     *)
EXTENDS Naturals, Sequences, FiniteSets

(* ApplyOutcome, without its reason.                                       *)
Outcomes == {"success", "failed"}

Count(results, outcome) == Cardinality({k \in DOMAIN results : results[k] = outcome})

(* No outcome is withdrawn or changed once it has been reported.           *)
Extends(results, old) ==
  Len(old) <= Len(results) /\ \A k \in DOMAIN old : results[k] = old[k]
=============================================================================
