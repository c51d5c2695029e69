----------------------------- MODULE PythonData -----------------------------
(***************************************************************************)
(* What the components of ListProofs take from Python: None, the list of   *)
(* the elements that pass a test, and sorted.  The community modules have  *)
(* them as SelectSeq and SetToSortSeq, which cannot be reasoned about: no  *)
(* definition of them can be expanded.                                     *)
(***************************************************************************)
EXTENDS Integers, SequencesExt

CONSTANT None

(* [x for x in seq if x in set]                                            *)
Kept(seq, set) ==
  FlattenSeq([k \in DOMAIN seq |-> IF seq[k] \in set THEN <<seq[k]>> ELSE <<>>])

(* sorted(S), Before being a total order of S.                             *)
Sorted(S, Before(_, _)) ==
  [k \in 1 .. Cardinality(S) |->
     CHOOSE x \in S : Cardinality({y \in S : Before(y, x)}) = k - 1]
=============================================================================
