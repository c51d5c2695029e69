--------------------------- MODULE MCSuggestions ---------------------------
(***************************************************************************)
(* Suggestions for TLC: snapshots of at most four transactions of six      *)
(* kinds; the cuts are at two matches and one suggestion, so that both     *)
(* happen.                                                                 *)
(***************************************************************************)
EXTENDS Suggestions

Kind(category, internal, title, notes, amount, allegro_done) ==
  [category |-> category, internal |-> internal, title |-> title, notes |-> notes,
   amount |-> amount, allegro_done |-> allegro_done]

MCKinds == {
  Kind(None, FALSE, "shop", None, 10, FALSE),
  Kind(None, FALSE, "other", "order", -600, TRUE),
  Kind(1, FALSE, "shop", None, -10, FALSE),
  Kind(1, FALSE, "store", None, 11, FALSE),
  Kind(2, FALSE, "store", "order", 30, TRUE),
  Kind(3, TRUE, "shop", "order", 10, FALSE)}

(* Two categories differ in the case of their names only.                  *)
MCNameRank == <<1, 1, 2>>

MCTexts == {"shop", "store", "other", "order"}

(* "shop" and "store" are alike, "order" and "other" a little.             *)
MCTextSimilarity ==
  [p \in MCTexts \X MCTexts |->
     IF p[1] = p[2] THEN 20
     ELSE IF {p[1], p[2]} = {"shop", "store"} THEN 10
     ELSE IF {p[1], p[2]} = {"order", "other"} THEN 4 ELSE 0]
=============================================================================
