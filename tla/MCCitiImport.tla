---------------------------- MODULE MCCitiImport ----------------------------
(***************************************************************************)
(* CitiImport for TLC: every text of at most Short lines; every text of    *)
(* Long lines that are dates and amounts of one sign, so that a block      *)
(* whose amount is missing takes the next block's date; and regular        *)
(* statements of up to MaxBlocks transactions, to be exported in chunks.   *)
(***************************************************************************)
EXTENDS CitiImport

CONSTANTS Short, Long, MaxBlocks

Statement(n, amount) ==
  [i \in 1..4 * n |-> IF i % 4 = 1 THEN "date" ELSE IF i % 4 = 0 THEN amount ELSE "text"]

MCStatements ==
  UNION {[1..n -> Lines] : n \in 0..Short}
    \union UNION {[1..Long -> {"date", amount}] : amount \in {"charge", "credit"}}
    \union {Statement(n, amount) : n \in 1..MaxBlocks, amount \in {"charge", "credit"}}
=============================================================================
