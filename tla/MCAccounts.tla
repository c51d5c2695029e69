----------------------------- MODULE MCAccounts -----------------------------
(* Model-checking instance of Accounts. *)
EXTENDS Accounts, TLC

CONSTANTS u1, u2, t1, t2, r1, r2

MCUsers == {u1, u2}
MCTokens == {t1, t2}
MCRequests == {r1, r2}
Symmetry == Permutations(MCTokens) \union Permutations(MCRequests)
              \union Permutations(MCUsers)
=============================================================================
