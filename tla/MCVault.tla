------------------------------ MODULE MCVault ------------------------------
(***************************************************************************)
(* Vault for TLC: two requests of two users over one secret and two vault  *)
(* sessions; a session lives one tick.                                     *)
(***************************************************************************)
EXTENDS Vault, TLC

Symmetry == Permutations(Users) \union Permutations(Sessions)
            \union Permutations(Keys) \union Permutations(Requests)
=============================================================================
