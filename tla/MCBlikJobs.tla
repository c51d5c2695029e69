----------------------------- MODULE MCBlikJobs -----------------------------
(* Model-checking instance of BlikJobs.  Records i1 and i3 are the same    *)
(* text twice, of x1's amount; i2 has x2's.  File f1 gives x1 two          *)
(* candidates with one match id, f2 one candidate to x1 and one to x2.     *)
EXTENDS BlikJobs

CONSTANTS x1, x2, i1, i2, i3, r1, r2, f1, f2, v1, j1, j2

MCTxs == {x1, x2}
MCItems == {i1, i2, i3}
MCPlace == (x1 :> 1) @@ (x2 :> 2)
MCDate == (x1 :> 1) @@ (x2 :> 1) @@ (i1 :> 1) @@ (i2 :> 1) @@ (i3 :> 1)
MCAmount == (x1 :> 10) @@ (x2 :> -20) @@ (i1 :> 10) @@ (i2 :> 20) @@ (i3 :> 10)
MCRow == (i1 :> r1) @@ (i2 :> r2) @@ (i3 :> r1)
MCFiles == {f1, f2}
MCContent == (f1 :> {i1, i3}) @@ (f2 :> {i2, i3})
MCPreviews == {v1}
MCJobs == {j1, j2}
MCDecisionLists == {<<Decision(x1, r2), Decision(x1, r1)>>}
=============================================================================
