---------------------------- MODULE MCAllegroJobs ----------------------------
(* Model-checking instance of AllegroJobs.  Both pages' windows hold both  *)
(* transactions: x1 has one candidate, on page p1, and x2 one on each.     *)
EXTENDS AllegroJobs

CONSTANTS x1, x2, i1, i2, i3, p1, p2, v1, j1, j2

MCTxs == {x1, x2}
MCItems == {i1, i2, i3}
MCPlace == (x1 :> 1) @@ (x2 :> 2)
MCDate == (x1 :> 1) @@ (x2 :> 4) @@ (i1 :> 1) @@ (i2 :> 0) @@ (i3 :> 1)
MCAmount == (x1 :> 10) @@ (x2 :> -20) @@ (i1 :> 10) @@ (i2 :> 20) @@ (i3 :> 20)
MCPages == {p1, p2}
MCContents == (p1 :> {{i1, i3}}) @@ (p2 :> {{i2}})
MCPreviews == {v1}
MCJobs == {j1, j2}
MCShortId == (i1 :> 1) @@ (i2 :> 2) @@ (i3 :> 3)
MCDecisionLists == {<<Decision(x2, 1), Decision(x2, 2)>>}

CONSTANT c1
MCClients == {c1}

(* Bound: what a client is told depends on nothing but the job it polls,   *)
(* so it polls when that job is the only one at work.                      *)
PollsAlone ==
  \/ polls = [c \in Clients |-> NoPoll] /\ answers = [c \in Clients |-> None]
  \/ /\ cache = <<>>
     /\ \A v \in Previews : previews[v] = Idle
     /\ \E j \in Jobs : \A k \in Jobs \ {j} : jobs[k] = NoJob

(* For the run without clients: i2 and i3 are the parts of a payment that  *)
(* the pages cut in two.                                                   *)
MCCutIds == (i1 :> 1) @@ (i2 :> 2) @@ (i3 :> 2)
=============================================================================
