---------------------------- MODULE JobContract ----------------------------
(***************************************************************************)
(* What a client may see of apply jobs by polling them on the event loop,  *)
(* where a poll is one step: a job is created, begins, reports outcomes in *)
(* the order of its decisions, and is done when it has reported them all.  *)
(***************************************************************************)
EXTENDS JobData

CONSTANT Jobs  \* identities of apply jobs

VARIABLE jobs  \* jobs[j]: what a client sees of job j

(* "free": not created yet.  "lost": forgotten in a restart.               *)
JobStates == {"free", "pending", "running", "done", "lost"}

JobView(st, total, results) ==
  [st |-> st, total |-> total, results |-> results,
   applied |-> Count(results, "success"), failed |-> Count(results, "failed")]

JobsInit == jobs = [j \in Jobs |-> JobView("free", 0, <<>>)]

Create(j) == \E total \in {jobs'[j].total} :
  /\ jobs[j].st = "free"
  /\ total \in Nat
  /\ jobs' = [jobs EXCEPT ![j] = JobView("pending", total, <<>>)]

Begin(j) ==
  /\ jobs[j].st = "pending"
  /\ jobs' = [jobs EXCEPT ![j] = [@ EXCEPT !.st = "running"]]

Report(j) == \E results \in {jobs'[j].results}, st \in {"running", "done"} :
  /\ jobs[j].st = "running"
  /\ results \in Seq(Outcomes)
  /\ Extends(results, jobs[j].results)
  /\ Len(results) <= jobs[j].total
  /\ st = "done" => Len(results) = jobs[j].total
  /\ jobs' = [jobs EXCEPT ![j] = JobView(st, @.total, results)]

(* A restart forgets every job.                                            *)
Forgotten(job) == IF job.st = "free" THEN job ELSE JobView("lost", 0, <<>>)

Restart == jobs' = [j \in Jobs |-> Forgotten(jobs[j])]

JobsNext == (\E j \in Jobs : Create(j) \/ Begin(j) \/ Report(j)) \/ Restart

JobsSpec == JobsInit /\ [][JobsNext]_jobs
=============================================================================
