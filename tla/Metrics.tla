------------------------------- MODULE Metrics -------------------------------
(***************************************************************************)
(* TxMetricsManager, BlikMetricsManager and AllegroMetricsManager: each    *)
(* keeps one MetricsState and recomputes it in a background task that      *)
(* takes the transactions from the shared snapshot service, known here by  *)
(* its contract.  A manager's recompute task is one of the contract's      *)
(* callers; the other callers are requests that use the snapshot directly. *)
(*                                                                         *)
(* The code of ensure_current and refresh never suspends (the contract's   *)
(* time stamp is read from memory and the lock is free), so each is one    *)
(* action.                                                                 *)
(***************************************************************************)
EXTENDS SnapshotContract

CONSTANT Managers   \* the recompute tasks of the managers

ASSUME ManagersAssumption == Managers \subseteq Callers

VARIABLE mgr   \* mgr[m]: the MetricsState of manager m and its task

metricsVars == <<clock, store, calls, mgr>>

Statuses == {"PENDING", "RUNNING", "DONE", "FAILED"}

(* "queued": created, not begun; "snapshot": awaiting the snapshot         *)
(* service; "building": grouping by month in a worker thread; "cancelled": *)
(* ended by a CancelledError.                                              *)
ActiveTask == {"queued", "snapshot", "building"}
MetricsTasks == {"none", "cancelled"} \union ActiveTask

(* result: time stamp of the snapshot the result was computed from.        *)
(* force, since: of the latest recompute, how and when it was started.     *)
(* shown: the latest result that a newer recompute replaced.               *)
ManagerStates ==
  [status : Statuses, result : Times \union {None}, task : MetricsTasks,
   force : BOOLEAN, since : Times, shown : Times]

MetricsState(status, result, task, force, since, shown) ==
  [status |-> status, result |-> result, task |-> task, force |-> force,
   since |-> since, shown |-> shown]

MetricsTypeOK ==
  /\ ContractTypeOK
  /\ mgr \in [Managers -> ManagerStates]

MetricsInit ==
  /\ ContractInit
  /\ mgr = [m \in Managers |->
              MetricsState("PENDING", None, "none", FALSE, 0, 0)]

-----------------------------------------------------------------------------
(* ensure_current: the result is of the snapshot now cached.               *)
UpToDate(m) ==
  /\ mgr[m].status = "DONE"
  /\ mgr[m].result # None
  /\ CachedTimestamp(store, clock) # None
  /\ mgr[m].result = CachedTimestamp(store, clock)

(* Mutant: the check of RUNNING and of the task dropped.                   *)
AlwaysIdle(m) == TRUE

Idle(m) == mgr[m].status # "RUNNING" /\ mgr[m].task \notin ActiveTask

TimeOf(result) == IF result = None THEN 0 ELSE result

Later(a, b) == IF a > b THEN a ELSE b

(* _start: one recompute at a time; the previous result is dropped.        *)
Start(m, force) ==
  /\ Idle(m)
  /\ mgr' = [mgr EXCEPT ![m] =
       MetricsState("RUNNING", None, "queued", force, clock,
                    Later(@.shown, TimeOf(@.result)))]
  /\ UNCHANGED contractVars

(* GET metrics and POST metrics/refresh; when they find the result current *)
(* or a recompute running they only read the state.                        *)
EnsureCurrent(m) ==
  /\ mgr[m].status # "RUNNING"
  /\ ~UpToDate(m)
  /\ Start(m, FALSE)

Refresh(m) == Start(m, TRUE)

-----------------------------------------------------------------------------
(* recompute_metrics.                                                      *)

ToTask(m, task) == mgr' = [mgr EXCEPT ![m] = [@ EXCEPT !.task = task]]

(* Mutant: refresh recomputes from whatever is cached.                     *)
NeverForced(m) == FALSE

(* refresh_metrics for refresh, fetch_metrics for ensure_current.          *)
Forced(m) == mgr[m].force

(* fetch_metrics or refresh_metrics calls the snapshot service.            *)
AskSnapshot(m) ==
  /\ mgr[m].task = "queued"
  /\ Ask(m, Forced(m))
  /\ ToTask(m, "snapshot")

(* The statistics are computed in worker threads.                          *)
GotSnapshot(m) ==
  /\ mgr[m].task = "snapshot"
  /\ calls[m].st = "returned"
  /\ ToTask(m, "building")
  /\ UNCHANGED contractVars

(* Mutant: the metrics are stamped with the time they were computed.       *)
StampedNow(m) == clock

(* time_stamp of the metrics.                                              *)
TimeStamp(m) == calls[m].res.fetchedAt

(* The task ends; its done callback then clears the slot, which the test   *)
(* of task.done() makes indistinguishable from a slot with an ended task.  *)
EndsWith(m, status, result) ==
  mgr' = [mgr EXCEPT ![m] =
    [@ EXCEPT !.status = status, !.result = result, !.task = "none"]]

RecomputeDone(m) ==
  /\ mgr[m].task = "building"
  /\ EndsWith(m, "DONE", TimeStamp(m))
  /\ UNCHANGED contractVars

(* Mutant: the task that raised is ended without a final status.           *)
ReportFailureLost(m) == ToTask(m, "none")

ReportFailure(m) == EndsWith(m, "FAILED", None)

(* The snapshot service or the computation raises an Exception.            *)
RecomputeFails(m) ==
  /\ \/ mgr[m].task = "snapshot" /\ calls[m].st = "failed"
     \/ mgr[m].task = "building"
  /\ ReportFailure(m)
  /\ UNCHANGED contractVars

(* CancelledError is not an Exception: it leaves the state at RUNNING.     *)
RecomputeCancelled(m) ==
  /\ mgr[m].task = "snapshot"
  /\ calls[m].st = "cancelled"
  /\ ToTask(m, "cancelled")
  /\ UNCHANGED contractVars

RecomputeStep(m) ==
  \/ AskSnapshot(m)
  \/ GotSnapshot(m)
  \/ RecomputeDone(m)
  \/ RecomputeFails(m)
  \/ RecomputeCancelled(m)

-----------------------------------------------------------------------------
(* What goes on in the snapshot service.                                   *)
SnapshotStep ==
  /\ \/ ContractTick
     \/ \E c \in Callers \ Managers, force \in BOOLEAN : Ask(c, force)
     \/ \E s \in Snapshots : Publish(s)
     \/ \E c \in Callers : Settle(c)
  /\ UNCHANGED mgr

MetricsNext ==
  \/ SnapshotStep
  \/ \E m \in Managers : EnsureCurrent(m) \/ Refresh(m) \/ RecomputeStep(m)

MetricsSpec == MetricsInit /\ [][MetricsNext]_metricsVars

(* The loop runs the recompute tasks, and the snapshot service settles     *)
(* every call (CallsSettle of module Snapshot).  Nobody has to ask for     *)
(* metrics.                                                                *)
MetricsFairSpec ==
  /\ MetricsSpec
  /\ \A m \in Managers : WF_metricsVars(RecomputeStep(m))
  /\ \A m \in Managers : WF_metricsVars(Settle(m) /\ UNCHANGED mgr)

-----------------------------------------------------------------------------
(* Properties.                                                             *)

(* The published state is coherent with the task behind it: a result is    *)
(* there exactly when the status is DONE, RUNNING is shown exactly while a *)
(* recompute is under way or one was cancelled, and a pending call to the  *)
(* snapshot service belongs to a recompute that waits for it (manager.py   *)
(* 47-81, runner.py 17-40).                                                *)
StateMatchesTask ==
  \A m \in Managers :
    /\ mgr[m].status = "DONE" <=> mgr[m].result # None
    /\ mgr[m].status = "RUNNING" <=> mgr[m].task # "none"
    /\ calls[m].st = "pending" => mgr[m].task = "snapshot"

(* DONE after refresh means computed from transactions fetched since the   *)
(* request, even when the refresh joined a fetch under way; DONE after     *)
(* ensure_current, from a snapshot not stale at the request.               *)
MetricsReflectRequest ==
  \A m \in Managers : mgr[m].status = "DONE" =>
    mgr[m].result + (IF mgr[m].force THEN 0 ELSE Ttl) >= mgr[m].since

(* A recompute never ends with metrics of an older snapshot than those     *)
(* it replaced, and never of one the cache has not held.                   *)
ResultNeverRegresses ==
  \A m \in Managers : mgr[m].result # None =>
    mgr[m].shown <= mgr[m].result /\ mgr[m].result <= StampOf(store)

(* A recompute ends, unless its task was cancelled, which leaves the       *)
(* manager at RUNNING for good (runner.py 36-40 catches Exception only).   *)
RecomputesEnd ==
  \A m \in Managers :
    mgr[m].status = "RUNNING" ~> \/ mgr[m].status # "RUNNING"
                                 \/ mgr[m].task = "cancelled"
=============================================================================
