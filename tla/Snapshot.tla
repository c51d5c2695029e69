------------------------------ MODULE Snapshot ------------------------------
(***************************************************************************)
(* TransactionSnapshotService: a TTL cache of the Firefly transactions     *)
(* whose refresh is shared by all concurrent callers (single flight).      *)
(*                                                                         *)
(* Everything runs on one asyncio loop.  An action is the code a task runs *)
(* between two points where it may be suspended; the store is the          *)
(* in-memory one, whose coroutines never suspend, so the body of           *)
(* "async with self._refresh_lock" is one action and the lock is never     *)
(* seen held.                                                              *)
(***************************************************************************)
EXTENDS SnapshotData, FiniteSets

CONSTANTS
  Callers,   \* tasks that call get_snapshot or refresh_snapshot
  Tasks      \* identities for the asyncio tasks that fetch

ASSUME TaskAssumption == None \notin Tasks

VARIABLES
  clock,        \* wall clock
  store,        \* SnapshotStore._snapshot
  refreshTask,  \* _refresh_task
  tasks,        \* the fetch tasks, by identity
  calls         \* the latest call of every caller

vars == <<clock, store, refreshTask, tasks, calls>>

-----------------------------------------------------------------------------
(* Program counters of a call: "start" before get_snapshot's first look at *)
(* the store, "lock" before the body of _ensure_snapshot, "await" in       *)
(* "return await task".                                                    *)
Ended == {"returned", "failed", "cancelled"}
Pcs == {"idle", "start", "lock", "await"} \union Ended

(* at and floor: the time and the store's time stamp when the call was     *)
(* made.                                                                   *)
(* doomed: the caller was cancelled after the task it awaits had ended, so *)
(* CancelledError is thrown into it when it resumes.                       *)
Calls == [pc : Pcs, force : BOOLEAN, at : Times, floor : Times, task : Tasks \union {None},
          doomed : BOOLEAN, res : Snapshots \union {None}]

(* "reading" until Firefly has been read, "read" until the task has stored *)
(* the snapshot; "cancelling" once cancel() was called on it.              *)
(* The times of a task are kept only while they are used.                  *)
Running == {"reading", "read", "cancelling"}
TaskStates == {"new"} \union Running \union Ended
TaskRecords == [st : TaskStates, startedAt : Times, readAt : Times,
                snap : Snapshots \union {None}]

TaskRecord(st, startedAt, snap) ==
  [st |-> st, startedAt |-> startedAt, readAt |-> 0, snap |-> snap]
NewTask == TaskRecord("new", 0, None)

CallRecord(pc, force, at, floor) ==
  [pc |-> pc, force |-> force, at |-> at, floor |-> floor, task |-> None,
   doomed |-> FALSE, res |-> None]
NoCall == CallRecord("idle", FALSE, 0, 0)

TypeOK ==
  /\ clock \in Times
  /\ store \in Snapshots \union {None}
  /\ refreshTask \in Tasks \union {None}
  /\ tasks \in [Tasks -> TaskRecords]
  /\ calls \in [Callers -> Calls]
  /\ \A c \in Callers : calls[c].pc = "await" => calls[c].task # None

Init ==
  /\ clock = 0
  /\ store = None
  /\ refreshTask = None
  /\ tasks = [t \in Tasks |-> NewTask]
  /\ calls = [c \in Callers |-> NoCall]

Awaiting(c, t) == calls[c].pc = "await" /\ calls[c].task = t

(* Python frees a task when the last reference to it goes.                 *)
Freed(c, t) ==
  IF \E d \in Callers \ {c} : Awaiting(d, t)
  THEN tasks ELSE [tasks EXCEPT ![t] = NewTask]

(* Mutant: the test for None turned round.                                 *)
JoinableOrNone(t) == t = None \/ tasks[t].st \in Running

(* The task a call may join: _refresh_task unless it is None or done.      *)
Joinable(t) == t # None /\ tasks[t].st \in Running

-----------------------------------------------------------------------------
(* The caller.                                                             *)

Tick ==
  /\ clock < MaxClock
  /\ clock' = clock + 1
  /\ UNCHANGED <<store, refreshTask, tasks, calls>>

(* get_snapshot starts at its look into the store; refresh_snapshot goes   *)
(* straight to _ensure_snapshot.                                           *)
Call(c, force) ==
  /\ calls[c].pc \in {"idle"} \union Ended
  /\ calls' = [calls EXCEPT ![c] =
       CallRecord(IF force THEN "lock" ELSE "start", force, clock, StampOf(store))]
  /\ UNCHANGED <<clock, store, refreshTask, tasks>>

Returned(c, s) ==
  [calls EXCEPT ![c] = [@ EXCEPT !.pc = "returned", !.task = None, !.res = s]]

Raised(c, how) == [calls EXCEPT ![c] = CallRecord(how, FALSE, 0, 0)]

LookInStore(c) ==
  /\ calls[c].pc = "start"
  /\ calls' = IF Servable(store, clock)
              THEN Returned(c, store)
              ELSE [calls EXCEPT ![c] = [@ EXCEPT !.pc = "lock"]]
  /\ UNCHANGED <<clock, store, refreshTask, tasks>>

(* Mutant: refresh_snapshot makes the second look too.                     *)
StoredSufficesEvenForced(c) == Servable(store, clock)

(* The second look, under the lock; refresh_snapshot does without it.      *)
StoredSuffices(c) == ~calls[c].force /\ Servable(store, clock)

UseStored(c) ==
  /\ calls[c].pc = "lock"
  /\ StoredSuffices(c)
  /\ calls' = Returned(c, store)
  /\ UNCHANGED <<clock, store, refreshTask, tasks>>

JoinTask(c) ==
  /\ calls[c].pc = "lock"
  /\ ~StoredSuffices(c)
  /\ Joinable(refreshTask)
  /\ calls' = [calls EXCEPT ![c] = [@ EXCEPT !.pc = "await",
                                            !.task = refreshTask]]
  /\ UNCHANGED <<clock, store, refreshTask, tasks>>

StartTask(c, t) ==
  /\ calls[c].pc = "lock"
  /\ ~StoredSuffices(c)
  /\ ~Joinable(refreshTask)
  /\ tasks[t].st = "new"
  /\ tasks' = [tasks EXCEPT ![t] = TaskRecord("reading", clock, None)]
  /\ refreshTask' = t
  /\ calls' = [calls EXCEPT ![c] = [@ EXCEPT !.pc = "await", !.task = t]]
  /\ UNCHANGED <<clock, store>>

(* Mutant: the finally clause clears the slot whatever task it holds.      *)
SlotAfterAnyTask(t) == None

(* The finally clause: clears the slot only if it still holds this task.   *)
SlotAfter(t) == IF refreshTask = t THEN None ELSE refreshTask

(* Mutant: the waiter watches the slot instead of the task it awaits.      *)
SlotTaskEnded(t) == refreshTask = t /\ tasks[t].st \in Ended

TaskEnded(t) == tasks[t].st \in Ended

Resume(c) ==
  LET t == calls[c].task IN
  /\ calls[c].pc = "await"
  /\ TaskEnded(t)
  /\ refreshTask' = SlotAfter(t)
  /\ tasks' = Freed(c, t)
  /\ calls' =
       IF tasks[t].st = "returned" /\ ~calls[c].doomed
       THEN Returned(c, tasks[t].snap)
       ELSE Raised(c, IF calls[c].doomed THEN "cancelled" ELSE tasks[t].st)
  /\ UNCHANGED <<clock, store>>

-----------------------------------------------------------------------------
(* Cancellation of a caller (its task is cancelled by the server).  The    *)
(* await is not shielded: cancelling one waiter cancels the shared task,   *)
(* and with it every other waiter.                                         *)

CancelBeforeAwait(c) ==
  /\ calls[c].pc \in {"start", "lock"}
  /\ calls' = Raised(c, "cancelled")
  /\ UNCHANGED <<clock, store, refreshTask, tasks>>

CancelWaiter(c) ==
  LET t == calls[c].task IN
  /\ calls[c].pc = "await"
  /\ \/ /\ tasks[t].st \in {"reading", "read"}
        /\ tasks' = [tasks EXCEPT ![t] = TaskRecord("cancelling", 0, None)]
        /\ UNCHANGED calls
     \/ /\ tasks[t].st \in Ended
        /\ calls' = [calls EXCEPT ![c] = [@ EXCEPT !.doomed = TRUE]]
        /\ UNCHANGED tasks
  /\ UNCHANGED <<clock, store, refreshTask>>

-----------------------------------------------------------------------------
(* The fetch task: _fetch_and_store_snapshot.                              *)

(* The instant at which Firefly answers with its transactions.             *)
FetchReads(t) ==
  /\ tasks[t].st = "reading"
  /\ tasks' = [tasks EXCEPT ![t] = [@ EXCEPT !.st = "read", !.readAt = clock]]
  /\ UNCHANGED <<clock, store, refreshTask, calls>>

(* Mutant: the snapshot is stamped with the start of the fetch.            *)
StampedAtStart(t) == [readAt |-> tasks[t].readAt, fetchedAt |-> tasks[t].startedAt]

(* The snapshot the task builds: fetched_at is the time the fetch ended.   *)
Stamped(t) == [readAt |-> tasks[t].readAt, fetchedAt |-> clock]

(* wait_for lets a fetch end within its timeout only.                      *)
InTime(t) == clock - tasks[t].startedAt <= FetchTimeout

FetchStores(t) ==
  /\ tasks[t].st = "read"
  /\ InTime(t)
  /\ store' = Stamped(t)
  /\ tasks' = [tasks EXCEPT ![t] = TaskRecord("returned", 0, Stamped(t))]
  /\ UNCHANGED <<clock, refreshTask, calls>>

(* FireflyServiceError, or TimeoutError from wait_for.                     *)
FetchFails(t) ==
  /\ tasks[t].st \in {"reading", "read"}
  /\ tasks' = [tasks EXCEPT ![t] = TaskRecord("failed", 0, None)]
  /\ UNCHANGED <<clock, store, refreshTask, calls>>

FetchCancelled(t) ==
  /\ tasks[t].st = "cancelling"
  /\ tasks' = [tasks EXCEPT ![t] = TaskRecord("cancelled", 0, None)]
  /\ UNCHANGED <<clock, store, refreshTask, calls>>

-----------------------------------------------------------------------------
CallerStep(c) ==
  \/ LookInStore(c)
  \/ UseStored(c)
  \/ JoinTask(c)
  \/ \E t \in Tasks : StartTask(c, t)
  \/ Resume(c)

Cancel(c) == CancelBeforeAwait(c) \/ CancelWaiter(c)

TaskStep(t) ==
  \/ FetchReads(t)
  \/ FetchStores(t)
  \/ FetchFails(t)
  \/ FetchCancelled(t)

Next ==
  \/ Tick
  \/ \E c \in Callers, force \in BOOLEAN : Call(c, force)
  \/ \E c \in Callers : CallerStep(c) \/ Cancel(c)
  \/ \E t \in Tasks : TaskStep(t)

Spec == Init /\ [][Next]_vars

(* The loop runs every ready task, and wait_for ends every fetch.  Nobody  *)
(* is obliged to call, and no call to be cancelled.                        *)
Fairness ==
  /\ \A c \in Callers : WF_vars(CallerStep(c))
  /\ \A t \in Tasks : WF_vars(TaskStep(t))

FairSpec == Spec /\ Fairness

-----------------------------------------------------------------------------
(* Properties.                                                             *)

(* At most one fetch runs at a time, whatever calls, cancellations, late   *)
(* wake-ups and failures interleave, and a call that arrives meanwhile     *)
(* finds it in _refresh_task (service.py 55-62, and the identity check of  *)
(* the finally clause, 66-68).                                             *)
SingleFlight == \A t \in Tasks : tasks[t].st \in Running => refreshTask = t

(* A fetch never replaces the store's snapshot by data read earlier from   *)
(* Firefly, nor by an earlier time stamp: fetches do not overtake one      *)
(* another (service.py 70-81).                                             *)
StoreNeverRegresses ==
  [][store # None => /\ store'.readAt >= store.readAt
                     /\ store'.fetchedAt >= store.fetchedAt]_store

(* A snapshot returned by get_snapshot was not stale when the call was     *)
(* made, one returned by refresh_snapshot was fetched after the call;      *)
(* neither is older than the store's snapshot when the call was made, nor  *)
(* holds data older than the TTL and one fetch timeout (service.py 26-33,  *)
(* 46-81).                                                                 *)
AnswersAreFresh ==
  \A c \in Callers : calls[c].pc = "returned" =>
    LET oldest == calls[c].at - (IF calls[c].force THEN 0 ELSE Ttl) IN
    /\ calls[c].res.fetchedAt >= oldest
    /\ calls[c].res.fetchedAt >= calls[c].floor
    /\ calls[c].res.readAt >= oldest - FetchTimeout

(* Every call returns or raises: no waiter is left behind by a task that   *)
(* failed, was cancelled, or was replaced in the slot (service.py 64-68).  *)
CallsSettle ==
  \A c \in Callers : calls[c].pc \in {"start", "lock", "await"}
                       ~> calls[c].pc \in Ended

(* The service implements its contract.                                    *)
View(c) ==
  [st |-> IF calls[c].pc \in {"start", "lock", "await"} THEN "pending"
          ELSE calls[c].pc,
   force |-> calls[c].force, at |-> calls[c].at, floor |-> calls[c].floor,
   res |-> calls[c].res]

Contract == INSTANCE SnapshotContract
              WITH calls <- [c \in Callers |-> View(c)]

(* What callers see of the lock, the shared task and the cancellations is  *)
(* only what SnapshotContract allows.                                      *)
ImplementsContract == Contract!ContractSafety
=============================================================================
