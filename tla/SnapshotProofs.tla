--------------------------- MODULE SnapshotProofs ---------------------------
(***************************************************************************)
(* Proofs about Snapshot, for every set of callers and tasks and every TTL *)
(* and timeout.                                                            *)
(***************************************************************************)
EXTENDS Snapshot, TLAPS

(* A snapshot that took one fetch timeout at most to obtain.               *)
Sound(s) == s.readAt <= s.fetchedAt /\ s.fetchedAt - s.readAt <= FetchTimeout

StoreSound == store # None => Sound(store) /\ store.fetchedAt <= clock

(* A running fetch started after the store's snapshot was stored, which is *)
(* why fetches cannot overtake one another.                                *)
TaskSound(t) ==
  /\ tasks[t].st \in {"reading", "read"} =>
       /\ tasks[t].startedAt <= clock
       /\ store # None => store.fetchedAt <= tasks[t].startedAt
  /\ tasks[t].st = "read" =>
       tasks[t].startedAt <= tasks[t].readAt /\ tasks[t].readAt <= clock
  /\ tasks[t].st = "returned" =>
       /\ tasks[t].snap # None
       /\ Sound(tasks[t].snap)
       /\ store # None
       /\ tasks[t].snap.fetchedAt <= store.fetchedAt

(* A waiter's task exists, and ended, if it has, after the call was made.  *)
CallSound(c) ==
  /\ calls[c].at <= clock
  /\ calls[c].floor <= StampOf(store)
  /\ calls[c].pc = "start" => ~calls[c].force
  /\ calls[c].pc = "await" =>
       /\ calls[c].task # None
       /\ tasks[calls[c].task].st # "new"
       /\ tasks[calls[c].task].st = "returned" =>
            /\ tasks[calls[c].task].snap.fetchedAt >= calls[c].at
            /\ tasks[calls[c].task].snap.fetchedAt >= calls[c].floor
  /\ calls[c].pc = "returned" =>
       /\ calls[c].res # None
       /\ calls[c].res.fetchedAt >= calls[c].floor
       /\ calls[c].res.fetchedAt >=
            calls[c].at - (IF calls[c].force THEN 0 ELSE Ttl)
       /\ Sound(calls[c].res)

(* Together with TypeOK and SingleFlight this is inductive; AnswersAreFresh *)
(* and StoreNeverRegresses follow from it.                                 *)
Sync ==
  /\ StoreSound
  /\ \A t \in Tasks : TaskSound(t)
  /\ \A c \in Callers : CallSound(c)

-----------------------------------------------------------------------------
(* The time stamp of the store is a time.                                  *)
LEMMA StampTyped == TypeOK => StampOf(store) \in Times
BY DataAssumption DEF TypeOK, StampOf, Snapshots, Times

(* Every value the service and its callers hold keeps its type through     *)
(* every step.                                                             *)
THEOREM TypeCorrect == Spec => []TypeOK
<1> USE DataAssumption, TaskAssumption
<1>1. Init => TypeOK
  BY DEF Init, TypeOK, NewTask, TaskRecord, NoCall, CallRecord, TaskRecords, Calls, TaskStates, Pcs,
         Times
<1>2. TypeOK /\ [Next]_vars => TypeOK'
  <2> SUFFICES ASSUME TypeOK, [Next]_vars PROVE TypeOK'
    OBVIOUS
  <2> USE DEF TypeOK
  <2>1. CASE Tick
    BY <2>1 DEF Tick, Times
  <2>2. ASSUME NEW c \in Callers, NEW force \in BOOLEAN, Call(c, force)
        PROVE  TypeOK'
    BY <2>2, StampTyped DEF Call, CallRecord, Calls, Pcs
  <2>3. ASSUME NEW c \in Callers, LookInStore(c) PROVE TypeOK'
    <3>1. CASE Servable(store, clock)
      BY <2>3, <3>1, ZenonT(30)
         DEF LookInStore, Returned, Servable, Calls, Pcs, Ended
    <3>2. CASE ~Servable(store, clock)
      BY <2>3, <3>2 DEF LookInStore, Calls, Pcs
    <3>3. QED
      BY <3>1, <3>2
  <2>4. ASSUME NEW c \in Callers, UseStored(c) PROVE TypeOK'
    BY <2>4, ZenonT(30)
       DEF UseStored, StoredSuffices, Returned, Servable, Calls, Pcs, Ended
  <2>5. ASSUME NEW c \in Callers, JoinTask(c) PROVE TypeOK'
    BY <2>5, ZenonT(30) DEF JoinTask, Joinable, Calls, Pcs
  <2>6. ASSUME NEW c \in Callers, NEW t \in Tasks, StartTask(c, t)
        PROVE  TypeOK'
    <3>1. tasks' \in [Tasks -> TaskRecords]
      BY <2>6 DEF StartTask, NewTask, TaskRecord, TaskRecords, TaskStates, Running, Times
    <3>2. /\ calls' \in [Callers -> Calls]
          /\ \A d \in Callers : calls'[d].pc = "await" => calls'[d].task # None
      BY <2>6, ZenonT(30) DEF StartTask, Calls, Pcs
    <3>3. QED
      BY <2>6, <3>1, <3>2 DEF StartTask
  <2>7. ASSUME NEW c \in Callers, Resume(c) PROVE TypeOK'
    <3> DEFINE t == calls[c].task
    <3>1. /\ t \in Tasks
          /\ tasks[t].st \in Ended
          /\ tasks' = Freed(c, t)
          /\ refreshTask' = SlotAfter(t)
      BY <2>7 DEF Resume, TaskEnded, Calls
    <3>2. tasks' \in [Tasks -> TaskRecords]
      BY <3>1 DEF Freed, NewTask, TaskRecord, TaskRecords, TaskStates, Times
    <3>3. refreshTask' \in Tasks \union {None}
      BY <3>1 DEF SlotAfter
    <3>4. /\ calls' \in [Callers -> Calls]
          /\ \A d \in Callers : calls'[d].pc = "await" => calls'[d].task # None
      <4>1. CASE tasks[t].st = "returned" /\ ~calls[c].doomed
        <5>1. calls' = Returned(c, tasks[t].snap)
          BY <2>7, <4>1 DEF Resume
        <5>2. tasks[t].snap \in Snapshots \union {None}
          BY <3>1 DEF TaskRecords
        <5>3. QED
          BY <5>1, <5>2, ZenonT(30) DEF Returned, Calls, Pcs, Ended
      <4>2. CASE ~(tasks[t].st = "returned" /\ ~calls[c].doomed)
        <5>1. PICK how \in Ended : calls' = Raised(c, how)
          BY <2>7, <3>1, <4>2 DEF Resume, Ended
        <5>2. QED
          BY <5>1 DEF Raised, NoCall, CallRecord, Calls, Pcs, Ended, Times
      <4>3. QED
        BY <4>1, <4>2
    <3>5. QED
      BY <2>7, <3>2, <3>3, <3>4 DEF Resume
  <2>8. ASSUME NEW c \in Callers, Cancel(c) PROVE TypeOK'
    <3>1. CASE CancelBeforeAwait(c)
      BY <3>1 DEF CancelBeforeAwait, Raised, NoCall, CallRecord, Calls, Pcs, Ended, Times
    <3>2. CASE CancelWaiter(c)
      <4>1. tasks' \in [Tasks -> TaskRecords]
        BY <3>2 DEF CancelWaiter, NewTask, TaskRecord, TaskRecords, TaskStates, Running,
                    Times
      <4>2. /\ calls' \in [Callers -> Calls]
            /\ \A d \in Callers : calls'[d].pc = "await" => calls'[d].task # None
        <5>1. CASE calls' = calls
          BY <5>1
        <5>2. CASE calls' = [calls EXCEPT ![c] = [@ EXCEPT !.doomed = TRUE]]
          BY <5>2 DEF Calls
        <5>3. QED
          BY <3>2, <5>1, <5>2 DEF CancelWaiter
      <4>3. QED
        BY <3>2, <4>1, <4>2 DEF CancelWaiter
    <3>3. QED
      BY <2>8, <3>1, <3>2 DEF Cancel
  <2>9. ASSUME NEW t \in Tasks, TaskStep(t) PROVE TypeOK'
    <3>1. Stamped(t) \in Snapshots
      BY DEF Stamped, Snapshots, TaskRecords
    <3>2. CASE FetchReads(t)
      BY <3>2 DEF FetchReads, TaskRecords, TaskStates, Running
    <3>3. CASE FetchStores(t)
      BY <3>1, <3>3 DEF FetchStores, NewTask, TaskRecord, TaskRecords, TaskStates, Ended,
                        Times
    <3>4. CASE FetchFails(t)
      BY <3>4 DEF FetchFails, NewTask, TaskRecord, TaskRecords, TaskStates, Ended, Times
    <3>5. CASE FetchCancelled(t)
      BY <3>5 DEF FetchCancelled, NewTask, TaskRecord, TaskRecords, TaskStates, Ended, Times
    <3>6. QED
      BY <2>9, <3>2, <3>3, <3>4, <3>5 DEF TaskStep
  <2>10. CASE UNCHANGED vars
    BY <2>10 DEF vars
  <2>11. QED
    BY <2>1, <2>2, <2>3, <2>4, <2>5, <2>6, <2>7, <2>8, <2>9, <2>10
       DEF Next, CallerStep
<1>3. QED
  BY <1>1, <1>2, PTL DEF Spec

-----------------------------------------------------------------------------
(* A step that leaves the slot and the set of running tasks alone, or only *)
(* shrinks that set, keeps SingleFlight.                                   *)
LEMMA FlightShrinks ==
  ASSUME SingleFlight, refreshTask' = refreshTask,
         \A t \in Tasks : tasks'[t].st \in Running => tasks[t].st \in Running
  PROVE  SingleFlight'
BY DEF SingleFlight

(* At most one fetch runs at a time.  The invariant is inductive as it     *)
(* stands, given the types: a task is started only when the slot holds no  *)
(* running one, and the slot is cleared only of the ended task it holds.   *)
THEOREM SingleFlightHolds == Spec => []SingleFlight
<1>1. Init => SingleFlight
  BY DEF Init, SingleFlight, NewTask, TaskRecord, Running
<1>2. TypeOK /\ SingleFlight /\ [Next]_vars => SingleFlight'
  <2> SUFFICES ASSUME TypeOK, SingleFlight, [Next]_vars PROVE SingleFlight'
    OBVIOUS
  <2>1. CASE Tick
    BY <2>1 DEF Tick, SingleFlight
  <2>2. ASSUME NEW c \in Callers, NEW force \in BOOLEAN, Call(c, force)
        PROVE  SingleFlight'
    BY <2>2 DEF Call, SingleFlight
  <2>3. ASSUME NEW c \in Callers, LookInStore(c) \/ UseStored(c) \/ JoinTask(c)
        PROVE  SingleFlight'
    BY <2>3 DEF LookInStore, UseStored, JoinTask, SingleFlight
  <2>4. ASSUME NEW c \in Callers, NEW t \in Tasks, StartTask(c, t)
        PROVE  SingleFlight'
    <3>1. \A u \in Tasks : tasks[u].st \notin Running
      BY <2>4, TaskAssumption DEF StartTask, Joinable, SingleFlight
    <3>2. \A u \in Tasks \ {t} : tasks'[u] = tasks[u]
      BY <2>4 DEF StartTask, TypeOK
    <3>3. refreshTask' = t
      BY <2>4 DEF StartTask
    <3>4. QED
      BY <3>1, <3>2, <3>3 DEF SingleFlight
  <2>5. ASSUME NEW c \in Callers, Resume(c) PROVE SingleFlight'
    <3> DEFINE t == calls[c].task
    <3>1. t \in Tasks /\ tasks[t].st \notin Running
      BY <2>5 DEF Resume, TaskEnded, Ended, Running, TypeOK, Calls
    <3>2. \A u \in Tasks : tasks'[u].st \in Running => tasks'[u] = tasks[u]
      BY <2>5, <3>1 DEF Resume, Freed, NewTask, TaskRecord, Running, TypeOK
    <3>3. refreshTask' = SlotAfter(t)
      BY <2>5 DEF Resume
    <3>4. QED
      BY <3>1, <3>2, <3>3 DEF SlotAfter, SingleFlight
  <2>6. ASSUME NEW c \in Callers, Cancel(c) PROVE SingleFlight'
    <3>1. refreshTask' = refreshTask
      BY <2>6 DEF Cancel, CancelBeforeAwait, CancelWaiter
    <3>2. \A u \in Tasks : tasks'[u].st \in Running => tasks[u].st \in Running
      BY <2>6 DEF Cancel, CancelBeforeAwait, CancelWaiter, TaskRecord, Running,
                  TypeOK
    <3>3. QED
      BY <3>1, <3>2, FlightShrinks
  <2>7. ASSUME NEW t \in Tasks, TaskStep(t) PROVE SingleFlight'
    <3>1. refreshTask' = refreshTask
      BY <2>7 DEF TaskStep, FetchReads, FetchStores, FetchFails, FetchCancelled
    <3>2. \A u \in Tasks : tasks'[u].st \in Running => tasks[u].st \in Running
      BY <2>7 DEF TaskStep, FetchReads, FetchStores, FetchFails,
                  FetchCancelled, TaskRecord, Running, TypeOK
    <3>3. QED
      BY <3>1, <3>2, FlightShrinks
  <2>8. CASE UNCHANGED vars
    BY <2>8 DEF vars, SingleFlight
  <2>9. QED
    BY <2>1, <2>2, <2>3, <2>4, <2>5, <2>6, <2>7, <2>8 DEF Next, CallerStep
<1>3. QED
  BY <1>1, <1>2, TypeCorrect, PTL DEF Spec

-----------------------------------------------------------------------------
(* The three parts of the invariant that relate times: they are proved     *)
(* together because a call is judged by its task, a task by the store.     *)
LEMMA SyncInductive ==
  ASSUME TypeOK, TypeOK', SingleFlight, Sync, [Next]_vars
  PROVE  Sync'
<1> USE DataAssumption, TaskAssumption DEF Sync
<1> DEFINE IntSnap(s) == s.readAt \in Int /\ s.fetchedAt \in Int
<1>0. /\ clock \in Nat /\ clock' \in Nat
      /\ StampOf(store) \in Nat
      /\ store # None => StampOf(store) = store.fetchedAt
      /\ store # None => IntSnap(store)
      /\ \A t \in Tasks : /\ tasks[t].startedAt \in Int
                          /\ tasks[t].readAt \in Int
                          /\ tasks[t].snap # None => IntSnap(tasks[t].snap)
      /\ \A c \in Callers : /\ calls[c].at \in Int
                            /\ calls[c].floor \in Int
                            /\ calls[c].force \in BOOLEAN
                            /\ calls[c].res # None => IntSnap(calls[c].res)
                            /\ calls[c].pc = "await" => calls[c].task \in Tasks
  BY StampTyped DEF TypeOK, TaskRecords, Calls, Snapshots, Times, StampOf
<1>1. CASE Tick
  BY <1>0, <1>1 DEF Tick, StoreSound, TaskSound, CallSound
<1>2. ASSUME NEW c \in Callers, NEW force \in BOOLEAN, Call(c, force)
      PROVE  Sync'
  <2>1. StoreSound' /\ \A t \in Tasks : TaskSound(t)'
    BY <1>2 DEF Call, StoreSound, TaskSound
  <2>2. \A d \in Callers : CallSound(d)'
    BY <1>0, <1>2 DEF Call, CallRecord, CallSound, TypeOK
  <2>3. QED
    BY <2>1, <2>2
<1>3. ASSUME NEW c \in Callers, Servable(store, clock), ~calls[c].force,
             calls' = Returned(c, store),
             UNCHANGED <<clock, store, refreshTask, tasks>>
      PROVE  Sync'
  <2>1. StoreSound' /\ \A t \in Tasks : TaskSound(t)'
    BY <1>3 DEF StoreSound, TaskSound
  <2>2. CallSound(c)'
    BY <1>0, <1>3 DEF Returned, Servable, Stale, StoreSound, CallSound, TypeOK
  <2>3. \A d \in Callers \ {c} : CallSound(d)'
    BY <1>3 DEF Returned, CallSound, TypeOK
  <2>4. QED
    BY <2>1, <2>2, <2>3
<1>4. ASSUME NEW c \in Callers, calls[c].pc = "start",
             calls' = [calls EXCEPT ![c] = [@ EXCEPT !.pc = "lock"]],
             UNCHANGED <<clock, store, refreshTask, tasks>>
      PROVE  Sync'
  <2>1. StoreSound' /\ \A t \in Tasks : TaskSound(t)'
    BY <1>4 DEF StoreSound, TaskSound
  <2>2. \A d \in Callers : CallSound(d)'
    BY <1>4 DEF CallSound, TypeOK, Calls
  <2>3. QED
    BY <2>1, <2>2
<1>5. ASSUME NEW c \in Callers, JoinTask(c) PROVE Sync'
  <2>1. StoreSound' /\ \A t \in Tasks : TaskSound(t)'
    BY <1>5 DEF JoinTask, StoreSound, TaskSound
  <2>2. CallSound(c)'
    BY <1>5 DEF JoinTask, Joinable, Running, CallSound, TypeOK, Calls
  <2>3. \A d \in Callers \ {c} : CallSound(d)'
    BY <1>5 DEF JoinTask, CallSound, TypeOK
  <2>4. QED
    BY <2>1, <2>2, <2>3
<1>6. ASSUME NEW c \in Callers, NEW t \in Tasks, StartTask(c, t) PROVE Sync'
  <2>1. /\ tasks[t].st = "new"
        /\ tasks'[t] = TaskRecord("reading", clock, None)
        /\ \A u \in Tasks \ {t} : tasks'[u] = tasks[u]
        /\ calls'[c] = [calls[c] EXCEPT !.pc = "await", !.task = t]
        /\ \A d \in Callers \ {c} : calls'[d] = calls[d]
        /\ clock' = clock /\ store' = store
    BY <1>6 DEF StartTask, TypeOK
  <2>2. StoreSound'
    BY <2>1 DEF StoreSound
  <2>3. \A u \in Tasks : TaskSound(u)'
    BY <1>0, <2>1 DEF TaskSound, TaskRecord, StoreSound
  <2>4. CallSound(c)'
    BY <2>1 DEF CallSound, TaskRecord, TypeOK, Calls
  <2>5. \A d \in Callers \ {c} : CallSound(d)'
    BY <1>0, <2>1 DEF CallSound
  <2>6. QED
    BY <2>2, <2>3, <2>4, <2>5
<1>7. ASSUME NEW c \in Callers, Resume(c) PROVE Sync'
  <2> DEFINE t == calls[c].task
  <2>1. /\ t \in Tasks
        /\ tasks[t].st \in Ended
        /\ tasks' = Freed(c, t)
        /\ clock' = clock /\ store' = store
    BY <1>0, <1>7 DEF Resume, TaskEnded
  <2>2. StoreSound'
    BY <2>1 DEF StoreSound
  <2>3. \A u \in Tasks : TaskSound(u)'
    BY <2>1 DEF TaskSound, Freed, NewTask, TaskRecord, TypeOK
  <2>4. /\ \A d \in Callers \ {c} : calls'[d] = calls[d]
        /\ \/ calls'[c] = [calls[c] EXCEPT !.pc = "returned", !.task = None,
                                          !.res = tasks[t].snap]
              /\ tasks[t].st = "returned"
           \/ \E how \in {"failed", "cancelled"} :
                calls'[c] = CallRecord(how, FALSE, 0, 0)
    BY <1>7, <2>1 DEF Resume, Returned, Raised, Ended, TypeOK
  <2>5. CallSound(c)'
    <3>1. CASE \E how \in {"failed", "cancelled"} :
                  calls'[c] = CallRecord(how, FALSE, 0, 0)
      BY <1>0, <2>1, <3>1 DEF CallSound, CallRecord
    <3>2. CASE /\ calls'[c] = [calls[c] EXCEPT !.pc = "returned", !.task = None,
                                              !.res = tasks[t].snap]
               /\ tasks[t].st = "returned"
      <4>1. /\ calls'[c].pc = "returned" /\ calls'[c].res = tasks[t].snap
            /\ calls'[c].at = calls[c].at /\ calls'[c].force = calls[c].force
            /\ calls'[c].floor = calls[c].floor
        BY <3>2 DEF TypeOK, Calls
      <4>2. /\ tasks[t].snap # None /\ Sound(tasks[t].snap)
            /\ tasks[t].snap.fetchedAt >= calls[c].at
            /\ tasks[t].snap.fetchedAt >= calls[c].floor
        BY <1>7, <2>1, <3>2 DEF Resume, TaskSound, CallSound
      <4>3. QED
        BY <1>0, <2>1, <4>1, <4>2 DEF CallSound, Sound
    <3>3. QED
      BY <2>4, <3>1, <3>2
  <2>6. \A d \in Callers \ {c} : CallSound(d)'
    <3> SUFFICES ASSUME NEW d \in Callers \ {c} PROVE CallSound(d)'
      OBVIOUS
    <3>1. calls[d].pc = "await" => tasks'[calls[d].task] = tasks[calls[d].task]
      BY <1>0, <2>1 DEF Freed, Awaiting, TypeOK
    <3>2. QED
      BY <2>1, <2>4, <3>1 DEF CallSound
  <2>7. QED
    BY <2>2, <2>3, <2>5, <2>6
<1>8. ASSUME NEW c \in Callers, CancelBeforeAwait(c) PROVE Sync'
  <2>1. StoreSound' /\ \A t \in Tasks : TaskSound(t)'
    BY <1>8 DEF CancelBeforeAwait, StoreSound, TaskSound
  <2>2. \A d \in Callers : CallSound(d)'
    BY <1>0, <1>8 DEF CancelBeforeAwait, Raised, CallRecord, CallSound, TypeOK
  <2>3. QED
    BY <2>1, <2>2
<1>9. ASSUME NEW c \in Callers, CancelWaiter(c) PROVE Sync'
  <2>1. clock' = clock /\ store' = store
    BY <1>9 DEF CancelWaiter
  <2>2. \A d \in Callers : /\ calls'[d].pc = calls[d].pc
                          /\ calls'[d].force = calls[d].force
                          /\ calls'[d].at = calls[d].at
                          /\ calls'[d].floor = calls[d].floor
                          /\ calls'[d].task = calls[d].task
                          /\ calls'[d].res = calls[d].res
    BY <1>9 DEF CancelWaiter, TypeOK, Calls
  <2>3. \A u \in Tasks : \/ tasks'[u] = tasks[u]
                        \/ tasks'[u] = TaskRecord("cancelling", 0, None)
    BY <1>9 DEF CancelWaiter, TypeOK
  <2>4. StoreSound' /\ \A u \in Tasks : TaskSound(u)'
    BY <2>1, <2>3 DEF StoreSound, TaskSound, TaskRecord
  <2>5. \A d \in Callers : CallSound(d)'
    BY <1>0, <2>1, <2>2, <2>3 DEF CallSound, TaskRecord
  <2>6. QED
    BY <2>4, <2>5
<1>10. ASSUME NEW t \in Tasks, FetchReads(t) PROVE Sync'
  <2>1. /\ tasks[t].st = "reading"
        /\ tasks'[t].st = "read" /\ tasks'[t].readAt = clock
        /\ tasks'[t].startedAt = tasks[t].startedAt
        /\ \A u \in Tasks \ {t} : tasks'[u] = tasks[u]
        /\ clock' = clock /\ store' = store /\ calls' = calls
    BY <1>10 DEF FetchReads, TypeOK, TaskRecords
  <2>2. StoreSound' /\ \A u \in Tasks : TaskSound(u)'
    BY <1>0, <2>1 DEF StoreSound, TaskSound
  <2>3. \A d \in Callers : CallSound(d)'
    BY <1>0, <2>1 DEF CallSound
  <2>4. QED
    BY <2>2, <2>3
<1>11. ASSUME NEW t \in Tasks, FetchStores(t) PROVE Sync'
  <2>1. /\ tasks[t].st = "read" /\ clock - tasks[t].startedAt <= FetchTimeout
        /\ tasks'[t] = TaskRecord("returned", 0, Stamped(t))
        /\ \A u \in Tasks \ {t} : tasks'[u] = tasks[u]
        /\ store' = Stamped(t)
        /\ clock' = clock /\ calls' = calls
    BY <1>11 DEF FetchStores, InTime, TypeOK
  <2>2. /\ Stamped(t).readAt = tasks[t].readAt /\ Stamped(t).fetchedAt = clock
        /\ Stamped(t) # None
    BY <1>0 DEF Stamped
  <2>3. \A u \in Tasks \ {t} : tasks[u].st \notin Running
    BY <2>1 DEF SingleFlight, Running
  <2>4. Sound(Stamped(t))
    BY <1>0, <2>1, <2>2 DEF TaskSound, Sound
  <2>5. StoreSound'
    BY <1>0, <2>1, <2>2, <2>4 DEF StoreSound, Sound
  <2>6. TaskSound(t)'
    BY <1>0, <2>1, <2>2, <2>4 DEF TaskSound, TaskRecord, Sound
  <2>7. \A u \in Tasks \ {t} : TaskSound(u)'
    BY <1>0, <2>1, <2>2, <2>3 DEF TaskSound, StoreSound, Running
  <2>8. \A d \in Callers : CallSound(d)'
    <3>1. store # None => store.fetchedAt <= clock
      BY DEF StoreSound
    <3>2. StampOf(store)' = clock /\ StampOf(store) <= clock
      BY <1>0, <2>1, <2>2, <3>1 DEF StampOf
    <3>3. QED
      BY <1>0, <2>1, <2>2, <3>2 DEF CallSound, TaskRecord
  <2>9. QED
    BY <2>5, <2>6, <2>7, <2>8
<1>12. ASSUME NEW t \in Tasks, FetchFails(t) \/ FetchCancelled(t) PROVE Sync'
  <2>1. /\ \E how \in {"failed", "cancelled"} :
             tasks'[t] = TaskRecord(how, 0, None)
        /\ \A u \in Tasks \ {t} : tasks'[u] = tasks[u]
        /\ clock' = clock /\ store' = store /\ calls' = calls
    BY <1>12 DEF FetchFails, FetchCancelled, TypeOK
  <2>2. StoreSound' /\ \A u \in Tasks : TaskSound(u)'
    BY <2>1 DEF StoreSound, TaskSound, TaskRecord
  <2>3. \A d \in Callers : CallSound(d)'
    BY <1>0, <2>1 DEF CallSound, TaskRecord
  <2>4. QED
    BY <2>2, <2>3
<1>13. CASE UNCHANGED vars
  BY <1>13 DEF vars, StoreSound, TaskSound, CallSound
<1>14. ASSUME NEW c \in Callers, LookInStore(c) \/ UseStored(c) PROVE Sync'
  <2>1. LookInStore(c) => ~calls[c].force
    BY DEF LookInStore, CallSound
  <2>2. QED
    BY <1>3, <1>4, <1>14, <2>1 DEF LookInStore, UseStored, StoredSuffices
<1>15. QED
  BY <1>1, <1>2, <1>5, <1>6, <1>7, <1>8, <1>9, <1>10, <1>11, <1>12, <1>13,
     <1>14 DEF Next, CallerStep, Cancel, TaskStep

(* The invariant as one: types, single flight and the relations of times.  *)
LEMMA SyncHolds == Spec => []Sync
<1>1. Init => Sync
  BY DEF Init, Sync, StoreSound, TaskSound, CallSound, NewTask, TaskRecord,
         NoCall, CallRecord, StampOf
<1>2. TypeOK /\ TypeOK' /\ SingleFlight /\ Sync /\ [Next]_vars => Sync'
  BY SyncInductive
<1>3. QED
  BY <1>1, <1>2, TypeCorrect, SingleFlightHolds, PTL DEF Spec

(* No call is answered by a snapshot that was too old when it was made.    *)
THEOREM AnswersAreFreshHolds == Spec => []AnswersAreFresh
<1>1. TypeOK /\ Sync => AnswersAreFresh
  BY DataAssumption DEF Sync, CallSound, Sound, AnswersAreFresh, TypeOK, Calls,
                        Snapshots, Times
<1>2. QED
  BY <1>1, TypeCorrect, SyncHolds, PTL

(* Fetches do not overtake one another: only FetchStores changes the store *)
(* and the fetch it ends began after the store's snapshot was stored.      *)
THEOREM StoreNeverRegressesHolds == Spec => StoreNeverRegresses
<1> DEFINE Newer == store # None => /\ store'.readAt >= store.readAt
                                   /\ store'.fetchedAt >= store.fetchedAt
<1>1. TypeOK /\ Sync /\ [Next]_vars => [Newer]_store
  <2> SUFFICES ASSUME TypeOK, Sync, Next, store' # store, store # None
               PROVE  Newer
    BY DEF vars
  <2>1. PICK t \in Tasks : FetchStores(t)
    BY DEF Next, Tick, Call, CallerStep, LookInStore, UseStored, JoinTask,
           StartTask, Resume, Cancel, CancelBeforeAwait, CancelWaiter,
           TaskStep, FetchReads, FetchFails, FetchCancelled
  <2>2. /\ store.readAt <= store.fetchedAt
        /\ store.fetchedAt <= tasks[t].startedAt
        /\ tasks[t].startedAt <= tasks[t].readAt
        /\ store.fetchedAt <= clock
    BY <2>1 DEF FetchStores, Sync, StoreSound, Sound, TaskSound
  <2>3. /\ store'.readAt = tasks[t].readAt
        /\ store'.fetchedAt = clock
    BY <2>1 DEF FetchStores, Stamped
  <2>4. QED
    BY <2>2, <2>3 DEF TypeOK, Snapshots, TaskRecords, Times
<1>2. QED
  BY <1>1, TypeCorrect, SyncHolds, PTL DEF Spec, StoreNeverRegresses

-----------------------------------------------------------------------------
(* The service implements its contract.                                    *)

Views == [c \in Callers |-> View(c)]

(* A step that changes neither the clock, the store nor what any caller    *)
(* sees is a stuttering step of the contract.                              *)
LEMMA Stutters ==
  ASSUME clock' = clock, store' = store,
         \A c \in Callers : View(c)' = View(c)
  PROVE  UNCHANGED Contract!contractVars
BY DEF Contract!contractVars

(* Joining or starting a task, and what a task does short of storing its   *)
(* snapshot, is invisible to the callers.                                  *)
LEMMA HiddenSteps ==
  ASSUME TypeOK,
         \/ \E c \in Callers :
              \/ JoinTask(c)
              \/ \E t \in Tasks : StartTask(c, t)
              \/ LookInStore(c) /\ ~Servable(store, clock)
              \/ CancelWaiter(c)
         \/ \E t \in Tasks : FetchReads(t) \/ FetchFails(t) \/ FetchCancelled(t)
  PROVE  UNCHANGED Contract!contractVars
<1>1. clock' = clock /\ store' = store
  BY DEF JoinTask, StartTask, LookInStore, CancelWaiter, FetchReads,
         FetchFails, FetchCancelled
<1>2. \A d \in Callers : /\ calls'[d].force = calls[d].force
                        /\ calls'[d].at = calls[d].at
                        /\ calls'[d].floor = calls[d].floor
                        /\ calls'[d].res = calls[d].res
                        /\ \/ calls'[d].pc = calls[d].pc
                           \/ /\ calls[d].pc \in {"start", "lock"}
                              /\ calls'[d].pc \in {"lock", "await"}
  <2>2. CASE \E c \in Callers : JoinTask(c) \/ \E t \in Tasks : StartTask(c, t)
    <3>1. PICK c \in Callers : JoinTask(c) \/ \E t \in Tasks : StartTask(c, t)
      BY <2>2
    <3>2. PICK t : calls' = [calls EXCEPT ![c] =
                               [@ EXCEPT !.pc = "await", !.task = t]]
      BY <3>1 DEF JoinTask, StartTask
    <3>3. /\ calls'[c].pc = "await" /\ calls'[c].force = calls[c].force
          /\ calls'[c].at = calls[c].at /\ calls'[c].res = calls[c].res
          /\ calls'[c].floor = calls[c].floor
      BY <3>2 DEF TypeOK, Calls
    <3>4. \A d \in Callers \ {c} : calls'[d] = calls[d]
      BY <3>2 DEF TypeOK
    <3>5. calls[c].pc = "lock"
      BY <3>1 DEF JoinTask, StartTask
    <3>6. QED
      BY <3>3, <3>4, <3>5
  <2>3. CASE \E c \in Callers : LookInStore(c) /\ ~Servable(store, clock)
    BY <2>3 DEF LookInStore, TypeOK, Calls
  <2>4. CASE \E c \in Callers : CancelWaiter(c)
    BY <2>4 DEF CancelWaiter, TypeOK, Calls
  <2>5. CASE \E t \in Tasks : FetchReads(t) \/ FetchFails(t) \/ FetchCancelled(t)
    BY <2>5 DEF FetchReads, FetchFails, FetchCancelled
  <2>6. QED
    BY <2>2, <2>3, <2>4, <2>5
<1>3. \A d \in Callers : View(d)' = View(d)
  BY <1>2 DEF View
<1>4. QED
  BY <1>1, <1>3, Stutters

(* The instance shares the data of the service.                            *)
LEMMA SameSnapshots == Contract!Snapshots = Snapshots
BY DEF Contract!Snapshots, Snapshots, Contract!Times, Times

(* Callers see their call settled with an acceptable snapshot.             *)
LEMMA AnswerSteps ==
  ASSUME TypeOK, NEW c \in Callers, NEW s \in Snapshots,
         clock' = clock, store' = store,
         calls' = Returned(c, s), calls[c].pc \in {"start", "lock", "await"},
         Contract!Acceptable(s, View(c))
  PROVE  Contract!Answer(c, s)
<1>1. Views' = [Views EXCEPT ![c] =
                  Contract!CallView("returned", @.force, @.at, @.floor, s)]
  <2>1. \A d \in Callers \ {c} : calls'[d] = calls[d]
    BY DEF Returned, TypeOK
  <2>2. /\ calls'[c].pc = "returned" /\ calls'[c].res = s
        /\ calls'[c].force = calls[c].force /\ calls'[c].at = calls[c].at
        /\ calls'[c].floor = calls[c].floor
    BY DEF Returned, TypeOK, Calls
  <2>3. View(c)' = Contract!CallView("returned", View(c).force, View(c).at,
                                       View(c).floor, s)
    BY <2>2 DEF View, Contract!CallView
  <2>4. \A d \in Callers \ {c} : View(d)' = View(d)
    BY <2>1 DEF View
  <2>5. QED
    BY <2>3, <2>4 DEF Views
<1>2. View(c).st = "pending"
  BY DEF View
<1>3. QED
  BY <1>1, <1>2 DEF Contract!Answer, Views

LEMMA RaiseSteps ==
  ASSUME TypeOK, NEW c \in Callers, NEW how \in {"failed", "cancelled"},
         clock' = clock, store' = store,
         calls' = Raised(c, how), calls[c].pc \in {"start", "lock", "await"}
  PROVE  Contract!Raise(c, how)
<1>1. \A d \in Callers \ {c} : View(d)' = View(d)
  BY DEF Raised, View, TypeOK
<1>2. View(c)' = Contract!CallView(how, FALSE, 0, 0, None)
  <2>1. calls'[c] = CallRecord(how, FALSE, 0, 0)
    BY DEF Raised, TypeOK
  <2>2. /\ calls'[c].pc = how /\ calls'[c].force = FALSE
        /\ calls'[c].at = 0 /\ calls'[c].floor = 0 /\ calls'[c].res = None
    BY <2>1 DEF CallRecord
  <2>3. QED
    BY <2>2 DEF View, Contract!CallView
<1>3. View(c).st = "pending"
  BY DEF View
<1>4. QED
  BY <1>1, <1>2, <1>3 DEF Contract!Raise

(* Every step of the service is a step of the contract or invisible to it. *)
LEMMA StepsImplementContract ==
  ASSUME TypeOK, TypeOK', Sync, [Next]_vars
  PROVE  [Contract!ContractNext]_Contract!contractVars
<1> USE DataAssumption
<1>0. /\ clock \in Int
      /\ \A c \in Callers : calls[c].floor \in Int
      /\ store # None => StampOf(store) = store.fetchedAt
      /\ store # None => store.readAt \in Int /\ store.fetchedAt \in Int
      /\ \A c \in Callers : calls[c].at \in Int
      /\ \A c \in Callers : calls[c].pc = "await" => calls[c].task \in Tasks
  BY DEF TypeOK, Calls, Snapshots, Times, StampOf
<1>1. CASE Tick
  <2>1. \A c \in Callers : View(c)' = View(c)
    BY <1>1 DEF Tick, View
  <2>2. Contract!ContractTick
    BY <1>1, <2>1 DEF Tick, Contract!ContractTick
  <2>3. QED
    BY <2>2 DEF Contract!ContractNext
<1>2. ASSUME NEW c \in Callers, NEW force \in BOOLEAN, Call(c, force)
      PROVE  Contract!Ask(c, force)
  <2>1. calls'[c] = CallRecord(IF force THEN "lock" ELSE "start", force, clock,
                           StampOf(store))
    BY <1>2 DEF Call, TypeOK
  <2>2. /\ calls'[c].pc \in {"start", "lock"} /\ calls'[c].force = force
        /\ calls'[c].at = clock /\ calls'[c].floor = StampOf(store)
        /\ calls'[c].res = None
    BY <2>1 DEF CallRecord
  <2>3. View(c)' = Contract!CallView("pending", force, clock,
                                         StampOf(store), None)
    BY <2>2 DEF View, Contract!CallView
  <2>4. \A d \in Callers \ {c} : View(d)' = View(d)
    BY <1>2 DEF Call, View, TypeOK
  <2>5. View(c).st # "pending"
    BY <1>2 DEF Call, View, Ended
  <2>6. QED
    BY <1>2, <2>3, <2>4, <2>5 DEF Call, Contract!Ask, Contract!StampOf,
                                  StampOf
<1>3. ASSUME NEW c \in Callers, NEW s \in Snapshots, Contract!Answer(c, s)
      PROVE  Contract!ContractNext
  BY <1>3, SameSnapshots DEF Contract!ContractNext, Contract!Settle
<1>4. ASSUME NEW c \in Callers, NEW how \in {"failed", "cancelled"},
             Contract!Raise(c, how)
      PROVE  Contract!ContractNext
  BY <1>4 DEF Contract!ContractNext, Contract!Settle
<1>5. ASSUME NEW c \in Callers, Servable(store, clock), ~calls[c].force,
             calls[c].pc \in {"start", "lock"},
             calls' = Returned(c, store), clock' = clock, store' = store
      PROVE  Contract!ContractNext
  <2>1. store \in Snapshots
    BY <1>5 DEF Servable, TypeOK
  <2>2. Contract!Acceptable(store, View(c))
    BY <1>0, <1>5 DEF Servable, Stale, Sync, StoreSound, Sound, CallSound,
                      Contract!Acceptable, View
  <2>3. QED
    BY <1>3, <1>5, <2>1, <2>2, AnswerSteps
<1>6. ASSUME NEW c \in Callers, LookInStore(c) \/ UseStored(c)
      PROVE  Contract!ContractNext \/ UNCHANGED Contract!contractVars
  <2>1. LookInStore(c) => ~calls[c].force
    BY DEF LookInStore, Sync, CallSound
  <2>2. CASE LookInStore(c) /\ Servable(store, clock)
    BY <1>5, <2>1, <2>2 DEF LookInStore
  <2>3. CASE LookInStore(c) /\ ~Servable(store, clock)
    BY <2>3, HiddenSteps DEF LookInStore
  <2>4. CASE UseStored(c)
    BY <1>5, <2>4 DEF UseStored, StoredSuffices
  <2>5. QED
    BY <1>6, <2>2, <2>3, <2>4
<1>7. ASSUME NEW c \in Callers, Resume(c) PROVE Contract!ContractNext
  <2> DEFINE t == calls[c].task
  <2>1. /\ t \in Tasks /\ tasks[t].st \in Ended
        /\ clock' = clock /\ store' = store /\ calls[c].pc = "await"
    BY <1>0, <1>7 DEF Resume, TaskEnded
  <2>2. CASE tasks[t].st = "returned" /\ ~calls[c].doomed
    <3>1. calls' = Returned(c, tasks[t].snap)
      BY <1>7, <2>2 DEF Resume
    <3>2. /\ tasks[t].snap \in Snapshots
          /\ Contract!Acceptable(tasks[t].snap, View(c))
      <4>1. /\ tasks[t].snap # None /\ Sound(tasks[t].snap)
            /\ store # None
            /\ tasks[t].snap.fetchedAt <= store.fetchedAt
            /\ tasks[t].snap.fetchedAt >= calls[c].at
            /\ tasks[t].snap.fetchedAt >= calls[c].floor
        BY <2>1, <2>2 DEF Sync, TaskSound, CallSound
      <4>2. tasks[t].snap \in Snapshots
        BY <2>1, <4>1 DEF TypeOK, TaskRecords
      <4>3. tasks[t].snap.fetchedAt \in Int /\ tasks[t].snap.readAt \in Int
        BY <4>2 DEF Snapshots, Times
      <4>4. View(c).at = calls[c].at /\ View(c).floor = calls[c].floor
        BY DEF View
      <4>5. QED
        BY <1>0, <4>1, <4>2, <4>3, <4>4 DEF Contract!Acceptable, Sound
    <3>3. QED
      BY <1>3, <2>1, <3>1, <3>2, AnswerSteps
  <2>3. CASE ~(tasks[t].st = "returned" /\ ~calls[c].doomed)
    <3>1. PICK how \in {"failed", "cancelled"} : calls' = Raised(c, how)
      BY <1>7, <2>1, <2>3 DEF Resume, Ended
    <3>2. QED
      BY <1>4, <2>1, <3>1, RaiseSteps
  <2>4. QED
    BY <2>2, <2>3
<1>8. ASSUME NEW c \in Callers, CancelBeforeAwait(c)
      PROVE  Contract!ContractNext
  BY <1>4, <1>8, RaiseSteps DEF CancelBeforeAwait
<1>9. ASSUME NEW t \in Tasks, FetchStores(t) PROVE Contract!Publish(Stamped(t))
  <2>1. /\ tasks[t].startedAt \in Int /\ tasks[t].readAt \in Times
        /\ tasks[t].st = "read" /\ clock - tasks[t].startedAt <= FetchTimeout
        /\ TaskSound(t)
    BY <1>9 DEF FetchStores, InTime, Sync, TypeOK, TaskRecords, Times
  <2>2. /\ Stamped(t).fetchedAt = clock /\ Stamped(t).readAt = tasks[t].readAt
    BY DEF Stamped
  <2>3. store # None => store.readAt <= store.fetchedAt
    BY DEF Sync, StoreSound, Sound
  <2>4. Contract!Publishable(Stamped(t))
    BY <1>0, <2>1, <2>2, <2>3 DEF Contract!Publishable, TaskSound, Times, TypeOK
  <2>5. \A c \in Callers : View(c)' = View(c)
    BY <1>9 DEF FetchStores, View
  <2>6. QED
    BY <1>9, <2>4, <2>5 DEF FetchStores, Contract!Publish
<1>10. ASSUME NEW t \in Tasks, FetchStores(t) PROVE Contract!ContractNext
  <2>1. Stamped(t) \in Snapshots
    BY DEF Stamped, Snapshots, TypeOK, TaskRecords
  <2>2. QED
    BY <1>9, <1>10, <2>1, SameSnapshots DEF Contract!ContractNext
<1>11. CASE UNCHANGED vars
  <2>1. \A c \in Callers : View(c)' = View(c)
    BY <1>11 DEF vars, View
  <2>2. QED
    BY <1>11, <2>1, Stutters DEF vars
<1>12. QED
  BY <1>1, <1>2, <1>6, <1>7, <1>8, <1>10, <1>11, HiddenSteps
     DEF Next, CallerStep, Cancel, TaskStep, Contract!ContractNext

(* What callers see of the service is a behaviour of its contract.         *)
THEOREM ServiceImplementsContract == Spec => ImplementsContract
<1>1. Init => Contract!ContractInit
  BY DEF Init, NoCall, CallRecord, View, Contract!ContractInit,
         Contract!NoCall, Contract!CallView
<1>2. TypeOK /\ TypeOK' /\ Sync /\ [Next]_vars
        => [Contract!ContractNext]_Contract!contractVars
  BY StepsImplementContract
<1>3. QED
  BY <1>1, <1>2, TypeCorrect, SyncHolds, PTL
     DEF Spec, ImplementsContract, Contract!ContractSafety
=============================================================================
