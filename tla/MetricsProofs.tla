---------------------------- MODULE MetricsProofs ----------------------------
(***************************************************************************)
(* Proofs about Metrics, for every set of callers and managers and every   *)
(* TTL and timeout.                                                        *)
(***************************************************************************)
EXTENDS Metrics, TLAPS

(* Neither a call nor a manager is ahead of the store, nor the store of    *)
(* the clock.                                                              *)
StampsOrdered ==
  /\ StampOf(store) <= clock
  /\ \A c \in Callers : /\ calls[c].at <= clock
                        /\ calls[c].floor <= StampOf(store)
  /\ \A m \in Managers : /\ mgr[m].since <= clock
                         /\ mgr[m].shown <= StampOf(store)

(* What a call returned is acceptable, and the store has held it.          *)
AnswerSound(c) ==
  calls[c].st = "returned" =>
    /\ calls[c].res # None
    /\ calls[c].res.fetchedAt + (IF calls[c].force THEN 0 ELSE Ttl) >= calls[c].at
    /\ calls[c].res.fetchedAt >= calls[c].floor
    /\ calls[c].res.fetchedAt <= StampOf(store)

(* The call of a recompute was made for it, since it was started.          *)
CallOf(m) ==
  /\ mgr[m].task = "building" => calls[m].st = "returned"
  /\ mgr[m].task \in {"snapshot", "building"} /\ calls[m].st \in {"pending", "returned"} =>
       /\ calls[m].force = mgr[m].force
       /\ calls[m].at >= mgr[m].since
       /\ calls[m].floor >= mgr[m].shown

(* With MetricsTypeOK this is inductive.                                   *)
MetricsInv ==
  /\ StampsOrdered
  /\ \A c \in Callers : AnswerSound(c)
  /\ \A m \in Managers : CallOf(m)
  /\ StateMatchesTask
  /\ MetricsReflectRequest
  /\ ResultNeverRegresses

-----------------------------------------------------------------------------
(* The time stamp of the store is a time.                                  *)
LEMMA StampTyped == ContractTypeOK => StampOf(store) \in Times
BY DataAssumption DEF ContractTypeOK, StampOf, Snapshots, Times

(* An ask keeps the types of the contract.                                 *)
LEMMA AskTyped ==
  ASSUME ContractTypeOK, NEW c \in Callers, NEW force \in BOOLEAN, Ask(c, force)
  PROVE  ContractTypeOK'
<1>1. CallView("pending", force, clock, StampOf(store), None) \in CallViews
  BY StampTyped DEF CallView, CallViews, ContractTypeOK, Outcomes
<1>2. QED
  BY <1>1 DEF Ask, ContractTypeOK

(* The steps of the snapshot service keep the types of the contract.       *)
LEMMA SnapshotStepTyped ==
  ASSUME ContractTypeOK, SnapshotStep
  PROVE  ContractTypeOK'
<1>1. CASE ContractTick
  BY <1>1, DataAssumption DEF ContractTick, ContractTypeOK, Times
<1>2. CASE \E c \in Callers \ Managers, force \in BOOLEAN : Ask(c, force)
  BY <1>2, AskTyped
<1>3. CASE \E s \in Snapshots : Publish(s)
  BY <1>3 DEF Publish, ContractTypeOK
<1>4. ASSUME NEW c \in Callers, NEW s \in Snapshots, Answer(c, s)
      PROVE  ContractTypeOK'
  <2>1. CallView("returned", calls[c].force, calls[c].at, calls[c].floor, s) \in CallViews
    BY <1>4 DEF CallView, CallViews, ContractTypeOK, Outcomes
  <2>2. QED
    BY <1>4, <2>1 DEF Answer, ContractTypeOK
<1>5. ASSUME NEW c \in Callers, NEW how \in {"failed", "cancelled"}, Raise(c, how)
      PROVE  ContractTypeOK'
  <2>1. CallView(how, FALSE, 0, 0, None) \in CallViews
    BY DataAssumption DEF CallView, CallViews, Outcomes, Times
  <2>2. QED
    BY <1>5, <2>1 DEF Raise, ContractTypeOK
<1>6. QED
  BY <1>1, <1>2, <1>3, <1>4, <1>5 DEF SnapshotStep, Settle

(* A step of a manager keeps the types.                                    *)
LEMMA ManagerStepTyped ==
  ASSUME MetricsTypeOK, MetricsInv, NEW m \in Managers,
         EnsureCurrent(m) \/ Refresh(m) \/ RecomputeStep(m)
  PROVE  MetricsTypeOK'
<1> USE DataAssumption, ManagersAssumption
<1>1. ASSUME NEW force \in BOOLEAN, Start(m, force) PROVE MetricsTypeOK'
  <2>1. mgr[m].shown \in Times /\ TimeOf(mgr[m].result) \in Times
    BY DEF MetricsTypeOK, ManagerStates, TimeOf, Times
  <2>2. MetricsState("RUNNING", None, "queued", force, clock,
                     Later(mgr[m].shown, TimeOf(mgr[m].result))) \in ManagerStates
    BY <2>1 DEF MetricsState, ManagerStates, Statuses, MetricsTasks, ActiveTask,
                Later, MetricsTypeOK, ContractTypeOK
  <2>3. QED
    BY <1>1, <2>2 DEF Start, MetricsTypeOK, ContractTypeOK, contractVars
<1>2. CASE AskSnapshot(m)
  <2>1. Forced(m) \in BOOLEAN
    BY DEF Forced, MetricsTypeOK, ManagerStates
  <2>2. ContractTypeOK'
    BY <1>2, <2>1, AskTyped DEF AskSnapshot, MetricsTypeOK
  <2>3. QED
    BY <1>2, <2>2 DEF AskSnapshot, ToTask, MetricsTypeOK, ManagerStates, MetricsTasks, ActiveTask
<1>3. CASE GotSnapshot(m)
  BY <1>3 DEF GotSnapshot, ToTask, MetricsTypeOK, ContractTypeOK, contractVars,
              ManagerStates, MetricsTasks, ActiveTask
<1>4. CASE RecomputeDone(m)
  <2>1. TimeStamp(m) \in Times
    BY <1>4 DEF RecomputeDone, TimeStamp, MetricsInv, CallOf, AnswerSound, MetricsTypeOK,
                ContractTypeOK, CallViews, Snapshots
  <2>2. QED
    BY <1>4, <2>1 DEF RecomputeDone, EndsWith, MetricsTypeOK, ContractTypeOK,
                      contractVars, ManagerStates, MetricsTasks, Statuses
<1>5. CASE RecomputeFails(m)
  BY <1>5 DEF RecomputeFails, ReportFailure, EndsWith, MetricsTypeOK, ContractTypeOK,
              contractVars, ManagerStates, MetricsTasks, Statuses
<1>6. CASE RecomputeCancelled(m)
  BY <1>6 DEF RecomputeCancelled, ToTask, MetricsTypeOK, ContractTypeOK, contractVars,
              ManagerStates, MetricsTasks
<1>7. QED
  BY <1>1, <1>2, <1>3, <1>4, <1>5, <1>6 DEF EnsureCurrent, Refresh, RecomputeStep

(* A step of the snapshot service keeps the invariant.                     *)
LEMMA SnapshotStepInv ==
  ASSUME MetricsTypeOK, MetricsTypeOK', MetricsInv, SnapshotStep
  PROVE  MetricsInv'
<1> USE DataAssumption, ManagersAssumption
<1> USE DEF MetricsInv, StampsOrdered, AnswerSound, CallOf, StateMatchesTask,
            MetricsReflectRequest, ResultNeverRegresses
<1>0. /\ mgr' = mgr
      /\ StampOf(store) \in Times
      /\ clock \in Times
      /\ calls \in [Callers -> CallViews]
      /\ mgr \in [Managers -> ManagerStates]
  BY StampTyped DEF SnapshotStep, MetricsTypeOK, ContractTypeOK
<1>t. /\ StampOf(store) \in Nat /\ clock \in Nat
      /\ \A c \in Callers : calls[c].at \in Int /\ calls[c].floor \in Int
      /\ \A c \in Callers : calls[c].res # None => calls[c].res.fetchedAt \in Int
      /\ \A m \in Managers : mgr[m].since \in Int /\ mgr[m].shown \in Int
      /\ \A m \in Managers : mgr[m].result # None => mgr[m].result \in Int
      /\ Ttl \in Int
  BY <1>0 DEF CallViews, ManagerStates, Snapshots, Times
<1>1. CASE ContractTick
  <2>1. clock' = clock + 1 /\ StampOf(store)' = StampOf(store) /\ calls' = calls
    BY <1>1 DEF ContractTick, StampOf
  <2>2. QED
    BY <1>0, <1>t, <2>1
<1>2. ASSUME NEW c \in Callers \ Managers, NEW force \in BOOLEAN, Ask(c, force)
      PROVE  MetricsInv'
  <2>1. /\ clock' = clock /\ StampOf(store)' = StampOf(store)
        /\ \A d \in Callers \ {c} : calls'[d] = calls[d]
        /\ calls'[c].st = "pending" /\ calls'[c].at = clock
        /\ calls'[c].floor = StampOf(store)
    BY <1>0, <1>2 DEF Ask, CallView, StampOf
  <2>2. QED
    BY <1>0, <1>t, <2>1
<1>3. ASSUME NEW s \in Snapshots, Publish(s) PROVE MetricsInv'
  <2>1. /\ clock' = clock /\ StampOf(store)' = clock /\ calls' = calls
    BY <1>3 DEF Publish, Publishable, StampOf, Snapshots, Times
  <2>2. QED
    BY <1>0, <1>t, <2>1
<1>4. ASSUME NEW c \in Callers, NEW s \in Snapshots, Answer(c, s) PROVE MetricsInv'
  <2>1. /\ clock' = clock /\ StampOf(store)' = StampOf(store)
        /\ \A d \in Callers \ {c} : calls'[d] = calls[d]
        /\ calls[c].st = "pending" /\ calls'[c].st = "returned"
        /\ calls'[c].at = calls[c].at /\ calls'[c].floor = calls[c].floor
        /\ calls'[c].force = calls[c].force /\ calls'[c].res = s
    BY <1>0, <1>4 DEF Answer, CallView, StampOf
  <2>2. /\ s # None
        /\ s.fetchedAt + (IF calls[c].force THEN 0 ELSE Ttl) >= calls[c].at
        /\ s.fetchedAt >= calls[c].floor
        /\ s.fetchedAt <= StampOf(store)
    BY <1>4 DEF Answer, Acceptable, StampOf, Snapshots, Times
  <2>3. QED
    BY <1>0, <1>t, <2>1, <2>2
<1>5. ASSUME NEW c \in Callers, NEW how \in {"failed", "cancelled"}, Raise(c, how)
      PROVE  MetricsInv'
  <2>1. /\ clock' = clock /\ StampOf(store)' = StampOf(store)
        /\ \A d \in Callers \ {c} : calls'[d] = calls[d]
        /\ calls[c].st = "pending" /\ calls'[c].st = how
        /\ calls'[c].at = 0 /\ calls'[c].floor = 0
    BY <1>0, <1>5 DEF Raise, CallView, StampOf
  <2>2. QED
    BY <1>0, <1>t, <2>1
<1>6. QED
  BY <1>1, <1>2, <1>3, <1>4, <1>5 DEF SnapshotStep, Settle

(* A step of a manager keeps the invariant.                                *)
LEMMA ManagerStepInv ==
  ASSUME MetricsTypeOK, MetricsTypeOK', MetricsInv, NEW m \in Managers,
         EnsureCurrent(m) \/ Refresh(m) \/ RecomputeStep(m)
  PROVE  MetricsInv'
<1> USE DataAssumption, ManagersAssumption
<1> USE DEF MetricsInv, StampsOrdered, AnswerSound, CallOf, StateMatchesTask,
            MetricsReflectRequest, ResultNeverRegresses
<1>0. /\ StampOf(store) \in Times
      /\ clock \in Times
      /\ calls \in [Callers -> CallViews]
      /\ mgr \in [Managers -> ManagerStates]
      /\ m \in Callers
  BY StampTyped DEF MetricsTypeOK, ContractTypeOK
<1>t. /\ StampOf(store) \in Nat /\ clock \in Nat
      /\ \A c \in Callers : calls[c].at \in Int /\ calls[c].floor \in Int
      /\ \A c \in Callers : calls[c].res # None => calls[c].res.fetchedAt \in Int
      /\ \A n \in Managers : mgr[n].since \in Int /\ mgr[n].shown \in Int
      /\ \A n \in Managers : mgr[n].result # None => mgr[n].result \in Int
      /\ Ttl \in Int
  BY <1>0 DEF CallViews, ManagerStates, Snapshots, Times
<1>1. ASSUME NEW force \in BOOLEAN, Start(m, force) PROVE MetricsInv'
  <2>1. /\ clock' = clock /\ StampOf(store)' = StampOf(store) /\ calls' = calls
        /\ \A n \in Managers \ {m} : mgr'[n] = mgr[n]
        /\ mgr[m].task = "none"
        /\ mgr'[m].status = "RUNNING" /\ mgr'[m].result = None
        /\ mgr'[m].task = "queued" /\ mgr'[m].since = clock
        /\ mgr'[m].shown = Later(mgr[m].shown, TimeOf(mgr[m].result))
    BY <1>0, <1>1 DEF Start, Idle, MetricsState, contractVars, StampOf
  <2>2. mgr'[m].shown <= StampOf(store)
    BY <1>0, <2>1 DEF Later, TimeOf, ManagerStates, Times
  <2>3. QED
    BY <1>0, <1>t, <2>1, <2>2
<1>2. CASE AskSnapshot(m)
  <2>1. /\ clock' = clock /\ StampOf(store)' = StampOf(store)
        /\ \A d \in Callers \ {m} : calls'[d] = calls[d]
        /\ \A n \in Managers \ {m} : mgr'[n] = mgr[n]
        /\ calls'[m].st = "pending" /\ calls'[m].force = mgr[m].force
        /\ calls'[m].at = clock /\ calls'[m].floor = StampOf(store)
        /\ mgr[m].task = "queued" /\ mgr'[m].task = "snapshot"
        /\ mgr'[m].status = mgr[m].status /\ mgr'[m].result = mgr[m].result
        /\ mgr'[m].force = mgr[m].force /\ mgr'[m].since = mgr[m].since
        /\ mgr'[m].shown = mgr[m].shown
    BY <1>0, <1>2 DEF AskSnapshot, Ask, Forced, ToTask, CallView, StampOf, ManagerStates
  <2>2. QED
    BY <1>0, <1>t, <2>1
<1>3. CASE GotSnapshot(m) \/ RecomputeCancelled(m)
  <2>1. /\ clock' = clock /\ StampOf(store)' = StampOf(store) /\ calls' = calls
        /\ \A n \in Managers \ {m} : mgr'[n] = mgr[n]
        /\ mgr[m].task = "snapshot"
        /\ \/ mgr'[m].task = "building" /\ calls[m].st = "returned"
           \/ mgr'[m].task = "cancelled" /\ calls[m].st = "cancelled"
        /\ mgr'[m].status = mgr[m].status /\ mgr'[m].result = mgr[m].result
        /\ mgr'[m].force = mgr[m].force /\ mgr'[m].since = mgr[m].since
        /\ mgr'[m].shown = mgr[m].shown
    BY <1>0, <1>3 DEF GotSnapshot, RecomputeCancelled, ToTask, contractVars, StampOf,
                      ManagerStates
  <2>2. QED
    BY <1>0, <1>t, <2>1
<1>4. CASE RecomputeDone(m)
  <2>1. /\ clock' = clock /\ StampOf(store)' = StampOf(store) /\ calls' = calls
        /\ \A n \in Managers \ {m} : mgr'[n] = mgr[n]
        /\ mgr[m].task = "building" /\ mgr'[m].task = "none"
        /\ mgr'[m].status = "DONE" /\ mgr'[m].result = calls[m].res.fetchedAt
        /\ mgr'[m].force = mgr[m].force /\ mgr'[m].since = mgr[m].since
        /\ mgr'[m].shown = mgr[m].shown
    BY <1>0, <1>4 DEF RecomputeDone, TimeStamp, EndsWith, contractVars, StampOf,
                      ManagerStates
  <2>2. calls[m].res \in Snapshots /\ calls[m].st = "returned"
    BY <1>0, <2>1 DEF CallViews
  <2>3. calls[m].res.fetchedAt \in Times /\ calls[m].res.fetchedAt # None
    BY <2>2 DEF Snapshots, Times
  <2>4. QED
    BY <1>0, <1>t, <2>1, <2>2, <2>3
<1>5. CASE RecomputeFails(m)
  <2>1. /\ clock' = clock /\ StampOf(store)' = StampOf(store) /\ calls' = calls
        /\ \A n \in Managers \ {m} : mgr'[n] = mgr[n]
        /\ mgr'[m].task = "none"
        /\ calls[m].st # "pending"
        /\ mgr'[m].status = "FAILED" /\ mgr'[m].result = None
        /\ mgr'[m].force = mgr[m].force /\ mgr'[m].since = mgr[m].since
        /\ mgr'[m].shown = mgr[m].shown
    BY <1>0, <1>5 DEF RecomputeFails, ReportFailure, EndsWith, contractVars, StampOf,
                      ManagerStates
  <2>2. QED
    BY <1>0, <1>t, <2>1
<1>6. QED
  BY <1>1, <1>2, <1>3, <1>4, <1>5 DEF EnsureCurrent, Refresh, RecomputeStep

-----------------------------------------------------------------------------
(* The invariant is inductive.                                             *)
LEMMA MetricsInductive == MetricsSpec => [](MetricsTypeOK /\ MetricsInv)
<1> USE DataAssumption, ManagersAssumption
<1>1. MetricsInit => MetricsTypeOK /\ MetricsInv
  <2> SUFFICES ASSUME MetricsInit PROVE MetricsTypeOK /\ MetricsInv
    OBVIOUS
  <2>1. MetricsTypeOK
    BY DEF MetricsInit, ContractInit, MetricsTypeOK, ContractTypeOK, NoCall, CallView,
           CallViews, Outcomes, MetricsState, ManagerStates, Statuses, MetricsTasks, Times
  <2>2. /\ clock = 0 /\ StampOf(store) = 0
        /\ \A c \in Callers : calls[c].st = "idle" /\ calls[c].at = 0 /\ calls[c].floor = 0
        /\ \A m \in Managers : /\ mgr[m].status = "PENDING" /\ mgr[m].result = None
                              /\ mgr[m].task = "none"
                              /\ mgr[m].since = 0 /\ mgr[m].shown = 0
    BY DEF MetricsInit, ContractInit, NoCall, CallView, MetricsState, StampOf
  <2>3. MetricsInv
    BY <2>2 DEF MetricsInv, StampsOrdered, AnswerSound, CallOf, StateMatchesTask,
                MetricsReflectRequest, ResultNeverRegresses
  <2>4. QED
    BY <2>1, <2>3
<1>2. MetricsTypeOK /\ MetricsInv /\ [MetricsNext]_metricsVars
        => MetricsTypeOK' /\ MetricsInv'
  <2> SUFFICES ASSUME MetricsTypeOK, MetricsInv, [MetricsNext]_metricsVars
               PROVE  MetricsTypeOK' /\ MetricsInv'
    OBVIOUS
  <2>1. CASE SnapshotStep
    <3>1. MetricsTypeOK'
      BY <2>1, SnapshotStepTyped DEF SnapshotStep, MetricsTypeOK
    <3>2. QED
      BY <2>1, <3>1, SnapshotStepInv
  <2>2. ASSUME NEW m \in Managers, EnsureCurrent(m) \/ Refresh(m) \/ RecomputeStep(m)
        PROVE  MetricsTypeOK' /\ MetricsInv'
    BY <2>2, ManagerStepTyped, ManagerStepInv
  <2>3. CASE UNCHANGED metricsVars
    BY <2>3 DEF metricsVars, MetricsTypeOK, ContractTypeOK, MetricsInv, StampsOrdered,
                StampOf, AnswerSound, CallOf, StateMatchesTask, MetricsReflectRequest,
                ResultNeverRegresses
  <2>4. QED
    BY <2>1, <2>2, <2>3 DEF MetricsNext
<1>3. QED
  BY <1>1, <1>2, PTL DEF MetricsSpec

(* The state of every manager and of every call keeps its type.            *)
THEOREM MetricsTypeCorrect == MetricsSpec => []MetricsTypeOK
BY MetricsInductive, PTL

(* The published state of a manager is coherent with its recompute task.   *)
THEOREM StateMatchesTaskHolds == MetricsSpec => []StateMatchesTask
<1>1. MetricsInv => StateMatchesTask
  BY DEF MetricsInv
<1>2. QED
  BY <1>1, MetricsInductive, PTL

(* DONE means computed from transactions as recent as the request asked.   *)
THEOREM MetricsReflectRequestHolds == MetricsSpec => []MetricsReflectRequest
<1>1. MetricsInv => MetricsReflectRequest
  BY DEF MetricsInv
<1>2. QED
  BY <1>1, MetricsInductive, PTL

(* The metrics shown never go back in time, nor ahead of the cache.        *)
THEOREM ResultNeverRegressesHolds == MetricsSpec => []ResultNeverRegresses
<1>1. MetricsInv => ResultNeverRegresses
  BY DEF MetricsInv
<1>2. QED
  BY <1>1, MetricsInductive, PTL
=============================================================================
