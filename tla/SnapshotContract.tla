-------------------------- MODULE SnapshotContract --------------------------
(***************************************************************************)
(* What TransactionSnapshotService promises its callers, without the lock, *)
(* the shared task and the cancellation rules that implement it: a call is *)
(* asked, the store is replaced now and then by a newer snapshot, and each *)
(* call is answered by an acceptable snapshot or raises.                   *)
(***************************************************************************)
EXTENDS SnapshotData

CONSTANT Callers

VARIABLES
  clock,  \* wall clock
  store,  \* the snapshot in the store, or None
  calls   \* calls[c]: what caller c sees of its latest call

Outcomes == {"idle", "pending", "returned", "failed", "cancelled"}

(* at and floor: the time and the store's time stamp when the call was     *)
(* made.                                                                   *)
CallViews == [st : Outcomes, force : BOOLEAN, at : Times, floor : Times,
              res : Snapshots \union {None}]

ContractTypeOK ==
  /\ clock \in Times
  /\ store \in Snapshots \union {None}
  /\ calls \in [Callers -> CallViews]

CallView(st, force, at, floor, res) ==
  [st |-> st, force |-> force, at |-> at, floor |-> floor, res |-> res]

NoCall == CallView("idle", FALSE, 0, 0, None)

ContractInit ==
  /\ clock = 0
  /\ store = None
  /\ calls = [c \in Callers |-> NoCall]

(* Time passes.                                                            *)
ContractTick ==
  /\ clock < MaxClock
  /\ clock' = clock + 1
  /\ UNCHANGED <<store, calls>>

(* get_snapshot (force = FALSE) or refresh_snapshot (TRUE) is called.      *)
Ask(c, force) ==
  /\ calls[c].st # "pending"
  /\ calls' = [calls EXCEPT ![c] = CallView("pending", force, clock, StampOf(store), None)]
  /\ UNCHANGED <<clock, store>>

(* A snapshot that was read from Firefly within one fetch of now, and not  *)
(* before the data it replaces.                                            *)
Publishable(s) ==
  /\ s.fetchedAt = clock
  /\ s.readAt <= clock
  /\ clock - s.readAt <= FetchTimeout
  /\ store # None => store.readAt <= s.readAt

Publish(s) ==
  /\ Publishable(s)
  /\ store' = s
  /\ UNCHANGED <<clock, calls>>

(* A forced call is answered by a snapshot fetched since the call, another *)
(* by one that was not stale when the call was made; neither by one older  *)
(* than the store's at that time, nor by one that has not been stored.     *)
Acceptable(s, call) ==
  /\ s.fetchedAt + (IF call.force THEN 0 ELSE Ttl) >= call.at
  /\ s.fetchedAt >= call.floor
  /\ s.readAt <= s.fetchedAt
  /\ s.fetchedAt - s.readAt <= FetchTimeout
  /\ store # None
  /\ s.fetchedAt <= store.fetchedAt

Answer(c, s) ==
  /\ calls[c].st = "pending"
  /\ Acceptable(s, calls[c])
  /\ calls' = [calls EXCEPT ![c] = CallView("returned", @.force, @.at, @.floor, s)]
  /\ UNCHANGED <<clock, store>>

(* The call raises: an exception of the fetch, or CancelledError.          *)
Raise(c, how) ==
  /\ calls[c].st = "pending"
  /\ calls' = [calls EXCEPT ![c] = CallView(how, FALSE, 0, 0, None)]
  /\ UNCHANGED <<clock, store>>

Settle(c) ==
  \/ \E s \in Snapshots : Answer(c, s)
  \/ \E how \in {"failed", "cancelled"} : Raise(c, how)

ContractNext ==
  \/ ContractTick
  \/ \E c \in Callers, force \in BOOLEAN : Ask(c, force)
  \/ \E s \in Snapshots : Publish(s)
  \/ \E c \in Callers : Settle(c)

contractVars == <<clock, store, calls>>

ContractSafety == ContractInit /\ [][ContractNext]_contractVars

(* Every call that is asked is settled.                                    *)
ContractSpec == ContractSafety /\ \A c \in Callers : WF_contractVars(Settle(c))
=============================================================================
