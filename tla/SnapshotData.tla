---------------------------- MODULE SnapshotData ----------------------------
(***************************************************************************)
(* The data the transaction snapshot is judged by.  The transactions of a  *)
(* TransactionSnapshot are abstracted to the instant at which Firefly was  *)
(* read (readAt); fetched_at is the time stamp the service puts on it once *)
(* the fetch has ended.                                                    *)
(***************************************************************************)
EXTENDS Integers

CONSTANTS
  Ttl,            \* TRANSACTION_SNAPSHOT_TTL_SECONDS
  FetchTimeout,   \* SNAPSHOT_FETCH_TIMEOUT_SECONDS
  MaxClock,       \* bound on the clock
  None            \* Python's None

ASSUME DataAssumption ==
  /\ Ttl \in Nat
  /\ FetchTimeout \in Nat
  /\ MaxClock \in Nat
  /\ None \notin Int
  /\ None \notin [readAt : Int, fetchedAt : Int]

Times == 0 .. MaxClock

Snapshots == [readAt : Times, fetchedAt : Times]

(* The time stamp of the store's snapshot; 0 before there is one.          *)
StampOf(s) == IF s = None THEN 0 ELSE s.fetchedAt

(* InMemorySnapshotStore.is_stale: strictly older than max_age is stale.   *)
Stale(s, now) == now - s.fetchedAt > Ttl

(* A snapshot the cache may serve at time now.                             *)
Servable(s, now) == s # None /\ ~Stale(s, now)

(* get_cached_snapshot_timestamp: None for a missing or a stale snapshot.  *)
CachedTimestamp(s, now) == IF Servable(s, now) THEN s.fetchedAt ELSE None
=============================================================================
