------------------------------- MODULE Vault -------------------------------
(***************************************************************************)
(* Vaults and secrets of users: VaultService, VaultSessionStore and        *)
(* UserSecretsService under the user-secrets routes, with the use of a     *)
(* secret by the Allegro service and the deletion of a user.  Requests run *)
(* in a thread pool, each with its own database session; what a request    *)
(* reads, the key it takes from a vault session and the transaction it     *)
(* commits are separate steps.  A transaction holds SQLite's write lock    *)
(* from its first write to its commit and is one action; its audit entry   *)
(* is part of it.  Vault sessions live in memory and are lost in a restart.*)
(* A key stands for what a passphrase and a fresh salt derive.             *)
(***************************************************************************)
EXTENDS Integers, FiniteSets, Functions

CONSTANTS
  None,
  Users, Secrets, Sessions, Keys,  \* identities of users and of the rest
  Requests,                        \* concurrent requests
  TTL,                             \* vault_session_ttl_seconds
  MaxTime, MaxLog                  \* bounds on the clock and on the audit log

ASSUME VaultAssumption ==
  /\ None \notin Users \union Secrets \union Sessions \union Keys
  /\ Users \intersect Secrets = {}
  /\ TTL \in Nat \ {0}
  /\ MaxTime \in Nat
  /\ MaxLog \in Nat

VARIABLES
  now,       \* the clock
  users,     \* users that exist
  vaults,    \* table user_secret_vaults: the key its check value verifies
  secrets,   \* table user_secrets
  audit,     \* table audit_log: how often it names each action
  sessions,  \* VaultSessionStore
  requests,  \* requests under way
  unlocked,  \* history: who unlocked which session, and when
  closed     \* history: sessions locked by their user or lost in a restart

vars == <<now, users, vaults, secrets, audit, sessions, requests, unlocked, closed>>

-----------------------------------------------------------------------------
Aliases == {"old", "new"}
Other(alias) == IF alias = "old" THEN "new" ELSE "old"

(* key: the one its data key is wrapped with.                              *)
Secret(st, owner, key, alias, uses) ==
  [st |-> st, owner |-> owner, key |-> key, alias |-> alias, uses |-> uses]
SecretRows ==
  [st : {"none", "stored", "deleted"}, owner : Users \union {None},
   key : Keys \union {None}, alias : Aliases, uses : Nat]
NoSecret == Secret("none", None, None, "old", 0)
Deleted == Secret("deleted", None, None, "old", 0)
Stored(x) == secrets[x].st = "stored"
OwnedBy(x, u) == Stored(x) /\ secrets[x].owner = u

Session(st, user, key, expires) ==
  [st |-> st, user |-> user, key |-> key, expires |-> expires, held |-> FALSE]
SessionRecords ==
  [st : {"none", "live", "gone"}, user : Users \union {None},
   key : Keys \union {None}, expires : 0 .. MaxTime + TTL, held : BOOLEAN]
NoSession == Session("none", None, None, 0)
(* Sessions whose identity a client was given.                             *)
Held == {s \in Sessions : sessions[s].held}

Entries == [op : {"setup", "unlock", "lock"}, target : Users] \union
           [op : {"create", "update", "delete", "used"}, target : Secrets]
Entry(op, target) == [op |-> op, target |-> target]
Logged(op, target) == audit[Entry(op, target)]

(* "loaded": its rows are read; "keyed": it has a user key; "open": its    *)
(* vault session exists; "locked": its vault session is gone; "served": it *)
(* holds the plaintext.  alias and uses: as loaded; to: the alias asked    *)
(* for; late: the session had ended when the key was taken from it.        *)
Request(op, user, session, secret) ==
  [st |-> "loaded", op |-> op, user |-> user, session |-> session,
   secret |-> secret, rows |-> {}, key |-> None, to |-> None,
   uses |-> 0, rotate |-> FALSE, late |-> FALSE]
Ended == [Request("none", None, None, None) EXCEPT !.st = "idle"]
RequestRecords ==
  [st : {"idle", "loaded", "keyed", "open", "locked", "served"},
   op : {"none", "setup", "unlock", "lock", "create", "update", "delete", "use",
         "user delete"},
   user : Users \union {None}, session : Sessions \union {None},
   secret : Secrets \union {None}, rows : SUBSET (Secrets \union Users),
   key : Keys \union {None}, to : Aliases \union {None}, uses : Nat,
   rotate : BOOLEAN, late : BOOLEAN]

Init ==
  /\ now = 0
  /\ users = Users
  /\ vaults = [u \in Users |-> None]
  /\ secrets = [x \in Secrets |-> NoSecret]
  /\ audit = [e \in Entries |-> 0]
  /\ sessions = [s \in Sessions |-> NoSession]
  /\ requests = [r \in Requests |-> Ended]
  /\ unlocked = [s \in Sessions |-> [user |-> None, at |-> 0]]
  /\ closed = {}

-----------------------------------------------------------------------------
history == <<unlocked, closed>>
tables == <<users, vaults, secrets, audit>>

In(r, op, st) == requests[r].op = op /\ requests[r].st = st
Becomes(r, q) == requests' = [requests EXCEPT ![r] = q]
Ends(r) == Becomes(r, Ended)

(* require_active_user, then what the request reads first.                 *)
Starts(r, q) ==
  /\ requests[r].st = "idle"
  /\ q.user \in users
  /\ Becomes(r, q)
  /\ UNCHANGED <<now, tables, history>>

(* The transaction adds the audit entry and commits.                       *)
Commits(op, target) ==
  /\ FoldFunction(+, 0, audit) < MaxLog  \* bound
  /\ audit' = [audit EXCEPT ![Entry(op, target)] = @ + 1]
  /\ UNCHANGED <<now, users, history>>

(* A constraint fails, an UPDATE does not find its row, the database stays *)
(* locked, a check refuses: nothing is committed.                          *)
Fails(r) ==
  /\ requests[r].st \notin {"idle", "served"}
  /\ Ends(r)
  /\ UNCHANGED <<now, tables, sessions, history>>

-----------------------------------------------------------------------------
(* VaultSessionStore.                                                      *)

(* Mutant: a session outlives its expiry by a tick.                        *)
UsableTooLong(u, s) ==
  /\ s # None
  /\ sessions[s].st = "live"
  /\ sessions[s].user = u
  /\ now <= sessions[s].expires

(* get_user_key finds the session.                                         *)
Usable(u, s) ==
  /\ s # None
  /\ sessions[s].st = "live"
  /\ sessions[s].user = u
  /\ now < sessions[s].expires

Gone(u, s) == IF sessions[s].user = u
              THEN [sessions EXCEPT ![s] = [@ EXCEPT !.st = "gone"]]
              ELSE sessions

(* A lookup drops an expired session; the status route does nothing else.  *)
SessionLooked(u, s) ==
  /\ u \in users
  /\ sessions[s].st = "live"
  /\ sessions[s].user = u
  /\ ~Usable(u, s)
  /\ sessions' = Gone(u, s)
  /\ UNCHANGED <<now, tables, requests, history>>

(* By what the clients did, not by what the store holds.                   *)
SessionOver(u, s) ==
  \/ unlocked[s].user # u
  \/ s \in closed
  \/ now >= unlocked[s].at + TTL

-----------------------------------------------------------------------------
(* VaultService.                                                           *)

KeysInUse == {vaults[u] : u \in Users} \union {sessions[s].key : s \in Sessions}
             \union {secrets[x].key : x \in Secrets}
             \union {requests[r].key : r \in Requests}

(* There is no vault; a key is derived with a fresh salt.                  *)
SetupAsked(r, u, k) ==
  /\ vaults[u] = None
  /\ k \notin KeysInUse
  /\ Starts(r, [Request("setup", u, None, None) EXCEPT !.key = k])
  /\ UNCHANGED sessions

(* Mutant: a second set-up replaces the vault.                             *)
SetupReplaces(r) ==
  /\ In(r, "setup", "loaded")
  /\ vaults' = [vaults EXCEPT ![requests[r].user] = requests[r].key]
  /\ Commits("setup", requests[r].user)
  /\ Ends(r)
  /\ UNCHANGED <<secrets, sessions>>

(* The vault's primary key is the user.                                    *)
SetupDone(r) ==
  LET u == requests[r].user IN
  /\ In(r, "setup", "loaded")
  /\ vaults[u] = None
  /\ vaults' = [vaults EXCEPT ![u] = requests[r].key]
  /\ Commits("setup", u)
  /\ Ends(r)
  /\ UNCHANGED <<secrets, sessions>>

(* The passphrase derives the key that verifies.                           *)
UnlockAsked(r, u) ==
  /\ vaults[u] # None
  /\ Starts(r, [Request("unlock", u, None, None) EXCEPT !.key = vaults[u]])
  /\ UNCHANGED sessions

SessionCreated(r, s) ==
  LET q == requests[r] IN
  /\ In(r, "unlock", "loaded")
  /\ sessions[s] = NoSession
  /\ sessions' = [sessions EXCEPT ![s] = Session("live", q.user, q.key, now + TTL)]
  /\ Becomes(r, [q EXCEPT !.st = "open", !.session = s])
  /\ unlocked' = [unlocked EXCEPT ![s] = [user |-> q.user, at |-> now]]
  /\ UNCHANGED <<now, tables, closed>>

UnlockDone(r) ==
  /\ In(r, "unlock", "open")
  /\ sessions' = [sessions EXCEPT ![requests[r].session].held = TRUE]
  /\ Commits("unlock", requests[r].user)
  /\ Ends(r)
  /\ UNCHANGED <<vaults, secrets>>

(* The session is gone before the lock is committed.                       *)
LockAsked(r, u, s) ==
  /\ requests[r].st = "idle"
  /\ u \in users
  /\ s \in Held
  /\ sessions' = Gone(u, s)
  /\ Becomes(r, [Request("lock", u, s, None) EXCEPT !.st = "locked"])
  /\ UNCHANGED <<now, tables, history>>

LockDone(r) ==
  LET q == requests[r] IN
  /\ In(r, "lock", "locked")
  /\ FoldFunction(+, 0, audit) < MaxLog  \* bound
  /\ audit' = [audit EXCEPT ![Entry("lock", q.user)] = @ + 1]
  /\ closed' = IF unlocked[q.session].user = q.user
               THEN closed \union {q.session} ELSE closed
  /\ Ends(r)
  /\ UNCHANGED <<now, users, vaults, secrets, sessions, unlocked>>

-----------------------------------------------------------------------------
(* UserSecretsService.                                                     *)

(* require_user_key for a request that may start with it.                  *)
Keyed(q) == [q EXCEPT !.st = "keyed", !.key = sessions[q.session].key,
                      !.late = SessionOver(q.user, q.session)]
HasKey(u, s) == vaults[u] # None /\ Usable(u, s)

CreateAsked(r, u, s) ==
  /\ HasKey(u, s)
  /\ Starts(r, Keyed(Request("create", u, s, None)))
  /\ UNCHANGED sessions

CreateDone(r, x) ==
  LET q == requests[r] IN
  /\ In(r, "create", "keyed")
  /\ secrets[x] = NoSecret
  /\ secrets' = [secrets EXCEPT ![x] = Secret("stored", q.user, q.key, "old", 0)]
  /\ Commits("create", x)
  /\ Ends(r)
  /\ UNCHANGED <<vaults, sessions>>

(* What an UPDATE would write of the alias: None when it stays the same.   *)
Payload(op, x, to, rotate) ==
  IF op = "update" THEN to \in {None, Other(secrets[x].alias)}
  ELSE to = None /\ ~rotate

(* get_by_id and _assert_ownership.                                        *)
SecretLoaded(r, op, u, x, s, to, rotate) ==
  /\ OwnedBy(x, u)
  /\ Payload(op, x, to, rotate)
  /\ Starts(r, [Request(op, u, s, x) EXCEPT !.to = to, !.rotate = rotate,
                                           !.uses = secrets[x].uses])
  /\ UNCHANGED sessions

(* Before the first write: of a use, and of a rotation that writes nothing *)
(* else.                                                                   *)
KeyTaken(r) ==
  LET q == requests[r] IN
  /\ \/ In(r, "use", "loaded")
     \/ In(r, "update", "loaded") /\ q.rotate /\ q.to = None
  /\ HasKey(q.user, q.session)
  /\ Becomes(r, Keyed(q))
  /\ UNCHANGED <<now, tables, sessions, history>>

Renamed(x, to) ==
  IF to = None THEN secrets[x] ELSE [secrets[x] EXCEPT !.alias = to]

(* Mutant: the metadata are committed before the session is checked.       *)
RenamedFirst(r) ==
  LET q == requests[r] IN
  /\ In(r, "update", "loaded")
  /\ q.rotate /\ q.to # None
  /\ Stored(q.secret)
  /\ secrets' = [secrets EXCEPT ![q.secret] = Renamed(q.secret, q.to)]
  /\ Becomes(r, [q EXCEPT !.to = None])
  /\ UNCHANGED <<now, users, vaults, audit, sessions, history>>

(* update_secret: the metadata are flushed before a key is required, and   *)
(* nothing is committed unless all of it succeeds.                         *)
UpdateDone(r) ==
  LET q == requests[r]
      x == q.secret
      key == IF q.st = "keyed" THEN q.key ELSE sessions[q.session].key
  IN
  /\ IF q.rotate /\ q.to = None THEN In(r, "update", "keyed")
                                ELSE In(r, "update", "loaded")
  /\ q.rotate /\ q.to # None => HasKey(q.user, q.session)
  /\ q.rotate \/ q.to # None => Stored(x)
  /\ secrets' = [secrets EXCEPT ![x] =
       IF q.rotate THEN [Renamed(x, q.to) EXCEPT !.key = key] ELSE Renamed(x, q.to)]
  /\ Commits("update", x)
  /\ Ends(r)
  /\ UNCHANGED <<vaults, sessions>>

(* A DELETE that finds no row is only a warning.                           *)
DeleteDone(r) ==
  LET x == requests[r].secret IN
  /\ In(r, "delete", "loaded")
  /\ secrets' = [secrets EXCEPT ![x] = Deleted]
  /\ Commits("delete", x)
  /\ Ends(r)
  /\ UNCHANGED <<vaults, sessions>>

(* Mutant: the use is counted and not logged.                              *)
UseUnlogged(r) ==
  LET q == requests[r] IN
  /\ In(r, "use", "keyed")
  /\ Stored(q.secret)
  /\ secrets' = [secrets EXCEPT ![q.secret].uses = q.uses + 1]
  /\ Becomes(r, [q EXCEPT !.st = "served"])
  /\ UNCHANGED <<now, users, vaults, audit, sessions, history>>

(* decrypt_secret: the data key was wrapped with this one.                 *)
Opens(key, x) == secrets[x].key = key

(* mark_used writes the count loaded plus one.                             *)
MarkedUsed(x, uses) == [secrets EXCEPT ![x].uses = uses + 1]

(* get_secret_for_internal_use: the secret is decrypted, its use counted   *)
(* from the value loaded, logged and committed.                            *)
UseDone(r) ==
  LET q == requests[r] IN
  /\ In(r, "use", "keyed")
  /\ Stored(q.secret)
  /\ Opens(q.key, q.secret)
  /\ secrets' = MarkedUsed(q.secret, q.uses)
  /\ Commits("used", q.secret)
  /\ Becomes(r, [q EXCEPT !.st = "served"])
  /\ UNCHANGED <<vaults, sessions>>

(* The caller is done with the plaintext.                                  *)
Answered(r) ==
  /\ In(r, "use", "served")
  /\ Ends(r)
  /\ UNCHANGED <<now, tables, sessions, history>>

-----------------------------------------------------------------------------
(* A superuser deletes a user: the secrets and the vault it cascades to    *)
(* are loaded, then deleted with the user.                                 *)

UserDeleteLoads(r, u) ==
  /\ Starts(r, [Request("user delete", u, None, None) EXCEPT !.rows =
       {x \in Secrets : OwnedBy(x, u)} \union {v \in {u} : vaults[v] # None}])
  /\ UNCHANGED sessions

UserDeleted(r) ==
  LET q == requests[r] IN
  /\ In(r, "user delete", "loaded")
  /\ users' = users \ {q.user}
  /\ secrets' = [x \in Secrets |-> IF x \in q.rows THEN Deleted ELSE secrets[x]]
  /\ vaults' = [u \in Users |-> IF u \in q.rows THEN None ELSE vaults[u]]
  /\ Ends(r)
  /\ UNCHANGED <<now, audit, sessions, history>>

-----------------------------------------------------------------------------
Tick ==
  /\ now < MaxTime  \* bound
  /\ now' = now + 1
  /\ UNCHANGED <<tables, sessions, requests, history>>

Created == {s \in Sessions : sessions[s].st # "none"}

(* The server restarts.                                                    *)
Restart ==
  /\ requests' = [r \in Requests |-> Ended]
  /\ sessions' = [s \in Sessions |->
       IF s \in Created THEN [sessions[s] EXCEPT !.st = "gone"] ELSE sessions[s]]
  /\ closed' = closed \union Created
  /\ UNCHANGED <<now, tables, unlocked>>

Next ==
  \/ \E r \in Requests, u \in Users :
       \/ \E k \in Keys : SetupAsked(r, u, k)
       \/ UnlockAsked(r, u)
       \/ \E s \in Held : LockAsked(r, u, s)
       \/ \E s \in Held : CreateAsked(r, u, s)
       \/ \E op \in {"update", "delete", "use"}, x \in Secrets, rotate \in BOOLEAN,
             s \in Held \union {None}, to \in Aliases \union {None} :
               SecretLoaded(r, op, u, x, s, to, rotate)
       \/ UserDeleteLoads(r, u)
  \/ \E r \in Requests :
       \/ SetupDone(r)
       \/ \E s \in Sessions : SessionCreated(r, s)
       \/ UnlockDone(r)
       \/ LockDone(r)
       \/ \E x \in Secrets : CreateDone(r, x)
       \/ KeyTaken(r)
       \/ UpdateDone(r)
       \/ DeleteDone(r)
       \/ UseDone(r)
       \/ Answered(r)
       \/ UserDeleted(r)
       \/ Fails(r)
  \/ \E u \in Users, s \in Sessions : SessionLooked(u, s)
  \/ Tick
  \/ Restart

Spec == Init /\ [][Next]_vars

-----------------------------------------------------------------------------
(* Properties.                                                             *)

TypedTables ==
  /\ now \in 0 .. MaxTime
  /\ users \subseteq Users
  /\ vaults \in [Users -> Keys \union {None}]
  /\ secrets \in [Secrets -> SecretRows]
  /\ audit \in [Entries -> Nat]
  /\ sessions \in [Sessions -> SessionRecords]
  /\ unlocked \in [Sessions -> [user : Users \union {None}, at : 0 .. MaxTime]]
  /\ closed \subseteq Sessions

TypedRequest(q) ==
  /\ q \in RequestRecords
  /\ q.st # "idle" => q.user \in Users
  /\ q.st # "idle" /\ q.op = "lock" => q.session \in Sessions

(* The tables, the session store and the requests have their types; a      *)
(* request is of a user, and one that locks names a session.               *)
VaultTypeOK ==
  /\ TypedTables
  /\ requests \in [Requests -> RequestRecords]
  /\ \A r \in Requests : TypedRequest(requests[r])

(* A secret of an existing user can be decrypted with the key of that      *)
(* user's vault, and so can what its live sessions will encrypt: two       *)
(* set-ups at once never leave secrets of the one that lost (setup_vault,  *)
(* create_secret, update_secret).                                          *)
SecretsStayDecryptable ==
  \A u \in users :
    /\ \A x \in Secrets : OwnedBy(x, u) => vaults[u] # None /\ Opens(vaults[u], x)
    /\ \A s \in Sessions : sessions[s].st = "live" /\ sessions[s].user = u =>
         sessions[s].key = vaults[u]

(* Plaintext leaves get_secret_for_internal_use only for the owner, and a  *)
(* key is taken only from a session that this user unlocked less than the  *)
(* time to live ago and that was neither locked nor lost in a restart.     *)
PlaintextIsEarned ==
  \A r \in Requests :
    LET q == requests[r] IN
    q.op \in {"create", "update", "use"} /\ q.st \in {"keyed", "served"} =>
      /\ ~q.late
      /\ unlocked[q.session].user = q.user
      /\ q.st = "served" /\ Stored(q.secret) => secrets[q.secret].owner = q.user

(* mark_used and the audit entry are one transaction: the count of a       *)
(* secret, which two uses at once may both write, never says more uses     *)
(* than the audit log, every plaintext handed out is in the log, and so is *)
(* every session a client was given (unlock_vault).                        *)
AccessIsAudited ==
  /\ \A x \in Secrets :
       /\ secrets[x].uses <= Logged("used", x)
       /\ (\E r \in Requests : In(r, "use", "served") /\ requests[r].secret = x)
            => Logged("used", x) > 0
  /\ \A u \in Users :
       Cardinality({s \in Held : unlocked[s].user = u}) <= Logged("unlock", u)

(* A secret changes only in a transaction that logs the change, so that an *)
(* update that fails half-way leaves nothing of it; and a deleted secret   *)
(* stays deleted.  The cascade of a user's deletion is logged elsewhere.   *)
ChangesAreAudited ==
  [][\A x \in Secrets : secrets'[x] # secrets[x] =>
       /\ secrets[x].st # "deleted"
       /\ \/ \E op \in {"create", "update", "delete", "used"} :
               audit'[Entry(op, x)] = Logged(op, x) + 1
          \/ secrets[x].owner \notin users' /\ secrets'[x] = Deleted]_vars
=============================================================================
