----------------------------- MODULE VaultProofs -----------------------------
(***************************************************************************)
(* Proofs about Vault, for every set of users, secrets, vault sessions,    *)
(* keys and concurrent requests.  What a request read and holds may be old *)
(* when it commits; VaultInv says what stays true of it, for each kind of  *)
(* request (Sound), and Steady what no step takes back, so that a step of  *)
(* one request leaves the others sound.  What a step writes to a row and   *)
(* to a session is stated once, in RowWrites and SessionChanges.           *)
(***************************************************************************)
EXTENDS Vault, FiniteSetTheorems, TLAPS

-----------------------------------------------------------------------------
(* Types.                                                                  *)

LEMMA EndedTyped == Ended \in RequestRecords /\ Ended.st = "idle"
BY DEF Ended, Request, RequestRecords

TypedRequests ==
  /\ requests \in [Requests -> RequestRecords]
  /\ \A r \in Requests : TypedRequest(requests[r])

LEMMA RequestsTyped ==
  ASSUME VaultTypeOK, NEW r \in Requests, NEW q, TypedRequest(q), Becomes(r, q)
  PROVE  TypedRequests'
<1>1. q \in RequestRecords
  BY DEF TypedRequest
<1>2. requests' \in [Requests -> RequestRecords]
  BY <1>1 DEF VaultTypeOK, TypedTables, Becomes
<1>3. \A p \in Requests : requests'[p] = IF p = r THEN q ELSE requests[p]
  BY DEF VaultTypeOK, TypedTables, Becomes
<1>4. \A p \in Requests : TypedRequest(requests'[p])
  BY <1>3 DEF VaultTypeOK, TypedTables
<1>5. QED
  BY <1>2, <1>4 DEF TypedRequests

(* A request of a user for an operation.                                   *)
For(op, u, q) == q \in RequestRecords /\ q.op = op /\ q.user = u

LEMMA FieldsTyped ==
  ASSUME NEW op, NEW u, NEW q, For(op, u, q)
  PROVE  /\ \A k \in Keys \union {None} : For(op, u, [q EXCEPT !.key = k])
         /\ \A rows \in SUBSET (Secrets \union Users) : For(op, u, [q EXCEPT !.rows = rows])
         /\ \A to \in Aliases \union {None}, rotate \in BOOLEAN, n \in Nat :
              For(op, u, [q EXCEPT !.to = to, !.rotate = rotate, !.uses = n])
         /\ \A st \in {"locked", "served"} : For(op, u, [q EXCEPT !.st = st])
         /\ \A s \in Sessions : For(op, u, [q EXCEPT !.st = "open", !.session = s])
<1>1. ASSUME NEW k \in Keys \union {None} PROVE For(op, u, [q EXCEPT !.key = k])
  BY DEF For, RequestRecords
<1>2. ASSUME NEW rows \in SUBSET (Secrets \union Users)
      PROVE  For(op, u, [q EXCEPT !.rows = rows])
  BY DEF For, RequestRecords
<1>3. ASSUME NEW to \in Aliases \union {None}, NEW rotate \in BOOLEAN, NEW n \in Nat
      PROVE  For(op, u, [q EXCEPT !.to = to, !.rotate = rotate, !.uses = n])
  BY DEF For, RequestRecords
<1>4. ASSUME NEW st \in {"locked", "served"} PROVE For(op, u, [q EXCEPT !.st = st])
  BY DEF For, RequestRecords
<1>5. ASSUME NEW s \in Sessions PROVE For(op, u, [q EXCEPT !.st = "open", !.session = s])
  BY DEF For, RequestRecords
<1>6. QED
  BY <1>1, <1>2, <1>3, <1>4, <1>5

LEMMA ForTyped ==
  ASSUME NEW op, NEW u \in Users, NEW q, For(op, u, q), op = "lock" => q.session \in Sessions
  PROVE  TypedRequest(q)
BY DEF For, TypedRequest

LEMMA HeldTyped ==
  ASSUME NEW t \in SessionRecords
  PROVE  [t EXCEPT !.held = TRUE] \in SessionRecords
BY DEF SessionRecords

(* What a transaction commits beside the rows it writes.                   *)
LEMMA CommitsTyped ==
  ASSUME VaultTypeOK, NEW op, NEW target, Commits(op, target)
  PROVE  /\ audit' \in [Entries -> Nat]
         /\ UNCHANGED <<now, users, unlocked, closed>>
<1>1. [audit EXCEPT ![Entry(op, target)] = @ + 1] =
        [e \in Entries |-> IF e = Entry(op, target) THEN audit[e] + 1 ELSE audit[e]]
  BY DEF VaultTypeOK, TypedTables
<1>2. \A e \in Entries : audit[e] \in Nat /\ audit[e] + 1 \in Nat
  BY DEF VaultTypeOK, TypedTables
<1>3. QED
  BY <1>1, <1>2 DEF Commits, history

LEMMA GoneTyped ==
  ASSUME VaultTypeOK, NEW u \in Users, NEW s \in Sessions
  PROVE  Gone(u, s) \in [Sessions -> SessionRecords]
BY SMTT(30) DEF VaultTypeOK, TypedTables, Gone, SessionRecords

LEMMA KeyedTyped ==
  ASSUME VaultTypeOK, NEW op, NEW u, NEW q, For(op, u, q), q.session \in Sessions
  PROVE  For(op, u, Keyed(q))
<1>1. sessions[q.session].key \in Keys \union {None}
  BY DEF VaultTypeOK, TypedTables, SessionRecords
<1>2. SessionOver(q.user, q.session) \in BOOLEAN
  BY DEF SessionOver
<1>3. QED
  BY <1>1, <1>2 DEF Keyed, For, RequestRecords

LEMMA RequestTyped ==
  ASSUME NEW op \in {"setup", "unlock", "lock", "create", "update", "delete", "use",
                     "user delete"},
         NEW u \in Users, NEW s \in Sessions \union {None}, NEW x \in Secrets \union {None}
  PROVE  For(op, u, Request(op, u, s, x))
BY DEF For, Request, RequestRecords

(* The steps of the requests, by what they change.                         *)
Asking(r, u) ==
  \/ \E k \in Keys : SetupAsked(r, u, k)
  \/ UnlockAsked(r, u)
  \/ \E s \in Held : LockAsked(r, u, s)
  \/ \E s \in Held : CreateAsked(r, u, s)
  \/ \E op \in {"update", "delete", "use"}, x \in Secrets, rotate \in BOOLEAN,
        s \in Held \union {None}, to \in Aliases \union {None} :
          SecretLoaded(r, op, u, x, s, to, rotate)
  \/ UserDeleteLoads(r, u)

Unlocking(r) == (\E s \in Sessions : SessionCreated(r, s)) \/ UnlockDone(r) \/ LockDone(r)

Writing(r) ==
  \/ SetupDone(r)
  \/ \E x \in Secrets : CreateDone(r, x)
  \/ UpdateDone(r)
  \/ DeleteDone(r)
  \/ UseDone(r)
  \/ UserDeleted(r)

Otherwise(r) == KeyTaken(r) \/ Answered(r) \/ Fails(r)

LEMMA NextSteps ==
  ASSUME [Next]_vars
  PROVE  \/ \E r \in Requests, u \in Users : Asking(r, u)
         \/ \E r \in Requests : Unlocking(r) \/ Writing(r) \/ Otherwise(r)
         \/ \E u \in Users, s \in Sessions : SessionLooked(u, s)
         \/ Tick
         \/ Restart
         \/ UNCHANGED vars
BY DEF Next, Asking, Unlocking, Writing, Otherwise

(* A request begins with what it has read, or with the session it locks.   *)
LEMMA AskingTyped ==
  ASSUME VaultTypeOK, NEW r \in Requests, NEW u \in Users, Asking(r, u)
  PROVE  VaultTypeOK'
<1>1. Held \subseteq Sessions
  BY DEF Held
<1>2. ASSUME NEW op, NEW q, For(op, u, q), op # "lock", Starts(r, q), sessions' = sessions
      PROVE  VaultTypeOK'
  <2>1. TypedRequests'
    BY <1>2, ForTyped, RequestsTyped DEF Starts
  <2>2. QED
    BY <1>2, <2>1 DEF Starts, tables, history, TypedRequests, TypedTables, VaultTypeOK
<1>3. ASSUME NEW k \in Keys, SetupAsked(r, u, k) PROVE VaultTypeOK'
  <2>1. For("setup", u, [Request("setup", u, None, None) EXCEPT !.key = k])
    BY RequestTyped, FieldsTyped
  <2>2. QED
    BY <1>2, <1>3, <2>1 DEF SetupAsked
<1>4. CASE UnlockAsked(r, u)
  <2>1. vaults[u] \in Keys \union {None}
    BY DEF VaultTypeOK, TypedTables
  <2>2. For("unlock", u, [Request("unlock", u, None, None) EXCEPT !.key = vaults[u]])
    BY <2>1, RequestTyped, FieldsTyped
  <2>3. QED
    BY <1>2, <1>4, <2>2 DEF UnlockAsked
<1>5. ASSUME NEW s \in Sessions, LockAsked(r, u, s) PROVE VaultTypeOK'
  <2> DEFINE q == [Request("lock", u, s, None) EXCEPT !.st = "locked"]
  <2>1. For("lock", u, q)
    BY RequestTyped, FieldsTyped
  <2>2. q.session = s
    BY DEF Request
  <2>3. Becomes(r, q) /\ sessions' = Gone(u, s) /\ UNCHANGED <<now, tables, history>>
    BY <1>5 DEF LockAsked
  <2>4. TypedRequests'
    <3> HIDE DEF q
    <3>1. QED
      BY <2>1, <2>2, <2>3, ForTyped, RequestsTyped
  <2>5. QED
    BY <2>3, <2>4, GoneTyped DEF tables, history, TypedRequests, TypedTables, VaultTypeOK
<1>6. ASSUME NEW s \in Sessions, CreateAsked(r, u, s) PROVE VaultTypeOK'
  <2> DEFINE q == Request("create", u, s, None)
  <2>1. For("create", u, q)
    BY RequestTyped
  <2>2. q.session \in Sessions
    BY DEF Request
  <2>3. Starts(r, Keyed(q)) /\ sessions' = sessions
    BY <1>6 DEF CreateAsked
  <2> HIDE DEF q
  <2>4. For("create", u, Keyed(q))
    BY <2>1, <2>2, KeyedTyped
  <2>5. QED
    BY <1>2, <2>3, <2>4
<1>7. ASSUME NEW op \in {"update", "delete", "use"}, NEW x \in Secrets,
             NEW rotate \in BOOLEAN, NEW s \in Sessions \union {None},
             NEW to \in Aliases \union {None}, SecretLoaded(r, op, u, x, s, to, rotate)
      PROVE  VaultTypeOK'
  <2> DEFINE q == Request(op, u, s, x)
             p == [q EXCEPT !.to = to, !.rotate = rotate, !.uses = secrets[x].uses]
  <2>1. For(op, u, q)
    BY RequestTyped
  <2>2. secrets[x].uses \in Nat
    BY DEF VaultTypeOK, TypedTables, SecretRows
  <2>3. Starts(r, p) /\ sessions' = sessions
    BY <1>7 DEF SecretLoaded
  <2> HIDE DEF q
  <2>4. For(op, u, p)
    BY <2>1, <2>2, FieldsTyped
  <2> HIDE DEF p
  <2>5. QED
    BY <1>2, <2>3, <2>4
<1>8. CASE UserDeleteLoads(r, u)
  <2> DEFINE rows == {x \in Secrets : OwnedBy(x, u)} \union {v \in {u} : vaults[v] # None}
             q == [Request("user delete", u, None, None) EXCEPT !.rows = rows]
  <2>1. rows \in SUBSET (Secrets \union Users)
    OBVIOUS
  <2>2. Starts(r, q) /\ sessions' = sessions
    BY <1>8 DEF UserDeleteLoads
  <2> HIDE DEF rows
  <2>3. For("user delete", u, q)
    BY <2>1, RequestTyped, FieldsTyped
  <2> HIDE DEF q
  <2>4. QED
    BY <1>2, <2>2, <2>3
<1>9. QED
  BY <1>1, <1>3, <1>4, <1>5, <1>6, <1>7, <1>8 DEF Asking

(* Steps that end a request.                                               *)
LEMMA EndsTyped ==
  ASSUME VaultTypeOK, NEW r \in Requests, Ends(r)
  PROVE  TypedRequests'
BY EndedTyped, RequestsTyped DEF Ends, TypedRequest

LEMMA UnlockingTyped ==
  ASSUME VaultTypeOK, NEW r \in Requests, Unlocking(r)
  PROVE  VaultTypeOK'
<1> USE VaultAssumption
<1> DEFINE q == requests[r]
<1>1. q \in RequestRecords /\ (q.st # "idle" => q.user \in Users)
  BY DEF VaultTypeOK, TypedRequest
<1>2. ASSUME NEW s \in Sessions, SessionCreated(r, s) PROVE VaultTypeOK'
  <2>1. Becomes(r, [q EXCEPT !.st = "open", !.session = s]) /\ q.user \in Users
    BY <1>1, <1>2 DEF SessionCreated, In
  <2>2. Session("live", q.user, q.key, now + TTL) \in SessionRecords
    <3>1. q.user \in Users \union {None} /\ q.key \in Keys \union {None}
      BY <1>1 DEF RequestRecords
    <3>2. now + TTL \in 0 .. MaxTime + TTL
      BY DEF VaultTypeOK, TypedTables
    <3>3. QED
      BY <3>1, <3>2 DEF Session, SessionRecords
  <2>3. [user |-> q.user, at |-> now] \in [user : Users \union {None}, at : 0 .. MaxTime]
    BY <1>1 DEF RequestRecords, VaultTypeOK, TypedTables
  <2>4. TypedRequest([q EXCEPT !.st = "open", !.session = s])
    <3>1. For("unlock", q.user, q)
      BY <1>1, <1>2 DEF SessionCreated, In, For
    <3> HIDE DEF q
    <3>2. For("unlock", q.user, [q EXCEPT !.st = "open", !.session = s])
      BY <3>1, FieldsTyped
    <3>3. QED
      BY <2>1, <3>2, ForTyped
  <2>5. TypedRequests'
    BY <2>1, <2>4, RequestsTyped
  <2>6. QED
    BY <1>2, <2>2, <2>3, <2>5
       DEF SessionCreated, tables, TypedRequests, TypedTables, VaultTypeOK
<1>3. CASE UnlockDone(r)
  <2>1. sessions' \in [Sessions -> SessionRecords]
    <3>1. \A t \in Sessions : sessions[t] \in SessionRecords
                               /\ [sessions[t] EXCEPT !.held = TRUE] \in SessionRecords
      BY HeldTyped DEF VaultTypeOK, TypedTables
    <3>2. sessions' = [t \in Sessions |-> IF t = q.session
                         THEN [sessions[t] EXCEPT !.held = TRUE] ELSE sessions[t]]
      BY <1>3 DEF UnlockDone, VaultTypeOK, TypedTables
    <3>3. QED
      BY <3>1, <3>2
  <2>2. Ends(r) /\ Commits("unlock", q.user) /\ UNCHANGED <<vaults, secrets>>
    BY <1>3 DEF UnlockDone
  <2>3. QED
    BY <2>1, <2>2, EndsTyped, CommitsTyped DEF TypedRequests, TypedTables, VaultTypeOK
<1>4. CASE LockDone(r)
  <2>1. audit' \in [Entries -> Nat]
    <3> DEFINE e == Entry("lock", q.user)
    <3>1. \A d \in Entries : audit[d] \in Nat /\ audit[d] + 1 \in Nat
      BY DEF VaultTypeOK, TypedTables
    <3>2. audit' = [d \in Entries |-> IF d = e THEN audit[d] + 1 ELSE audit[d]]
      BY <1>4 DEF LockDone, VaultTypeOK, TypedTables
    <3>3. QED
      BY <3>1, <3>2
  <2>2. closed' \subseteq Sessions
    BY <1>4 DEF LockDone, In, VaultTypeOK, TypedTables, TypedRequest
  <2>3. QED
    BY <1>4, <2>1, <2>2, EndsTyped DEF LockDone, TypedRequests, TypedTables, VaultTypeOK
<1>5. QED
  BY <1>2, <1>3, <1>4 DEF Unlocking

(* The rows a transaction writes.                                          *)
LEMMA WritingTyped ==
  ASSUME VaultTypeOK, NEW r \in Requests, Writing(r)
  PROVE  VaultTypeOK'
<1> DEFINE q == requests[r]
<1>1. q \in RequestRecords /\ (q.st # "idle" => q.user \in Users)
  BY DEF VaultTypeOK, TypedRequest
<1>2. q.user \in Users \union {None} /\ q.key \in Keys \union {None} /\ q.uses \in Nat
  BY <1>1 DEF RequestRecords
<1>3. \A x \in Secrets : secrets[x] \in SecretRows
  BY DEF VaultTypeOK, TypedTables
<1>4. ASSUME Ends(r) \/ UseDone(r),
             (\E op, target : Commits(op, target)) \/ UserDeleted(r),
             vaults' \in [Users -> Keys \union {None}],
             secrets' \in [Secrets -> SecretRows], sessions' = sessions
      PROVE  VaultTypeOK'
  <2>1. TypedRequests'
    <3>1. CASE UseDone(r)
      <4>1. For("use", q.user, q) /\ q.st = "keyed"
        BY <1>1, <3>1 DEF UseDone, In, For
      <4>2. Becomes(r, [q EXCEPT !.st = "served"])
        BY <3>1 DEF UseDone
      <4> HIDE DEF q
      <4>3. For("use", q.user, [q EXCEPT !.st = "served"])
        BY <4>1, FieldsTyped
      <4>4. QED
        BY <1>1, <4>1, <4>2, <4>3, ForTyped, RequestsTyped
    <3>2. QED
      BY <1>4, <3>1, EndsTyped
  <2>2. /\ audit' \in [Entries -> Nat] /\ users' \subseteq users
        /\ UNCHANGED <<now, unlocked, closed>>
    <3>1. CASE UserDeleted(r)
      BY <3>1 DEF UserDeleted, history, VaultTypeOK, TypedTables
    <3>2. QED
      BY <1>4, <3>1, CommitsTyped
  <2>3. QED
    BY <1>4, <2>1, <2>2 DEF TypedRequests, TypedTables, VaultTypeOK
<1>5. CASE SetupDone(r)
  BY <1>2, <1>4, <1>5 DEF SetupDone, VaultTypeOK, TypedTables
<1>6. ASSUME NEW x \in Secrets, CreateDone(r, x) PROVE VaultTypeOK'
  <2>1. Secret("stored", q.user, q.key, "old", 0) \in SecretRows
    BY <1>2 DEF Secret, SecretRows, Aliases
  <2>2. QED
    BY <1>4, <1>6, <2>1 DEF CreateDone, VaultTypeOK, TypedTables
<1>7. CASE UpdateDone(r)
  <2> DEFINE x == q.secret
             key == IF q.st = "keyed" THEN q.key ELSE sessions[q.session].key
             row == IF q.rotate THEN [Renamed(x, q.to) EXCEPT !.key = key]
                                ELSE Renamed(x, q.to)
  <2>1. /\ secrets' = [secrets EXCEPT ![x] = row] /\ Commits("update", x) /\ Ends(r)
        /\ vaults' = vaults /\ sessions' = sessions
        /\ q.rotate /\ q.st # "keyed" => q.session \in Sessions
    BY <1>1, <1>7 DEF UpdateDone, HasKey, Usable, In, RequestRecords
  <2>2. x \in Secrets => row \in SecretRows
    <3>1. q.rotate => key \in Keys \union {None}
      BY <1>2, <2>1 DEF VaultTypeOK, TypedTables, SessionRecords
    <3>2. q.to \in Aliases \union {None}
      BY <1>1 DEF RequestRecords
    <3>3. x \in Secrets => Renamed(x, q.to) \in SecretRows
      BY <1>3, <3>2 DEF Renamed, SecretRows
    <3> HIDE DEF key
    <3>4. \A t \in SecretRows : \A k \in Keys \union {None} : [t EXCEPT !.key = k] \in SecretRows
      BY DEF SecretRows
    <3>5. QED
      BY <3>1, <3>3, <3>4
  <2>3. secrets' \in [Secrets -> SecretRows]
    BY <2>1, <2>2 DEF VaultTypeOK, TypedTables
  <2>4. QED
    BY <1>4, <2>1, <2>3 DEF VaultTypeOK, TypedTables
<1>8. CASE DeleteDone(r)
  <2>1. Deleted \in SecretRows
    BY DEF Deleted, Secret, SecretRows, Aliases
  <2>2. QED
    BY <1>4, <1>8, <2>1 DEF DeleteDone, VaultTypeOK, TypedTables
<1>9. CASE UseDone(r)
  <2>1. \A t \in SecretRows : [t EXCEPT !.uses = q.uses + 1] \in SecretRows
    BY <1>2 DEF SecretRows
  <2>2. secrets' = [x \in Secrets |-> IF x = q.secret
          THEN [secrets[x] EXCEPT !.uses = q.uses + 1] ELSE secrets[x]]
    BY <1>9 DEF UseDone, MarkedUsed, VaultTypeOK, TypedTables
  <2>3. secrets' \in [Secrets -> SecretRows]
    BY <1>3, <2>1, <2>2
  <2>4. QED
    BY <1>4, <1>9, <2>3 DEF UseDone, VaultTypeOK, TypedTables
<1>10. CASE UserDeleted(r)
  <2>1. Deleted \in SecretRows
    BY DEF Deleted, Secret, SecretRows, Aliases
  <2>2. /\ secrets' \in [Secrets -> SecretRows] /\ vaults' \in [Users -> Keys \union {None}]
        /\ Ends(r) /\ sessions' = sessions
    BY <1>3, <1>10, <2>1 DEF UserDeleted, VaultTypeOK, TypedTables
  <2>3. QED
    BY <1>4, <1>10, <2>2
<1>11. QED
  BY <1>5, <1>6, <1>7, <1>8, <1>9, <1>10 DEF Writing

LEMMA VaultTypeStep ==
  ASSUME VaultTypeOK, [Next]_vars
  PROVE  VaultTypeOK'
<1> USE VaultAssumption
<1>1. ASSUME NEW r \in Requests, Otherwise(r) PROVE VaultTypeOK'
  <2> DEFINE q == requests[r]
  <2>1. UNCHANGED <<now, tables, sessions, history>>
    BY <1>1 DEF Otherwise, KeyTaken, Answered, Fails
  <2>2. TypedRequests'
    <3>1. CASE KeyTaken(r)
      <4>1. /\ q \in RequestRecords /\ q.op # "lock" /\ q.user \in Users
            /\ q.session \in Sessions /\ Becomes(r, Keyed(q))
        BY <3>1 DEF KeyTaken, In, HasKey, Usable, VaultTypeOK, TypedRequest, RequestRecords
      <4> HIDE DEF q
      <4>2. For(q.op, q.user, q)
        BY <4>1 DEF For
      <4>3. For(q.op, q.user, Keyed(q))
        BY <4>1, <4>2, KeyedTyped
      <4>4. TypedRequest(Keyed(q))
        BY <4>1, <4>3, ForTyped
      <4>5. QED
        BY <4>1, <4>4, RequestsTyped
    <3>2. CASE Ends(r)
      BY <3>2, EndsTyped
    <3>3. QED
      BY <1>1, <3>1, <3>2 DEF Otherwise, Answered, Fails
  <2>3. QED
    BY <2>1, <2>2 DEF tables, history, TypedRequests, TypedTables, VaultTypeOK
<1>2. ASSUME NEW u \in Users, NEW s \in Sessions, SessionLooked(u, s) PROVE VaultTypeOK'
  BY <1>2, GoneTyped DEF SessionLooked, tables, history, TypedTables, VaultTypeOK
<1>3. CASE Tick
  BY <1>3 DEF Tick, tables, history, TypedTables, VaultTypeOK
<1>4. CASE Restart
  <2>1. \A s \in Sessions : [sessions[s] EXCEPT !.st = "gone"] \in SessionRecords
    <3>1. \A t \in SessionRecords : [t EXCEPT !.st = "gone"] \in SessionRecords
      BY DEF SessionRecords
    <3>2. QED
      BY <3>1 DEF TypedTables, VaultTypeOK
  <2>2. sessions' \in [Sessions -> SessionRecords]
    BY <1>4, <2>1 DEF Restart, TypedTables, VaultTypeOK
  <2>3. /\ requests' \in [Requests -> RequestRecords]
        /\ \A r \in Requests : TypedRequest(requests'[r])
    BY <1>4, EndedTyped DEF Restart, TypedRequest
  <2>4. closed' \subseteq Sessions
    BY <1>4 DEF Restart, Created, TypedTables, VaultTypeOK
  <2>5. QED
    BY <1>4, <2>2, <2>3, <2>4 DEF Restart, tables, TypedTables, VaultTypeOK
<1>5. CASE UNCHANGED vars
  BY <1>5 DEF vars, TypedTables, VaultTypeOK
<1>6. QED
  BY <1>1, <1>2, <1>3, <1>4, <1>5, NextSteps, AskingTyped, UnlockingTyped, WritingTyped

(* The tables, the session store, the requests and the histories keep      *)
(* their types, whatever requests interleave.                              *)
THEOREM VaultTypeCorrect == Spec => []VaultTypeOK
<1>1. Init => VaultTypeOK
  <2> SUFFICES ASSUME Init PROVE VaultTypeOK
    OBVIOUS
  <2>1. NoSecret \in SecretRows
    BY DEF NoSecret, Secret, SecretRows, Aliases
  <2>2. NoSession \in SessionRecords
    BY VaultAssumption DEF NoSession, Session, SessionRecords
  <2>3. [user |-> None, at |-> 0] \in [user : Users \union {None}, at : 0 .. MaxTime]
    BY VaultAssumption
  <2>4. TypedRequest(Ended)
    BY EndedTyped DEF TypedRequest
  <2>5. TypedTables
    BY <2>1, <2>2, <2>3, VaultAssumption DEF Init, TypedTables
  <2>6. QED
    BY <2>4, <2>5 DEF Init, VaultTypeOK, TypedRequest
<1>2. QED
  BY <1>1, VaultTypeStep, PTL DEF Spec

-----------------------------------------------------------------------------
(* The inductive invariant.                                                *)

(* The vault session store agrees with what the clients did.               *)
SessionsTrue ==
  \A s \in Sessions :
    LET t == sessions[s] IN
    /\ t.st = "none" => ~t.held /\ s \notin closed
    /\ t.st # "none" => unlocked[s].user = t.user
    /\ t.st = "live" => /\ s \notin closed
                        /\ t.expires = unlocked[s].at + TTL
                        /\ t.key # None

DeletedForGood == \A x \in Secrets : secrets[x].st = "deleted" => secrets[x] = Deleted

UnlockedBy(u) == {s \in Held : unlocked[s].user = u}

Logs ==
  /\ \A x \in Secrets : secrets[x].uses <= Logged("used", x)
  /\ \A u \in Users : /\ IsFiniteSet(UnlockedBy(u))
                       /\ Cardinality(UnlockedBy(u)) <= Logged("unlock", u)

(* A row that was read while it was the user's is of nobody else.          *)
Known(x, u) == secrets[x].st # "none" /\ (Stored(x) => secrets[x].owner = u)

(* Requests that hold a user key.                                          *)
HasTaken(q) == q.op \in {"create", "update", "use"} /\ q.st \in {"keyed", "served"}

(* A key is the one of the user's vault as long as the user exists.        *)
KeyFits(q) ==
  q.op = "unlock" \/ HasTaken(q) =>
    /\ q.key # None
    /\ q.user \in users => q.key = vaults[q.user]

(* A session a request has created, taken a key from, or locked.           *)
SessionFits(q) ==
  /\ (q.op = "unlock" /\ q.st = "open") \/ HasTaken(q) =>
       /\ q.session \in Sessions
       /\ sessions[q.session].st # "none"
       /\ unlocked[q.session].user = q.user
  /\ HasTaken(q) => ~q.late
  /\ q.op = "lock" =>
       /\ q.session \in Sessions
       /\ sessions[q.session].st # "none"
       /\ unlocked[q.session].user = q.user => sessions[q.session].st = "gone"

(* The rows a request has loaded, and the count it will write.             *)
RowsFit(q) ==
  /\ q.op \in {"update", "delete", "use"} => q.secret \in Secrets /\ Known(q.secret, q.user)
  /\ q.op = "use" => /\ q.uses <= Logged("used", q.secret)
                     /\ q.st = "served" => Logged("used", q.secret) > 0
  /\ q.op = "user delete" => /\ q.rows \subseteq Secrets \union {q.user}
                             /\ \A x \in Secrets : x \in q.rows => Known(x, q.user)
  /\ q.st = "served" => q.op = "use"

Sound(q) == KeyFits(q) /\ SessionFits(q) /\ RowsFit(q)

VaultInv ==
  /\ SecretsStayDecryptable
  /\ SessionsTrue
  /\ DeletedForGood
  /\ Logs
  /\ \A r \in Requests : Sound(requests[r])

(* What no step takes back.                                                *)
Steady ==
  /\ users' \subseteq users
  /\ \A u \in users' : vaults[u] # None => vaults'[u] = vaults[u]
  /\ \A x \in Secrets : secrets[x].st # "none" =>
       /\ secrets'[x].st # "none"
       /\ secrets'[x].st = "stored" =>
            secrets[x].st = "stored" /\ secrets'[x].owner = secrets[x].owner
  /\ \A e \in Entries : audit[e] <= audit'[e]
  /\ \A s \in Sessions : sessions[s].st # "none" =>
       /\ sessions'[s].st # "none"
       /\ unlocked'[s] = unlocked[s]
       /\ sessions[s].st = "gone" => sessions'[s].st = "gone"

LEMMA CommitsSteady ==
  ASSUME VaultTypeOK, NEW op, NEW target, Commits(op, target)
  PROVE  /\ users' = users /\ unlocked' = unlocked
         /\ \A e \in Entries : audit[e] <= audit'[e]
         /\ Entry(op, target) \in Entries => Logged(op, target)' = Logged(op, target) + 1
<1>1. \A e \in Entries : audit[e] \in Nat
  BY DEF VaultTypeOK, TypedTables
<1>2. \A e \in Entries :
        audit'[e] = IF e = Entry(op, target) THEN audit[e] + 1 ELSE audit[e]
  BY DEF Commits, VaultTypeOK, TypedTables
<1>3. \A e \in Entries : audit[e] <= audit'[e]
  BY <1>1, <1>2
<1>4. Entry(op, target) \in Entries => Logged(op, target)' = Logged(op, target) + 1
  BY <1>2 DEF Logged
<1>5. QED
  BY <1>3, <1>4 DEF Commits, history

(* What a step does to a session that it does not create.                  *)
SessionKept(s) ==
  /\ unlocked'[s] = unlocked[s]
  /\ sessions'[s].user = sessions[s].user
  /\ sessions'[s].key = sessions[s].key
  /\ sessions'[s].expires = sessions[s].expires
  /\ \/ sessions'[s].st = sessions[s].st
     \/ sessions[s].st # "none" /\ sessions'[s].st = "gone"
  /\ sessions'[s].held =>
       sessions[s].held \/ \E r \in Requests : UnlockDone(r) /\ s = requests[r].session

LEMMA GoneKept ==
  ASSUME VaultTypeOK, NEW u, NEW t \in Sessions, sessions' = Gone(u, t),
         unlocked' = unlocked, sessions[t].st # "none", NEW s \in Sessions
  PROVE  SessionKept(s)
BY DEF SessionKept, Gone, VaultTypeOK, TypedTables, SessionRecords

LEMMA SessionChanges ==
  ASSUME VaultTypeOK, VaultInv, [Next]_vars, NEW s \in Sessions
  PROVE  SessionKept(s) \/ \E r \in Requests : SessionCreated(r, s)
<1>1. ASSUME sessions' = sessions, unlocked' = unlocked PROVE SessionKept(s)
  BY <1>1 DEF SessionKept
<1>2. ASSUME NEW r \in Requests, NEW u \in Users, Asking(r, u) PROVE SessionKept(s)
  <2>1. ASSUME NEW t \in Held, LockAsked(r, u, t) PROVE SessionKept(s)
    <3>1. t \in Sessions /\ sessions[t].st # "none"
      BY DEF Held, VaultInv, SessionsTrue
    <3>2. QED
      BY <2>1, <3>1, GoneKept DEF LockAsked, history
  <2>2. QED
    BY <1>1, <1>2, <2>1, ZenonT(30)
       DEF Asking, SetupAsked, UnlockAsked, CreateAsked, SecretLoaded, UserDeleteLoads,
           Starts, history
<1>3. ASSUME NEW r \in Requests, Unlocking(r)
      PROVE  SessionKept(s) \/ SessionCreated(r, s)
  <2>1. ASSUME NEW t \in Sessions, SessionCreated(r, t), t # s PROVE SessionKept(s)
    BY <2>1 DEF SessionCreated, SessionKept, VaultTypeOK, TypedTables
  <2>2. CASE UnlockDone(r)
    <3>1. unlocked' = unlocked
      BY <2>2, CommitsSteady DEF UnlockDone
    <3>2. sessions'[s] = IF s = requests[r].session THEN [sessions[s] EXCEPT !.held = TRUE]
                                                    ELSE sessions[s]
      BY <2>2 DEF UnlockDone, VaultTypeOK, TypedTables
    <3>3. sessions[s] \in SessionRecords
      BY DEF VaultTypeOK, TypedTables
    <3>4. CASE s = requests[r].session
      BY <2>2, <3>1, <3>2, <3>3, <3>4 DEF SessionKept, SessionRecords
    <3>5. CASE s # requests[r].session
      BY <3>1, <3>2, <3>5 DEF SessionKept
    <3>6. QED
      BY <3>4, <3>5
  <2>3. CASE LockDone(r)
    BY <1>1, <2>3 DEF LockDone
  <2>4. QED
    BY <1>3, <2>1, <2>2, <2>3 DEF Unlocking
<1>4. ASSUME NEW r \in Requests, Writing(r) \/ Otherwise(r) PROVE SessionKept(s)
  BY <1>1, <1>4
     DEF Writing, Otherwise, SetupDone, CreateDone, UpdateDone, DeleteDone, UseDone,
         UserDeleted, KeyTaken, Answered, Fails, Commits, history
<1>5. ASSUME NEW u \in Users, NEW t \in Sessions, SessionLooked(u, t) PROVE SessionKept(s)
  BY <1>5, GoneKept DEF SessionLooked, history
<1>6. CASE Restart
  BY <1>6 DEF Restart, Created, SessionKept, VaultTypeOK, TypedTables, SessionRecords
<1>7. CASE Tick \/ UNCHANGED vars
  BY <1>1, <1>7 DEF Tick, vars, history
<1>8. QED
  BY <1>2, <1>3, <1>4, <1>5, <1>6, <1>7, NextSteps

LEMMA SessionsSteady ==
  ASSUME VaultTypeOK, VaultInv, [Next]_vars, NEW s \in Sessions, sessions[s].st # "none"
  PROVE  /\ sessions'[s].st # "none"
         /\ unlocked'[s] = unlocked[s]
         /\ sessions[s].st = "gone" => sessions'[s].st = "gone"
<1>1. \A r \in Requests : ~SessionCreated(r, s)
  BY DEF SessionCreated, NoSession, Session
<1>2. SessionKept(s)
  BY <1>1, SessionChanges
<1>3. QED
  BY <1>2 DEF SessionKept

(* The key an update encrypts with.                                        *)
NewKey(q) == IF q.st = "keyed" THEN q.key ELSE sessions[q.session].key

(* What a step writes to a row, and which request wrote it.                *)
Removed(r, x) ==
  /\ secrets'[x] = Deleted
  /\ \/ DeleteDone(r) /\ x = requests[r].secret
     \/ UserDeleted(r) /\ x \in requests[r].rows
Made(r, x) ==
  /\ CreateDone(r, x)
  /\ secrets[x] = NoSecret
  /\ secrets'[x] = Secret("stored", requests[r].user, requests[r].key, "old", 0)
Rewritten(r, x) ==
  /\ x = requests[r].secret
  /\ Stored(x)
  /\ secrets'[x].st = "stored"
  /\ secrets'[x].owner = secrets[x].owner
Updated(r, x) ==
  /\ UpdateDone(r)
  /\ Rewritten(r, x)
  /\ secrets'[x].uses = secrets[x].uses
  /\ secrets'[x].key = IF requests[r].rotate THEN NewKey(requests[r]) ELSE secrets[x].key
Used(r, x) ==
  /\ UseDone(r)
  /\ Rewritten(r, x)
  /\ secrets'[x].uses = requests[r].uses + 1
  /\ secrets'[x].key = secrets[x].key

LEMMA RowWrites ==
  ASSUME VaultTypeOK, VaultInv, [Next]_vars, NEW x \in Secrets
  PROVE  \/ secrets'[x] = secrets[x]
         \/ \E r \in Requests : Removed(r, x) \/ Made(r, x) \/ Updated(r, x) \/ Used(r, x)
<1> DEFINE Same == secrets'[x] = secrets[x]
<1>1. secrets \in [Secrets -> SecretRows] /\ secrets[x] \in SecretRows
  BY DEF VaultTypeOK, TypedTables
<1>2. ASSUME NEW r \in Requests, Writing(r)
      PROVE  Same \/ Removed(r, x) \/ Made(r, x) \/ Updated(r, x) \/ Used(r, x)
  <2> DEFINE q == requests[r]
  <2>1. CASE SetupDone(r)
    BY <2>1 DEF SetupDone
  <2>2. ASSUME NEW y \in Secrets, CreateDone(r, y) PROVE Same \/ Made(r, x)
    BY <1>1, <2>2 DEF CreateDone, Made
  <2>3. CASE UpdateDone(r)
    <3> DEFINE row == IF q.rotate THEN [Renamed(q.secret, q.to) EXCEPT !.key = NewKey(q)]
                                  ELSE Renamed(q.secret, q.to)
    <3>1. secrets' = [secrets EXCEPT ![q.secret] = row]
      BY <2>3 DEF UpdateDone, NewKey
    <3>2. CASE x # q.secret
      BY <1>1, <3>1, <3>2
    <3>3. CASE x = q.secret /\ ~q.rotate /\ q.to = None
      BY <1>1, <3>1, <3>3 DEF Renamed
    <3>4. CASE x = q.secret /\ (q.rotate \/ q.to # None)
      <4> DEFINE old == Renamed(x, q.to)
      <4>1. Stored(x) /\ secrets'[x] = row
        BY <1>1, <2>3, <3>1, <3>4 DEF UpdateDone
      <4>2. /\ old.st = secrets[x].st /\ old.owner = secrets[x].owner
            /\ old.key = secrets[x].key /\ old.uses = secrets[x].uses
            /\ DOMAIN old = {"st", "owner", "key", "alias", "uses"}
        BY <1>1 DEF Renamed, SecretRows
      <4>3. /\ row.st = old.st /\ row.owner = old.owner /\ row.uses = old.uses
            /\ row.key = IF q.rotate THEN NewKey(q) ELSE old.key
        <5> HIDE DEF old
        <5>1. row = IF q.rotate THEN [old EXCEPT !.key = NewKey(q)] ELSE old
          BY <3>4 DEF old
        <5>2. QED
          BY <4>2, <5>1
      <4>4. QED
        BY <2>3, <3>4, <4>1, <4>2, <4>3 DEF Updated, Rewritten, Stored
    <3>5. QED
      BY <3>2, <3>3, <3>4
  <2>4. CASE DeleteDone(r)
    BY <1>1, <2>4 DEF DeleteDone, Removed
  <2>5. CASE UseDone(r)
    BY <1>1, <2>5 DEF UseDone, MarkedUsed, Stored, SecretRows, Used, Rewritten
  <2>6. CASE UserDeleted(r)
    BY <2>6 DEF UserDeleted, Removed
  <2>7. QED
    BY <1>2, <2>1, <2>2, <2>3, <2>4, <2>5, <2>6 DEF Writing
<1>3. ASSUME NEW r \in Requests, NEW u \in Users, Asking(r, u) PROVE secrets' = secrets
  BY <1>3 DEF Asking, SetupAsked, UnlockAsked, LockAsked, CreateAsked, SecretLoaded,
              UserDeleteLoads, Starts, tables
<1>4. ASSUME NEW r \in Requests, Unlocking(r) \/ Otherwise(r) PROVE secrets' = secrets
  BY <1>4 DEF Unlocking, Otherwise, SessionCreated, UnlockDone, LockDone, KeyTaken, Answered,
              Fails, tables
<1>5. (\E u \in Users, s \in Sessions : SessionLooked(u, s)) \/ Tick \/ Restart
        \/ UNCHANGED vars => secrets' = secrets
  BY DEF SessionLooked, Tick, Restart, vars, tables
<1>6. QED
  BY <1>2, <1>3, <1>4, <1>5, NextSteps

LEMMA RowsSteady ==
  ASSUME VaultTypeOK, VaultInv, [Next]_vars, NEW x \in Secrets, secrets[x].st # "none"
  PROVE  /\ secrets'[x].st # "none"
         /\ secrets'[x].st = "stored" =>
              secrets[x].st = "stored" /\ secrets'[x].owner = secrets[x].owner
<1>1. ASSUME NEW r \in Requests PROVE ~Made(r, x)
  BY DEF Made, NoSecret, Secret
<1>2. ASSUME NEW r \in Requests, Removed(r, x) PROVE secrets'[x].st = "deleted"
  BY <1>2 DEF Removed, Deleted, Secret
<1>3. ASSUME NEW r \in Requests, Updated(r, x) \/ Used(r, x)
      PROVE  /\ secrets[x].st = "stored" /\ secrets'[x].st = "stored"
             /\ secrets'[x].owner = secrets[x].owner
  BY <1>3 DEF Updated, Used, Rewritten, Stored
<1>4. QED
  BY <1>1, <1>2, <1>3, RowWrites

LEMMA SteadyStep ==
  ASSUME VaultTypeOK, VaultInv, [Next]_vars
  PROVE  Steady
<1> DEFINE Keeps == users' \subseteq users
                    /\ \A u \in users' : vaults[u] # None => vaults'[u] = vaults[u]
           Grows == \A e \in Entries : audit[e] <= audit'[e]
<1>1. \A e \in Entries : audit[e] \in Nat
  BY DEF VaultTypeOK, TypedTables
<1>2. ASSUME audit' = audit PROVE Grows
  BY <1>1, <1>2
<1>3. ASSUME NEW r \in Requests, Writing(r) PROVE Keeps /\ Grows
  <2> USE DEF VaultTypeOK, TypedTables
  <2>1. ASSUME NEW op, NEW target, Commits(op, target) PROVE Grows /\ users' = users
    BY <2>1, CommitsSteady
  <2>2. CASE UserDeleted(r)
    <3> DEFINE q == requests[r]
    <3>1. q.rows \subseteq Secrets \union {q.user} /\ q.user \in Users
      BY <2>2 DEF UserDeleted, In, VaultInv, Sound, RowsFit, TypedRequest
    <3>2. Keeps
      BY <2>2, <3>1, VaultAssumption DEF UserDeleted
    <3>3. QED
      BY <1>2, <2>2, <3>2 DEF UserDeleted
  <2>3. CASE SetupDone(r)
    BY <2>1, <2>3 DEF SetupDone
  <2>4. CASE ~UserDeleted(r) /\ ~SetupDone(r)
    BY <1>3, <2>1, <2>4 DEF Writing, CreateDone, UpdateDone, DeleteDone, UseDone
  <2>5. QED
    BY <2>2, <2>3, <2>4
<1>4. ASSUME NEW r \in Requests, Unlocking(r) PROVE Keeps /\ Grows
  <2>1. vaults' = vaults /\ users' = users
    BY <1>4 DEF Unlocking, SessionCreated, UnlockDone, LockDone, Commits, tables
  <2>2. CASE LockDone(r)
    <3>1. \A e \in Entries :
            audit'[e] = IF e = Entry("lock", requests[r].user) THEN audit[e] + 1 ELSE audit[e]
      BY <2>2 DEF LockDone, VaultTypeOK, TypedTables
    <3>2. QED
      BY <1>1, <2>1, <3>1
  <2>3. CASE UnlockDone(r)
    BY <2>1, <2>3, CommitsSteady DEF UnlockDone
  <2>4. ASSUME NEW s \in Sessions, SessionCreated(r, s) PROVE Keeps /\ Grows
    BY <1>2, <2>1, <2>4 DEF SessionCreated, tables
  <2>5. QED
    BY <1>4, <2>2, <2>3, <2>4 DEF Unlocking
<1>5. ASSUME UNCHANGED tables PROVE Keeps /\ Grows
  BY <1>2, <1>5 DEF tables
<1>6. ASSUME NEW r \in Requests, NEW u \in Users, Asking(r, u) PROVE UNCHANGED tables
  BY <1>6 DEF Asking, SetupAsked, UnlockAsked, LockAsked, CreateAsked, SecretLoaded,
              UserDeleteLoads, Starts
<1>7. ASSUME NEW r \in Requests, Otherwise(r) PROVE UNCHANGED tables
  BY <1>7 DEF Otherwise, KeyTaken, Answered, Fails
<1>8. (\E u \in Users, s \in Sessions : SessionLooked(u, s)) \/ Tick \/ Restart \/ UNCHANGED vars
        => UNCHANGED tables
  BY DEF SessionLooked, Tick, Restart, vars, tables
<1>9. Keeps /\ Grows
  <2> HIDE DEF Keeps, Grows
  <2>1. QED
    BY <1>3, <1>4, <1>5, <1>6, <1>7, <1>8, NextSteps
<1>10. QED
  BY <1>9, SessionsSteady, RowsSteady DEF Steady

(* What was true of a request stays true of it.                            *)
LEMMA SoundStays ==
  ASSUME VaultTypeOK, VaultTypeOK', Steady, NEW q \in RequestRecords, Sound(q)
  PROVE  Sound(q)'
<1>1. ASSUME NEW x \in Secrets, NEW u, Known(x, u) PROVE Known(x, u)'
  BY <1>1 DEF Known, Steady, Stored
<1>2. \A x \in Secrets : /\ Logged("used", x) \in Nat /\ Logged("used", x)' \in Nat
                         /\ Logged("used", x) <= Logged("used", x)'
  <2>1. \A x \in Secrets : Entry("used", x) \in Entries
    BY DEF Entry, Entries
  <2>2. QED
    BY <2>1 DEF Steady, Logged, VaultTypeOK, TypedTables
<1>3. KeyFits(q)'
  BY DEF Sound, KeyFits, Steady
<1>4. SessionFits(q)'
  BY DEF Sound, SessionFits, Steady
<1>5. RowsFit(q)'
  <2>1. q.uses \in Nat
    BY DEF RequestRecords
  <2>2. q.op \in {"update", "delete", "use"} => q.secret \in Secrets /\ Known(q.secret, q.user)'
    BY <1>1 DEF Sound, RowsFit
  <2>3. q.op = "use" => /\ q.uses <= Logged("used", q.secret)'
                        /\ q.st = "served" => Logged("used", q.secret)' > 0
    <3>1. SUFFICES ASSUME q.op = "use"
          PROVE  q.uses <= Logged("used", q.secret)'
                 /\ (q.st = "served" => Logged("used", q.secret)' > 0)
      OBVIOUS
    <3>2. q.secret \in Secrets /\ q.uses <= Logged("used", q.secret)
          /\ (q.st = "served" => Logged("used", q.secret) > 0)
      BY <3>1 DEF Sound, RowsFit
    <3>3. PICK m \in Nat, n \in Nat : m = Logged("used", q.secret) /\ n = Logged("used", q.secret)'
                                      /\ m <= n
      BY <1>2, <3>2
    <3>4. q.uses <= n /\ (q.st = "served" => n > 0)
      BY <2>1, <3>2, <3>3
    <3>5. QED
      BY <3>3, <3>4
  <2>4. q.op = "user delete" => /\ q.rows \subseteq Secrets \union {q.user}
                                /\ \A x \in Secrets : x \in q.rows => Known(x, q.user)'
    BY <1>1 DEF Sound, RowsFit
  <2>5. q.st = "served" => q.op = "use"
    BY DEF Sound, RowsFit
  <2>6. QED
    BY <2>2, <2>3, <2>4, <2>5 DEF RowsFit
<1>6. QED
  BY <1>3, <1>4, <1>5 DEF Sound

SoundRequests == \A r \in Requests : Sound(requests[r])

LEMMA SoundBecomes ==
  ASSUME VaultTypeOK, VaultTypeOK', VaultInv, Steady, NEW r \in Requests, NEW q, Becomes(r, q), Sound(q)'
  PROVE  SoundRequests'
<1> SUFFICES ASSUME NEW p \in Requests PROVE Sound(requests[p])'
  BY DEF SoundRequests
<1>1. PICK v : v = requests'[p]
  OBVIOUS
<1>2. Sound(v)'
  <2>1. CASE p = r
    BY <1>1, <2>1 DEF Becomes, VaultTypeOK
  <2>2. CASE p # r
    <3>1. v = requests[p]
      BY <1>1, <2>2 DEF Becomes, VaultTypeOK
    <3>2. v \in RequestRecords /\ Sound(v)
      BY <3>1 DEF VaultTypeOK, VaultInv
    <3>3. QED
      BY <3>2, SoundStays
  <2>3. QED
    BY <2>1, <2>2
<1>3. QED
  BY <1>1, <1>2 DEF Sound, KeyFits, SessionFits, RowsFit, Known, Stored, Logged, HasTaken, Entry

LEMMA SoundSame ==
  ASSUME VaultTypeOK, VaultTypeOK', VaultInv, Steady, requests' = requests
  PROVE  SoundRequests'
<1> SUFFICES ASSUME NEW p \in Requests PROVE Sound(requests[p])'
  BY DEF SoundRequests
<1>1. PICK v : v = requests[p]
  OBVIOUS
<1>2. Sound(v)'
  BY <1>1, SoundStays DEF VaultTypeOK, VaultInv
<1>3. QED
  BY <1>1, <1>2 DEF Sound, KeyFits, SessionFits, RowsFit, Known, Stored, Logged, HasTaken, Entry

LEMMA EndedSound == Sound(Ended)
BY DEF Ended, Request, Sound, KeyFits, SessionFits, RowsFit, HasTaken

LEMMA SoundAsks ==
  ASSUME VaultTypeOK, VaultTypeOK', VaultInv, Steady, NEW r \in Requests,
         NEW q \in RequestRecords, Becomes(r, q), Sound(q)
  PROVE  SoundRequests'
BY SoundStays, SoundBecomes

(* A key taken from a session that may be used.                            *)
LEMMA KeyedSound ==
  ASSUME VaultTypeOK, VaultInv, NEW q \in RequestRecords, q.session \in Sessions,
         HasKey(q.user, q.session), RowsFit(q),
         q.op \in {"create", "update", "use"}
  PROVE  Sound(Keyed(q))
<1> DEFINE k == Keyed(q)
           t == sessions[q.session]
<1>1. /\ k.st = "keyed" /\ k.op = q.op /\ k.user = q.user /\ k.session = q.session
      /\ k.secret = q.secret /\ k.uses = q.uses /\ k.rows = q.rows
      /\ k.key = t.key /\ k.late = SessionOver(q.user, q.session)
  BY DEF Keyed, RequestRecords
<1>2. /\ t.st = "live" /\ t.user = q.user /\ now < t.expires
      /\ vaults[q.user] # None
  BY DEF HasKey, Usable
<1>3. q.user \in users => t.key = vaults[q.user]
  BY <1>2 DEF VaultInv, SecretsStayDecryptable
<1>4. unlocked[q.session].user = q.user /\ q.session \notin closed
      /\ t.expires = unlocked[q.session].at + TTL /\ t.key # None
  BY <1>2 DEF VaultInv, SessionsTrue
<1>5. ~SessionOver(q.user, q.session)
  <2>1. unlocked[q.session].at \in 0 .. MaxTime /\ now \in 0 .. MaxTime
    BY DEF VaultTypeOK, TypedTables
  <2>2. QED
    BY <1>2, <1>4, <2>1, VaultAssumption DEF SessionOver
<1> HIDE DEF k
<1>6. KeyFits(k)
  BY <1>1, <1>3, <1>4 DEF KeyFits
<1>7. SessionFits(k)
  BY <1>1, <1>2, <1>4, <1>5 DEF SessionFits
<1>8. RowsFit(k)
  BY <1>1 DEF RowsFit
<1>9. QED
  BY <1>6, <1>7, <1>8 DEF Sound, k

LEMMA AskingSound ==
  ASSUME VaultTypeOK, VaultTypeOK', VaultInv, Steady, NEW r \in Requests, NEW u \in Users,
         Asking(r, u)
  PROVE  SoundRequests'
<1>1. \A s \in Held : s \in Sessions /\ sessions[s].st # "none"
  BY DEF Held, VaultInv, SessionsTrue
<1>2. ASSUME NEW op, NEW q, For(op, u, q), Starts(r, q), Sound(q) PROVE SoundRequests'
  BY <1>2, SoundAsks DEF Starts, For
<1>3. ASSUME NEW k \in Keys, SetupAsked(r, u, k) PROVE SoundRequests'
  <2> DEFINE q == [Request("setup", u, None, None) EXCEPT !.key = k]
  <2>1. For("setup", u, q) /\ q.st = "loaded"
    <3>1. For("setup", u, q)
      BY RequestTyped, FieldsTyped
    <3>2. QED
      BY <3>1 DEF Request
  <2>2. Sound(q)
    <3> HIDE DEF q
    <3>1. QED
      BY <2>1 DEF For, Sound, KeyFits, SessionFits, RowsFit, HasTaken
  <2>3. QED
    BY <1>2, <1>3, <2>1, <2>2 DEF SetupAsked
<1>4. CASE UnlockAsked(r, u)
  <2> DEFINE q == [Request("unlock", u, None, None) EXCEPT !.key = vaults[u]]
  <2>1. vaults[u] \in Keys \union {None} /\ vaults[u] # None
    BY <1>4 DEF UnlockAsked, VaultTypeOK, TypedTables
  <2>2. For("unlock", u, q) /\ q.key = vaults[u] /\ q.st = "loaded"
    <3>1. For("unlock", u, q)
      BY <2>1, RequestTyped, FieldsTyped
    <3>2. QED
      BY <3>1 DEF Request
  <2>3. Sound(q)
    <3> HIDE DEF q
    <3>1. QED
      BY <2>1, <2>2 DEF For, Sound, KeyFits, SessionFits, RowsFit, HasTaken
  <2>4. QED
    BY <1>2, <1>4, <2>2, <2>3 DEF UnlockAsked
<1>5. ASSUME NEW s \in Held, LockAsked(r, u, s) PROVE SoundRequests'
  <2> DEFINE q == [Request("lock", u, s, None) EXCEPT !.st = "locked"]
  <2>1. q.op = "lock" /\ q.user = u /\ q.session = s /\ q.st = "locked"
    BY DEF Request
  <2>2. Becomes(r, q)
    BY <1>5 DEF LockAsked
  <2> HIDE DEF q
  <2>3. s \in Sessions /\ sessions[s].st # "none" /\ unlocked[s].user = sessions[s].user
    BY <1>1 DEF VaultInv, SessionsTrue
  <2>4. /\ sessions'[s].st # "none" /\ unlocked' = unlocked
        /\ unlocked[s].user = u => sessions'[s].st = "gone"
    BY <1>5, <2>3 DEF LockAsked, Gone, history, VaultTypeOK, TypedTables, SessionRecords
  <2>5. Sound(q)'
    BY <2>1, <2>3, <2>4 DEF Sound, KeyFits, SessionFits, RowsFit, HasTaken
  <2>6. QED
    BY <2>2, <2>5, SoundBecomes
<1>6. ASSUME NEW s \in Held, CreateAsked(r, u, s) PROVE SoundRequests'
  <2> DEFINE q == Request("create", u, s, None)
  <2>1. For("create", u, q) /\ q.session = s /\ s \in Sessions /\ q.st = "loaded"
    <3>1. s \in Sessions
      BY <1>1
    <3>2. For("create", u, q)
      BY <3>1, RequestTyped
    <3>3. QED
      BY <3>1, <3>2 DEF Request
  <2>2. HasKey(u, s) /\ Starts(r, Keyed(q)) /\ u \in users
    BY <1>6, <2>1 DEF CreateAsked, Starts, Keyed, Request
  <2> HIDE DEF q
  <2>3. RowsFit(q)
    BY <2>1 DEF RowsFit, For
  <2>4. Sound(Keyed(q))
    BY <2>1, <2>2, <2>3, KeyedSound DEF For
  <2>5. For("create", u, Keyed(q))
    BY <2>1, KeyedTyped
  <2>6. QED
    BY <1>2, <2>2, <2>4, <2>5
<1>7. ASSUME NEW op \in {"update", "delete", "use"}, NEW x \in Secrets,
             NEW rotate \in BOOLEAN, NEW s \in Sessions \union {None},
             NEW to \in Aliases \union {None}, SecretLoaded(r, op, u, x, s, to, rotate)
      PROVE  SoundRequests'
  <2> DEFINE q == Request(op, u, s, x)
             p == [q EXCEPT !.to = to, !.rotate = rotate, !.uses = secrets[x].uses]
  <2>1. For(op, u, q)
    BY RequestTyped
  <2>2. secrets[x].uses \in Nat /\ secrets[x].uses <= Logged("used", x)
    BY DEF VaultTypeOK, TypedTables, SecretRows, VaultInv, Logs
  <2>3. Starts(r, p) /\ OwnedBy(x, u)
    BY <1>7 DEF SecretLoaded
  <2>4. p.st = "loaded" /\ p.secret = x /\ p.uses = secrets[x].uses
    BY DEF Request
  <2> HIDE DEF q
  <2>5. For(op, u, p)
    BY <2>1, <2>2, FieldsTyped
  <2> HIDE DEF p
  <2>6. Sound(p)
    BY <2>2, <2>3, <2>4, <2>5 DEF For, Sound, KeyFits, SessionFits, RowsFit, HasTaken,
                                  Known, OwnedBy, Stored
  <2>7. QED
    BY <1>2, <2>3, <2>5, <2>6
<1>8. CASE UserDeleteLoads(r, u)
  <2> DEFINE rows == {x \in Secrets : OwnedBy(x, u)} \union {v \in {u} : vaults[v] # None}
             q == [Request("user delete", u, None, None) EXCEPT !.rows = rows]
  <2>1. /\ rows \in SUBSET (Secrets \union Users) /\ rows \subseteq Secrets \union {u}
        /\ \A x \in Secrets : x \in rows => OwnedBy(x, u)
    BY VaultAssumption
  <2>2. Starts(r, q) /\ sessions' = sessions
    BY <1>8 DEF UserDeleteLoads
  <2> HIDE DEF rows
  <2>3. For("user delete", u, q)
    BY <2>1, RequestTyped, FieldsTyped
  <2>4. q.rows = rows /\ q.st = "loaded"
    BY DEF Request
  <2> HIDE DEF q
  <2>5. Sound(q)
    BY <2>1, <2>3, <2>4 DEF For, Sound, KeyFits, SessionFits, RowsFit, HasTaken, Known,
                             OwnedBy, Stored
  <2>6. QED
    BY <1>2, <2>2, <2>3, <2>5
<1>9. QED
  BY <1>1, <1>3, <1>4, <1>5, <1>6, <1>7, <1>8 DEF Asking

LEMMA EndsSound ==
  ASSUME VaultTypeOK, VaultTypeOK', VaultInv, Steady, NEW r \in Requests, Ends(r)
  PROVE  SoundRequests'
BY EndedSound, EndedTyped, SoundAsks DEF Ends

LEMMA SoundStep ==
  ASSUME VaultTypeOK, VaultTypeOK', VaultInv, Steady, [Next]_vars
  PROVE  SoundRequests'
<1>1. ASSUME NEW r \in Requests, NEW s \in Sessions, SessionCreated(r, s)
      PROVE  SoundRequests'
  <2>1. PICK q \in RequestRecords : q = requests[r]
    BY DEF VaultTypeOK
  <2>2. PICK p : p = [q EXCEPT !.st = "open", !.session = s]
    OBVIOUS
  <2>3. /\ p.op = "unlock" /\ p.st = "open" /\ p.session = s
        /\ p.user = q.user /\ p.key = q.key /\ q.op = "unlock"
    BY <1>1, <2>1, <2>2 DEF SessionCreated, In, RequestRecords
  <2>4. Sound(q)' /\ KeyFits(q)'
    BY <2>1, SoundStays DEF VaultInv, Sound
  <2>5. sessions'[s].st = "live" /\ unlocked'[s].user = q.user
    BY <1>1, <2>1 DEF SessionCreated, Session, VaultTypeOK, TypedTables
  <2>6. Sound(p)'
    BY <2>3, <2>4, <2>5 DEF Sound, KeyFits, SessionFits, RowsFit, HasTaken
  <2>7. Becomes(r, p)
    BY <1>1, <2>1, <2>2 DEF SessionCreated
  <2>8. QED
    BY <2>6, <2>7, SoundBecomes
<1>2. ASSUME NEW r \in Requests, KeyTaken(r) PROVE SoundRequests'
  <2>1. PICK q \in RequestRecords : q = requests[r]
    BY DEF VaultTypeOK
  <2>2. /\ q.op \in {"update", "use"} /\ q.st = "loaded" /\ HasKey(q.user, q.session)
        /\ q.session \in Sessions /\ q.user \in Users /\ Becomes(r, Keyed(q)) /\ RowsFit(q)
    BY <1>2, <2>1 DEF KeyTaken, In, HasKey, Usable, VaultTypeOK, TypedRequest, RequestRecords,
                      VaultInv, Sound
  <2>3. Sound(Keyed(q))
    BY <2>2, KeyedSound
  <2>4. Keyed(q) \in RequestRecords
    BY <2>2, KeyedTyped DEF For
  <2>5. QED
    BY <2>2, <2>3, <2>4, SoundAsks
<1>3. ASSUME NEW r \in Requests, UseDone(r) PROVE SoundRequests'
  <2>1. PICK q \in RequestRecords : q = requests[r]
    BY DEF VaultTypeOK
  <2>2. PICK p : p = [q EXCEPT !.st = "served"]
    OBVIOUS
  <2>3. /\ p.op = "use" /\ p.st = "served" /\ q.op = "use" /\ q.st = "keyed"
        /\ p.session = q.session /\ p.user = q.user /\ p.key = q.key /\ p.late = q.late
        /\ p.secret = q.secret /\ p.uses = q.uses /\ p.rows = q.rows
    BY <1>3, <2>1, <2>2 DEF UseDone, In, RequestRecords
  <2>4. Sound(q)'
    BY <2>1, SoundStays DEF VaultInv
  <2>5. Logged("used", q.secret)' > 0
    <3>1. q.secret \in Secrets
      BY <2>1, <2>3 DEF VaultInv, Sound, RowsFit
    <3>2. Entry("used", q.secret) \in Entries
      BY <3>1 DEF Entry, Entries
    <3>3. Logged("used", q.secret)' = Logged("used", q.secret) + 1
      BY <1>3, <2>1, <3>2, CommitsSteady DEF UseDone
    <3>4. Logged("used", q.secret) \in Nat
      BY <3>2 DEF Logged, VaultTypeOK, TypedTables
    <3>5. QED
      BY <3>3, <3>4
  <2>6. Sound(p)'
    BY <2>3, <2>4, <2>5 DEF Sound, KeyFits, SessionFits, RowsFit, HasTaken
  <2>7. Becomes(r, p)
    BY <1>3, <2>1, <2>2 DEF UseDone
  <2>8. QED
    BY <2>6, <2>7, SoundBecomes
<1>4. ASSUME NEW r \in Requests, Ends(r) PROVE SoundRequests'
  BY <1>4, EndsSound
<1>5. CASE Restart
  <2> SUFFICES ASSUME NEW r \in Requests PROVE Sound(requests[r])'
    BY DEF SoundRequests
  <2>1. PICK v : v = requests'[r]
    OBVIOUS
  <2>2. Sound(v)'
    BY <1>5, <2>1, EndedSound, EndedTyped, SoundStays DEF Restart
  <2>3. QED
    BY <2>1, <2>2
       DEF Sound, KeyFits, SessionFits, RowsFit, Known, Stored, Logged, HasTaken, Entry
<1>6. CASE (\E u \in Users, s \in Sessions : SessionLooked(u, s)) \/ Tick \/ UNCHANGED vars
  BY <1>6, SoundSame DEF SessionLooked, Tick, vars
<1>7. ASSUME NEW r \in Requests, Unlocking(r) \/ Writing(r) \/ Otherwise(r)
      PROVE  \/ \E s \in Sessions : SessionCreated(r, s)
             \/ KeyTaken(r) \/ UseDone(r) \/ Ends(r)
  BY <1>7 DEF Unlocking, Writing, Otherwise, UnlockDone, LockDone, SetupDone, CreateDone,
              UpdateDone, DeleteDone, UserDeleted, Answered, Fails
<1>8. QED
  BY <1>1, <1>2, <1>3, <1>4, <1>5, <1>6, <1>7, AskingSound, NextSteps

(* Sessions are closed once they are gone.                                 *)
LEMMA ClosedChanges ==
  ASSUME VaultTypeOK, VaultInv, [Next]_vars
  PROVE  \A s \in closed' : s \in closed \/ sessions'[s].st = "gone"
<1>1. ASSUME NEW r \in Requests, LockDone(r)
      PROVE  \A s \in closed' : s \in closed \/ sessions'[s].st = "gone"
  <2>1. Sound(requests[r]) /\ requests[r].op = "lock"
    BY <1>1 DEF LockDone, In, VaultInv
  <2>2. QED
    BY <1>1, <2>1 DEF LockDone, Sound, SessionFits
<1>2. CASE Restart
  BY <1>2 DEF Restart, Created, VaultTypeOK, TypedTables, SessionRecords
<1>3. ASSUME ~Restart, \A r \in Requests : ~LockDone(r) PROVE closed' = closed
  <2>1. ASSUME NEW r \in Requests, NEW u \in Users, Asking(r, u) PROVE closed' = closed
    BY <2>1 DEF Asking, SetupAsked, UnlockAsked, LockAsked, CreateAsked, SecretLoaded,
                UserDeleteLoads, Starts, history
  <2>2. ASSUME NEW r \in Requests, Unlocking(r) \/ Writing(r) \/ Otherwise(r)
        PROVE  closed' = closed
    BY <1>3, <2>2
       DEF Unlocking, Writing, Otherwise, SessionCreated, UnlockDone, SetupDone, CreateDone,
           UpdateDone, DeleteDone, UseDone, UserDeleted, KeyTaken, Answered, Fails, Commits,
           history
  <2>3. (\E u \in Users, s \in Sessions : SessionLooked(u, s)) \/ Tick \/ UNCHANGED vars
          => closed' = closed
    BY DEF SessionLooked, Tick, vars, history
  <2>4. QED
    BY <1>3, <2>1, <2>2, <2>3, NextSteps
<1>4. QED
  BY <1>1, <1>2, <1>3

LEMMA SessionsTrueStep ==
  ASSUME VaultTypeOK, VaultTypeOK', VaultInv, Steady, [Next]_vars
  PROVE  SessionsTrue'
<1> SUFFICES ASSUME NEW s \in Sessions
    PROVE  /\ sessions'[s].st = "none" => ~sessions'[s].held /\ s \notin closed'
           /\ sessions'[s].st # "none" => unlocked'[s].user = sessions'[s].user
           /\ sessions'[s].st = "live" =>
                /\ s \notin closed'
                /\ sessions'[s].expires = unlocked'[s].at + TTL
                /\ sessions'[s].key # None
  BY DEF SessionsTrue
<1>1. CASE SessionKept(s)
  <2>1. ASSUME NEW r \in Requests, UnlockDone(r), s = requests[r].session
        PROVE  sessions[s].st # "none"
    <3>1. Sound(requests[r]) /\ requests[r].op = "unlock" /\ requests[r].st = "open"
      BY <2>1 DEF UnlockDone, In, VaultInv
    <3>2. QED
      BY <2>1, <3>1 DEF Sound, SessionFits
  <2>2. sessions'[s].st = "none" => ~sessions'[s].held
    BY <1>1, <2>1 DEF SessionKept, VaultInv, SessionsTrue
  <2>3. sessions'[s].st # "gone" => s \notin closed'
    BY <1>1, ClosedChanges DEF SessionKept, VaultInv, SessionsTrue, VaultTypeOK, TypedTables,
                               SessionRecords
  <2>4. QED
    BY <1>1, <2>2, <2>3 DEF SessionKept, VaultInv, SessionsTrue
<1>2. ASSUME NEW r \in Requests, SessionCreated(r, s)
      PROVE  /\ sessions'[s].st = "live" /\ s \notin closed'
             /\ sessions'[s].user = unlocked'[s].user
             /\ sessions'[s].expires = unlocked'[s].at + TTL
             /\ sessions'[s].key # None
  <2>1. Sound(requests[r]) /\ requests[r].op = "unlock"
    BY <1>2 DEF SessionCreated, In, VaultInv
  <2>2. requests[r].key # None
    BY <2>1 DEF Sound, KeyFits
  <2>3. sessions[s].st = "none" /\ closed' = closed
    BY <1>2 DEF SessionCreated, NoSession, Session
  <2>4. QED
    BY <1>2, <2>2, <2>3
       DEF SessionCreated, Session, VaultInv, SessionsTrue, VaultTypeOK, TypedTables
<1>3. QED
  BY <1>1, <1>2, SessionChanges

LEMMA DecryptableStep ==
  ASSUME VaultTypeOK, VaultTypeOK', VaultInv, Steady, [Next]_vars
  PROVE  SecretsStayDecryptable'
<1>1. ASSUME NEW u \in users', vaults[u] # None
      PROVE  u \in users /\ vaults'[u] = vaults[u]
  BY <1>1 DEF Steady
<1>2. ASSUME NEW u \in users', NEW x \in Secrets, OwnedBy(x, u)'
      PROVE  vaults'[u] # None /\ secrets'[x].key = vaults'[u]
  <2>1. u \in users /\ secrets'[x].st = "stored" /\ secrets'[x].owner = u
    BY <1>2 DEF OwnedBy, Stored, Steady
  <2>2. CASE Stored(x) /\ secrets[x].owner = u /\ secrets'[x].key = secrets[x].key
    BY <1>1, <2>1, <2>2 DEF OwnedBy, Opens, VaultInv, SecretsStayDecryptable
  <2>3. ASSUME NEW r \in Requests, Made(r, x)
        PROVE  vaults[u] # None /\ secrets'[x].key = vaults[u]
    <3>1. requests[r].user = u /\ secrets'[x].key = requests[r].key /\ KeyFits(requests[r])
          /\ HasTaken(requests[r])
      BY <2>1, <2>3 DEF Made, CreateDone, In, HasTaken, Secret, VaultInv, Sound
    <3>2. QED
      BY <2>1, <3>1 DEF KeyFits
  <2>4. ASSUME NEW r \in Requests, Updated(r, x), requests[r].rotate
        PROVE  vaults[u] # None /\ secrets'[x].key = vaults[u]
    <3> DEFINE q == requests[r]
    <3>1. KeyFits(q) /\ q.user = u /\ secrets'[x].key = NewKey(q)
      BY <2>1, <2>4 DEF Updated, Rewritten, UpdateDone, In, VaultInv, Sound, RowsFit, Known
    <3>2. CASE q.st = "keyed"
      BY <2>1, <2>4, <3>1, <3>2 DEF Updated, UpdateDone, In, HasTaken, KeyFits, NewKey
    <3>3. CASE q.st # "keyed"
      <4>1. HasKey(u, q.session) /\ q.session \in Sessions
        BY <2>4, <3>1, <3>3 DEF Updated, UpdateDone, In, HasKey, Usable, VaultTypeOK,
                                RequestRecords
      <4>2. QED
        BY <2>1, <3>1, <3>3, <4>1 DEF NewKey, HasKey, Usable, VaultInv, SecretsStayDecryptable
    <3>4. QED
      BY <3>2, <3>3
  <2>5. ASSUME NEW r \in Requests, Used(r, x) \/ (Updated(r, x) /\ ~requests[r].rotate)
        PROVE  Stored(x) /\ secrets[x].owner = u /\ secrets'[x].key = secrets[x].key
    BY <2>1, <2>5 DEF Used, Updated, Rewritten
  <2>6. secrets'[x] # Deleted
    BY <2>1 DEF Deleted, Secret
  <2>7. CASE secrets'[x] = secrets[x]
    BY <2>1, <2>2, <2>7 DEF Stored
  <2>8. QED
    BY <1>1, <2>1, <2>2, <2>3, <2>4, <2>5, <2>6, <2>7, RowWrites DEF Removed
<1>3. ASSUME NEW u \in users', NEW s \in Sessions, sessions'[s].st = "live",
             sessions'[s].user = u
      PROVE  sessions'[s].key = vaults'[u]
  <2>1. u \in users
    BY DEF Steady
  <2>2. CASE SessionKept(s)
    <3>1. sessions[s].st = "live" /\ sessions[s].user = u /\ sessions'[s].key = sessions[s].key
      BY <1>3, <2>2 DEF SessionKept
    <3>2. sessions[s].key = vaults[u] /\ sessions[s].key # None
      BY <2>1, <3>1 DEF VaultInv, SecretsStayDecryptable, SessionsTrue
    <3>3. QED
      BY <1>1, <3>1, <3>2
  <2>3. ASSUME NEW r \in Requests, SessionCreated(r, s) PROVE sessions'[s].key = vaults'[u]
    <3>1. /\ requests[r].user = u /\ sessions'[s].key = requests[r].key
          /\ Sound(requests[r]) /\ requests[r].op = "unlock"
      BY <1>3, <2>3 DEF SessionCreated, Session, In, VaultInv, VaultTypeOK, TypedTables
    <3>2. QED
      BY <1>1, <2>1, <3>1 DEF Sound, KeyFits
  <2>4. QED
    BY <2>2, <2>3, SessionChanges
<1>4. QED
  BY <1>2, <1>3 DEF SecretsStayDecryptable, Opens

LEMMA DeletedForGoodStep ==
  ASSUME VaultTypeOK, VaultInv, [Next]_vars
  PROVE  DeletedForGood'
<1> SUFFICES ASSUME NEW x \in Secrets, secrets'[x].st = "deleted" PROVE secrets'[x] = Deleted
  BY DEF DeletedForGood
<1>1. ASSUME NEW r \in Requests PROVE ~Made(r, x) /\ ~Updated(r, x) /\ ~Used(r, x)
  BY DEF Made, Secret, Updated, Used, Rewritten
<1>2. ASSUME NEW r \in Requests, Removed(r, x) PROVE secrets'[x] = Deleted
  BY <1>2 DEF Removed
<1>3. QED
  BY <1>1, <1>2, RowWrites DEF VaultInv, DeletedForGood

LEMMA AuditGrows ==
  ASSUME VaultTypeOK, VaultTypeOK', Steady
  PROVE  /\ \A x \in Secrets : /\ Logged("used", x) \in Nat /\ Logged("used", x)' \in Nat
                               /\ Logged("used", x) <= Logged("used", x)'
         /\ \A u \in Users : /\ Logged("unlock", u) \in Nat /\ Logged("unlock", u)' \in Nat
                             /\ Logged("unlock", u) <= Logged("unlock", u)'
<1>1. /\ \A x \in Secrets : Entry("used", x) \in Entries
      /\ \A u \in Users : Entry("unlock", u) \in Entries
  BY DEF Entry, Entries
<1>2. QED
  BY <1>1 DEF Steady, Logged, VaultTypeOK, TypedTables

LEMMA UsesLogged ==
  ASSUME VaultTypeOK, VaultTypeOK', VaultInv, Steady, [Next]_vars, NEW x \in Secrets
  PROVE  secrets'[x].uses <= Logged("used", x)'
<1>1. /\ Logged("used", x) \in Nat /\ Logged("used", x)' \in Nat
      /\ Logged("used", x) <= Logged("used", x)'
  BY AuditGrows
<1>2. secrets[x].uses \in Nat /\ secrets[x].uses <= Logged("used", x)
  BY DEF VaultTypeOK, TypedTables, SecretRows, VaultInv, Logs
<1>3. CASE secrets'[x].uses = secrets[x].uses \/ secrets'[x].uses = 0
  BY <1>1, <1>2, <1>3
<1>4. ASSUME NEW r \in Requests, Used(r, x) PROVE secrets'[x].uses <= Logged("used", x)'
  <2>1. Entry("used", x) \in Entries
    BY DEF Entry, Entries
  <2>2. Logged("used", x)' = Logged("used", x) + 1
    BY <1>4, <2>1, CommitsSteady DEF Used, Rewritten, UseDone
  <2>3. Sound(requests[r]) /\ requests[r] \in RequestRecords /\ requests[r].op = "use"
    BY <1>4 DEF Used, UseDone, In, VaultInv, VaultTypeOK
  <2>4. requests[r].uses \in Nat /\ requests[r].uses <= Logged("used", x)
    BY <1>4, <2>3 DEF Used, Rewritten, Sound, RowsFit, RequestRecords
  <2>5. QED
    BY <1>1, <1>4, <2>2, <2>4 DEF Used
<1>5. ASSUME NEW r \in Requests, Removed(r, x) \/ Made(r, x) PROVE secrets'[x].uses = 0
  BY <1>5 DEF Removed, Deleted, Made, Secret
<1>6. QED
  BY <1>3, <1>4, <1>5, RowWrites DEF Updated

(* The sessions a client holds only grow when an unlock is answered.       *)
LEMMA UnlocksLogged ==
  ASSUME VaultTypeOK, VaultTypeOK', VaultInv, Steady, [Next]_vars, NEW u \in Users
  PROVE  IsFiniteSet(UnlockedBy(u)') /\ Cardinality(UnlockedBy(u)') <= Logged("unlock", u)'
<1>1. /\ Logged("unlock", u) \in Nat /\ Logged("unlock", u)' \in Nat
      /\ Logged("unlock", u) <= Logged("unlock", u)'
  BY AuditGrows
<1>2. /\ IsFiniteSet(UnlockedBy(u)) /\ Cardinality(UnlockedBy(u)) \in Nat
      /\ Cardinality(UnlockedBy(u)) <= Logged("unlock", u)
  BY FS_CardinalityType DEF VaultInv, Logs
<1>3. ASSUME NEW s \in UnlockedBy(u)', s \notin UnlockedBy(u)
      PROVE  \E r \in Requests : UnlockDone(r) /\ s = requests[r].session
                                 /\ requests[r].user = u
  <2>1. s \in Sessions /\ sessions'[s].held /\ unlocked'[s].user = u
    BY <1>3 DEF UnlockedBy, Held
  <2>2. CASE SessionKept(s)
    <3>1. PICK r \in Requests : UnlockDone(r) /\ s = requests[r].session
      BY <1>3, <2>1, <2>2 DEF SessionKept, UnlockedBy, Held
    <3>2. Sound(requests[r]) /\ requests[r].op = "unlock" /\ requests[r].st = "open"
      BY <3>1 DEF UnlockDone, In, VaultInv
    <3>3. requests[r].user = u
      BY <2>1, <2>2, <3>1, <3>2 DEF Sound, SessionFits, SessionKept
    <3>4. QED
      BY <3>1, <3>3
  <2>3. ASSUME NEW r \in Requests, SessionCreated(r, s) PROVE ~sessions'[s].held
    BY <2>1, <2>3 DEF SessionCreated, Session, VaultTypeOK, TypedTables
  <2>4. QED
    BY <2>1, <2>2, <2>3, SessionChanges
<1>4. CASE UnlockedBy(u)' \subseteq UnlockedBy(u)
  <2>1. /\ IsFiniteSet(UnlockedBy(u)') /\ Cardinality(UnlockedBy(u)') \in Nat
        /\ Cardinality(UnlockedBy(u)') <= Cardinality(UnlockedBy(u))
    BY <1>2, <1>4, FS_Subset, FS_CardinalityType
  <2>2. QED
    BY <1>1, <1>2, <2>1
<1>5. ASSUME NEW r \in Requests, UnlockDone(r), requests[r].user = u
      PROVE  IsFiniteSet(UnlockedBy(u)') /\ Cardinality(UnlockedBy(u)') <= Logged("unlock", u)'
  <2> DEFINE t == requests[r].session
             Both == UnlockedBy(u) \union {t}
  <2>1. ASSUME NEW s \in UnlockedBy(u)', s \notin UnlockedBy(u) PROVE s = t
    <3>1. s \in Sessions /\ sessions'[s].held /\ unlocked'[s].user = u
      BY <2>1 DEF UnlockedBy, Held
    <3>2. unlocked' = unlocked /\ sessions' = [sessions EXCEPT ![t].held = TRUE]
      BY <1>5, CommitsSteady DEF UnlockDone
    <3>3. QED
      BY <2>1, <3>1, <3>2 DEF UnlockedBy, Held, VaultTypeOK, TypedTables
  <2>2. UnlockedBy(u)' \subseteq Both
    BY <2>1
  <2>3. IsFiniteSet(Both) /\ Cardinality(Both) \in Nat
        /\ Cardinality(Both) <= Cardinality(UnlockedBy(u)) + 1
    BY <1>2, FS_AddElement, FS_CardinalityType
  <2> HIDE DEF Both
  <2>4. /\ IsFiniteSet(UnlockedBy(u)') /\ Cardinality(UnlockedBy(u)') \in Nat
        /\ Cardinality(UnlockedBy(u)') <= Cardinality(Both)
    BY <2>2, <2>3, FS_Subset, FS_CardinalityType
  <2>5. Logged("unlock", u)' = Logged("unlock", u) + 1
    <3>1. Entry("unlock", u) \in Entries
      BY DEF Entry, Entries
    <3>2. QED
      BY <1>5, <3>1, CommitsSteady DEF UnlockDone
  <2>6. QED
    BY <1>1, <1>2, <2>3, <2>4, <2>5
<1>6. QED
  BY <1>3, <1>4, <1>5

LEMMA VaultInvStep ==
  ASSUME VaultTypeOK, VaultInv, [Next]_vars
  PROVE  VaultTypeOK' /\ VaultInv'
<1>1. VaultTypeOK'
  BY VaultTypeStep
<1>2. Steady
  BY SteadyStep
<1>3. SecretsStayDecryptable' /\ SessionsTrue' /\ DeletedForGood' /\ SoundRequests'
  BY <1>1, <1>2, DecryptableStep, SessionsTrueStep, DeletedForGoodStep, SoundStep
<1>4. Logs'
  BY <1>1, <1>2, UsesLogged, UnlocksLogged DEF Logs
<1>5. QED
  BY <1>1, <1>3, <1>4 DEF VaultInv, SoundRequests

LEMMA VaultInvariant == Spec => [](VaultTypeOK /\ VaultInv)
<1>1. Init => VaultInv
  <2> SUFFICES ASSUME Init PROVE VaultInv
    OBVIOUS
  <2>1. \A s \in Sessions : sessions[s].st = "none" /\ ~sessions[s].held /\ s \notin closed
    BY DEF Init, NoSession, Session
  <2>2. \A x \in Secrets : secrets[x].st = "none" /\ secrets[x].uses = 0
    BY DEF Init, NoSecret, Secret
  <2>3. SecretsStayDecryptable /\ SessionsTrue /\ DeletedForGood
    BY <2>1, <2>2 DEF SecretsStayDecryptable, SessionsTrue, DeletedForGood, OwnedBy, Stored
  <2>4. Logs
    <3>1. \A u \in Users : UnlockedBy(u) = {}
      BY <2>1 DEF UnlockedBy, Held
    <3>2. /\ \A x \in Secrets : Entry("used", x) \in Entries
          /\ \A u \in Users : Entry("unlock", u) \in Entries
      BY DEF Entry, Entries
    <3>3. QED
      BY <2>2, <3>1, <3>2, FS_EmptySet, SMTT(30) DEF Init, Logs, Logged
  <2>5. \A r \in Requests : Sound(requests[r])
    BY EndedSound DEF Init
  <2>6. QED
    BY <2>3, <2>4, <2>5 DEF VaultInv
<1>2. Spec => []VaultTypeOK
  BY VaultTypeCorrect
<1>3. VaultTypeOK /\ VaultInv /\ [Next]_vars => VaultInv'
  BY VaultInvStep
<1>4. QED
  BY <1>1, <1>2, <1>3, PTL DEF Spec

-----------------------------------------------------------------------------
(* What follows from it.                                                   *)

(* Two set-ups at once, a rotation racing a lock and the deletion of a     *)
(* user never leave an existing user a secret that the key of the vault    *)
(* does not open, nor a live session that would encrypt one with another   *)
(* key (VaultService.setup_vault, UserSecretsService).                     *)
THEOREM SecretsStayDecryptableHolds == Spec => []SecretsStayDecryptable
<1>1. VaultInv => SecretsStayDecryptable
  BY DEF VaultInv
<1>2. QED
  BY <1>1, VaultInvariant, PTL

(* Whatever expires, is locked or restarts while requests are under way,   *)
(* a key is taken only from a session that its own user unlocked less than *)
(* the time to live ago, and plaintext is served only to the owner         *)
(* (VaultSessionStore.get_user_key, get_secret_for_internal_use).          *)
THEOREM PlaintextIsEarnedHolds == Spec => []PlaintextIsEarned
<1>1. VaultInv => PlaintextIsEarned
  <2> SUFFICES ASSUME VaultInv, NEW r \in Requests, HasTaken(requests[r])
      PROVE  LET q == requests[r] IN
             /\ ~q.late
             /\ unlocked[q.session].user = q.user
             /\ q.st = "served" /\ Stored(q.secret) => secrets[q.secret].owner = q.user
    BY DEF PlaintextIsEarned, HasTaken
  <2>1. Sound(requests[r])
    BY DEF VaultInv
  <2>2. QED
    BY <2>1 DEF Sound, SessionFits, RowsFit, Known
<1>2. QED
  BY <1>1, VaultInvariant, PTL

(* Every use that is counted, every plaintext handed out and every session *)
(* a client was given is in the audit log, although two uses at once may   *)
(* write the same count (mark_used, unlock_vault).                         *)
THEOREM AccessIsAuditedHolds == Spec => []AccessIsAudited
<1>1. VaultInv => AccessIsAudited
  BY DEF VaultInv, Logs, AccessIsAudited, UnlockedBy, Sound, RowsFit, In
<1>2. QED
  BY <1>1, VaultInvariant, PTL

(* No step changes a row without its audit entry, whatever fails half-way, *)
(* and none writes a row that was deleted; the rows that go with a user    *)
(* were that user's (update_secret, mark_used, the cascade of a deletion). *)
THEOREM ChangesAreAuditedHolds == Spec => ChangesAreAudited
<1> DEFINE Audited(x) ==
      /\ secrets[x].st # "deleted"
      /\ \/ \E op \in {"create", "update", "delete", "used"} :
              audit'[Entry(op, x)] = Logged(op, x) + 1
         \/ secrets[x].owner \notin users' /\ secrets'[x] = Deleted
<1>1. ASSUME VaultTypeOK, VaultInv, [Next]_vars, NEW x \in Secrets, secrets'[x] # secrets[x]
      PROVE  Audited(x)
  <2>1. secrets[x].st \in {"none", "stored", "deleted"}
        /\ (secrets[x].st = "deleted" => secrets[x] = Deleted)
    BY <1>1 DEF VaultTypeOK, TypedTables, SecretRows, VaultInv, DeletedForGood
  <2>2. ASSUME NEW op \in {"create", "update", "delete", "used"}, Commits(op, x)
        PROVE  audit'[Entry(op, x)] = Logged(op, x) + 1
    <3>1. Entry(op, x) \in Entries
      BY DEF Entry, Entries
    <3>2. QED
      BY <1>1, <2>2, <3>1, CommitsSteady DEF Logged
  <2>3. ASSUME NEW r \in Requests, Removed(r, x) PROVE Audited(x)
    <3>1. secrets[x].st # "deleted"
      BY <1>1, <2>1, <2>3 DEF Removed
    <3>2. CASE DeleteDone(r) /\ x = requests[r].secret
      BY <2>2, <3>1, <3>2 DEF DeleteDone
    <3>3. CASE UserDeleted(r) /\ x \in requests[r].rows
      <4>1. Known(x, requests[r].user)
        BY <1>1, <3>3 DEF UserDeleted, In, VaultInv, Sound, RowsFit
      <4>2. secrets[x].owner = requests[r].user
        BY <2>1, <3>1, <4>1 DEF Known, Stored
      <4>3. QED
        BY <2>3, <3>1, <3>3, <4>2 DEF UserDeleted, Removed
    <3>4. QED
      BY <2>3, <3>2, <3>3 DEF Removed
  <2>4. ASSUME NEW r \in Requests, Made(r, x) PROVE Audited(x)
    BY <2>2, <2>4 DEF Made, CreateDone, NoSecret, Secret
  <2>5. ASSUME NEW r \in Requests, Updated(r, x) \/ Used(r, x) PROVE Audited(x)
    BY <2>2, <2>5 DEF Updated, Used, Rewritten, UpdateDone, UseDone, Stored
  <2> HIDE DEF Audited
  <2>6. QED
    BY <1>1, <2>3, <2>4, <2>5, RowWrites
<1>2. VaultTypeOK /\ VaultInv /\ [Next]_vars
        => [\A x \in Secrets : secrets'[x] # secrets[x] => Audited(x)]_vars
  BY <1>1
<1>3. QED
  BY <1>2, VaultInvariant, PTL DEF Spec, ChangesAreAudited
=============================================================================
