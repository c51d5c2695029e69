--------------------------- MODULE AccountsProofs ---------------------------
(***************************************************************************)
(* Proofs about Accounts, for every set of users, tokens and concurrent    *)
(* requests.                                                               *)
(***************************************************************************)
EXTENDS Accounts, FiniteSetTheorems, TLAPS

-----------------------------------------------------------------------------
(* Types.                                                                  *)

LEMMA EndedTyped == Ended \in RequestRecords /\ Ended.st = "idle"
BY DEF Ended, Request, RequestRecords

(* A step that gives one request a typed record keeps them typed.          *)
LEMMA RequestTyped ==
  ASSUME AccountsTypeOK, NEW r \in Requests, NEW q \in RequestRecords,
         q.st # "idle" => q.target \in Users,
         requests' = [requests EXCEPT ![r] = q]
  PROVE  /\ requests' \in [Requests -> RequestRecords]
         /\ \A s \in Requests : requests'[s].st # "idle" => requests'[s].target \in Users
BY DEF AccountsTypeOK

LEMMA ChangedTyped ==
  ASSUME NEW user \in UserRows, NEW op \in Flags \union {"invite", "password"}
  PROVE  /\ Changed(user, op) \in UserRows
         /\ Changed(user, op).st = user.st
         /\ op \in Flags => Changed(user, op).must = user.must
         /\ op = "invite" => Changed(user, op).must
         /\ op = "password" => ~Changed(user, op).must
BY DEF Changed, Flags, UserRows

(* Only the target's row is written, and its state stays.                  *)
LEMMA WrittenTyped ==
  ASSUME AccountsTypeOK, NEW r \in Requests, requests[r].st = "loaded",
         requests[r].op \in Flags \union {"invite", "password"}
  PROVE  /\ Written(r) \in [Users -> UserRows]
         /\ \A u \in Users : Written(r)[u].st = users[u].st
         /\ \A u \in Users : u # requests[r].target => Written(r)[u] = users[u]
         /\ requests[r].op \in Flags =>
              \A u \in Users : Written(r)[u].must = users[u].must
         /\ requests[r].op = "password" =>
              \/ ~Written(r)[requests[r].target].must
              \/ requests[r].same /\ Written(r) = users
<1> DEFINE u == requests[r].target
           op == requests[r].op
<1>1. users \in [Users -> UserRows] /\ u \in Users
  BY DEF AccountsTypeOK
<1>2. CASE requests[r].same
  BY <1>1, <1>2 DEF Written
<1>3. CASE ~requests[r].same
  <2>1. Written(r) = [users EXCEPT ![u] = Changed(users[u], op)]
    BY <1>3 DEF Written
  <2>2. /\ Changed(users[u], op) \in UserRows
        /\ Changed(users[u], op).st = users[u].st
        /\ op \in Flags => Changed(users[u], op).must = users[u].must
        /\ op = "password" => ~Changed(users[u], op).must
    BY <1>1, ChangedTyped
  <2>3. QED
    BY <1>1, <2>1, <2>2
<1>4. QED
  BY <1>2, <1>3

LEMMA CountsTyped ==
  ASSUME NEW c \in Counts, NEW op, NEW u
  PROVE  [c EXCEPT ![Entry(op, u)] = @ + 1] \in Counts
<1>1. c \in [Entries -> Nat]
  BY DEF Counts
<1>2. [c EXCEPT ![Entry(op, u)] = @ + 1] =
        [e \in Entries |-> IF e = Entry(op, u) THEN c[e] + 1 ELSE c[e]]
  BY <1>1
<1>3. \A e \in Entries : (IF e = Entry(op, u) THEN c[e] + 1 ELSE c[e]) \in Nat
  <2> SUFFICES ASSUME NEW e \in Entries
               PROVE  (IF e = Entry(op, u) THEN c[e] + 1 ELSE c[e]) \in Nat
    OBVIOUS
  <2>1. c[e] \in Nat
    BY <1>1
  <2>2. QED
    BY <2>1
<1>4. QED
  BY <1>2, <1>3 DEF Counts

(* A mutation that is committed and logged keeps the counts typed.         *)
LEMMA CommitTyped ==
  ASSUME AccountsTypeOK, NEW op \in Operations, NEW u \in Users, CommitsAndLogs(op, u)
  PROVE  {audit', committed', lost'} \subseteq Counts
<1>1. /\ [committed EXCEPT ![Entry(op, u)] = @ + 1] \in Counts
      /\ [audit EXCEPT ![Entry(op, u)] = @ + 1] \in Counts
  BY CountsTyped DEF AccountsTypeOK
<1>2. QED
  BY <1>1 DEF AccountsTypeOK, CommitsAndLogs, Commits, Logs

(* The requests that have still to log a mutation are finitely many.       *)
LEMMA UnloggedFinite ==
  ASSUME NEW e
  PROVE  IsFiniteSet(Unlogged(e)) /\ Cardinality(Unlogged(e)) \in Nat
BY AccountsAssumption, FS_Subset, FS_CardinalityType DEF Unlogged

Step(r) ==
  \/ BootstrapStep(r) \/ AdminStep(r) \/ PasswordStep(r)
  \/ UserLoaded(r) \/ Fails(r) \/ DatabaseFails(r)

(* No request makes a token expire.                                        *)
LEMMA StepExpiresNone ==
  ASSUME NEW r \in Requests, Step(r)
  PROVE  expired' = expired
BY DEF Step, BootstrapStep, BootstrapCounts, BootstrapCreates, AdminStep, CreateAsked,
       ChangeAsked, ToChecked, UserCreated, UserInvited, CommitsAndLogs, UserChanged,
       DeleteLoads, UserDeleted, ChangeLogged, PasswordStep, PasswordAsked, PasswordSet,
       UserLoaded, Fails, DatabaseFails

(* What a step of a request does to the requests.                          *)
LEMMA RequestStep ==
  ASSUME AccountsTypeOK, NEW r \in Requests, Step(r)
  PROVE  \E q \in RequestRecords : /\ requests' = [requests EXCEPT ![r] = q]
                                   /\ q.st # "idle" => q.target \in Users
<1> USE AccountsAssumption
<1> DEFINE Goal == \E q \in RequestRecords :
                     /\ requests' = [requests EXCEPT ![r] = q]
                     /\ q.st # "idle" => q.target \in Users
<1>1. requests[r] \in RequestRecords
  BY DEF AccountsTypeOK
<1>2. ASSUME NEW op \in Operations \union {"bootstrap"}, NEW u \in Users,
             NEW rows \in SUBSET Tokens, ToChecked(r, op, u, rows)
      PROVE  Goal
  <2>1. /\ Request("checked", op, u, rows) \in RequestRecords
        /\ Request("checked", op, u, rows).target \in Users
    BY DEF Request, RequestRecords
  <2>2. QED
    BY <1>2, <2>1 DEF ToChecked
<1>3. CASE Ends(r)
  BY <1>3, EndedTyped DEF Ends
<1>4. CASE BootstrapStep(r)
  <2>1. ASSUME NEW u \in Users, BootstrapCounts(r, u) PROVE Goal
    BY <1>2, <2>1 DEF BootstrapCounts
  <2>2. QED
    BY <1>3, <1>4, <2>1 DEF BootstrapStep, BootstrapCreates
<1>5. CASE AdminStep(r)
  <2>1. ASSUME NEW u \in Users, CreateAsked(r, u) PROVE Goal
    BY <1>2, <2>1 DEF CreateAsked, Operations
  <2>2. ASSUME NEW u \in Users, NEW op \in Changes \union {"invite"},
               ChangeAsked(r, op, u)
        PROVE  Goal
    BY <1>2, <2>2 DEF ChangeAsked, Operations
  <2>3. CASE UserChanged(r) \/ UserDeleted(r)
    <3> DEFINE u == requests[r].target
    <3>1. PICK op \in Changes : requests' = [requests EXCEPT ![r] =
                                               Request("changed", op, u, {})]
      BY <2>3 DEF UserChanged, UserDeleted, Changes
    <3>2. u \in Users
      BY <2>3 DEF UserChanged, UserDeleted, Loaded, AccountsTypeOK
    <3>3. /\ Request("changed", op, u, {}) \in RequestRecords
          /\ Request("changed", op, u, {}).target \in Users
      BY <3>2 DEF Request, RequestRecords, Operations
    <3>4. QED
      BY <3>1, <3>3
  <2>4. CASE DeleteLoads(r)
    <3> DEFINE u == requests[r].target
               rows == {t \in Tokens : tokens[t].user = u}
    <3>1. requests' = [requests EXCEPT ![r] = Request("loaded", "delete", u, rows)]
      BY <2>4 DEF DeleteLoads
    <3>2. u \in Users
      BY <2>4 DEF DeleteLoads, Checked, AccountsTypeOK
    <3>3. /\ Request("loaded", "delete", u, rows) \in RequestRecords
          /\ Request("loaded", "delete", u, rows).target \in Users
      BY <3>2 DEF Request, RequestRecords, Operations, Changes
    <3>4. QED
      BY <3>1, <3>3
  <2>5. QED
    BY <1>3, <1>5, <2>1, <2>2, <2>3, <2>4
       DEF AdminStep, UserCreated, UserInvited, ChangeLogged
<1>6. CASE PasswordStep(r)
  <2>1. ASSUME NEW t \in Tokens, PasswordAsked(r, t) PROVE Goal
    <3>1. tokens[t].user \in Users /\ {t} \in SUBSET Tokens
      BY <2>1 DEF PasswordAsked, AccountsTypeOK
    <3>2. QED
      BY <1>2, <2>1, <3>1 DEF PasswordAsked, Operations
  <2>2. QED
    BY <1>3, <1>6, <2>1 DEF PasswordStep, PasswordSet
<1>7. CASE UserLoaded(r)
  <2> DEFINE same == (Changed(users[requests[r].target], requests[r].op)
                        = users[requests[r].target])
             q == [requests[r] EXCEPT !.st = "loaded", !.same = same]
  <2>1. q \in RequestRecords /\ q.target = requests[r].target
    BY <1>1 DEF RequestRecords
  <2>2. requests' = [requests EXCEPT ![r] = q] /\ requests[r].target \in Users
    BY <1>7 DEF UserLoaded, AccountsTypeOK
  <2>3. QED
    BY <2>1, <2>2
<1>8. QED
  BY <1>3, <1>4, <1>5, <1>6, <1>7 DEF Step, Fails, DatabaseFails

(* What a step of a request does to the tables: the users keep their       *)
(* types, and so do the tokens, whose open ones belong to users.           *)
LEMMA TablesStep ==
  ASSUME AccountsTypeOK, NEW r \in Requests, Step(r)
  PROVE  /\ users' \in [Users -> UserRows]
         /\ tokens' \in [Tokens -> TokenRows]
         /\ \A t \in Tokens : tokens'[t].st = "open" => tokens'[t].user \in Users
         /\ {audit', committed', lost'} \subseteq Counts
<1> USE AccountsAssumption
<1> DEFINE Goal == /\ users' \in [Users -> UserRows]
                   /\ tokens' \in [Tokens -> TokenRows]
                   /\ \A t \in Tokens : tokens'[t].st = "open" => tokens'[t].user \in Users
                   /\ {audit', committed', lost'} \subseteq Counts
<1>1. requests[r].st # "idle" => requests[r].target \in Users
  BY DEF AccountsTypeOK
<1>2. ASSUME users' = users, tokens' = tokens, audit' = audit,
             committed' = committed, lost' = lost
      PROVE  Goal
  BY <1>2 DEF AccountsTypeOK
<1>3. CASE BootstrapCreates(r)
  <2>1. User("present", TRUE, TRUE, FALSE) \in UserRows
    BY DEF User, UserRows
  <2>2. QED
    BY <1>3, <2>1 DEF BootstrapCreates, AccountsTypeOK
<1>4. ASSUME NEW t \in Tokens, NEW super \in BOOLEAN, UserCreated(r, t, super)
      PROVE  Goal
  <2> DEFINE u == requests[r].target
  <2>1. u \in Users
    BY <1>1, <1>4 DEF UserCreated, Checked
  <2>2. /\ User("present", super, TRUE, TRUE) \in UserRows
        /\ Token("open", u) \in TokenRows /\ Token("open", u).user = u
    BY <2>1 DEF User, UserRows, Token, TokenRows
  <2>3. {audit', committed', lost'} \subseteq Counts
    BY <1>4, <2>1, CommitTyped DEF UserCreated, Operations
  <2>4. QED
    BY <1>4, <2>1, <2>2, <2>3 DEF UserCreated, AccountsTypeOK
<1>5. ASSUME NEW t \in Tokens, UserInvited(r, t) PROVE Goal
  <2> DEFINE u == requests[r].target
  <2>1. u \in Users /\ requests[r].st = "loaded" /\ requests[r].op = "invite"
    BY <1>1, <1>5 DEF UserInvited, Loaded
  <2>2. users' \in [Users -> UserRows]
    BY <1>5, <2>1, WrittenTyped DEF UserInvited
  <2>3. /\ Token("open", u) \in TokenRows /\ Token("open", u).user = u
        /\ Token("used", u) \in TokenRows /\ Token("used", u).user = u
    BY <2>1 DEF Token, TokenRows
  <2>4. {audit', committed', lost'} \subseteq Counts
    BY <1>5, <2>1, CommitTyped DEF UserInvited, Operations
  <2>5. QED
    BY <1>5, <2>1, <2>2, <2>3, <2>4 DEF UserInvited, Reissued, AccountsTypeOK
<1>6. CASE UserChanged(r)
  <2> DEFINE u == requests[r].target
             op == requests[r].op
  <2>1. u \in Users /\ requests[r].st = "loaded" /\ op \in Flags
    BY <1>1, <1>6 DEF UserChanged
  <2>2. users' \in [Users -> UserRows]
    BY <1>6, <2>1, WrittenTyped DEF UserChanged
  <2>3. committed' \in Counts
    BY <1>6, <2>1, CountsTyped
       DEF UserChanged, Commits, Operations, Changes, AccountsTypeOK
  <2>4. QED
    BY <1>6, <2>2, <2>3 DEF UserChanged, AccountsTypeOK
<1>7. CASE UserDeleted(r)
  <2> DEFINE u == requests[r].target
  <2>1. u \in Users
    BY <1>1, <1>7 DEF UserDeleted, Loaded
  <2>2. /\ User("deleted", FALSE, FALSE, FALSE) \in UserRows
        /\ Token("deleted", None) \in TokenRows /\ Token("deleted", None).st # "open"
    BY DEF User, UserRows, Token, TokenRows
  <2>3. committed' \in Counts
    BY <1>7, <2>1, CountsTyped
       DEF UserDeleted, Commits, Operations, Changes, AccountsTypeOK
  <2>4. QED
    BY <1>7, <2>2, <2>3 DEF UserDeleted, AccountsTypeOK
<1>8. CASE ChangeLogged(r)
  <2>1. audit' \in Counts
    BY <1>8, CountsTyped DEF ChangeLogged, Logs, AccountsTypeOK
  <2>2. QED
    BY <1>8, <2>1 DEF ChangeLogged, AccountsTypeOK
<1>9. CASE PasswordSet(r)
  <2> DEFINE u == requests[r].target
  <2>1. u \in Users /\ requests[r].st = "loaded" /\ requests[r].op = "password"
    BY <1>1, <1>9 DEF PasswordSet, Loaded
  <2>2. users' \in [Users -> UserRows]
    BY <1>9, <2>1, WrittenTyped DEF PasswordSet
  <2>3. {audit', committed', lost'} \subseteq Counts
    BY <1>9, <2>1, CommitTyped DEF PasswordSet, Operations
  <2>4. PICK t \in Tokens : tokens' = [tokens EXCEPT ![t] = [@ EXCEPT !.st = "used"]]
    BY <1>9 DEF PasswordSet, Consumed, AccountsTypeOK, RequestRecords
  <2>5. [tokens[t] EXCEPT !.st = "used"] \in TokenRows
    BY DEF AccountsTypeOK, TokenRows
  <2>6. QED
    BY <2>2, <2>3, <2>4, <2>5 DEF AccountsTypeOK
<1>10. CASE DatabaseFails(r)
  <2>1. lost' \in Counts
    BY <1>10, CountsTyped DEF DatabaseFails, AccountsTypeOK
  <2>2. QED
    BY <1>10, <2>1 DEF DatabaseFails, AccountsTypeOK
<1>11. QED
  BY <1>2, <1>3, <1>4, <1>5, <1>6, <1>7, <1>8, <1>9, <1>10
     DEF Step, BootstrapStep, BootstrapCounts, AdminStep, CreateAsked, ChangeAsked,
         DeleteLoads, PasswordStep, PasswordAsked, ToChecked, UserLoaded, Fails

LEMMA AccountsTypeStep ==
  ASSUME AccountsTypeOK, [Next]_vars
  PROVE  AccountsTypeOK'
<1>1. ASSUME NEW r \in Requests, Step(r) PROVE AccountsTypeOK'
  <2>1. PICK q \in RequestRecords : /\ requests' = [requests EXCEPT ![r] = q]
                                    /\ q.st # "idle" => q.target \in Users
    BY <1>1, RequestStep
  <2>2. /\ requests' \in [Requests -> RequestRecords]
        /\ \A s \in Requests : requests'[s].st # "idle" => requests'[s].target \in Users
    BY <2>1, RequestTyped
  <2>3. QED
    BY <1>1, <2>2, TablesStep, StepExpiresNone DEF AccountsTypeOK
<1>2. CASE Restart
  <2>1. \A e \in Entries : lost[e] + Cardinality(Unlogged(e)) \in Nat
    BY UnloggedFinite DEF AccountsTypeOK, Counts
  <2>2. lost' \in Counts
    BY <1>2, <2>1 DEF Restart, Counts
  <2>3. QED
    BY <1>2, <2>2, EndedTyped DEF Restart, AccountsTypeOK
<1>3. CASE UNCHANGED vars
  BY <1>3 DEF vars, AccountsTypeOK
<1>4. ASSUME NEW t \in Tokens, Expires(t) PROVE AccountsTypeOK'
  BY <1>4 DEF Expires, AccountsTypeOK
<1>5. QED
  BY <1>1, <1>2, <1>3, <1>4 DEF Next, Step

(* The tables, the requests and the histories keep their types.            *)
THEOREM AccountsTypeCorrect == Spec => []AccountsTypeOK
<1>1. Init => AccountsTypeOK
  <2>1. /\ NoUser \in UserRows /\ NoToken \in TokenRows /\ NoToken.st = "none"
        /\ Never \in Counts
    BY DEF NoUser, User, UserRows, NoToken, Token, TokenRows, Never, Counts
  <2>2. QED
    BY <2>1, EndedTyped DEF Init, AccountsTypeOK
<1>2. QED
  BY <1>1, AccountsTypeStep, PTL DEF Spec

-----------------------------------------------------------------------------
(* The audit log.                                                          *)

(* The invariant behind AuditIsFaithful: what is committed and not logged  *)
(* is a change of the kind that is logged on its own.                      *)
AuditInv ==
  /\ AuditIsFaithful
  /\ \A r \in Requests : requests[r].st = "changed" => requests[r].op \in Changes

LEMMA UnloggedAfter ==
  ASSUME AccountsTypeOK, NEW r \in Requests, NEW q,
         requests' = [requests EXCEPT ![r] = q], NEW e
  PROVE  Unlogged(e)' = IF q.st = "changed" /\ Entry(q.op, q.target) = e
                        THEN Unlogged(e) \union {r} ELSE Unlogged(e) \ {r}
<1>1. requests'[r] = q /\ \A s \in Requests : s # r => requests'[s] = requests[s]
  BY DEF AccountsTypeOK
<1>2. Unlogged(e)' = {s \in Requests : requests'[s].st = "changed"
                        /\ Entry(requests'[s].op, requests'[s].target) = e}
  BY DEF Unlogged
<1>3. QED
  BY <1>1, <1>2 DEF Unlogged

LEMMA OneMore ==
  ASSUME NEW c \in Counts, NEW x, NEW e \in Entries
  PROVE  [c EXCEPT ![x] = @ + 1][e] = IF e = x THEN c[e] + 1 ELSE c[e]
BY DEF Counts

(* Every step of a request keeps the log faithful.                         *)
LEMMA AuditStep ==
  ASSUME AccountsTypeOK, AuditInv, NEW r \in Requests, Step(r)
  PROVE  AuditInv'
<1> USE AccountsAssumption
<1>1. \A e \in Entries : /\ Cardinality(Unlogged(e)) \in Nat /\ IsFiniteSet(Unlogged(e))
                         /\ committed[e] \in Nat /\ audit[e] \in Nat /\ lost[e] \in Nat
  BY UnloggedFinite DEF AccountsTypeOK, Counts
<1>2. \A e \in Entries : committed[e] = audit[e] + Cardinality(Unlogged(e)) + lost[e]
  BY DEF AuditInv, AuditIsFaithful
<1>3. requests[r].st = "changed" => requests[r].op \in Changes
  BY DEF AuditInv
<1>4. ASSUME NEW q, requests' = [requests EXCEPT ![r] = q],
             q.st = "changed" => q.op \in Changes,
             AuditIsFaithful'
      PROVE  AuditInv'
  BY <1>4 DEF AuditInv, AccountsTypeOK
(* Steps that log what they commit, or commit nothing.                     *)
<1>5. ASSUME NEW q, requests' = [requests EXCEPT ![r] = q],
             q.st # "changed", requests[r].st # "changed", lost' = lost,
             \A e \in Entries : committed'[e] - audit'[e] = committed[e] - audit[e],
             \A e \in Entries : committed'[e] \in Nat /\ audit'[e] \in Nat
      PROVE  AuditInv'
  <2>1. \A e : Unlogged(e)' = Unlogged(e)
    BY <1>5, UnloggedAfter DEF Unlogged
  <2>2. \A e \in Entries :
          committed'[e] = audit'[e] + Cardinality(Unlogged(e)') + lost'[e]
    BY <1>1, <1>2, <1>5, <2>1
  <2>3. AuditIsFaithful'
    BY <2>2 DEF AuditIsFaithful
  <2>4. QED
    BY <1>4, <1>5, <2>3
<1>6. ASSUME NEW q, requests' = [requests EXCEPT ![r] = q],
             q.st # "changed", requests[r].st # "changed",
             NEW op, NEW u, CommitsAndLogs(op, u)
      PROVE  AuditInv'
  <2>1. \A e \in Entries :
          /\ committed'[e] = IF e = Entry(op, u) THEN committed[e] + 1 ELSE committed[e]
          /\ audit'[e] = IF e = Entry(op, u) THEN audit[e] + 1 ELSE audit[e]
    BY <1>6, OneMore DEF CommitsAndLogs, Commits, Logs, AccountsTypeOK
  <2>2. lost' = lost
    BY <1>6 DEF CommitsAndLogs
  <2>3. \A e \in Entries : /\ committed'[e] \in Nat /\ audit'[e] \in Nat
                           /\ committed'[e] - audit'[e] = committed[e] - audit[e]
    <3> SUFFICES ASSUME NEW e \in Entries
                 PROVE  /\ committed'[e] \in Nat /\ audit'[e] \in Nat
                        /\ committed'[e] - audit'[e] = committed[e] - audit[e]
      OBVIOUS
    <3>1. committed[e] \in Nat /\ audit[e] \in Nat
      BY <1>1
    <3>2. CASE e = Entry(op, u)
      BY <2>1, <3>1, <3>2
    <3>3. CASE e # Entry(op, u)
      BY <2>1, <3>1, <3>3
    <3>4. QED
      BY <3>2, <3>3
  <2>4. QED
    BY <1>5, <1>6, <2>2, <2>3
(* Steps that commit a change.                                             *)
<1>7. CASE UserChanged(r) \/ UserDeleted(r)
  <2> DEFINE u == requests[r].target
             op == requests[r].op
             q == Request("changed", op, u, {})
             x == Entry(op, u)
  <2>1. /\ requests[r].st = "loaded" /\ op \in Changes
        /\ requests' = [requests EXCEPT ![r] = q]
        /\ committed' = [committed EXCEPT ![x] = @ + 1]
        /\ audit' = audit /\ lost' = lost
    BY <1>7 DEF UserChanged, UserDeleted, Loaded, Commits, Changes
  <2>2. q.st = "changed" /\ q.op = op /\ Entry(q.op, q.target) = x
    BY DEF Request
  <2>3. {audit, committed, lost} \subseteq Counts
    BY DEF AccountsTypeOK
  <2> HIDE DEF q, x
  <2>4. ASSUME NEW e \in Entries
        PROVE  committed'[e] = audit'[e] + Cardinality(Unlogged(e)') + lost'[e]
    <3>1. r \notin Unlogged(e)
      BY <2>1 DEF Unlogged
    <3>2. Unlogged(e)' = IF e = x THEN Unlogged(e) \union {r} ELSE Unlogged(e)
      <4>1. Unlogged(e)' = IF q.st = "changed" /\ Entry(q.op, q.target) = e
                           THEN Unlogged(e) \union {r} ELSE Unlogged(e) \ {r}
        BY <2>1, UnloggedAfter
      <4>2. Unlogged(e) \ {r} = Unlogged(e)
        BY <3>1
      <4>3. QED
        BY <2>2, <4>1, <4>2
    <3>3. Cardinality(Unlogged(e) \union {r}) = Cardinality(Unlogged(e)) + 1
      BY <1>1, <3>1, FS_AddElement
    <3>4. committed'[e] = IF e = x THEN committed[e] + 1 ELSE committed[e]
      BY <2>1, <2>3, OneMore
    <3>5. QED
      BY <1>1, <1>2, <2>1, <3>2, <3>3, <3>4
  <2>5. AuditIsFaithful'
    BY <2>4 DEF AuditIsFaithful
  <2>6. QED
    BY <1>4, <2>1, <2>2, <2>5
(* The step that logs one.                                                 *)
<1>8. CASE ChangeLogged(r)
  <2> DEFINE x == Entry(requests[r].op, requests[r].target)
  <2>1. /\ requests[r].st = "changed" /\ requests' = [requests EXCEPT ![r] = Ended]
        /\ audit' = [audit EXCEPT ![x] = @ + 1]
        /\ committed' = committed /\ lost' = lost
    BY <1>8 DEF ChangeLogged, Logs, Ends
  <2>2. {audit, committed, lost} \subseteq Counts
    BY DEF AccountsTypeOK
  <2> HIDE DEF x
  <2>3. ASSUME NEW e \in Entries
        PROVE  committed'[e] = audit'[e] + Cardinality(Unlogged(e)') + lost'[e]
    <3>1. r \in Unlogged(e) <=> e = x
      BY <2>1 DEF Unlogged, x
    <3>2. Unlogged(e)' = Unlogged(e) \ {r}
      BY <2>1, EndedTyped, UnloggedAfter
    <3>3. Cardinality(Unlogged(e) \ {r}) =
            IF e = x THEN Cardinality(Unlogged(e)) - 1 ELSE Cardinality(Unlogged(e))
      BY <1>1, <3>1, FS_RemoveElement
    <3>4. audit'[e] = IF e = x THEN audit[e] + 1 ELSE audit[e]
      BY <2>1, <2>2, OneMore
    <3>5. QED
      BY <1>1, <1>2, <2>1, <3>2, <3>3, <3>4
  <2>4. AuditIsFaithful'
    BY <2>3 DEF AuditIsFaithful
  <2>5. QED
    BY <1>4, <2>1, <2>4, EndedTyped
<1>9. CASE \E t \in Tokens, super \in BOOLEAN : UserCreated(r, t, super)
  BY <1>6, <1>9, EndedTyped DEF UserCreated, Checked, Ends
<1>10. CASE \E t \in Tokens : UserInvited(r, t)
  BY <1>6, <1>10, EndedTyped DEF UserInvited, Loaded, Ends
<1>11. CASE PasswordSet(r)
  BY <1>6, <1>11, EndedTyped DEF PasswordSet, Loaded, Ends
<1>12. ASSUME NEW q, requests' = [requests EXCEPT ![r] = q],
              q.st # "changed", requests[r].st # "changed",
              committed' = committed, audit' = audit, lost' = lost
       PROVE  AuditInv'
  BY <1>1, <1>5, <1>12
<1>13. CASE Fails(r) \/ BootstrapCreates(r)
  <2>1. requests[r].st # "changed" \/ requests[r].op \notin Changes
    BY <1>13 DEF Fails, BootstrapCreates, Checked, Changes, Flags
  <2>2. requests[r].st # "changed"
    BY <1>3, <2>1
  <2>3. QED
    BY <1>12, <1>13, <2>2, EndedTyped DEF Fails, BootstrapCreates, Ends
<1>14. ASSUME NEW op, NEW u, NEW rows, ToChecked(r, op, u, rows) PROVE AuditInv'
  <2> DEFINE q == Request("checked", op, u, rows)
  <2>1. q.st = "checked"
    BY DEF Request
  <2>2. /\ requests' = [requests EXCEPT ![r] = q] /\ requests[r].st = "idle"
        /\ committed' = committed /\ audit' = audit /\ lost' = lost
    BY <1>14 DEF ToChecked
  <2> HIDE DEF q
  <2>3. QED
    BY <1>12, <2>1, <2>2
<1>15. CASE DeleteLoads(r)
  BY <1>12, <1>15 DEF DeleteLoads, Checked, Request
<1>16. CASE UserLoaded(r)
  <2> DEFINE same == (Changed(users[requests[r].target], requests[r].op)
                        = users[requests[r].target])
             q == [requests[r] EXCEPT !.st = "loaded", !.same = same]
  <2>1. q.st = "loaded"
    BY DEF AccountsTypeOK, RequestRecords
  <2>2. /\ requests' = [requests EXCEPT ![r] = q] /\ requests[r].st = "checked"
        /\ committed' = committed /\ audit' = audit /\ lost' = lost
    BY <1>16 DEF UserLoaded
  <2> HIDE DEF q
  <2>3. QED
    BY <1>12, <2>1, <2>2
(* The step that loses one.                                                *)
<1>17. CASE DatabaseFails(r)
  <2>1. CASE requests[r].st # "changed"
    BY <1>12, <1>17, <2>1, EndedTyped DEF DatabaseFails, Ends
  <2>2. CASE requests[r].st = "changed"
    <3> DEFINE x == Entry(requests[r].op, requests[r].target)
    <3>1. /\ requests' = [requests EXCEPT ![r] = Ended]
          /\ lost' = [lost EXCEPT ![x] = @ + 1]
          /\ committed' = committed /\ audit' = audit
      BY <1>17, <2>2 DEF DatabaseFails, Ends
    <3>2. {audit, committed, lost} \subseteq Counts
      BY DEF AccountsTypeOK
    <3>3. \A e : r \in Unlogged(e) <=> e = x
      BY <2>2 DEF Unlogged
    <3> HIDE DEF x
    <3>4. ASSUME NEW e \in Entries
          PROVE  committed'[e] = audit'[e] + Cardinality(Unlogged(e)') + lost'[e]
      <4>1. Unlogged(e)' = Unlogged(e) \ {r}
        BY <3>1, EndedTyped, UnloggedAfter
      <4>2. Cardinality(Unlogged(e) \ {r}) =
              IF e = x THEN Cardinality(Unlogged(e)) - 1 ELSE Cardinality(Unlogged(e))
        BY <1>1, <3>3, FS_RemoveElement
      <4>3. lost'[e] = IF e = x THEN lost[e] + 1 ELSE lost[e]
        BY <3>1, <3>2, OneMore
      <4>4. QED
        BY <1>1, <1>2, <3>1, <4>1, <4>2, <4>3
    <3>5. AuditIsFaithful'
      BY <3>4 DEF AuditIsFaithful
    <3>6. QED
      BY <1>4, <3>1, <3>5, EndedTyped
  <2>3. QED
    BY <2>1, <2>2
<1>18. QED
  BY <1>7, <1>8, <1>9, <1>10, <1>11, <1>13, <1>14, <1>15, <1>16, <1>17
     DEF Step, BootstrapStep, BootstrapCounts, AdminStep, CreateAsked, ChangeAsked,
         PasswordStep, PasswordAsked

(* For any number of requests, failures and restarts, the audit log misses *)
(* only what was cut off between its two commits (users.py 158-228).       *)
THEOREM AuditIsFaithfulHolds == Spec => []AuditIsFaithful
<1>1. Init => AuditInv
  <2> SUFFICES ASSUME Init PROVE AuditInv
    OBVIOUS
  <2>1. \A r \in Requests : requests[r].st = "idle"
    BY EndedTyped DEF Init
  <2>2. \A e \in Entries : Unlogged(e) = {} /\ Cardinality(Unlogged(e)) = 0
    BY <2>1, FS_EmptySet DEF Unlogged
  <2>3. \A e \in Entries : committed[e] = 0 /\ audit[e] = 0 /\ lost[e] = 0
    BY DEF Init, Never
  <2>4. QED
    BY <2>1, <2>2, <2>3 DEF AuditInv, AuditIsFaithful
<1>2. ASSUME AccountsTypeOK, AuditInv, [Next]_vars PROVE AuditInv'
  <2>1. CASE Restart
    <3>1. \A r \in Requests : requests'[r].st = "idle"
      BY <2>1, EndedTyped DEF Restart
    <3>2. \A e \in Entries : Unlogged(e)' = {} /\ Cardinality(Unlogged(e)') = 0
      BY <3>1, FS_EmptySet DEF Unlogged
    <3>3. \A e \in Entries :
            /\ Cardinality(Unlogged(e)) \in Nat
            /\ committed[e] \in Nat /\ audit[e] \in Nat /\ lost[e] \in Nat
            /\ committed[e] = audit[e] + Cardinality(Unlogged(e)) + lost[e]
      BY <1>2, UnloggedFinite DEF AccountsTypeOK, Counts, AuditInv, AuditIsFaithful
    <3>4. /\ committed' = committed /\ audit' = audit
          /\ \A e \in Entries : lost'[e] = lost[e] + Cardinality(Unlogged(e))
      BY <2>1 DEF Restart
    <3>5. \A e \in Entries :
            committed'[e] = audit'[e] + Cardinality(Unlogged(e)') + lost'[e]
      BY <3>2, <3>3, <3>4
    <3>6. QED
      BY <3>1, <3>5 DEF AuditInv, AuditIsFaithful
  <2>2. CASE UNCHANGED vars
    BY <1>2, <2>2 DEF vars, AuditInv, AuditIsFaithful, Unlogged
  <2>3. ASSUME NEW t \in Tokens, Expires(t) PROVE AuditInv'
    BY <1>2, <2>3 DEF Expires, AuditInv, AuditIsFaithful, Unlogged
  <2>4. QED
    BY <1>2, <2>1, <2>2, <2>3, AuditStep DEF Next, Step
<1>3. QED
  BY <1>1, <1>2, AccountsTypeCorrect, PTL DEF Spec, AuditInv

-----------------------------------------------------------------------------
(* The inductive invariant.                                                *)

(* A user who must set a password has a token that is not used.            *)
MustChangeHasToken ==
  \A u \in Users : Present(u) /\ users[u].must => OpenTokens(u) # {}

(* A token without a use yet belongs to nobody, and a name never used owns *)
(* none.                                                                   *)
FreshTokens ==
  /\ \A t \in Tokens : tokens[t].st = "none" => tokens[t].user = None
  /\ \A u \in Users : users[u].st = "none" => \A t \in Tokens : tokens[t].user # u

(* The rows a request has loaded were its target's.                        *)
RowsOwned ==
  \A r \in Requests : \A t \in requests[r].rows :
    tokens[t].st # "none" /\ tokens[t].user \in {requests[r].target, None}

(* A set-password that will leave the flag alone, because it was clear     *)
(* when loaded, does not take the last token of a user whose flag was set  *)
(* since.                                                                  *)
LeavesAlone(r) ==
  requests[r].st = "loaded" /\ requests[r].op = "password" /\ requests[r].same
MustChange(u) == Present(u) /\ users[u].must
KeepsToken ==
  \A r \in Requests :
    LeavesAlone(r) /\ MustChange(requests[r].target)
      => \E t \in OpenTokens(requests[r].target) : t \notin requests[r].rows

TokenInv ==
  /\ FreshTokens
  /\ RowsOwned
  /\ KeepsToken
  /\ OneOpenToken
  /\ MustChangeHasToken

LEMMA OpenAfter ==
  \A u, t : /\ t \in OpenTokens(u) <=> /\ t \in Tokens
                                       /\ tokens[t].st = "open" /\ tokens[t].user = u
            /\ t \in OpenTokens(u)' <=> /\ t \in Tokens
                                        /\ tokens'[t].st = "open" /\ tokens'[t].user = u
BY DEF OpenTokens

(* Steps that leave the two tables alone.                                  *)
LEMMA TokenQuiet ==
  ASSUME AccountsTypeOK, TokenInv, NEW r \in Requests, NEW q \in RequestRecords,
         requests' = [requests EXCEPT ![r] = q],
         users' = users, tokens' = tokens,
         \A t \in q.rows : tokens[t].st # "none" /\ tokens[t].user \in {q.target, None},
         ~(q.st = "loaded" /\ q.op = "password" /\ q.same /\ MustChange(q.target))
  PROVE  TokenInv'
<1>1. requests'[r] = q /\ \A s \in Requests : s # r => requests'[s] = requests[s]
  BY DEF AccountsTypeOK
<1>2. FreshTokens' /\ OneOpenToken' /\ MustChangeHasToken'
  BY DEF TokenInv, FreshTokens, OneOpenToken, MustChangeHasToken, OpenTokens, Present
<1>3. RowsOwned'
  BY <1>1 DEF TokenInv, RowsOwned
<1>4. KeepsToken'
  <2>1. \A u : OpenTokens(u)' = OpenTokens(u) /\ MustChange(u)' = MustChange(u)
    BY DEF OpenTokens, MustChange, Present
  <2> SUFFICES ASSUME NEW s \in Requests, LeavesAlone(s)',
                      NEW v, v = requests'[s].target, MustChange(v)'
               PROVE  \E t \in OpenTokens(v)' : t \notin requests'[s].rows
    BY DEF KeepsToken, LeavesAlone, MustChange, OpenTokens, Present
  <2>2. s # r
    BY <1>1, <2>1 DEF LeavesAlone
  <2>3. requests'[s] = requests[s] /\ LeavesAlone(s) /\ v = requests[s].target
    BY <1>1, <2>2 DEF LeavesAlone
  <2>4. \E t \in OpenTokens(v) : t \notin requests[s].rows
    BY <2>1, <2>3 DEF TokenInv, KeepsToken
  <2>5. QED
    BY <2>1, <2>3, <2>4
<1>5. QED
  BY <1>2, <1>3, <1>4 DEF TokenInv

(* Steps that change the rows of one user u, and then have no rows loaded. *)
OfOne(r, q, u) ==
  /\ requests' = [requests EXCEPT ![r] = q]
  /\ q.rows = {} /\ q.st # "loaded"
  /\ users'[u].st # "none"
  /\ \A v \in Users : v # u => users'[v] = users[v]
  /\ \A t \in Tokens :
       \/ tokens'[t] = tokens[t]
       \/ tokens[t].st = "none" /\ tokens'[t] = Token("open", u)
       \/ /\ tokens[t].st # "none" /\ tokens[t].user \in {u, None}
          /\ tokens'[t].st \in {"used", "deleted"}
          /\ tokens'[t].user \in {tokens[t].user, None}
  /\ \A s, t \in OpenTokens(u)' : s = t
  /\ MustChange(u)' => OpenTokens(u)' # {}
  /\ \A s \in Requests \ {r} :
       LeavesAlone(s) /\ requests[s].target = u /\ MustChange(u)'
         => \E t \in OpenTokens(u)' : t \notin requests[s].rows

LEMMA TokensOfOne ==
  ASSUME AccountsTypeOK, TokenInv, NEW r \in Requests, NEW q \in RequestRecords,
         NEW u \in Users, OfOne(r, q, u)
  PROVE  TokenInv'
<1> USE AccountsAssumption DEF OfOne
<1>1. requests'[r] = q /\ \A s \in Requests : s # r => requests'[s] = requests[s]
  BY DEF AccountsTypeOK
<1>2. \A v \in Users : v # u => OpenTokens(v)' = OpenTokens(v)
  <2> SUFFICES ASSUME NEW v \in Users, v # u
               PROVE  \A t : t \in OpenTokens(v)' <=> t \in OpenTokens(v)
    OBVIOUS
  <2> SUFFICES ASSUME NEW t \in Tokens
               PROVE  t \in OpenTokens(v)' <=> t \in OpenTokens(v)
    BY OpenAfter
  <2>1. CASE tokens'[t] = tokens[t]
    BY <2>1, OpenAfter
  <2>2. CASE tokens[t].st = "none" /\ tokens'[t] = Token("open", u)
    BY <2>2, OpenAfter DEF Token
  <2>3. CASE /\ tokens[t].st # "none" /\ tokens[t].user \in {u, None}
             /\ tokens'[t].st \in {"used", "deleted"}
             /\ tokens'[t].user \in {tokens[t].user, None}
    BY <2>3, OpenAfter
  <2>4. QED
    BY <2>1, <2>2, <2>3
<1>3. FreshTokens'
  <2>1. ASSUME NEW t \in Tokens, tokens'[t].st = "none" PROVE tokens'[t].user = None
    BY <2>1 DEF TokenInv, FreshTokens, Token
  <2>2. ASSUME NEW v \in Users, users'[v].st = "none", NEW t \in Tokens
        PROVE  tokens'[t].user # v
    <3>1. v # u /\ users[v].st = "none"
      BY <2>2
    <3>2. tokens[t].user # v
      BY <3>1 DEF TokenInv, FreshTokens
    <3>3. QED
      BY <3>1, <3>2 DEF Token
  <2>3. QED
    BY <2>1, <2>2 DEF FreshTokens
<1>4. RowsOwned'
  <2> SUFFICES ASSUME NEW s \in Requests, NEW t \in requests'[s].rows
               PROVE  /\ tokens'[t].st # "none"
                      /\ tokens'[t].user \in {requests'[s].target, None}
    BY DEF RowsOwned
  <2>1. s # r /\ requests'[s] = requests[s]
    BY <1>1
  <2>2. t \in Tokens
    BY <2>1 DEF AccountsTypeOK, RequestRecords
  <2>3. tokens[t].st # "none" /\ tokens[t].user \in {requests[s].target, None}
    BY <2>1 DEF TokenInv, RowsOwned
  <2>4. QED
    BY <2>1, <2>2, <2>3
<1>5. OneOpenToken'
  BY <1>2 DEF TokenInv, OneOpenToken
<1>6. \A v \in Users : v # u => MustChange(v)' = MustChange(v)
  BY DEF MustChange, Present
<1>7. MustChangeHasToken'
  <2>1. \A v \in Users : MustChange(v)' => OpenTokens(v)' # {}
    BY <1>2, <1>6 DEF TokenInv, MustChangeHasToken, MustChange
  <2>2. QED
    BY <2>1 DEF MustChangeHasToken, MustChange
<1>8. KeepsToken'
  <2> SUFFICES ASSUME NEW s \in Requests, LeavesAlone(s)',
                      NEW v, v = requests'[s].target, MustChange(v)'
               PROVE  \E t \in OpenTokens(v)' : t \notin requests'[s].rows
    BY DEF KeepsToken, LeavesAlone, MustChange, OpenTokens, Present
  <2>1. s # r
    BY <1>1 DEF LeavesAlone
  <2>2. requests'[s] = requests[s] /\ LeavesAlone(s) /\ v = requests[s].target
    BY <1>1, <2>1 DEF LeavesAlone
  <2>3. CASE v = u
    BY <2>1, <2>2, <2>3
  <2>4. CASE v # u
    <3>1. v \in Users
      BY <2>2 DEF AccountsTypeOK, LeavesAlone
    <3>2. MustChange(v)
      BY <1>6, <2>4, <3>1
    <3>3. \E t \in OpenTokens(v) : t \notin requests[s].rows
      BY <2>2, <3>2 DEF TokenInv, KeepsToken
    <3>4. QED
      BY <1>2, <2>2, <2>4, <3>1, <3>3
  <2>5. QED
    BY <2>3, <2>4
<1>9. QED
  BY <1>3, <1>4, <1>5, <1>7, <1>8 DEF TokenInv

(* The steps that read.                                                    *)
LEMMA TokenReads ==
  ASSUME AccountsTypeOK, TokenInv, NEW r \in Requests, Step(r),
         users' = users, tokens' = tokens
  PROVE  TokenInv'
<1> USE AccountsAssumption
<1>1. requests[r] \in RequestRecords
  BY DEF AccountsTypeOK
<1>2. ASSUME NEW q \in RequestRecords, requests' = [requests EXCEPT ![r] = q],
             q.st # "loaded", q.rows = {}
      PROVE  TokenInv'
  BY <1>2, TokenQuiet
<1>3. ASSUME NEW op \in Operations \union {"bootstrap"}, NEW u \in Users,
             ToChecked(r, op, u, {})
      PROVE  TokenInv'
  <2> DEFINE q == Request("checked", op, u, {})
  <2>1. q \in RequestRecords /\ q.st # "loaded" /\ q.rows = {}
    BY DEF Request, RequestRecords
  <2>2. QED
    BY <1>2, <1>3, <2>1 DEF ToChecked
<1>4. CASE Ends(r)
  BY <1>2, <1>4, EndedTyped DEF Ends, Ended, Request
<1>5. CASE UserChanged(r) \/ UserDeleted(r)
  <2> DEFINE u == requests[r].target
  <2>1. PICK op \in Changes : requests' = [requests EXCEPT ![r] =
                                             Request("changed", op, u, {})]
    BY <1>5 DEF UserChanged, UserDeleted, Changes
  <2>2. u \in Users
    BY <1>5 DEF UserChanged, UserDeleted, Loaded, AccountsTypeOK
  <2>3. /\ Request("changed", op, u, {}) \in RequestRecords
        /\ Request("changed", op, u, {}).st # "loaded"
        /\ Request("changed", op, u, {}).rows = {}
    BY <2>2 DEF Request, RequestRecords, Operations
  <2>4. QED
    BY <1>2, <2>1, <2>3
<1>6. CASE DeleteLoads(r)
  <2> DEFINE u == requests[r].target
             q == Request("loaded", "delete", u, {t \in Tokens : tokens[t].user = u})
  <2>1. requests' = [requests EXCEPT ![r] = q]
    BY <1>6 DEF DeleteLoads
  <2>2. u \in Users
    BY <1>6 DEF DeleteLoads, Checked, AccountsTypeOK
  <2>3. /\ q \in RequestRecords /\ q.op = "delete" /\ q.target = u
        /\ q.rows = {t \in Tokens : tokens[t].user = u}
    BY <2>2 DEF Request, RequestRecords, Operations, Changes
  <2> HIDE DEF q
  <2>4. \A t \in q.rows : tokens[t].st # "none" /\ tokens[t].user \in {q.target, None}
    BY <2>2, <2>3 DEF TokenInv, FreshTokens
  <2>5. QED
    BY <2>1, <2>3, <2>4, TokenQuiet
<1>7. ASSUME NEW t \in Tokens, PasswordAsked(r, t) PROVE TokenInv'
  <2> DEFINE u == tokens[t].user
             q == Request("checked", "password", u, {t})
  <2>1. requests' = [requests EXCEPT ![r] = q] /\ u \in Users /\ tokens[t].st = "open"
    BY <1>7 DEF PasswordAsked, ToChecked, AccountsTypeOK
  <2>2. q \in RequestRecords /\ q.st = "checked" /\ q.target = u /\ q.rows = {t}
    BY <2>1 DEF Request, RequestRecords, Operations
  <2> HIDE DEF q
  <2>3. \A s \in q.rows : tokens[s].st # "none" /\ tokens[s].user \in {q.target, None}
    BY <2>1, <2>2
  <2>4. QED
    BY <2>1, <2>2, <2>3, TokenQuiet
<1>8. CASE UserLoaded(r)
  <2> DEFINE u == requests[r].target
             op == requests[r].op
             same == (Changed(users[u], op) = users[u])
             q == [requests[r] EXCEPT !.st = "loaded", !.same = same]
  <2>1. /\ requests' = [requests EXCEPT ![r] = q] /\ u \in Users
        /\ op \in Flags \union {"invite", "password"}
    BY <1>8 DEF UserLoaded, AccountsTypeOK
  <2>2. /\ q \in RequestRecords /\ q.target = u /\ q.op = op
        /\ q.rows = requests[r].rows /\ q.same = same
    BY <1>1 DEF RequestRecords
  <2>3. op = "password" /\ same => ~users[u].must
    BY <2>1, ChangedTyped DEF AccountsTypeOK
  <2>4. op = "password" /\ q.same => ~MustChange(u)
    BY <2>2, <2>3 DEF MustChange
  <2> HIDE DEF q
  <2>5. \A t \in q.rows : tokens[t].st # "none" /\ tokens[t].user \in {q.target, None}
    BY <2>2 DEF TokenInv, RowsOwned
  <2>6. QED
    BY <2>1, <2>2, <2>4, <2>5, TokenQuiet
<1>9. QED
  BY <1>3, <1>4, <1>5, <1>6, <1>7, <1>8
     DEF Step, BootstrapStep, BootstrapCounts, BootstrapCreates, AdminStep, CreateAsked,
         ChangeAsked, UserCreated, UserInvited, ChangeLogged, PasswordStep, PasswordSet,
         Fails, DatabaseFails, Operations

(* The steps that write.                                                   *)
LEMMA TokenWrites ==
  ASSUME AccountsTypeOK, TokenInv, NEW r \in Requests, Step(r)
  PROVE  TokenInv'
<1> USE AccountsAssumption
<1> SUFFICES ASSUME NEW u, u = requests[r].target
             PROVE  TokenInv'
  OBVIOUS
<1>1. users \in [Users -> UserRows] /\ tokens \in [Tokens -> TokenRows]
  BY DEF AccountsTypeOK
<1>2. requests[r].st # "idle" => u \in Users
  BY DEF AccountsTypeOK
<1>3. Ended.rows = {} /\ Ended.st # "loaded" /\ Ended \in RequestRecords
  BY EndedTyped DEF Ended, Request
<1>4. /\ Token("open", u).st = "open" /\ Token("open", u).user = u
      /\ Token("used", u).st = "used" /\ Token("used", u).user = u
      /\ Token("deleted", None).st = "deleted" /\ Token("deleted", None).user = None
      /\ NoToken.st = "none"
  BY DEF Token, NoToken
<1>5. \A s \in Requests : \A t \in requests[s].rows : t \in Tokens /\ tokens[t].st # "none"
  BY DEF TokenInv, RowsOwned, AccountsTypeOK, RequestRecords
<1>6. CASE BootstrapCreates(r)
  <2>1. User("present", TRUE, TRUE, FALSE).st = "present"
        /\ User("present", TRUE, TRUE, FALSE).must = FALSE
    BY DEF User
  <2>2. /\ u \in Users /\ users[u].st = "none"
        /\ requests' = [requests EXCEPT ![r] = Ended] /\ tokens' = tokens
        /\ users' = [users EXCEPT ![u] = User("present", TRUE, TRUE, FALSE)]
    BY <1>2, <1>6 DEF BootstrapCreates, Checked, Ends
  <2>3. users'[u].st # "none" /\ ~MustChange(u)'
        /\ \A v \in Users : v # u => users'[v] = users[v]
    BY <1>1, <2>1, <2>2 DEF MustChange
  <2>4. \A s, t \in OpenTokens(u)' : s = t
    BY <2>2 DEF TokenInv, OneOpenToken, OpenTokens
  <2>5. OfOne(r, Ended, u)
    BY <1>3, <2>2, <2>3, <2>4 DEF OfOne
  <2>6. QED
    BY <1>3, <2>2, <2>5, TokensOfOne
(* A token of its own replaces the ones before it.                         *)
<1>7. ASSUME NEW t \in Tokens, u \in Users, tokens[t] = NoToken,
             tokens' = Reissued(t, u), requests' = [requests EXCEPT ![r] = Ended],
             users'[u].st # "none", \A v \in Users : v # u => users'[v] = users[v]
      PROVE  TokenInv'
  <2>1. \A s \in Tokens :
          tokens'[s] = IF s = t THEN Token("open", u)
                       ELSE IF s \in OpenTokens(u) THEN Token("used", u)
                       ELSE tokens[s]
    BY <1>7 DEF Reissued
  <2>2. \A s \in Tokens : s # t => (s \in OpenTokens(u)' <=> FALSE)
    BY <1>4, <2>1, OpenAfter
  <2>3. t \in OpenTokens(u)'
    BY <1>4, <2>1, OpenAfter
  <2>4. \A s \in OpenTokens(u)' : s = t
    BY <2>2, OpenAfter
  <2>5. \A s \in Requests : t \notin requests[s].rows
    BY <1>4, <1>5, <1>7
  <2>6. \A s \in Tokens :
           \/ tokens'[s] = tokens[s]
           \/ tokens[s].st = "none" /\ tokens'[s] = Token("open", u)
           \/ /\ tokens[s].st # "none" /\ tokens[s].user \in {u, None}
              /\ tokens'[s].st \in {"used", "deleted"}
              /\ tokens'[s].user \in {tokens[s].user, None}
    BY <1>4, <1>7, <2>1, OpenAfter
  <2>7. /\ \A s, x \in OpenTokens(u)' : s = x
        /\ MustChange(u)' => OpenTokens(u)' # {}
        /\ \A s \in Requests \ {r} :
             LeavesAlone(s) /\ requests[s].target = u /\ MustChange(u)'
               => \E x \in OpenTokens(u)' : x \notin requests[s].rows
    BY <2>3, <2>4, <2>5
  <2>8. OfOne(r, Ended, u)
    BY <1>3, <1>7, <2>6, <2>7 DEF OfOne
  <2>9. QED
    BY <1>3, <1>7, <2>8, TokensOfOne
<1>8. ASSUME NEW t \in Tokens, NEW super \in BOOLEAN, UserCreated(r, t, super)
      PROVE  TokenInv'
  <2>1. User("present", super, TRUE, TRUE).st = "present"
    BY DEF User
  <2>2. /\ u \in Users /\ users[u].st = "none" /\ tokens[t] = NoToken
        /\ requests' = [requests EXCEPT ![r] = Ended]
        /\ users' = [users EXCEPT ![u] = User("present", super, TRUE, TRUE)]
        /\ tokens' = [tokens EXCEPT ![t] = Token("open", u)]
    BY <1>2, <1>8 DEF UserCreated, Checked, Ends
  <2>3. OpenTokens(u) = {}
    BY <2>2, OpenAfter DEF TokenInv, FreshTokens
  <2>4. tokens' = Reissued(t, u)
    BY <1>1, <2>2, <2>3 DEF Reissued
  <2>5. users'[u].st # "none" /\ \A v \in Users : v # u => users'[v] = users[v]
    BY <1>1, <2>1, <2>2
  <2>6. QED
    BY <1>7, <2>2, <2>4, <2>5
<1>9. ASSUME NEW t \in Tokens, UserInvited(r, t) PROVE TokenInv'
  <2>1. /\ u \in Users /\ requests[r].st = "loaded" /\ requests[r].op = "invite"
        /\ users[u].st = "present" /\ tokens[t] = NoToken
        /\ requests' = [requests EXCEPT ![r] = Ended]
        /\ users' = Written(r) /\ tokens' = Reissued(t, u)
    BY <1>2, <1>9 DEF UserInvited, Loaded, Ends, Present
  <2>2. users'[u].st # "none" /\ \A v \in Users : v # u => users'[v] = users[v]
    BY <2>1, WrittenTyped
  <2>3. QED
    BY <1>7, <2>1, <2>2
<1>10. CASE UserChanged(r)
  <2> DEFINE q == Request("changed", requests[r].op, u, {})
  <2>1. /\ u \in Users /\ requests[r].st = "loaded" /\ requests[r].op \in Flags
        /\ requests' = [requests EXCEPT ![r] = q]
        /\ users' = Written(r) /\ tokens' = tokens
    BY <1>2, <1>10 DEF UserChanged
  <2>2. q \in RequestRecords /\ q.st # "loaded" /\ q.rows = {}
    BY <2>1 DEF Request, RequestRecords, Operations, Changes
  <2> HIDE DEF q
  <2>3. /\ users'[u].st = users[u].st /\ users'[u].must = users[u].must
        /\ \A v \in Users : v # u => users'[v] = users[v]
    BY <2>1, WrittenTyped
  <2>4. OpenTokens(u)' = OpenTokens(u) /\ (MustChange(u)' <=> MustChange(u))
    BY <2>1, <2>3 DEF OpenTokens, MustChange, Present
  <2>5. CASE users[u].st = "none"
    <3>1. users' = users
      BY <2>1, <2>5, <1>10 DEF UserChanged, Present, Written
    <3>2. QED
      BY <2>1, <3>1, <1>10, TokenReads
  <2>6. CASE users[u].st # "none"
    <3>1. MustChange(u) => OpenTokens(u) # {}
      BY <2>1 DEF TokenInv, MustChangeHasToken, MustChange
    <3>2. \A s, t \in OpenTokens(u)' : s = t
      BY <2>1, <2>4 DEF TokenInv, OneOpenToken
    <3>3. \A s \in Requests \ {r} :
            LeavesAlone(s) /\ requests[s].target = u /\ MustChange(u)'
              => \E t \in OpenTokens(u)' : t \notin requests[s].rows
      BY <2>4 DEF TokenInv, KeepsToken
    <3>4. MustChange(u)' => OpenTokens(u)' # {}
      BY <2>4, <3>1
    <3>5. \A t \in Tokens : tokens'[t] = tokens[t]
      BY <2>1
    <3>6. /\ users'[u].st # "none" /\ u \in Users
          /\ \A v \in Users : v # u => users'[v] = users[v]
          /\ requests' = [requests EXCEPT ![r] = q]
      BY <2>1, <2>3, <2>6
    <3>7. OfOne(r, q, u)
      BY <2>2, <3>2, <3>3, <3>4, <3>5, <3>6 DEF OfOne
    <3>8. QED
      BY <2>1, <2>2, <3>7, TokensOfOne
  <2>7. QED
    BY <2>5, <2>6
<1>11. CASE UserDeleted(r)
  <2> DEFINE q == Request("changed", "delete", u, {})
             gone == User("deleted", FALSE, FALSE, FALSE)
  <2>1. /\ u \in Users /\ requests' = [requests EXCEPT ![r] = q]
        /\ users' = [users EXCEPT ![u] = gone]
        /\ \A t \in Tokens : tokens'[t] = IF t \in requests[r].rows
                                          THEN Token("deleted", None) ELSE tokens[t]
    BY <1>2, <1>11 DEF UserDeleted, Loaded
  <2>2. /\ q \in RequestRecords /\ q.st # "loaded" /\ q.rows = {}
        /\ gone.st = "deleted"
    BY <2>1 DEF Request, RequestRecords, Operations, Changes, User
  <2> HIDE DEF q, gone
  <2>3. users'[u].st = "deleted" /\ \A v \in Users : v # u => users'[v] = users[v]
    BY <1>1, <2>1, <2>2
  <2>4. ~MustChange(u)'
    BY <2>3 DEF MustChange, Present
  <2>5. \A t \in Tokens :
           \/ tokens'[t] = tokens[t]
           \/ /\ tokens[t].st # "none" /\ tokens[t].user \in {u, None}
              /\ tokens'[t].st \in {"used", "deleted"}
              /\ tokens'[t].user \in {tokens[t].user, None}
    BY <1>4, <2>1 DEF TokenInv, RowsOwned
  <2>6. \A t \in OpenTokens(u)' : t \in OpenTokens(u)
    BY <1>4, <2>1, OpenAfter
  <2>7. \A s, t \in OpenTokens(u)' : s = t
    BY <2>1, <2>6 DEF TokenInv, OneOpenToken
  <2>8. OfOne(r, q, u)
    BY <2>1, <2>2, <2>3, <2>4, <2>5, <2>7 DEF OfOne
  <2>9. QED
    BY <2>1, <2>2, <2>8, TokensOfOne
<1>12. CASE PasswordSet(r)
  <2>1. /\ u \in Users /\ requests[r].st = "loaded" /\ requests[r].op = "password"
        /\ users[u].st = "present"
        /\ requests' = [requests EXCEPT ![r] = Ended] /\ users' = Written(r)
    BY <1>2, <1>12 DEF PasswordSet, Loaded, Ends, Present
  <2>2. PICK x \in requests[r].rows : tokens' = Consumed(x)
    BY <1>12 DEF PasswordSet
  <2>3. x \in Tokens /\ tokens[x].st # "none" /\ tokens[x].user \in {u, None}
    BY <1>5 DEF TokenInv, RowsOwned
  <2>4. /\ tokens'[x].st = "used" /\ tokens'[x].user = tokens[x].user
        /\ \A t \in Tokens : t # x => tokens'[t] = tokens[t]
    BY <1>1, <2>2, <2>3 DEF Consumed, TokenRows
  <2>5. /\ users'[u].st = "present" /\ \A v \in Users : v # u => users'[v] = users[v]
        /\ ~users'[u].must \/ (requests[r].same /\ users' = users)
    BY <2>1, WrittenTyped
  <2>6. \A t : t \in OpenTokens(u)' <=> t \in OpenTokens(u) /\ t # x
    BY <2>3, <2>4, OpenAfter
  <2>7. \A s, t \in OpenTokens(u) : s = t
    BY <2>1 DEF TokenInv, OneOpenToken
  (* The flag was clear when it was loaded and has been set since: the     *)
  (* open token is a later one.                                            *)
  <2>8. ASSUME MustChange(u)'
        PROVE  /\ OpenTokens(u)' # {}
               /\ \A s \in Requests :
                    LeavesAlone(s) /\ requests[s].target = u
                      => \E t \in OpenTokens(u)' : t \notin requests[s].rows
    <3>1. requests[r].same /\ MustChange(u)
      BY <2>5, <2>8 DEF MustChange, Present
    <3>2. \A s \in Requests :
            LeavesAlone(s) /\ requests[s].target = u
              => \E t \in OpenTokens(u) : t \notin requests[s].rows
      BY <3>1 DEF TokenInv, KeepsToken
    <3>3. LeavesAlone(r)
      BY <2>1, <3>1 DEF LeavesAlone
    <3>4. PICK y \in OpenTokens(u) : y \notin requests[r].rows
      BY <3>2, <3>3
    <3>5. y \in OpenTokens(u)'
      BY <2>6, <3>4
    <3>6. QED
      BY <2>7, <3>2, <3>4, <3>5
  <2>9. \A t \in Tokens :
           \/ tokens'[t] = tokens[t]
           \/ /\ tokens[t].st # "none" /\ tokens[t].user \in {u, None}
              /\ tokens'[t].st \in {"used", "deleted"}
              /\ tokens'[t].user \in {tokens[t].user, None}
    BY <2>3, <2>4
  <2>10. \A s, t \in OpenTokens(u)' : s = t
    BY <2>6, <2>7
  <2>11. /\ MustChange(u)' => OpenTokens(u)' # {}
         /\ \A s \in Requests \ {r} :
              LeavesAlone(s) /\ requests[s].target = u /\ MustChange(u)'
                => \E t \in OpenTokens(u)' : t \notin requests[s].rows
    BY <2>8
  <2>12. /\ users'[u].st # "none" /\ u \in Users
         /\ \A v \in Users : v # u => users'[v] = users[v]
         /\ requests' = [requests EXCEPT ![r] = Ended]
    BY <2>1, <2>5
  <2>13. OfOne(r, Ended, u)
    BY <1>3, <2>9, <2>10, <2>11, <2>12 DEF OfOne
  <2>14. QED
    BY <1>3, <2>12, <2>13, TokensOfOne
<1>13. QED
  BY <1>6, <1>8, <1>9, <1>10, <1>11, <1>12, TokenReads
     DEF Step, BootstrapStep, BootstrapCounts, AdminStep, CreateAsked, ChangeAsked,
         DeleteLoads, ChangeLogged, PasswordStep, PasswordAsked, ToChecked,
         UserLoaded, Fails, DatabaseFails

LEMMA TokenInvHolds == Spec => []TokenInv
<1>1. Init => TokenInv
  <2> SUFFICES ASSUME Init PROVE TokenInv
    OBVIOUS
  <2>1. /\ \A u \in Users : users[u].st = "none"
        /\ \A t \in Tokens : tokens[t].st = "none" /\ tokens[t].user = None
        /\ \A r \in Requests : requests[r].st = "idle" /\ requests[r].rows = {}
    BY DEF Init, NoUser, User, NoToken, Token, Ended, Request
  <2>2. None \notin Users
    BY AccountsAssumption
  <2>3. \A u : OpenTokens(u) = {}
    BY <2>1 DEF OpenTokens
  <2>4. QED
    BY <2>1, <2>2, <2>3 DEF TokenInv, FreshTokens, RowsOwned, KeepsToken, LeavesAlone,
       OneOpenToken, MustChangeHasToken, Present
<1>2. ASSUME AccountsTypeOK, TokenInv, [Next]_vars PROVE TokenInv'
  <2>1. CASE Restart
    <3>1. \A r \in Requests : requests'[r].st = "idle" /\ requests'[r].rows = {}
      BY <2>1 DEF Restart, Ended, Request
    <3>2. users' = users /\ tokens' = tokens
      BY <2>1 DEF Restart
    <3>3. FreshTokens' /\ OneOpenToken' /\ MustChangeHasToken'
      BY <1>2, <3>2
         DEF TokenInv, FreshTokens, OneOpenToken, MustChangeHasToken, OpenTokens, Present
    <3>4. QED
      BY <3>1, <3>3 DEF TokenInv, RowsOwned, KeepsToken, LeavesAlone
  <2>2. CASE UNCHANGED vars
    BY <1>2, <2>2 DEF vars, TokenInv, FreshTokens, RowsOwned, KeepsToken, LeavesAlone,
       MustChange, OneOpenToken, MustChangeHasToken, OpenTokens, Present
  <2>3. ASSUME NEW t \in Tokens, Expires(t) PROVE TokenInv'
    BY <1>2, <2>3 DEF Expires, TokenInv, FreshTokens, RowsOwned, KeepsToken, LeavesAlone,
       MustChange, OneOpenToken, MustChangeHasToken, OpenTokens, Present
  <2>4. QED
    BY <1>2, <2>1, <2>2, <2>3, TokenWrites DEF Next, Step
<1>3. QED
  BY <1>1, <1>2, AccountsTypeCorrect, PTL DEF Spec

(* However many invitations, passwords and deletions interleave, a user    *)
(* has one open token at most (users.py 126-142).                          *)
THEOREM OneOpenTokenHolds == Spec => []OneOpenToken
<1>1. TokenInv => OneOpenToken
  BY DEF TokenInv
<1>2. QED
  BY <1>1, TokenInvHolds, PTL

(* A token is open after a step because it was so before, or because it is *)
(* new.                                                                    *)
LEMMA OpenBefore ==
  ASSUME AccountsTypeOK, NEW r \in Requests, Step(r), NEW t \in Tokens
  PROVE  /\ tokens'[t].st = "open" => tokens'[t] = tokens[t] \/ tokens[t].st = "none"
         /\ tokens'[t].st = "none" => tokens[t].st = "none"
<1>1. tokens \in [Tokens -> TokenRows] /\ NoToken.st = "none"
  BY DEF AccountsTypeOK, NoToken, Token
<1>2. ASSUME NEW x \in Tokens, NEW super \in BOOLEAN, UserCreated(r, x, super)
      PROVE  t # x => tokens'[t] = tokens[t]
  BY <1>1, <1>2 DEF UserCreated
<1>3. ASSUME NEW x \in Tokens, UserInvited(r, x)
      PROVE  t # x => tokens'[t] = tokens[t] \/ tokens'[t].st = "used"
  BY <1>1, <1>3 DEF UserInvited, Reissued, Token
<1>4. CASE UserDeleted(r)
  BY <1>1, <1>4 DEF UserDeleted, Token
<1>5. CASE PasswordSet(r)
  <2>1. PICK x \in Tokens : tokens' = Consumed(x)
    BY <1>5 DEF PasswordSet, AccountsTypeOK, RequestRecords
  <2>2. t # x => tokens'[t] = tokens[t]
    BY <1>1, <2>1 DEF Consumed
  <2>3. t = x => tokens'[t].st = "used"
    BY <1>1, <2>1 DEF Consumed, TokenRows
  <2>4. QED
    BY <2>2, <2>3
<1>6. ASSUME NEW x \in Tokens,
             UserInvited(r, x) \/ \E super \in BOOLEAN : UserCreated(r, x, super)
      PROVE  tokens[x].st = "none" /\ tokens'[x].st = "open"
  <2>1. tokens[x] = NoToken
    BY <1>6 DEF UserCreated, UserInvited
  <2>2. tokens'[x] = Token("open", requests[r].target)
    BY <1>1, <1>6 DEF UserCreated, UserInvited, Reissued
  <2>3. QED
    BY <1>1, <2>1, <2>2 DEF Token
<1>7. CASE tokens' = tokens
  BY <1>7
<1>8. QED
  BY <1>2, <1>3, <1>4, <1>5, <1>6, <1>7
     DEF Step, BootstrapStep, BootstrapCounts, BootstrapCreates, AdminStep, CreateAsked,
         ChangeAsked, UserChanged, DeleteLoads, ChangeLogged, PasswordStep,
         PasswordAsked, ToChecked, UserLoaded, Fails, DatabaseFails

(* Who has to set a password had to before, or has a new token.            *)
LEMMA MustBefore ==
  ASSUME AccountsTypeOK, NEW r \in Requests, Step(r), NEW u \in Users, MustChange(u)'
  PROVE  MustChange(u) \/ \E x \in OpenTokens(u)' : tokens[x].st = "none"
<1> DEFINE v == requests[r].target
<1>1. /\ users \in [Users -> UserRows] /\ tokens \in [Tokens -> TokenRows]
      /\ requests[r].st # "idle" => v \in Users
      /\ NoToken.st = "none"
  BY DEF AccountsTypeOK, NoToken, Token
<1>2. ASSUME users'[u].st = users[u].st, users'[u].must = users[u].must
      PROVE  MustChange(u)
  BY <1>2 DEF MustChange, Present
<1>3. CASE BootstrapCreates(r)
  BY <1>1, <1>2, <1>3 DEF BootstrapCreates, Checked, User, MustChange
<1>4. ASSUME NEW x \in Tokens, u = v, tokens[x] = NoToken, tokens'[x] = Token("open", v)
      PROVE  \E y \in OpenTokens(u)' : tokens[y].st = "none"
  BY <1>1, <1>4, OpenAfter DEF Token
<1>5. ASSUME NEW x \in Tokens, NEW super \in BOOLEAN, UserCreated(r, x, super)
      PROVE  MustChange(u) \/ \E y \in OpenTokens(u)' : tokens[y].st = "none"
  <2>1. u # v => users'[u] = users[u]
    BY <1>1, <1>5 DEF UserCreated, Checked
  <2>2. tokens[x] = NoToken /\ tokens'[x] = Token("open", v)
    BY <1>1, <1>5 DEF UserCreated
  <2>3. QED
    BY <1>2, <1>4, <2>1, <2>2
<1>6. ASSUME NEW x \in Tokens, UserInvited(r, x)
      PROVE  MustChange(u) \/ \E y \in OpenTokens(u)' : tokens[y].st = "none"
  <2>1. /\ requests[r].st = "loaded" /\ requests[r].op = "invite"
        /\ users' = Written(r)
    BY <1>6 DEF UserInvited, Loaded
  <2>2. u # v => users'[u] = users[u]
    BY <2>1, WrittenTyped
  <2>3. tokens[x] = NoToken /\ tokens'[x] = Token("open", v)
    BY <1>1, <1>6 DEF UserInvited, Reissued
  <2>4. QED
    BY <1>2, <1>4, <2>2, <2>3
<1>7. CASE UserChanged(r)
  <2>1. /\ requests[r].st = "loaded" /\ requests[r].op \in Flags
        /\ users' = Written(r)
    BY <1>7 DEF UserChanged
  <2>2. users'[u].st = users[u].st /\ users'[u].must = users[u].must
    BY <2>1, WrittenTyped
  <2>3. QED
    BY <1>2, <2>2
<1>8. CASE UserDeleted(r)
  BY <1>1, <1>2, <1>8 DEF UserDeleted, User, MustChange, Present
<1>9. CASE PasswordSet(r)
  <2>1. /\ requests[r].st = "loaded" /\ requests[r].op = "password"
        /\ users' = Written(r)
    BY <1>9 DEF PasswordSet, Loaded
  <2>2. /\ u # v => users'[u] = users[u]
        /\ ~users'[v].must \/ users' = users
    BY <2>1, WrittenTyped
  <2>3. users'[u].must
    BY DEF MustChange
  <2>4. users'[u] = users[u]
    BY <2>2, <2>3
  <2>5. QED
    BY <1>2, <2>4
<1>10. CASE users' = users
  BY <1>2, <1>10
<1>11. QED
  BY <1>3, <1>5, <1>6, <1>7, <1>8, <1>9, <1>10
     DEF Step, BootstrapStep, BootstrapCounts, AdminStep, CreateAsked, ChangeAsked,
         DeleteLoads, ChangeLogged, PasswordStep, PasswordAsked, ToChecked, UserLoaded,
         Fails, DatabaseFails

(* A token without a use yet has not expired.                              *)
NewAreValid == \A t \in expired : tokens[t].st # "none"

LEMMA NewAreValidHolds == Spec => []NewAreValid
<1>1. Init => NewAreValid
  BY DEF Init, NewAreValid
<1>2. ASSUME AccountsTypeOK, NewAreValid, [Next]_vars PROVE NewAreValid'
  <2>1. ASSUME NEW r \in Requests, Step(r) PROVE NewAreValid'
    BY <1>2, <2>1, OpenBefore, StepExpiresNone DEF NewAreValid, AccountsTypeOK
  <2>2. ASSUME NEW t \in Tokens, Expires(t) PROVE NewAreValid'
    BY <1>2, <2>2 DEF Expires, NewAreValid
  <2>3. CASE Restart \/ UNCHANGED vars
    BY <1>2, <2>3 DEF Restart, vars, NewAreValid
  <2>4. QED
    BY <1>2, <2>1, <2>2, <2>3 DEF Next, Step
<1>3. QED
  BY <1>1, <1>2, AccountsTypeCorrect, PTL DEF Spec

(* However many invitations, passwords and deletions interleave, a user    *)
(* who must set a password loses the way to do it only when the token      *)
(* expires: there is a token that is not used, and it is the valid one     *)
(* there was, or newer (users.py 64-83, 126-149, auth.py 122-149).         *)
THEOREM OnlyTimeLocksOutHolds == Spec => OnlyTimeLocksOut
<1> DEFINE A == \A u \in Users : LockedOut(u)' => LockedOut(u) \/ expired' # expired
<1>1. ASSUME AccountsTypeOK, TokenInv, TokenInv', NewAreValid, [Next]_vars
      PROVE  [A]_vars
  <2> SUFFICES ASSUME NEW u \in Users, LockedOut(u)', expired' = expired
               PROVE  LockedOut(u)
    OBVIOUS
  <2>1. PICK t : t \in OpenTokens(u)' /\ t \in expired
    BY <1>1 DEF LockedOut, TokenInv, MustChangeHasToken
  <2>2. t \in Tokens /\ tokens'[t].st = "open" /\ tokens'[t].user = u
    BY <2>1, OpenAfter
  <2>3. CASE users' = users /\ tokens' = tokens
    BY <2>3 DEF LockedOut, OpenTokens, Present
  <2>4. ASSUME NEW r \in Requests, Step(r) PROVE LockedOut(u)
    <3>1. tokens'[t] = tokens[t]
      BY <1>1, <2>1, <2>2, <2>4, OpenBefore DEF NewAreValid
    <3>2. t \in OpenTokens(u)
      BY <2>2, <3>1, OpenAfter
    <3>3. OpenTokens(u) \subseteq expired
      BY <1>1, <2>1, <3>2 DEF TokenInv, OneOpenToken
    <3>4. MustChange(u)
      <4>1. ASSUME NEW x \in OpenTokens(u)' PROVE tokens[x].st # "none"
        <5>1. x = t
          BY <1>1, <2>1, <4>1 DEF TokenInv, OneOpenToken
        <5>2. QED
          BY <2>2, <3>1, <5>1
      <4>2. MustChange(u)'
        BY DEF LockedOut, MustChange, Present
      <4>3. QED
        BY <1>1, <2>4, <4>1, <4>2, MustBefore
    <3>5. QED
      BY <3>3, <3>4 DEF LockedOut, MustChange
  <2>5. QED
    BY <1>1, <2>3, <2>4 DEF Next, Step, Restart, Expires, vars
<1>2. QED
  BY <1>1, AccountsTypeCorrect, TokenInvHolds, NewAreValidHolds, PTL
     DEF Spec, OnlyTimeLocksOut
=============================================================================
