------------------------------ MODULE Accounts ------------------------------
(***************************************************************************)
(* User administration: bootstrap of the first superuser, the superuser    *)
(* routes that create, invite, change and delete users, and set-password.  *)
(* The routes run in a thread pool, each with its own database session, so *)
(* the requests interleave between a query that checks and the transaction *)
(* that writes, and between two commits.  A transaction holds SQLite's     *)
(* write lock from its first write to its commit and is one action.  A     *)
(* request ends early when the database fails it (it is locked) or when    *)
(* the server restarts; the database survives.  Tokens expire.             *)
(***************************************************************************)
EXTENDS Integers, FiniteSets, Functions

CONSTANTS
  None,
  Users,     \* identities of users
  Tokens,    \* identities of password-set tokens
  Requests,  \* concurrent requests
  MaxLog,    \* bound on the mutations of a run
  MaxExpired \* bound on the tokens that expire in a run

ASSUME AccountsAssumption ==
  /\ None \notin Users \union Tokens
  /\ IsFiniteSet(Requests)
  /\ {MaxLog, MaxExpired} \subseteq Nat

VARIABLES
  users,     \* table users
  tokens,    \* table user_password_set_tokens
  expired,   \* the tokens whose expires_at is past
  audit,     \* table audit_log: how often it names each mutation
  requests,  \* requests under way
  committed, \* history: how often each mutation was committed
  lost       \* history: how often one was cut off from its entry

vars == <<users, tokens, expired, audit, requests, committed, lost>>

-----------------------------------------------------------------------------
User(st, super, active, must) ==
  [st |-> st, super |-> super, active |-> active, must |-> must]
UserRows == [st : {"none", "present", "deleted"}, super : BOOLEAN,
             active : BOOLEAN, must : BOOLEAN]
NoUser == User("none", FALSE, FALSE, FALSE)
Present(u) == users[u].st = "present"

(* A token is open until used_at is set, whether or not it has expired.    *)
Token(st, user) == [st |-> st, user |-> user]
TokenRows == [st : {"none", "open", "used", "deleted"}, user : Users \union {None}]
NoToken == Token("none", None)
OpenTokens(u) == {t \in Tokens : tokens[t].st = "open" /\ tokens[t].user = u}

(* The admin routes that change one row and then log it, each in a         *)
(* transaction of its own.                                                 *)
Flags == {"disable", "enable", "promote", "demote"}
Changes == Flags \union {"delete"}
Operations == Changes \union {"create", "invite", "password"}

Entries == [op : Operations, target : Users]
Entry(op, target) == [op |-> op, target |-> target]
Counts == [Entries -> Nat]
Never == [e \in Entries |-> 0]

(* "checked": past the check of the route; "loaded": the rows to write are *)
(* loaded; "changed": the change is committed, its audit entry is not.     *)
(* rows: the token of a set-password, the ones a delete cascades to.       *)
(* same: the loaded flag has its new value already, so that the ORM leaves *)
(* the column alone.                                                       *)
Request(st, op, target, rows) ==
  [st |-> st, op |-> op, target |-> target, rows |-> rows, same |-> FALSE]
RequestRecords ==
  [st : {"idle", "checked", "loaded", "changed"},
   op : Operations \union {"bootstrap", None}, target : Users \union {None},
   rows : SUBSET Tokens, same : BOOLEAN]
Ended == Request("idle", None, None, {})

Init ==
  /\ users = [u \in Users |-> NoUser]
  /\ tokens = [t \in Tokens |-> NoToken]
  /\ expired = {}
  /\ audit = Never
  /\ requests = [r \in Requests |-> Ended]
  /\ committed = Never
  /\ lost = Never

-----------------------------------------------------------------------------
ToChecked(r, op, target, rows) ==
  /\ requests[r].st = "idle"
  /\ requests' = [requests EXCEPT ![r] = Request("checked", op, target, rows)]
  /\ UNCHANGED <<users, tokens, expired, audit, committed, lost>>

Checked(r, op) == requests[r].st = "checked" /\ requests[r].op = op
Loaded(r, op) == requests[r].st = "loaded" /\ requests[r].op = op

Ends(r) == requests' = [requests EXCEPT ![r] = Ended]

(* The name is taken; one() finds no row; or an UPDATE does not (a DELETE  *)
(* that finds none is only a warning).  Nothing is committed.              *)
Fails(r) ==
  LET q == requests[r] IN
  /\ \/ /\ q.op \in {"bootstrap", "create"}
        /\ users[q.target].st # "none"
     \/ /\ q.op \in Operations \ {"create"}
        /\ ~Present(q.target)
        /\ \/ q.st = "checked"
           \/ q.st = "loaded" /\ q.op # "delete" /\ ~(q.op \in Flags /\ q.same)
  /\ Ends(r)
  /\ UNCHANGED <<users, tokens, expired, audit, committed, lost>>

(* Bound.                                                                  *)
LogLeft == FoldFunction(+, 0, committed) < MaxLog

Commits(op, target) == committed' = [committed EXCEPT ![Entry(op, target)] = @ + 1]
Logs(op, target) == audit' = [audit EXCEPT ![Entry(op, target)] = @ + 1]

(* Mutant: the audit entry is left out of the transaction.                 *)
CommitsUnlogged(op, target) ==
  LogLeft /\ Commits(op, target) /\ UNCHANGED <<expired, audit, lost>>

(* A mutation and its audit entry in one transaction.                      *)
CommitsAndLogs(op, target) ==
  LogLeft /\ Commits(op, target) /\ Logs(op, target) /\ UNCHANGED <<expired, lost>>

-----------------------------------------------------------------------------
(* Updates of a user's row: loaded by the repository, changed in memory,   *)
(* and written with the columns that differ from what was loaded.          *)

Changed(user, op) ==
  CASE op = "disable"  -> [user EXCEPT !.active = FALSE]
    [] op = "enable"   -> [user EXCEPT !.active = TRUE]
    [] op = "promote"  -> [user EXCEPT !.super = TRUE]
    [] op = "demote"   -> [user EXCEPT !.super = FALSE]
    [] op = "invite"   -> [user EXCEPT !.must = TRUE]
    [] op = "password" -> [user EXCEPT !.must = FALSE]

UserLoaded(r) ==
  LET u == requests[r].target
      op == requests[r].op
  IN
  /\ requests[r].st = "checked"
  /\ op \in Flags \union {"invite", "password"}
  /\ Present(u)
  /\ requests' = [requests EXCEPT ![r] =
       [@ EXCEPT !.st = "loaded", !.same = (Changed(users[u], op) = users[u])]]
  /\ UNCHANGED <<users, tokens, expired, audit, committed, lost>>

Written(r) ==
  IF requests[r].same THEN users
  ELSE [users EXCEPT ![requests[r].target] = Changed(@, requests[r].op)]

-----------------------------------------------------------------------------
(* BootstrapService.                                                       *)

(* is_bootstrapped: the users are counted.                                 *)
BootstrapCounts(r, u) ==
  /\ \A v \in Users : ~Present(v)
  /\ users[u].st = "none"
  /\ ToChecked(r, "bootstrap", u, {})

BootstrapCreates(r) ==
  LET u == requests[r].target IN
  /\ Checked(r, "bootstrap")
  /\ users[u].st = "none"
  /\ users' = [users EXCEPT ![u] = User("present", TRUE, TRUE, FALSE)]
  /\ Ends(r)
  /\ UNCHANGED <<tokens, expired, audit, committed, lost>>

-----------------------------------------------------------------------------
(* The superuser routes.                                                   *)

(* require_superuser.                                                      *)
SuperuserAsks == \E u \in Users : Present(u) /\ users[u].super /\ users[u].active

CreateAsked(r, u) ==
  /\ SuperuserAsks
  /\ users[u].st = "none"
  /\ ToChecked(r, "create", u, {})

(* create_user: the user and its first token.                              *)
UserCreated(r, t, super) ==
  LET u == requests[r].target IN
  /\ Checked(r, "create")
  /\ users[u].st = "none"
  /\ tokens[t] = NoToken
  /\ users' = [users EXCEPT ![u] = User("present", super, TRUE, TRUE)]
  /\ tokens' = [tokens EXCEPT ![t] = Token("open", u)]
  /\ CommitsAndLogs("create", u)
  /\ Ends(r)

(* invite_user and the routes of Changes begin with the guard; invite_user *)
(* also looks the user up.                                                 *)
ChangeAsked(r, op, u) ==
  /\ SuperuserAsks
  /\ users[u].st # "none"
  /\ op = "invite" => Present(u)
  /\ ToChecked(r, op, u, {})

(* Mutant: the tokens of all users are invalidated.                        *)
AllInvalidated(t, u) ==
  [s \in Tokens |-> IF s = t THEN Token("open", u)
                    ELSE IF tokens[s].st = "open" THEN [tokens[s] EXCEPT !.st = "used"]
                    ELSE tokens[s]]

(* Mutant: the old tokens are left alone.                                  *)
NotInvalidated(t, u) == [tokens EXCEPT ![t] = Token("open", u)]

(* invalidate_previous, then create_token.                                 *)
Reissued(t, u) ==
  [s \in Tokens |-> IF s = t THEN Token("open", u)
                    ELSE IF s \in OpenTokens(u) THEN Token("used", u)
                    ELSE tokens[s]]

UserInvited(r, t) ==
  LET u == requests[r].target IN
  /\ Loaded(r, "invite")
  /\ Present(u)
  /\ tokens[t] = NoToken
  /\ users' = Written(r)
  /\ tokens' = Reissued(t, u)
  /\ CommitsAndLogs("invite", u)
  /\ Ends(r)

(* The first commit of disable, enable, promote and demote; there may be   *)
(* nothing to write.                                                       *)
UserChanged(r) ==
  LET u == requests[r].target
      op == requests[r].op
  IN
  /\ requests[r].st = "loaded"
  /\ op \in Flags
  /\ requests[r].same \/ Present(u)
  /\ LogLeft
  /\ users' = Written(r)
  /\ Commits(op, u)
  /\ requests' = [requests EXCEPT ![r] = Request("changed", op, u, {})]
  /\ UNCHANGED <<tokens, expired, audit, lost>>

(* db.delete loads the tokens it cascades to before it writes.             *)
DeleteLoads(r) ==
  /\ Checked(r, "delete")
  /\ Present(requests[r].target)
  /\ requests' = [requests EXCEPT ![r] =
       Request("loaded", "delete", @.target,
               {t \in Tokens : tokens[t].user = requests[r].target})]
  /\ UNCHANGED <<users, tokens, expired, audit, committed, lost>>

(* A token created since is left without its user.                         *)
UserDeleted(r) ==
  LET u == requests[r].target IN
  /\ Loaded(r, "delete")
  /\ LogLeft
  /\ users' = [users EXCEPT ![u] = User("deleted", FALSE, FALSE, FALSE)]
  /\ tokens' = [t \in Tokens |-> IF t \in requests[r].rows
                                 THEN Token("deleted", None) ELSE tokens[t]]
  /\ Commits("delete", u)
  /\ requests' = [requests EXCEPT ![r] = Request("changed", "delete", u, {})]
  /\ UNCHANGED <<expired, audit, lost>>

(* The second commit.                                                      *)
ChangeLogged(r) ==
  /\ requests[r].st = "changed"
  /\ Logs(requests[r].op, requests[r].target)
  /\ Ends(r)
  /\ UNCHANGED <<users, tokens, expired, committed, lost>>

-----------------------------------------------------------------------------
(* set_password, by the holder of a token.                                 *)

(* A day passes: PASSWORD_SET_TOKEN_EXPIRE_HOURS.                          *)
Expires(t) ==
  /\ tokens[t].st = "open"
  /\ t \notin expired
  /\ Cardinality(expired) < MaxExpired
  /\ expired' = expired \union {t}
  /\ UNCHANGED <<users, tokens, audit, requests, committed, lost>>

(* The token is open and has not expired, its user is present and active.  *)
PasswordAsked(r, t) ==
  LET u == tokens[t].user IN
  /\ tokens[t].st = "open"
  /\ t \notin expired
  /\ Present(u)
  /\ users[u].active
  /\ ToChecked(r, "password", u, {t})

(* Mutant: the row of the token is removed.                                *)
Removed(t) == [s \in Tokens \ {t} |-> tokens[s]]

Consumed(t) == [tokens EXCEPT ![t] = [@ EXCEPT !.st = "used"]]

(* The rows are written by key, without another look at what was checked.  *)
PasswordSet(r) ==
  LET u == requests[r].target IN
  /\ Loaded(r, "password")
  /\ Present(u)
  /\ users' = Written(r)
  /\ \E t \in requests[r].rows : tokens' = Consumed(t)
  /\ CommitsAndLogs("password", u)
  /\ Ends(r)

-----------------------------------------------------------------------------
(* What cuts requests off.                                                 *)

(* A query or a commit fails, and the transaction is rolled back.          *)
DatabaseFails(r) ==
  /\ requests[r].st # "idle"
  /\ Ends(r)
  /\ lost' = IF requests[r].st = "changed"
             THEN [lost EXCEPT ![Entry(requests[r].op, requests[r].target)] = @ + 1]
             ELSE lost
  /\ UNCHANGED <<users, tokens, expired, audit, committed>>

(* The requests that have committed a mutation e and not yet logged it.    *)
Unlogged(e) ==
  {r \in Requests :
     requests[r].st = "changed" /\ Entry(requests[r].op, requests[r].target) = e}

(* The server stops and starts again.                                      *)
Restart ==
  /\ \E r \in Requests : requests[r].st # "idle"
  /\ requests' = [r \in Requests |-> Ended]
  /\ lost' = [e \in Entries |-> lost[e] + Cardinality(Unlogged(e))]
  /\ UNCHANGED <<users, tokens, expired, audit, committed>>

-----------------------------------------------------------------------------
BootstrapStep(r) == (\E u \in Users : BootstrapCounts(r, u)) \/ BootstrapCreates(r)

AdminStep(r) ==
  \/ \E u \in Users : CreateAsked(r, u)
  \/ \E u \in Users, op \in Changes \union {"invite"} : ChangeAsked(r, op, u)
  \/ \E t \in Tokens, super \in BOOLEAN : UserCreated(r, t, super)
  \/ \E t \in Tokens : UserInvited(r, t)
  \/ UserChanged(r)
  \/ DeleteLoads(r)
  \/ UserDeleted(r)
  \/ ChangeLogged(r)

PasswordStep(r) == (\E t \in Tokens : PasswordAsked(r, t)) \/ PasswordSet(r)

Next ==
  \/ \E r \in Requests : BootstrapStep(r) \/ AdminStep(r) \/ PasswordStep(r)
  \/ \E r \in Requests : UserLoaded(r) \/ Fails(r) \/ DatabaseFails(r)
  \/ \E t \in Tokens : Expires(t)
  \/ Restart

Spec == Init /\ [][Next]_vars

-----------------------------------------------------------------------------
(* Properties.                                                             *)

(* Types; an open token has a user, and so has a request under way.        *)
AccountsTypeOK ==
  /\ users \in [Users -> UserRows]
  /\ tokens \in [Tokens -> TokenRows]
  /\ \A t \in Tokens : tokens[t].st = "open" => tokens[t].user \in Users
  /\ expired \subseteq Tokens
  /\ {audit, committed, lost} \subseteq Counts
  /\ requests \in [Requests -> RequestRecords]
  /\ \A r \in Requests : requests[r].st # "idle" => requests[r].target \in Users

(* An invitation supersedes the ones before it: whatever invitations,      *)
(* passwords and deletions interleave, a user has one open token at most   *)
(* (users.py 126-142).                                                     *)
OneOpenToken ==
  \A u \in Users : \A s, t \in OpenTokens(u) : s = t

(* A user who must set a password and has no token that would let him.     *)
LockedOut(u) == Present(u) /\ users[u].must /\ OpenTokens(u) \subseteq expired

(* Only time locks a user out: the flag and the token change together, a   *)
(* token is superseded by one that has its day before it, and no           *)
(* set-password in flight uses up the token of a later invitation          *)
(* (users.py 64-83, 126-149, auth.py 122-149).                             *)
OnlyTimeLocksOut ==
  [][\A u \in Users : LockedOut(u)' => LockedOut(u) \/ expired' # expired]_vars

(* The audit log names every mutation as often as it was committed, except *)
(* for the requests that have still to log it and those that a restart or  *)
(* a failure of the second commit cut off (users.py 158-228).              *)
AuditIsFaithful ==
  \A e \in Entries :
    committed[e] = audit[e] + Cardinality(Unlogged(e)) + lost[e]

(* tests/routers/test_system.py, test_bootstrap_only_once, and README.md,  *)
(* "Create first superuser (one-time)": a user created by the bootstrap,   *)
(* the only one without a password to change, is the first user.           *)
BootstrapOnlyOnce ==
  [][\A u \in Users :
       users[u].st = "none" /\ users'[u].st = "present" /\ ~users'[u].must
         => \A v \in Users : ~Present(v)]_users
=============================================================================
