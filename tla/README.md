# ff-iii-toolkit-api: specifications, model checking and proofs

The repository is a FastAPI service that sits in front of a Firefly III
instance.  It matches bank and Allegro evidence with Firefly transactions and
writes the result back, keeps a cached snapshot of all transactions for
statistics and category suggestions, and administers users, invitations and
encrypted secrets.

The server is one process with one asyncio event loop; routes and dependencies
declared with `def` run in a thread pool beside it.  Two kinds of concurrency
follow, and they decide how the modules are written:

- code on the loop interleaves at its suspension points only.  An action of
  `Snapshot`, `Metrics`, `AllegroJobs`, `BlikJobs`, `TxUpdates` and `Suggestions`
  is the code between two such points;
- thread-pool code interleaves anywhere, but each request has its own database
  session.  An action of `Accounts` and `Vault` is a query, a look at the vault
  sessions, or a database transaction.  Where such code reads what the loop
  writes, as the polls of Allegro jobs do, an action is one read or one statement.

## The system's parts

| Part | State | Operations | What makes it correct |
|---|---|---|---|
| Snapshot service (`services/snapshot`) | the cached snapshot, the running fetch, a lock | `get_snapshot`, `refresh_snapshot`, `get_cached_snapshot_timestamp` | one fetch at a time, shared; answers not stale; the cache never goes back; nobody waits for ever |
| Metrics managers (`tx_stats`, `blik_stats`, `allegro_stats`) | a `MetricsState` and a recompute task each | `ensure_current`, `refresh` | one recompute each; status, result and task agree; the result fits the request |
| Allegro application (`allegro_application_service`, `allegro_state_store`) | matches by page, apply jobs | preview, apply, automatic apply, clear the cache | outcomes and counters tell the truth; payments reach only transactions they match, once |
| BLIK application (`blik_application_service`, `blik_state_store`) | uploaded files, matches by file, apply jobs | upload, preview, apply, automatic apply | the same, with evidence from a bank file |
| Matching and enrichment (`matcher`, `firefly_enrichment_service`, `domain`) | none | `match_with_unmatched`, `apply_match` | every match lies in the window that was fetched; the update keeps what was there |
| Firefly services (`firefly_base_service`, `firefly_tx_service`, `tx_application_service`) | none; Firefly's | fetch, update, categories, tags, screening | a read-modify-write loses nothing |
| Users (`routers/users`, `routers/auth`, `bootstrap`, `guards`, `db`) | tables users, tokens, audit | bootstrap, create, invite, change, delete, set-password | one open token; nobody locked out but by time; the audit is complete |
| Vault and secrets (`vault_*`, `user_secrets_service`) | vault sessions in memory, tables vaults and secrets | setup, unlock, lock, create, update, use | plaintext only with a live session; uses counted; changes audited |
| Citi import (`citi_import`) | parsed files in memory | parse, export | every block parsed or reported; chunks are a partition |
| Category suggestions (`categorization`) | none | suggest | ranking and aggregation |
| Allegro client (`services/allegro`, `allegro_service`) | none | fetch a page of orders, group them into payments | a page's payments account for its orders; a part of a payment is told from the whole |
| Shell | none | configuration, middleware, mappers, migrations, command line | not modelled |

Interactions: the metrics managers and the suggestions call the snapshot
service, which calls Firefly.  The two application services call matching and
enrichment, which read and write Firefly.  The Allegro preview takes its secret
from the vault.  Every route asks the guards, which read the users table.

`PROJECT.json` lists the components with their status, and under "hazards" what
is hard to test in this code, line by line, with the property that watches it.

## Modules

| Module | Models |
|---|---|
| `SnapshotData` | snapshots as pairs of instants: when Firefly was read, and the time stamp; staleness |
| `SnapshotContract` | abstract specification: what callers of the snapshot service may see |
| `Snapshot` | `TransactionSnapshotService` with callers, fetch tasks, failure, timeout, cancellation |
| `SnapshotProofs` | its invariants, and that it implements `SnapshotContract` |
| `Metrics` | the metrics managers, composed with `SnapshotContract` |
| `MetricsProofs` | their invariants |
| `Matching` | `compare`, the window fetched from Firefly, the candidates |
| `JobData`, `JobContract` | abstract specification: what a client that polls an apply job on the event loop may see |
| `AllegroJobs` | previews, page cache, apply jobs and the clients that poll them, with Firefly's transactions |
| `AllegroProofs` | its types, what its jobs do to Firefly and report, what clients are told; the window of `Matching` |
| `BlikJobs` | uploads, previews, matches by file and apply jobs, with Firefly's transactions |
| `BlikProofs` | its invariants, and that it implements `JobContract` |
| `Accounts` | users, password-set tokens and their expiry, audit log, bootstrap, restart, failures of the database |
| `AccountsProofs` | its types, the audit log, and the password-set tokens |
| `Vault` | vaults, vault sessions, secrets and their use, with the deletion of a user |
| `VaultProofs` | its invariants, and that changes are audited |
| `TxUpdates` | screening, tags, categories and the updates of jobs, as requests that Firefly carries out |
| `TxUpdatesProofs` | its invariants |
| `PythonData` | Python's `None`, filtered and sorted lists, which the next three share |
| `Suggestions` | similarity, ranking and aggregation over two snapshots |
| `CitiImport` | the parser's loop, the parsed files, the exporter |
| `AllegroPayments` | the fetch of a page of orders, and the payments made of it |
| `ListProofs` | the invariants of `CitiImport`, `AllegroPayments` and `Suggestions`, and lemmas about lists |
| `MC*` | the small instances TLC checks |

A comment "Mutant" marks a definition that is no part of the specification: a
plausible slip in the definition that follows it, which the run's property has
to notice (`PROJECT.json`, "mutants").

### Snapshot

`calls[c]` is the latest call of caller `c` and its program counter; `tasks[t]`
a fetch task.  `LookInStore` is the first look of `get_snapshot`, `UseStored`,
`JoinTask` and `StartTask` are the body of `async with self._refresh_lock`, and
`Resume` is what follows `await task`, the `finally` clause included.  With the
in-memory store the body of the lock never suspends, so the lock is never seen
held.  A fetch reads Firefly at one instant (`FetchReads`), and its end builds,
stamps and stores the snapshot (`FetchStores`); `wait_for` bounds the time in
between (`InTime`).  The await is not shielded: cancelling a waiter cancels the
shared task (`CancelWaiter`).  Identities of tasks are reused once Python has
freed the task, which keeps the model finite.  The wall clock is assumed not to
go back.  `at`, `floor`, `startedAt` and `readAt` are histories for the
properties.

### Metrics

A manager's recompute task is one of the callers of `SnapshotContract`, the
other callers are requests that use the snapshot directly (the internal refresh
route, the suggestions).  The contract stands for the service because
`SnapshotProofs!ServiceImplementsContract` is proved; the fairness of `Settle`
is what `CallsSettle` shows of the service.  The three managers differ in the
statistics they build, not in their control.  The done callback is folded into
the end of the task: `_start` tests `task.done()`, so an ended task in the slot
and an empty slot behave alike.  A result is its snapshot's time stamp.

A `CancelledError` that comes out of the shared fetch is not an `Exception`, so
`recompute_metrics` leaves the state at RUNNING, after which neither
`ensure_current` nor `refresh` starts a recompute.  The code cancels such tasks
only when the server stops, so this is described (`RecomputeCancelled`,
`RecomputesEnd`) and not reported as a disagreement.

### AllegroJobs

One secret is modelled; the cache has a dictionary for each.  `cache` keeps the
pages in the order in which they were first stored, as a Python dictionary does.
`Txs` are the transactions whose description passes the filter; a payment's
details are one item of the notes, so that the substring test of
`build_tx_update` becomes membership.  The call to Allegro is synchronous and
blocks the loop, so a preview begins with Allegro's answer (`PreviewAsks`), then
Firefly answers (`FireflyReads`) and the page is stored (`PreviewEnds`).  A job
takes its matches when it is started.  An update is sent, carried out by Firefly
at some instant, and answered; it can fail before or after it was carried out.
An update that Firefly carries out after the client has given up on it is not
modelled.  The cache routes run in the thread pool but are taken as atomic.
`written` and `refused` are histories.

A match list (`MatchLists`) gives each transaction its `MatchResult` or `None`;
the order in which Firefly lists transactions (`Place`) matters to the automatic
decisions only, which the service takes page by page and in that order
(`SingleLists`) and cuts off at the limit (`Limited`; 0 is no limit).  A decision
names a payment by `ShortId`, which two parts of one payment share; of the
candidates with that id the job may take any (`Chosen`), where the code takes the
last in the order of the page.  A restart
loses the cache, the previews and the jobs, and nothing of Firefly: a client is
told afterwards that its job is not found (`"lost"`).

The polling route is a plain `def` and runs in the thread pool, beside the loop
that runs the job.  A poll therefore reads the status, the counters and the results
one after another (`PollStatus` to `PollResults`), and a job counts an outcome
(`Counted`) and appends it (`RecordOutcome`) in two steps, between which no other
code of the loop runs (`LoopIsFree`) but a poll may read.  The results are copied
in one step: the list only grows, so that the copy is what the list is when its
iterator reaches the end.  `answers` is what each client was told last.  A client
can be told of one success in the counters and none in the results; `AnswersAgree`
says by how much an answer may be off, and that one that tells DONE is not off at
all, which rests on the status being read first.  `started_at` and `finished_at`
are left out.

A decision's only outcome but success is "failed", so the job's status FAILED is
unreachable and is no state: everything in the loop that raises is caught.

### BlikJobs

A file is uploaded once and has an identity of its own (`Files`, `Content`);
nothing deletes it.  A record of a file is an item, and `Row` its text: two
identical rows are two items with one text, hence with one match id, and a
decision names a match id.  Different rows are taken to have different details,
so that "the description contains the details" becomes membership in `desc`, the
rows appended to the description; `notes` are the rows appended to the notes.
The title and notes Firefly had to begin with are left out of both.  A new
preview replaces the matches of its file as a whole (`PutMatches`).  A job keeps
the matches it was started with; `outcomes` is the list `_apply_decisions`
builds, and `results`, `applied` and `failed` change in the job's last step
(`Published`).

### JobContract

What the BLIK service promises a client that polls a job: it is created, begins,
reports outcomes (`Report`) and is done when there is one for each decision;
outcomes are never withdrawn, and the counters agree with them.  Its polling
route is `async def` and the loop that publishes the outcomes has no await, so a
poll is one look; `BlikJobs` is a refinement, with `View(j)` as the mapping.  The
Allegro service does not keep this promise, since its polls run in a thread; what it
keeps are `AnswersAgree` and `AnswersAdvance`.  `Create` and `Report` take the
total and the results from the state they lead to, which TLC needs to evaluate
them; as formulas they allow any.

### Accounts

A request is past its check (`checked`), has loaded the rows it writes
(`loaded`), or has committed a change that it has still to log (`changed`).
SQLite takes the write lock at the first write of a session and holds it to the
commit, so that stretch is one action; the queries before it see what is
committed at their time.  The ORM writes only the columns that differ from the
row as loaded (`same`, `Written`), fails an UPDATE that finds no row, and only
warns of a DELETE that finds none.  Names are the identities of the users.
A restart ends every request and keeps the tables; a failure of the database
(`DatabaseFails`: it is locked, a query or a commit raises) ends one request and
rolls its transaction back.  Either may come between the two commits of a change,
which then lacks its audit entry for ever (`lost`).  `committed` and `lost` are
histories.

A token is good for 24 hours (`PASSWORD_SET_TOKEN_EXPIRE_HOURS`): `Expires` says
when they are over, and `PasswordAsked` refuses it from then on.  It stays open in
the sense of the table, its `used_at` not set, and the next invitation supersedes
it like any other.  A user whose invitation expires is locked out until the
next one, so that "a user who must set a password has a token for it" is not
true of this code; `OnlyTimeLocksOut` states what is: no other step, of however many
requests at once, takes the last good token away from a user who needs it.

### Vault

A vault is the key its check value verifies (`vaults`), a secret the key its
data key is wrapped with; that a key opens what it wrapped, and nothing else, is
taken from the cryptography.  A request loads what it checks (`SecretLoaded`,
`SetupAsked`), takes a key from a vault session (`KeyTaken`), and commits the
change with its audit entry in one transaction (`UpdateDone`, `UseDone` and the
others); `Fails` is every way in which that transaction is rolled back.
`SessionCreated` comes before `UnlockDone`, as in `unlock_vault`, so a session
may exist that nobody was given; `held` tells the ones that were.  A session ends
when it is looked at after its time, when it is locked, and in a restart.
`UserDeleteLoads` and `UserDeleted` are the deletion of a user with the rows the
ORM has loaded.  `unlocked`, `closed` and `late` are histories.

Not required of the model, because the code does not give it: the count of uses
may fall behind the audit log when two uses are at once (`repository.py:226`);
and a secret created while its user is deleted stays behind without an owner,
since the ORM deletes what it has loaded and SQLite is not told to enforce the
foreign key of `models.py:121`.  Both are behaviours of the model.

### TxUpdates

A request reads a transaction (`Loaded`), sends an update, which Firefly carries
out at some moment (`CategorySent`, `TagsSent`, `MatchSent`), and is answered; it
can fail at any time, also after the update was carried out.  Tags are written
back as a whole from the copy that was read, a category alone.  `MatchSent` is
the update of a job, from a copy as old as its preview (`Previewed`).  Screening
awaits the categories, then the transactions; its four filters are `Screened`.
`raced` are the transactions whose tags were written from a copy that was out of
date: two tags added at once lose one, though both requests were answered 204.
`AcknowledgedStays` says that this is the only way to lose what was acknowledged.

### Suggestions

`QueryTaken` and `CandidatesTaken` are the two calls of the snapshot service, and
`SnapshotReplaced` may come in between.  Scores are whole numbers of units, 400
to the 1.0 of the code, in which the weights and the similarities are exact.  A
unit is 0.0025, so the rounding of a match's score to four places changes nothing
in the model; the error of floating point and similarities finer than twentieths
are left out.  The combination `1 - (1 - s)(1 - t)...` is kept as a fraction, `left / whole` being what
is left of 1.0, and rounded to four places as the answer is.  The buckets are a
function whose domain grows, as the dictionary of `_aggregate` does.  The
similarity of texts is a table (`TextSimilarity`).  A transaction of the snapshot never has a merchant, so
`Merchant` is none and the weights for merchants are not reached; that is what
the code does today.  `SuggestionsAreRanked` compares the lists, folds and cuts
of the code with a definition by sets.

### CitiImport

Each way through the parser's loop is an action: `SkipLine`, `Incomplete`,
`InvalidAmount`, `PositiveSkipped`, `Taken`; `Stored` ends it.  A line is one of
four kinds; a transaction is known by the lines its fields come from.  The
reference (`Starts`) has no loop: a date begins a block when no block began in
the three lines before it.  Consequences that the model shows and no document
excludes: an amount that is missing makes the next block's date the amount of
this one, and both blocks are lost with one warning; a currency in small letters
is an invalid amount.

### AllegroPayments

`Ask`, `UserTold`, `OrdersTold` and `AllegroFails` are the two requests of
`AllegroService.fetch`; `VaultRefuses` is what the vault may answer before.  The
buyer's orders and purchases (`Buy`, `Bought`) are external: every order of a
payment shows the whole amount, as `Payment` expects, and a page is a number of
order groups.  `AddOrder` is the dictionary of `from_orders`.  Amounts are cents
in one currency.  `AllegroJobs` takes the payments of a page from here as a set.

What the balance of a payment tells is less than it seems.  That it is balanced
exactly when all its orders that cost something are on the page and no coupon was
used is false: with a coupon of 9.00, a part of a payment that misses an order of
9.00 is balanced, and its whole is not.  `BalancedIsWhole` states what is true: the
balance compares what the orders off the page cost with what a coupon took off.
`Discounts` has a coupon of that worth, so that the run meets the case.

## Runs

| Run | Instance | Distinct states | Shows |
|---|---|---|---|
| `snapshot` | 2 callers, 2 tasks, TTL 1, timeout 1, clock to 3 | 342,675 | all properties of `Snapshot`, and the refinement |
| `metrics` | 1 manager, 1 other caller, TTL 1, timeout 1, clock to 3 | 701,397 | the properties of `Metrics` but its types |
| `allegro` | 2 pages, 2 transactions, 3 payments, 1 preview at a time, 2 jobs, limit 2, 1 client | 464,125 | all properties of `AllegroJobs` |
| `allegro_overlap` | the same without the client, limits 0 and 1, 2 of the payments parts of one | - | finding 1 |
| `blik` | 2 files, 2 transactions, 3 records with 2 texts, 1 preview at a time, 2 jobs | 326,680 | all properties of `BlikJobs`, and the refinement |
| `accounts` | 2 users, 2 tokens, 2 requests, 3 mutations, 2 expiries | 1,240,587 | all properties of `Accounts` |
| `bootstrap` | the same with 1 expiry, without symmetry | - | finding 2 |
| `vault` | 2 users, 1 secret, 2 vault sessions, 2 requests, TTL 1, 5 audit entries | 1,769,964 | all properties of `Vault` |
| `tx_updates` | 1 transaction of every kind, 3 requests | 1,049,739 | all properties of `TxUpdates` |
| `suggestions` | 4 transactions of 6 kinds, 3 categories, lists cut at 2 and 1 | 1,506,545 | the property of `Suggestions` |
| `citi` | all texts of 4 lines, all of 9 dates and amounts of one sign, statements of 5 transactions, chunks of 1 to 3 | 87,801 | all properties of `CitiImport` |
| `payments` | 2 payments of 1 to 3 orders, pages of 1 to 3 groups, coupons of 0, 0.01, 0.02 and 9.00 | 187,696 | all properties of `AllegroPayments` |

Why the bounds are enough. Snapshot: the races are between one waiter that wakes
up late and one newcomer, over an old task and a new one; a clock of three ticks
lets a snapshot be fetched, go stale, and be fetched again. Metrics: managers do
not touch one another, and the second caller supplies the fetches a recompute
joins or overlaps. Allegro: two pages whose windows share both transactions, one
payment of which is a single candidate on one page, the other a candidate of one
transaction on both pages; two jobs that overlap each other and a preview.
`JobsLeft` stops previews and cache changes when no job can start any more,
since jobs no longer look at the cache. The limit of 2 cuts off some lists of
automatic decisions and not others. Polls do not change what they read, and what
they read depends on one job; so the client of `allegro` polls when the job is
the only one at work and the cache is empty, a state constraint of the instance
(`PollsAlone`), which keeps every interleaving of the reads with the steps of
that job; no step of a job leaves the constraint, so it hides nothing from
`JobsEnd`. `AnswersAgreeHolds` and `AnswersAdvanceHolds` have no such bound.
BLIK: one file gives a transaction two candidates with one match id, the other
file gives it one of them alone, and the decision list asks for a record that is
no candidate before one that is; a job before a restart and one after it see the
same files. Accounts: two tokens let a user be created and invited, be invited
twice at once, or two users be invited; `MaxLog` bounds the mutations and
`MaxExpired` the expiries, so `accounts` allows a stop: the bounds are used up,
or the only superuser has disabled itself. The deepest race is out of the run's
reach: an invitation, a set-password, a second invitation, and then another
set-password by the first token, checked before it was used, are four mutations.
`OnlyTimeLocksOutHolds` covers it.

Vault: two requests are enough for each of the races (two set-ups, two uses, a
use and a lock, an update and an expiry); five entries are a set-up, an unlock, a
create and two uses, without which two uses of one secret cannot be at once.  The
bounds on the clock and the log stop it, so `vault` allows a stop.  TxUpdates:
three requests are two writers with a category update or a screening in between;
the rows of different transactions do not touch.  Suggestions: with lists cut at
two and one, something is left out at either cut.  Citi: a block whose amount is
missing takes a date, whose block's amount then comes as the eighth line, and one
line more shows where the parser goes on.  Payments: a payment of three groups
can lose its first, its last or both, and a second payment shifts its pages; of
the coupons one is within the tolerance, one just beyond it, and one is worth an
order.

`MetricsTypeOK`, `VaultTypeOK`, `TxTypeOK` and `CitiTypeOK` state the types of their modules.  They
are proved, and in no run; they can be added to the cfg.  The types of
`AllegroPayments` and `Suggestions`, `PaymentsTypeOK` and `SuggestionsTypeOK`, are
stated and proved in `ListProofs`, which extends both and `CitiImport`: hence the
names `PaymentsSpec`, `SuggestionsSpec` and their like, and the module `PythonData`.

Fairness.  Weak fairness of every task's own steps: the event loop runs what is
ready.  `wait_for` ends a fetch, so the fetch tasks are fair too; every request
of the Firefly client ends with an answer or an error, so the jobs are.  Nobody
is obliged to call, and no call to be cancelled.  The parser of `CitiImport` runs
without suspending, so its steps are fair.  `Accounts`, `Vault` and `TxUpdates`
state no liveness: their requests end when they fail, and nothing waits for them.

The properties that deserve a second look are `NotesOnce` and `DescriptionOnce`.  A job builds its
update from the transaction as the preview saw it, so two jobs that apply the
same payment write the same notes, and a preview made later sees the details
already there.  The same staleness loses the notes of *another* payment written
in between, and a bank record's lines are added to the notes again after a new
preview; no document promises the contrary, and the hazard is listed without a
property.

## Findings

1. `allegro_overlap`.  README.md:156 has "Auto-apply one-candidate matches".
   Automatic decisions are taken from each cached page, but the job looks each
   transaction up in an index over all pages in which the last page wins
   (`allegro_application_service.py:215`).  A page's matches hold every
   transaction of its date window, candidates or not; when windows overlap, a
   one-candidate match of an earlier page fails with "Payment id ... not found".
2. `bootstrap`.  README.md:137 has "Create first superuser (one-time)", and
   `tests/routers/test_system.py` tests it one request after the other.  Two
   requests at once both count no users and both create a superuser
   (`services/system/bootstrap.py:15-23`).

## Theorems

TLC checks the instances above; TLAPS proves the following for every value of
the constants, from the assumptions the modules state on them: times are natural
numbers, `None` is none of the things it stands in for, managers are callers,
users and secrets are different things.

`SnapshotProofs`.  `TypeCorrect` first.  `SingleFlightHolds` is an induction
from the type invariant: a task is started only when the slot holds no running
one, and the identity test of the `finally` clause clears the slot only of the
ended task it still holds.
`AnswersAreFreshHolds` rests on an invariant, `Sync`, that bounds the instants of every
stored, running and returned snapshot by the clock and relates each pending call
to the task it awaits; it is inductive only together with the type invariant and
single flight.  `StoreNeverRegressesHolds` follows from the three.  `ServiceImplementsContract` maps `start`, `lock` and `await` to
`pending`; each action is then a step of the contract or a stutter, the
invariants supplying the contract's guards (`Publishable`, `Acceptable`).

`MetricsProofs`.  One lemma, `MetricsInductive`, proves `MetricsTypeOK` together
with an invariant that relates every manager's task to its call of the snapshot
service: what the call returned is acceptable for the request the task was
started with.  The four theorems are its consequences.

`AllegroProofs`, from the assumptions of
`Matching` and `AllegroJobs` (finitely many transactions, listed in an order;
decision lists of decisions; `None` no page).  Types come first
(`AllegroTypeCorrect`), with lemmas about the operators: `WithEntry` and
`RemoveAt` keep one entry for each page, `Index` finds only cached matches, the
automatic decisions are decisions.

`EnrichmentIsSound` and `NotesOnce` are not inductive, because an update is built
from a copy that may be arbitrarily old.  The strengthening, `AllSound`, says of
every copy of a transaction - in Firefly, in the cache, in a preview, in a job's
index - what the properties say of Firefly's, and of every update under way that
it yields such a transaction.  It is inductive because `build_tx_update` looks
at one copy only and Firefly replaces the notes as a whole.

`OutcomesAreTrue` rests on `AllReport`: the property itself, that a written
update is remembered as such at the job's position, and that counters, results and
decisions agree in number but for the outcome that is counted and not yet
recorded.

`AnswersAgree` and `AnswersAdvance` are about reads made at different instants, so
the invariant (`ClientsServed`) compares what was read with the job as it now is: a
poll under way is ahead of the job in nothing, and has everything of a job that was
done when its status was read (`PollsRead`); the last answer is behind the job
(`AnswersTell`) and behind a poll that follows it (`PollsFollow`).  What makes it
inductive is one fact about jobs, `JobsGrow`: while the server runs, a job that was
started only grows, and does not change once it is done.  A restart ends the polls
and is the only way to lose a job, after which nobody is told of it again.

`WindowCoversMatches` is about `Matching` alone: a candidate that a preview
reports unmatched has no match among all transactions of Firefly, although only
the days of the window were asked for.  It needs
`MATCH_WITH_UNMATCHED_FUTURE_DAYS >= 6` when payments are matched, since
`OrderPayment.compare` looks six days ahead; the default is 7.

`BlikProofs`, from the assumptions of `Matching` and `BlikJobs`.  The one invariant is
`BlikInv`.  As with Allegro, every copy of a transaction is sound by itself, but
here evidence is what was uploaded so far: `SoundTx(F, x, t)` is relative to the
set `F` of uploaded files, and stays true because files are never deleted.  A
cached list, a preview and a job hold the matches of one file (`MatchesOf`), and an
update leaves sound whatever sound transaction Firefly applies it to
(`SoundUpdate`), however old the copy it was built from.  `Truthful` and `Tallied`
say of outcomes and counters what the Allegro proof says, with the
difference that nothing is published before a job's last step; from that
step, which reports everything and is done, each step of a job is a `Begin` or a
`Report` of `JobContract` or a stutter, each start a `Create`, and a restart a
`Restart`.  `BlikAutoAppliesSinglesHolds` uses that an automatic decision names a
match the job itself holds, which is what finding 1 shows of Allegro not to hold.

`AccountsProofs`, from the assumptions of `Accounts`: finitely
many requests at a time, `None` no user or token, the bounds natural numbers.
`AuditIsFaithfulHolds` counts: a committed mutation is in the log, or its request
is one of `Unlogged`, or a restart or a failure has added it to `lost`; it needs besides that
only the operations of `Changes` are logged in a commit of their own.
`TokenInv` is the invariant about tokens: `OneOpenToken`, that a user who must set
a password has an open token (`MustChangeHasToken`), and what makes the two
inductive.  The rows a request has loaded may have changed
hands to nobody but never to another user (`RowsOwned`), unused identities
belong to nobody (`FreshTokens`), and, the case that matters, a set-password
that found the flag clear and so will not write it (`same`) may overlap an
invitation that sets it: `KeepsToken` says that the user then has an open token
which that request will not consume.  With `OneOpenToken`, no other such request
consumes it either.  `OnlyTimeLocksOutHolds` follows: after a step that locks a user
out, the one token that is open has expired; a token that is issued has its day
before it (`NewAreValid`), so it was open and expired before the step, and the user had
to set a password then too (`MustBefore`).

`VaultProofs`, from the assumptions of `Vault`.  What a request has read and holds
may be old when it commits: the session its key came from may have ended, the
row may have been deleted with its user, the vault may belong to a user who is
gone.  `VaultInv` says, for each kind of request (`Sound`), what is still true: its
key is that of the user's vault as long as the user exists (`KeyFits`), its
session was opened by the user (`SessionFits`), and a row it read is nobody else's
(`RowsFit`).  To show that a step of one request leaves the others sound without
comparing every pair of actions, one action formula, `Steady`, collects what no
step takes back - users do not come back, a vault's key does not change, a
stored secret keeps its owner, the log only grows, an ended session stays ended - and
soundness is preserved by any step that is `Steady`.  `AccessIsAudited` counts: uses
and the sessions clients were given never exceed their log entries.
`PlaintextIsEarned` and `AccessIsAudited` are read off the invariant;
`ChangesAreAudited` is an action property, proved from it for each kind of step
that writes a row (`RowWrites`).

`TxUpdatesProofs`, from the assumptions of `TxUpdates`.  In `TxInv` each request is
sound for its kind: a copy of a transaction's tags is current unless the request
is marked stale; a request that ended left its tag or its category, unless tags
were raced; a screening's lists lie between what was always eligible while it ran
and what ever was.  What an update of Firefly does to the requests that did not
send it is one operator (`After`), and one lemma says that it keeps them sound.

`ListProofs` is about the three components that compute with lists.  From the
assumptions of `CitiImport`, for texts of every length and chunks of every size:
the loop's invariant, `Parsed`, says that some set of dates `S` begins the blocks
before the index (`BlocksTo`), that the loop is past the last of them, and that
records and warnings account for exactly `S`, in order.  At the end of the text `S`
is the set that the definition without a loop chooses: `BlocksUnique` shows that
there is only one, looking at the least date on which two would differ.  The same
least-element argument replaces induction for `FlattenSeq`: the lists it is
defined by are unique, and `ChunksPartition` gives them outright, the first
`k * size` records for the `k`-th.

From the assumptions of `AllegroPayments`, for purchases, prices,
coupons and pages of every size: an answer is made of its orders (`Told`), these are
a stretch of the buyer's orders (`Stretch`), and every order shows what its payment's
orders cost, less a coupon (`Priced`).  This is `PaymentsInv`.  A purchase
puts its orders before the others and has an id of its own, so it cuts no stretch
and changes no other payment's orders; a page is a stretch because `FlattenSeq` of
groups put together is theirs put together (`FlattenConcat`).

What the code's sums and its dictionary of lists are is the larger part.  The
community modules define them as folds over sets, by recursive functions of which
the definition says only that they are chosen.  `RecursionExists`, by the least
number at which a recursion could not go on, shows that such a function exists,
`FoldExists` that a fold over a finite set does; then `SumIs` shows that a sum can be taken element
by element in any order (`SumsTakeOut`), so that it is the list's running sum
(`RunningSum`), and `FromOrdersSteps` that `FromOrders` adds the orders one by one.
`GroupedStep` is the invariant of that loop: each payment seen so far has one group,
which holds its orders in order, and the groups stand in the order of their first
orders.  `Weight` is the sum of what a list's elements are worth; that it is
additive (`WeightConcat`, `WeightFlatten`) and that filtering is (`KeptConcat`)
gives `LinesTell`, that a payment's lines cost what its orders cost, and
`PartsTotal`, that a payment costs what its parts on and off the page do.
`PageAccountsForOrdersHolds` and `BalancedIsWholeHolds` follow.

From the assumptions of `Suggestions`, for snapshots of every size, replaced in any
way between the two reads, for every table of similarities and all limits: what is
answered is computed of the snapshot that is there, which holds no identity twice
(`SuggestionsInv`); everything else is about that computation.  `Sorted` picks, for
each place, the element with as many elements before it.  In a total order these
numbers are the places, each taken once (`AheadLess`, `EveryPlace`, by counting), so
that a sorted list cut at a limit holds exactly the elements with fewer than the
limit before them (`UpToTops`).  `MatchesOrdered` and `SuggestionsOrdered` show that
the two sort keys of the code are total orders: the first because identities
differ, the second because a category is suggested once.  The matches found are
thus those of the transactions that the reference calls `Sources` (`FindsSources`).
`BucketGathers` is the invariant of the loop of `_aggregate`: a bucket holds the
product of what its category's matches so far leave, in the order of the list,
which by `ProductsTakeOut` is the product over the set, and its best match is the
first, than which none ranks higher (`FirstIsBest`).  `ScoreTells`, that the weight
of the amount alone stays below the least similarity under every choice of
weights, gives that a suggestion's best transaction shares text with the query.
`SuggestionsAreRankedHolds` follows.

Only model-checked: liveness (`CallsSettle`, `RecomputesEnd`, `JobsEnd`,
`BlikJobsEnd`, `ParsesEnd`), since liveness under fairness is beyond the prover.
Every invariant and every other action property of the runs has its theorem.

## The order of the development

1 Snapshot, 2 Metrics, 3 Matching and AllegroJobs, 4 Accounts, 5 JobContract and
BlikJobs, 6 Vault, 7 TxUpdates, 8 CitiImport, 9 Suggestions, 10 AllegroPayments,
each with its runs before its theorems; there are theorems about all of them.

## Not modelled

- The shell: configuration, wiring, middleware, system status, data transfer
  objects, migrations and the command line keep no state of their own.  The
  wiring decides what is a process singleton, which the modules take over; that
  an `lru_cache` in the thread pool may build two singletons when the first
  requests come together is listed as a hazard.
- Text: notes and descriptions are sequences of items, the similarity of texts a
  table, the formats of dates and amounts kinds of lines.
- The statistics (counts and sums by month) behind the metrics managers.
- Cryptography, Firefly and Allegro are external, and modelled from how the code
  uses them.
- The iterator of the page cache while a route deletes from it
  (`allegro_state_store.py:67`), Firefly's transactions changing while they are
  read page by page (`firefly_base_service.py:69`: a read is one instant here), and
  what two pages of payments show together when a purchase comes between them, are
  not modelled.
- Modelled and without a property, because the code does it and no document
  forbids it: superusers that demote each other (`guards.py:28`), a recompute that
  is cancelled and stays at RUNNING (`runner.py:36`), a preview that is stored
  after its page was cleared (`allegro_state_store.py:53`), notes that are
  overwritten or added again (`bank_record.py:74`).  All are listed as hazards.
