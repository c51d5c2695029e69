----------------------------- MODULE AllegroJobs -----------------------------
(***************************************************************************)
(* AllegroApplicationService: previews pair a page of a secret's payments  *)
(* with Firefly transactions and cache the result per page; background     *)
(* jobs apply decisions against the cached pages, building each update     *)
(* from the transaction as the preview read it.  Clients poll the jobs in  *)
(* the thread pool, beside the event loop.  A restart loses the cache and  *)
(* the jobs.  One secret is modelled: the cache holds a separate           *)
(* dictionary for each.                                                    *)
(***************************************************************************)
EXTENDS Matching, JobData, SequencesExt

CONSTANTS
  None,
  Pages,          \* page requests (limit and offset)
  Contents,       \* Contents[p]: what Allegro may answer for page p
  ShortId,        \* ShortId[i]: external_short_id, one for the parts of a payment
  Previews,       \* concurrent preview requests
  Jobs,           \* identities of apply jobs
  DecisionLists,  \* what a client may ask to apply
  Limits,         \* limits of an automatic apply, 0 for none
  Clients         \* clients that poll a job

VARIABLES
  ff,        \* ff[x]: tags and notes of transaction x in Firefly
  cache,     \* page_matches_cache[secret], entries in insertion order
  previews,  \* the preview requests under way
  jobs,      \* the apply jobs
  polls,     \* polls[c]: the poll of client c under way
  answers    \* answers[c]: what its last poll told it

served == <<polls, answers>>
vars == <<ff, cache, previews, jobs, polls, answers>>

-----------------------------------------------------------------------------
DoneTag == "allegro_done"

FireflyTxs == [tags : SUBSET {DoneTag}, notes : Seq(Items)]

Decisions == [tx : Txs, id : {ShortId[i] : i \in Items}]
Decision(x, id) == [tx |-> x, id |-> id]

ASSUME AllegroAssumption ==
  /\ None \notin Pages \union Outcomes
  /\ Contents \in [Pages -> SUBSET SUBSET Payments]
  /\ DecisionLists \subseteq Seq(Decisions)
  /\ Limits \subseteq Nat

(* A MatchResult: the transaction as it was read, and its candidates.      *)
(* Lists of them by transaction, None for one that is not listed.          *)
MatchResults == [seen : FireflyTxs, items : SUBSET Items]
MatchLists == [Txs -> MatchResults \union {None}]
NoMatches == [x \in Txs |-> None]
Listed(m) == {x \in Txs : m[x] # None}

Entries == [page : Pages, matches : MatchLists]
Entry(p, matches) == [page |-> p, matches |-> matches]

(* A preview: "asked" before Firefly has answered, "read" after.           *)
Preview(st, page, items, matches) ==
  [st |-> st, page |-> page, items |-> items, matches |-> matches]
Idle == Preview("idle", None, {}, NoMatches)

(* A job.  index: its matches by transaction.  update: the update under    *)
(* way, None between two decisions.  outcome: one that is counted and not  *)
(* yet among the results.                                                  *)
(* Kept for the properties -- written: the decisions whose update reached  *)
(* Firefly; refused: the ones Firefly failed.                              *)
JobStates == {"free", "pending", "running", "done", "lost"}
Job(st, auto, todo, index) ==
  [st |-> st, auto |-> auto, todo |-> todo, index |-> index, update |-> None,
   outcome |-> None, results |-> <<>>, applied |-> 0, failed |-> 0,
   written |-> {}, refused |-> {}]
NoJob == Job("free", FALSE, <<>>, NoMatches)
LostJob == Job("lost", FALSE, <<>>, NoMatches)

(* A poll, with the last field it has read, and what it has read so far.   *)
Poll(job, at, st, applied, failed) ==
  [job |-> job, at |-> at, st |-> st, applied |-> applied, failed |-> failed]
NoPoll == Poll(None, "none", None, 0, 0)

Init ==
  /\ ff = [x \in Txs |-> [tags |-> {}, notes |-> <<>>]]
  /\ cache = <<>>
  /\ previews = [v \in Previews |-> Idle]
  /\ jobs = [j \in Jobs |-> NoJob]
  /\ polls = [c \in Clients |-> NoPoll]
  /\ answers = [c \in Clients |-> None]

-----------------------------------------------------------------------------
(* Bound: the cache is of no more interest once every job has started.     *)
JobsLeft == \E j \in Jobs : jobs[j].st = "free"

(* No task of the loop runs between the statement of a job that counts an  *)
(* outcome and the one that adds it to the results; other threads do.      *)
LoopIsFree == \A j \in Jobs : jobs[j].outcome = None

(* preview_matches.                                                        *)

(* Allegro's answer is awaited without yielding the loop; an empty page    *)
(* makes the matcher raise.                                                *)
PreviewAsks(v, p, items) ==
  /\ JobsLeft
  /\ previews[v].st = "idle"
  /\ items \in Contents[p]
  /\ items # {}
  /\ previews' = [previews EXCEPT ![v] = Preview("asked", p, items, NoMatches)]
  /\ UNCHANGED <<ff, cache, jobs, served>>

(* The matches of a page, of the transactions as they now are.             *)
Matched(items) ==
  [x \in Txs |-> IF x \in Window(items)
                 THEN [seen |-> ff[x], items |-> Candidates(items, x)] ELSE None]

(* The instant at which Firefly answers.                                   *)
FireflyReads(v) ==
  /\ previews[v].st = "asked"
  /\ previews' = [previews EXCEPT ![v] =
       Preview("read", @.page, @.items, Matched(@.items))]
  /\ UNCHANGED <<ff, cache, jobs, served>>

(* Mutant: the page is cached anew each time.                              *)
AddedEntry(entry) == Append(cache, entry)

(* put_page_matches: a page already cached keeps its place.                *)
WithEntry(entry) ==
  IF \E k \in DOMAIN cache : cache[k].page = entry.page
  THEN [k \in DOMAIN cache |->
          IF cache[k].page = entry.page THEN entry ELSE cache[k]]
  ELSE Append(cache, entry)

PreviewEnds(v) ==
  /\ previews[v].st = "read"
  /\ cache' = WithEntry(Entry(previews[v].page, previews[v].matches))
  /\ previews' = [previews EXCEPT ![v] = Idle]
  /\ UNCHANGED <<ff, jobs, served>>

(* FireflyServiceError: nothing is cached.                                 *)
PreviewFails(v) ==
  /\ previews[v].st \in {"asked", "read"}
  /\ previews' = [previews EXCEPT ![v] = Idle]
  /\ UNCHANGED <<ff, cache, jobs, served>>

(* clear_cached_page and clear_cached_secret.                              *)
ClearPage(p) ==
  /\ JobsLeft
  /\ \E k \in DOMAIN cache : cache[k].page = p /\ cache' = RemoveAt(cache, k)
  /\ UNCHANGED <<ff, previews, jobs, served>>

ClearSecret ==
  /\ JobsLeft
  /\ cache # <<>>
  /\ cache' = <<>>
  /\ UNCHANGED <<ff, previews, jobs, served>>

-----------------------------------------------------------------------------
(* Starting a job.                                                         *)

(* get_all_matches is empty.                                               *)
NothingCached == \A k \in DOMAIN cache : cache[k].matches = NoMatches

(* The index by transaction id: of several pages that hold a transaction,  *)
(* the last one wins.                                                      *)
Index ==
  [x \in Txs |->
     LET holding == {k \in DOMAIN cache : cache[k].matches[x] # None} IN
     IF holding = {} THEN None
     ELSE cache[CHOOSE k \in holding : \A l \in holding : l <= k].matches[x]]

StartJob(j, auto, ds) ==
  /\ LoopIsFree
  /\ jobs[j].st = "free"
  /\ ~NothingCached
  /\ jobs' = [jobs EXCEPT ![j] = Job("pending", auto, ds, Index)]
  /\ UNCHANGED <<ff, cache, previews, served>>

StartApply(j) == \E ds \in DecisionLists : StartJob(j, FALSE, ds)

(* The places in the cache of the transactions with one candidate.         *)
Singles ==
  {s \in (DOMAIN cache) \X Txs :
     /\ cache[s[1]].matches[s[2]] # None
     /\ \E i \in Items : cache[s[1]].matches[s[2]].items = {i}}

(* Page by page; on a page, in the order in which Firefly listed them.     *)
Precedes(s, r) == s[1] < r[1] \/ (s[1] = r[1] /\ Place[s[2]] < Place[r[2]])

SingleLists ==
  {list \in SetToSeqs(Singles) :
     \A m, n \in DOMAIN list : m < n => Precedes(list[m], list[n])}

DecisionOf(s) ==
  Decision(s[2], ShortId[CHOOSE i \in Items : i \in cache[s[1]].matches[s[2]].items])

AutoDecisions(list) == [n \in DOMAIN list |-> DecisionOf(list[n])]

(* start_auto_apply_single_matches: a limit of 0 is no limit.              *)
Limited(ds, limit) ==
  IF limit = 0 \/ limit > Len(ds) THEN ds ELSE SubSeq(ds, 1, limit)

AutoApply(j, limit) ==
  \E list \in SingleLists : StartJob(j, TRUE, Limited(AutoDecisions(list), limit))

-----------------------------------------------------------------------------
(* _run_apply_job.                                                         *)

JobBegins(j) ==
  /\ jobs[j].st = "pending"
  /\ jobs' = [jobs EXCEPT ![j] = [@ EXCEPT !.st = "running"]]
  /\ UNCHANGED <<ff, cache, previews, served>>

Position(j) == Len(jobs[j].results) + 1

(* The job is about to handle its next decision.                           *)
Deciding(j) ==
  /\ jobs[j].st = "running"
  /\ jobs[j].update = None
  /\ Position(j) <= Len(jobs[j].todo)

Current(j) == jobs[j].todo[Position(j)]

(* Mutant: the payment is looked up among all payments.                    *)
ChosenOfAll(j) == {i \in Items : ShortId[i] = Current(j).id}

(* The candidates that go by the id of the decision.                       *)
Chosen(j) ==
  {i \in jobs[j].index[Current(j).tx].items : ShortId[i] = Current(j).id}

Selectable(j) == Current(j).tx \in Listed(jobs[j].index) /\ Chosen(j) # {}

(* The outcome of a decision goes to the counters first.                   *)
Counted(job, outcome) ==
  [job EXCEPT !.update = None, !.outcome = outcome,
     !.applied = IF outcome = "success" THEN @ + 1 ELSE @,
     !.failed = IF outcome = "failed" THEN @ + 1 ELSE @]

(* Mutant: the results are replaced by the last one.                       *)
OnlyLast(job) == [job EXCEPT !.results = <<job.outcome>>, !.outcome = None]

(* Then to the results.                                                    *)
Recorded(job) == [job EXCEPT !.results = Append(@, job.outcome), !.outcome = None]

RecordOutcome(j) ==
  /\ jobs[j].outcome # None
  /\ jobs' = [jobs EXCEPT ![j] = Recorded(@)]
  /\ UNCHANGED <<ff, cache, previews, served>>

(* TransactionNotFound or InvalidMatchSelection.                           *)
RejectDecision(j) ==
  /\ Deciding(j)
  /\ ~Selectable(j)
  /\ jobs' = [jobs EXCEPT ![j] = Counted(@, "failed")]
  /\ UNCHANGED <<ff, cache, previews, served>>

(* Mutant: the details are appended whether or not the notes hold them.    *)
AlwaysAppended(seen, i) ==
  [st |-> "sent", tags |-> seen.tags \union {DoneTag}, notes |-> Append(seen.notes, i)]

(* OrderPayment.build_tx_update; notes None leaves them alone.             *)
BuildTxUpdate(seen, i) ==
  [st |-> "sent", tags |-> seen.tags \union {DoneTag},
   notes |-> IF i \in ToSet(seen.notes) THEN None ELSE Append(seen.notes, i)]

SendUpdate(j) ==
  /\ Deciding(j)
  /\ Selectable(j)
  /\ \E i \in Chosen(j) : jobs' = [jobs EXCEPT ![j] =
       [@ EXCEPT !.update = BuildTxUpdate(jobs[j].index[Current(j).tx].seen, i)]]
  /\ UNCHANGED <<ff, cache, previews, served>>

(* The instant at which Firefly carries the update out.                    *)
FireflyWrites(j) ==
  LET u == jobs[j].update
      x == Current(j).tx
  IN
  /\ u # None /\ u.st = "sent"
  /\ ff' = [ff EXCEPT ![x] =
       [tags |-> u.tags, notes |-> IF u.notes = None THEN @.notes ELSE u.notes]]
  /\ jobs' = [jobs EXCEPT ![j] =
       [jobs[j] EXCEPT !.update = [u EXCEPT !.st = "written"],
                       !.written = @ \union {Position(j)}]]
  /\ UNCHANGED <<cache, previews, served>>

(* Mutant: the update is taken for done once it has been sent.             *)
AnsweredWhenSent(j) == jobs[j].update # None

Answered(j) == jobs[j].update # None /\ jobs[j].update.st = "written"

UpdateSucceeds(j) ==
  /\ Answered(j)
  /\ jobs' = [jobs EXCEPT ![j] = Counted(@, "success")]
  /\ UNCHANGED <<ff, cache, previews, served>>

(* Firefly answers with an error or not at all, before or after it carried *)
(* the update out.                                                         *)
UpdateFails(j) ==
  /\ jobs[j].update # None
  /\ jobs' = [jobs EXCEPT ![j] =
       Counted([jobs[j] EXCEPT !.refused = @ \union {Position(j)}], "failed")]
  /\ UNCHANGED <<ff, cache, previews, served>>

(* Mutant: the job waits until every decision has been applied.            *)
AllApplied(j) == jobs[j].applied = Len(jobs[j].todo)

AllDecided(j) == Position(j) > Len(jobs[j].todo)

JobEnds(j) ==
  /\ jobs[j].st = "running"
  /\ jobs[j].update = None
  /\ AllDecided(j)
  /\ jobs' = [jobs EXCEPT ![j] = [@ EXCEPT !.st = "done"]]
  /\ UNCHANGED <<ff, cache, previews, served>>

(* What the task of a job does on the loop.                                *)
TaskStep(j) ==
  \/ JobBegins(j)
  \/ RejectDecision(j)
  \/ SendUpdate(j)
  \/ UpdateSucceeds(j)
  \/ UpdateFails(j)
  \/ JobEnds(j)

JobStep(j) == RecordOutcome(j) \/ FireflyWrites(j) \/ (LoopIsFree /\ TaskStep(j))

-----------------------------------------------------------------------------
(* A poll, get_apply_job and map_job_to_response: in a thread, one field   *)
(* of the job after another.                                               *)

PollStatus(c, j) ==
  /\ polls[c] = NoPoll
  /\ jobs[j].st \notin {"free", "lost"}
  /\ polls' = [polls EXCEPT ![c] = Poll(j, "status", jobs[j].st, 0, 0)]
  /\ UNCHANGED <<ff, cache, previews, jobs, answers>>

PollApplied(c) ==
  /\ polls[c].at = "status"
  /\ polls' = [polls EXCEPT ![c] =
       [@ EXCEPT !.at = "applied", !.applied = jobs[polls[c].job].applied]]
  /\ UNCHANGED <<ff, cache, previews, jobs, answers>>

PollFailed(c) ==
  /\ polls[c].at = "applied"
  /\ polls' = [polls EXCEPT ![c] =
       [@ EXCEPT !.at = "failed", !.failed = jobs[polls[c].job].failed]]
  /\ UNCHANGED <<ff, cache, previews, jobs, answers>>

(* Mutant: the status is read last.                                        *)
StatusReadLast(p) ==
  [job |-> p.job, st |-> jobs[p.job].st, total |-> Len(jobs[p.job].todo),
   applied |-> p.applied, failed |-> p.failed, results |-> jobs[p.job].results]

(* The total never changes, and the results are copied up to the last one  *)
(* that is there when the copy reaches the end.                            *)
Answer(p) ==
  [job |-> p.job, st |-> p.st, total |-> Len(jobs[p.job].todo),
   applied |-> p.applied, failed |-> p.failed, results |-> jobs[p.job].results]

PollResults(c) ==
  /\ polls[c].at = "failed"
  /\ answers' = [answers EXCEPT ![c] = Answer(polls[c])]
  /\ polls' = [polls EXCEPT ![c] = NoPoll]
  /\ UNCHANGED <<ff, cache, previews, jobs>>

PollStep(c) ==
  \/ \E j \in Jobs : PollStatus(c, j)
  \/ PollApplied(c)
  \/ PollFailed(c)
  \/ PollResults(c)

-----------------------------------------------------------------------------
(* The server restarts; clients keep the answers they have.                *)
Restart ==
  /\ cache' = <<>>
  /\ previews' = [v \in Previews |-> Idle]
  /\ jobs' = [j \in Jobs |-> IF jobs[j].st = "free" THEN NoJob ELSE LostJob]
  /\ polls' = [c \in Clients |-> NoPoll]
  /\ UNCHANGED <<ff, answers>>

PreviewStep(v) ==
  \/ FireflyReads(v)
  \/ /\ LoopIsFree
     /\ \/ \E p \in Pages : \E items \in Contents[p] : PreviewAsks(v, p, items)
        \/ PreviewEnds(v)
        \/ PreviewFails(v)

Next ==
  \/ \E v \in Previews : PreviewStep(v)
  \/ \E p \in Pages : ClearPage(p)
  \/ ClearSecret
  \/ \E j \in Jobs : StartApply(j) \/ JobStep(j)
  \/ \E j \in Jobs, limit \in Limits : AutoApply(j, limit)
  \/ \E c \in Clients : PollStep(c)
  \/ Restart

Spec == Init /\ [][Next]_vars

(* The loop runs every job, and every call to Firefly ends.                *)
FairSpec == Spec /\ \A j \in Jobs : WF_vars(JobStep(j))

-----------------------------------------------------------------------------
(* Properties.                                                             *)

Updates ==
  [st : {"sent", "written"}, tags : SUBSET {DoneTag}, notes : Seq(Items) \union {None}]

JobRecords ==
  [st : JobStates, auto : BOOLEAN, todo : Seq(Decisions), index : MatchLists,
   update : Updates \union {None}, outcome : Outcomes \union {None},
   results : Seq(Outcomes), applied : Nat, failed : Nat,
   written : SUBSET Nat, refused : SUBSET Nat]

PreviewRecords ==
  [st : {"idle", "asked", "read"}, page : Pages \union {None},
   items : SUBSET Items, matches : MatchLists]

PollRecords ==
  {NoPoll} \union
  [job : Jobs, at : {"status", "applied", "failed"}, st : JobStates, applied : Nat,
   failed : Nat]

Answers ==
  [job : Jobs, st : JobStates, total : Nat, applied : Nat, failed : Nat,
   results : Seq(Outcomes)]

(* Types; a page has one entry in the cache.                               *)
AllegroTypeOK ==
  /\ ff \in [Txs -> FireflyTxs]
  /\ cache \in Seq(Entries)
  /\ \A k, l \in DOMAIN cache : cache[k].page = cache[l].page => k = l
  /\ previews \in [Previews -> PreviewRecords]
  /\ \A v \in Previews : previews[v].st # "idle" => previews[v].page \in Pages
  /\ jobs \in [Jobs -> JobRecords]
  /\ \A j \in Jobs :
       /\ jobs[j].update = None \/ jobs[j].outcome = None
       /\ jobs[j].update # None \/ jobs[j].outcome # None =>
            Position(j) \in DOMAIN jobs[j].todo
  /\ polls \in [Clients -> PollRecords]
  /\ answers \in [Clients -> Answers \union {None}]

(* A decision reported as a success has reached Firefly, and one that has  *)
(* not is reported as a failure only if Firefly refused it or its payment  *)
(* is not a candidate, in the matches the job started with, whatever       *)
(* happened to the cache since (218-238).                                  *)
OutcomesAreTrue ==
  \A j \in Jobs : \A k \in DOMAIN jobs[j].results :
    LET d == jobs[j].todo[k] IN
    IF jobs[j].results[k] = "success"
    THEN k \in jobs[j].written
    ELSE \/ k \in jobs[j].refused
         \/ d.tx \notin Listed(jobs[j].index)
         \/ \A i \in jobs[j].index[d.tx].items : ShortId[i] # d.id

(* Whatever pages are cached, cleared and applied meanwhile, the details   *)
(* of a payment reach only transactions it matches, and none without the   *)
(* tag that marks it as processed (order_payment.py 20-43).                *)
EnrichmentIsSound ==
  \A x \in Txs :
    /\ \A i \in ToSet(ff[x].notes) : Compare(i, x)
    /\ ff[x].notes # <<>> => DoneTag \in ff[x].tags

(* Jobs that apply the same payment to the same transaction, from matches  *)
(* read before or after one another, leave its details once in the notes.  *)
NotesOnce == \A x \in Txs : IsInjective(ff[x].notes)

(* A job that was started ends, whatever its decisions and Firefly's       *)
(* answers are, unless the server restarts (206-241).                      *)
JobsEnd == \A j \in Jobs : jobs[j].st = "pending" ~> jobs[j].st \in {"done", "lost"}

(* README.md: "Auto-apply one-candidate matches".  A decision the service  *)
(* made itself fails only if Firefly fails it.                             *)
AutoAppliesSingles ==
  \A j \in Jobs : jobs[j].auto =>
    \A k \in DOMAIN jobs[j].results :
      jobs[j].results[k] = "failed" => k \in jobs[j].refused

(* A poll reads the job while it is at work.  Once it tells DONE, all it   *)
(* tells is complete: the status is read before the rest.  Until then the  *)
(* counters may be behind the results, which are read last, and ahead of   *)
(* them by the one outcome that is counted and not yet recorded, and by no *)
(* more (allegro_application_service.py 230-240, mappers/allegro.py        *)
(* 135-146).                                                               *)
AnswersAgree ==
  \A c \in Clients : answers[c] # None =>
    LET a == answers[c]
        successes == Count(a.results, "success")
        failures == Count(a.results, "failed")
    IN
    /\ Len(a.results) <= a.total
    /\ a.applied <= successes + 1
    /\ a.failed <= failures + 1
    /\ a.applied + a.failed <= Len(a.results) + 1
    /\ a.st = "done" =>
         Len(a.results) = a.total /\ a.applied = successes /\ a.failed = failures

(* A status may be left and never returned to.                             *)
NotBack(old, new) ==
  (new = "pending" => old = "pending") /\ (old = "done" => new = "done")

Later(a, b) ==
  /\ NotBack(a.st, b.st)
  /\ a.applied <= b.applied /\ a.failed <= b.failed
  /\ Extends(b.results, a.results)

(* A client that polls a job again is told at least what it was told       *)
(* before: no outcome is withdrawn, no counter and no status goes back,    *)
(* however the reads of the two polls fall between the steps of the job    *)
(* and whatever restarts (the same lines).                                 *)
AnswersAdvance ==
  [][\A c \in Clients :
       /\ answers[c] # None /\ answers'[c] # None
       /\ answers[c].job = answers'[c].job
       => Later(answers[c], answers'[c])]_answers
=============================================================================
