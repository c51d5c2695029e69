------------------------------ MODULE BlikJobs ------------------------------
(***************************************************************************)
(* BlikApplicationService: bank files are uploaded to temporary files,     *)
(* previews pair a file's records with Firefly transactions and cache the  *)
(* result per file, and background jobs apply decisions against the cached *)
(* result, building each update from the transaction as the preview read   *)
(* it.  A restart loses the cache and the jobs; files and Firefly stay.    *)
(***************************************************************************)
EXTENDS Matching, JobData, SequencesExt

CONSTANTS
  None,
  Files,          \* bank files
  Content,        \* Content[f]: the records of file f, none if it cannot be read
  Row,            \* Row[i]: the text of record i, what its match id hashes
  Previews,       \* concurrent preview requests
  Jobs,           \* identities of apply jobs
  DecisionLists   \* what a client may ask to apply

Rows == {Row[i] : i \in Items}
Decisions == [tx : Txs, row : Rows]
Decision(x, r) == [tx |-> x, row |-> r]

(* desc and notes: the rows that were appended to the description and to   *)
(* the notes.                                                              *)
FireflyTxs == [done : BOOLEAN, desc : Seq(Rows), notes : Seq(Rows)]

(* A MatchResult: the transaction as it was read, and its candidates.      *)
MatchResults == [seen : FireflyTxs, items : SUBSET Items]

ASSUME BlikAssumption ==
  /\ Payments = {}
  /\ None \notin Files \union MatchResults
  /\ Content \in [Files -> SUBSET Items]
  /\ DecisionLists \subseteq Seq(Decisions)

VARIABLES
  ff,        \* ff[x]: tag, description and notes of transaction x in Firefly
  files,     \* the temporary files
  cache,     \* matches_cache, by file
  previews,  \* the preview requests under way
  jobs       \* the apply jobs

vars == <<ff, files, cache, previews, jobs>>

-----------------------------------------------------------------------------
(* Lists of matches by transaction, None for one that is not listed.       *)
MatchLists == [Txs -> MatchResults \union {None}]
NoMatches == [x \in Txs |-> None]
Listed(m) == {x \in Txs : m[x] # None}

(* A preview: "asked" before Firefly has answered, "read" after.           *)
Preview(st, file, matches) == [st |-> st, file |-> file, matches |-> matches]
Idle == Preview("idle", None, NoMatches)

(* A job.  matches: the ones it was started with.  outcomes: the list      *)
(* _apply_decisions builds.  update: the update under way, None between    *)
(* two decisions.                                                          *)
(* Kept for the properties -- written: the decisions whose update reached  *)
(* Firefly; refused: the ones Firefly failed.                              *)
Job(st, file, auto, todo, matches) ==
  [st |-> st, file |-> file, auto |-> auto, todo |-> todo, matches |-> matches,
   update |-> None, outcomes |-> <<>>, results |-> <<>>, applied |-> 0,
   failed |-> 0, written |-> {}, refused |-> {}]
NoJob == Job("free", None, FALSE, <<>>, NoMatches)
LostJob == Job("lost", None, FALSE, <<>>, NoMatches)

Init ==
  /\ ff = [x \in Txs |-> [done |-> FALSE, desc |-> <<>>, notes |-> <<>>]]
  /\ files = {}
  /\ cache = [f \in Files |-> NoMatches]
  /\ previews = [v \in Previews |-> Idle]
  /\ jobs = [j \in Jobs |-> NoJob]

-----------------------------------------------------------------------------
(* Bound: the cache is of no more interest once every job has started.     *)
JobsLeft == \E j \in Jobs : jobs[j].st = "free"

(* upload_csv keeps the file whether or not it can be parsed.              *)
Upload(f) ==
  /\ f \notin files
  /\ files' = files \union {f}
  /\ UNCHANGED <<ff, cache, previews, jobs>>

(* preview_matches: the reader raises for a file it cannot read, and min() *)
(* for one without records.                                                *)
PreviewAsks(v, f) ==
  /\ JobsLeft
  /\ previews[v].st = "idle"
  /\ f \in files
  /\ Content[f] # {}
  /\ previews' = [previews EXCEPT ![v] = Preview("asked", f, NoMatches)]
  /\ UNCHANGED <<ff, files, cache, jobs>>

(* The matches of a file, of the transactions as they now are.             *)
Matched(f) ==
  [x \in Txs |-> IF x \in Window(Content[f])
                 THEN [seen |-> ff[x], items |-> Candidates(Content[f], x)] ELSE None]

(* The instant at which Firefly answers.                                   *)
FireflyReads(v) ==
  /\ previews[v].st = "asked"
  /\ previews' = [previews EXCEPT ![v] = Preview("read", @.file, Matched(@.file))]
  /\ UNCHANGED <<ff, files, cache, jobs>>

(* Mutant: one list of matches, whatever the file.                         *)
PutForAnyFile(file, matches) == [f \in Files |-> matches]

(* put_matches: the last preview to end replaces the matches of the file.  *)
PutMatches(file, matches) == [cache EXCEPT ![file] = matches]

PreviewEnds(v) ==
  /\ previews[v].st = "read"
  /\ cache' = PutMatches(previews[v].file, previews[v].matches)
  /\ previews' = [previews EXCEPT ![v] = Idle]
  /\ UNCHANGED <<ff, files, jobs>>

(* ExternalServiceFailed: the matches of an earlier preview stay.          *)
PreviewFails(v) ==
  /\ previews[v].st \in {"asked", "read"}
  /\ previews' = [previews EXCEPT ![v] = Idle]
  /\ UNCHANGED <<ff, files, cache, jobs>>

-----------------------------------------------------------------------------
(* Starting a job.  Without matches: MatchesNotComputed.                   *)

StartJob(j, f, auto, ds) ==
  /\ jobs[j].st = "free"
  /\ cache[f] # NoMatches
  /\ jobs' = [jobs EXCEPT ![j] = Job("pending", f, auto, ds, cache[f])]
  /\ UNCHANGED <<ff, files, cache, previews>>

StartApply(j, f) == \E ds \in DecisionLists : StartJob(j, f, FALSE, ds)

(* The transactions with one candidate.                                    *)
Singles(matches) ==
  {x \in Listed(matches) : \E i \in Items : matches[x].items = {i}}

(* In the order in which Firefly listed them.                              *)
SingleLists(matches) ==
  {list \in SetToSeqs(Singles(matches)) :
     \A m, n \in DOMAIN list : m < n => Place[list[m]] < Place[list[n]]}

DecisionOf(matches, x) ==
  Decision(x, Row[CHOOSE i \in Items : i \in matches[x].items])

AutoDecisions(matches, list) == [n \in DOMAIN list |-> DecisionOf(matches, list[n])]

(* start_auto_apply_single_matches; a limit is at least 1.                 *)
Limited(ds, limit) ==
  IF limit = None \/ limit > Len(ds) THEN ds ELSE SubSeq(ds, 1, limit)

AutoApply(j, f, limit) ==
  \E list \in SingleLists(cache[f]) :
    StartJob(j, f, TRUE, Limited(AutoDecisions(cache[f], list), limit))

-----------------------------------------------------------------------------
(* _run_apply_job.                                                         *)

JobBegins(j) ==
  /\ jobs[j].st = "pending"
  /\ jobs' = [jobs EXCEPT ![j] = [@ EXCEPT !.st = "running"]]
  /\ UNCHANGED <<ff, files, cache, previews>>

Position(j) == Len(jobs[j].outcomes) + 1

(* The job is about to handle its next decision.                           *)
Deciding(j) ==
  /\ jobs[j].st = "running"
  /\ jobs[j].update = None
  /\ Position(j) <= Len(jobs[j].todo)

Current(j) == jobs[j].todo[Position(j)]

(* Mutant: the match id is looked up among the candidates of any           *)
(* transaction.                                                            *)
MatchIdsOfAny(j, x) ==
  UNION {{Row[i] : i \in jobs[j].matches[y].items} : y \in Listed(jobs[j].matches)}

(* The match ids of a transaction's candidates.                            *)
MatchIds(j, x) == {Row[i] : i \in jobs[j].matches[x].items}

(* Mutant: a transaction that had been processed cannot be chosen again.   *)
SelectableIfNew(j) ==
  /\ Current(j).tx \in Listed(jobs[j].matches)
  /\ Current(j).row \in MatchIds(j, Current(j).tx)
  /\ ~jobs[j].matches[Current(j).tx].seen.done

Selectable(j) ==
  /\ Current(j).tx \in Listed(jobs[j].matches)
  /\ Current(j).row \in MatchIds(j, Current(j).tx)

Recorded(job, outcome) ==
  [job EXCEPT !.update = None, !.outcomes = Append(@, outcome)]

(* TransactionNotFound or InvalidMatchSelection.                           *)
RejectDecision(j) ==
  /\ Deciding(j)
  /\ ~Selectable(j)
  /\ jobs' = [jobs EXCEPT ![j] = Recorded(@, "failed")]
  /\ UNCHANGED <<ff, files, cache, previews>>

(* Mutant: the details are appended whether or not the description holds   *)
(* them.                                                                   *)
AlwaysDescribed(seen, r) ==
  [st |-> "sent", desc |-> Append(seen.desc, r), notes |-> Append(seen.notes, r)]

(* BankRecord.build_tx_update; desc None leaves the description alone.     *)
BuildTxUpdate(seen, r) ==
  [st |-> "sent",
   desc |-> IF r \in ToSet(seen.desc) THEN None ELSE Append(seen.desc, r),
   notes |-> Append(seen.notes, r)]

SendUpdate(j) ==
  LET d == Current(j) IN
  /\ Deciding(j)
  /\ Selectable(j)
  /\ jobs' = [jobs EXCEPT ![j] =
       [@ EXCEPT !.update = BuildTxUpdate(jobs[j].matches[d.tx].seen, d.row)]]
  /\ UNCHANGED <<ff, files, cache, previews>>

(* The instant at which Firefly carries the update out.                    *)
FireflyWrites(j) ==
  LET u == jobs[j].update
      x == Current(j).tx
  IN
  /\ u # None /\ u.st = "sent"
  /\ ff' = [ff EXCEPT ![x] = [done |-> TRUE, notes |-> u.notes,
       desc |-> IF u.desc = None THEN @.desc ELSE u.desc]]
  /\ jobs' = [jobs EXCEPT ![j] =
       [jobs[j] EXCEPT !.update = [u EXCEPT !.st = "written"],
                       !.written = @ \union {Position(j)}]]
  /\ UNCHANGED <<files, cache, previews>>

(* Mutant: the update is taken for done once it has been sent.             *)
AnsweredWhenSent(j) == jobs[j].update # None

Answered(j) == jobs[j].update # None /\ jobs[j].update.st = "written"

UpdateSucceeds(j) ==
  /\ Answered(j)
  /\ jobs' = [jobs EXCEPT ![j] = Recorded(@, "success")]
  /\ UNCHANGED <<ff, files, cache, previews>>

(* Firefly answers with an error or not at all, before or after it carried *)
(* the update out.                                                         *)
UpdateFails(j) ==
  /\ jobs[j].update # None
  /\ jobs' = [jobs EXCEPT ![j] =
       Recorded([jobs[j] EXCEPT !.refused = @ \union {Position(j)}], "failed")]
  /\ UNCHANGED <<ff, files, cache, previews>>

(* Mutant: the last decision is left out.                                  *)
AllButLastDecided(j) == Position(j) >= Len(jobs[j].todo)

(* Mutant: the job waits until every decision has been applied.            *)
AllApplied(j) == Count(jobs[j].outcomes, "success") = Len(jobs[j].todo)

AllDecided(j) == Position(j) > Len(jobs[j].todo)

(* The counters and the results a client polls change in the last step     *)
(* only.                                                                   *)
Published(job) ==
  [job EXCEPT !.st = "done", !.results = job.outcomes,
     !.applied = Count(job.outcomes, "success"),
     !.failed = Count(job.outcomes, "failed")]

JobEnds(j) ==
  /\ jobs[j].st = "running"
  /\ jobs[j].update = None
  /\ AllDecided(j)
  /\ jobs' = [jobs EXCEPT ![j] = Published(@)]
  /\ UNCHANGED <<ff, files, cache, previews>>

JobStep(j) ==
  \/ JobBegins(j)
  \/ RejectDecision(j)
  \/ SendUpdate(j)
  \/ FireflyWrites(j)
  \/ UpdateSucceeds(j)
  \/ UpdateFails(j)
  \/ JobEnds(j)

-----------------------------------------------------------------------------
(* The server restarts.                                                    *)
Restart ==
  /\ cache' = [f \in Files |-> NoMatches]
  /\ previews' = [v \in Previews |-> Idle]
  /\ jobs' = [j \in Jobs |-> IF jobs[j].st = "free" THEN NoJob ELSE LostJob]
  /\ UNCHANGED <<ff, files>>

PreviewStep(v) ==
  \/ \E f \in Files : PreviewAsks(v, f)
  \/ FireflyReads(v)
  \/ PreviewEnds(v)
  \/ PreviewFails(v)

Start(j, f) ==
  \/ StartApply(j, f)
  \/ \E limit \in {None, 1} : AutoApply(j, f, limit)

Next ==
  \/ \E f \in Files : Upload(f)
  \/ \E v \in Previews : PreviewStep(v)
  \/ \E j \in Jobs, f \in Files : Start(j, f)
  \/ \E j \in Jobs : JobStep(j)
  \/ Restart

Spec == Init /\ [][Next]_vars

(* The loop runs every job, and every call to Firefly ends.                *)
FairSpec == Spec /\ \A j \in Jobs : WF_vars(JobStep(j))

-----------------------------------------------------------------------------
(* Properties.                                                             *)

Updates ==
  [st : {"sent", "written"}, desc : Seq(Rows) \union {None}, notes : Seq(Rows)]

JobRecords ==
  [st : {"free", "pending", "running", "done", "lost"}, file : Files \union {None},
   auto : BOOLEAN, todo : Seq(Decisions), matches : MatchLists,
   update : Updates \union {None}, outcomes : Seq(Outcomes), results : Seq(Outcomes),
   applied : Nat, failed : Nat, written : SUBSET Nat, refused : SUBSET Nat]

PreviewRecords ==
  [st : {"idle", "asked", "read"}, file : Files \union {None}, matches : MatchLists]

(* Types; only a file that was uploaded is previewed and has matches.      *)
BlikTypeOK ==
  /\ ff \in [Txs -> FireflyTxs]
  /\ files \subseteq Files
  /\ cache \in [Files -> MatchLists]
  /\ \A f \in Files \ files : cache[f] = NoMatches
  /\ previews \in [Previews -> PreviewRecords]
  /\ \A v \in Previews : previews[v].st # "idle" => previews[v].file \in files
  /\ jobs \in [Jobs -> JobRecords]
  /\ \A j \in Jobs : /\ jobs[j].st # "free" => jobs[j].file \in files \union {None}
                     /\ jobs[j].update # None => Position(j) \in DOMAIN jobs[j].todo

(* A decision reported as a success has reached Firefly, and one that has  *)
(* not is reported as a failure only if Firefly refused it or its match id *)
(* is of no candidate the job's own file has for that transaction, though  *)
(* the file was previewed again, or another file, since the job started    *)
(* (_apply_decisions, 277-326).                                            *)
BlikOutcomesAreTrue ==
  \A j \in Jobs : \A k \in DOMAIN jobs[j].results :
    LET d == jobs[j].todo[k] IN
    IF jobs[j].results[k] = "success"
    THEN k \in jobs[j].written
    ELSE \/ k \in jobs[j].refused
         \/ d.tx \notin Window(Content[jobs[j].file])
         \/ \A i \in Candidates(Content[jobs[j].file], d.tx) : Row[i] # d.row

(* Whatever jobs of whatever files overlap, records reach only             *)
(* transactions they match, from files that were uploaded, and not without *)
(* the tag that marks a transaction as processed (bank_record.py 68-82).   *)
BlikEnrichmentIsSound ==
  \A x \in Txs :
    /\ \A r \in ToSet(ff[x].desc) \union ToSet(ff[x].notes) :
         \E f \in files : \E i \in Content[f] : Row[i] = r /\ Compare(i, x)
    /\ ff[x].notes # <<>> => ff[x].done
    /\ ff[x].desc # <<>> => ff[x].notes # <<>>

(* A record's details are appended to a description once, though it is     *)
(* applied again, after a restart, from a preview that is out of date, or  *)
(* from another file that holds the same record (bank_record.py 70-73).    *)
DescriptionOnce == \A x \in Txs : IsInjective(ff[x].desc)

(* A decision the service took itself, for a transaction with one          *)
(* candidate, fails only if Firefly fails it, whether or not it had been   *)
(* applied before (start_auto_apply_single_matches, 172-197).              *)
BlikAutoAppliesSingles ==
  \A j \in Jobs : jobs[j].auto =>
    \A k \in DOMAIN jobs[j].results :
      jobs[j].results[k] = "failed" => k \in jobs[j].refused

(* A job that was started ends, unless the server restarts (212-241).      *)
BlikJobsEnd == \A j \in Jobs : jobs[j].st = "pending" ~> jobs[j].st \in {"done", "lost"}

(* What a client sees of a job.                                            *)
View(j) ==
  [st |-> jobs[j].st, total |-> Len(jobs[j].todo), results |-> jobs[j].results,
   applied |-> jobs[j].applied, failed |-> jobs[j].failed]

Contract == INSTANCE JobContract WITH jobs <- [j \in Jobs |-> View(j)]

(* A client that polls a job sees what JobContract allows: counters that   *)
(* agree with the results, one result for each decision, in their order,   *)
(* none withdrawn, and all of them when the job is DONE (199-241).         *)
BlikImplementsContract == Contract!JobsSpec
=============================================================================
