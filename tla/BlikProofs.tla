----------------------------- MODULE BlikProofs -----------------------------
(***************************************************************************)
(* Proofs about BlikJobs, for every set of transactions, records, files,   *)
(* previews and jobs.                                                      *)
(***************************************************************************)
EXTENDS BlikJobs, SequenceTheorems, FiniteSetTheorems, TLAPS

-----------------------------------------------------------------------------
(* The invariant.  A copy of a transaction, however old, is sound by       *)
(* itself; F is the set of the files uploaded so far, which only grows.    *)

FromFile(F, x, r) == \E f \in F : \E i \in Content[f] : Row[i] = r /\ Compare(i, x)

SoundTx(F, x, t) ==
  /\ \A r \in ToSet(t.desc) \union ToSet(t.notes) : FromFile(F, x, r)
  /\ t.notes # <<>> => t.done
  /\ t.desc # <<>> => t.notes # <<>>
  /\ IsInjective(t.desc)

(* The matches are those of file f, read from sound transactions.          *)
MatchesOf(F, f, m) ==
  /\ f \in F
  /\ Listed(m) = Window(Content[f])
  /\ \A x \in Listed(m) : /\ m[x].items = Candidates(Content[f], x)
                          /\ SoundTx(F, x, m[x].seen)

(* The update leaves sound whatever sound transaction it is applied to.    *)
SoundUpdate(F, x, u) ==
  /\ u.notes # <<>>
  /\ \A r \in ToSet(u.notes) : FromFile(F, x, r)
  /\ u.desc # None => /\ \A r \in ToSet(u.desc) : FromFile(F, x, r)
                      /\ IsInjective(u.desc)

Due(job) == job.todo[Len(job.outcomes) + 1]

(* What a job works with stays that of its own file.                       *)
SoundJob(F, job) ==
  /\ job.st \in {"pending", "running", "done"} => MatchesOf(F, job.file, job.matches)
  /\ job.update # None => SoundUpdate(F, Due(job).tx, job.update)

Known(job, d) ==
  /\ d.tx \in Listed(job.matches)
  /\ \E i \in job.matches[d.tx].items : Row[i] = d.row

TrueOutcome(job, k) ==
  IF job.outcomes[k] = "success" THEN k \in job.written
  ELSE k \in job.refused \/ ~Known(job, job.todo[k])

(* Every outcome so far is true; the decisions the service took itself can *)
(* all be applied.                                                         *)
Truthful(job) ==
  /\ \A k \in DOMAIN job.outcomes : TrueOutcome(job, k)
  /\ job.update # None /\ job.update.st = "written" =>
       Len(job.outcomes) + 1 \in job.written
  /\ job.auto => \A k \in DOMAIN job.todo : Known(job, job.todo[k])

(* Nothing is published before the end, and then everything.               *)
Tallied(job) ==
  /\ job.results = IF job.st = "done" THEN job.outcomes ELSE <<>>
  /\ job.applied = Count(job.results, "success")
  /\ job.failed = Count(job.results, "failed")
  /\ Len(job.outcomes) <= Len(job.todo)
  /\ job.st = "done" => Len(job.outcomes) = Len(job.todo)
  /\ job.st \in {"free", "lost"} => job.todo = <<>>
  /\ job.update # None => job.st = "running"

JobFits(F, job) == SoundJob(F, job) /\ Truthful(job) /\ Tallied(job)

BlikInv ==
  /\ BlikTypeOK
  /\ \A x \in Txs : SoundTx(files, x, ff[x])
  /\ \A f \in Files : cache[f] = NoMatches \/ MatchesOf(files, f, cache[f])
  /\ \A v \in Previews : previews[v].st = "read" =>
       MatchesOf(files, previews[v].file, previews[v].matches)
  /\ \A j \in Jobs : JobFits(files, jobs[j])

-----------------------------------------------------------------------------
(* Types.                                                                  *)

LEMMA NoMatchesTyped == NoMatches \in MatchLists
BY DEF NoMatches, MatchLists

LEMMA IdleTyped == Idle \in PreviewRecords /\ Idle.st = "idle"
BY NoMatchesTyped DEF Idle, Preview, PreviewRecords

LEMMA NewJobTyped ==
  ASSUME NEW st \in {"free", "pending", "lost"}, NEW f \in Files \union {None},
         NEW auto \in BOOLEAN, NEW ds \in Seq(Decisions), NEW m \in MatchLists
  PROVE  /\ Job(st, f, auto, ds, m) \in JobRecords
         /\ Job(st, f, auto, ds, m).update = None
         /\ Job(st, f, auto, ds, m).file = f
BY DEF Job, JobRecords

(* The matches a preview makes are typed.                                  *)
LEMMA MatchedTyped ==
  ASSUME BlikTypeOK, NEW f \in Files
  PROVE  Matched(f) \in MatchLists
<1>1. \A x \in Txs : Candidates(Content[f], x) \in SUBSET Items
  BY BlikAssumption DEF Candidates
<1>2. QED
  BY <1>1 DEF Matched, MatchLists, MatchResults, BlikTypeOK

(* The decisions the service makes itself are decisions.                   *)
LEMMA AutoDecisionsTyped ==
  ASSUME NEW m \in MatchLists, NEW list \in SingleLists(m), NEW limit \in {None, 1}
  PROVE  /\ Limited(AutoDecisions(m, list), limit) \in Seq(Decisions)
         /\ \A k \in DOMAIN Limited(AutoDecisions(m, list), limit) :
              \E x \in Singles(m) :
                Limited(AutoDecisions(m, list), limit)[k] = DecisionOf(m, x)
<1> DEFINE all == AutoDecisions(m, list)
<1>1. ASSUME NEW x \in Singles(m) PROVE DecisionOf(m, x) \in Decisions
  <2>1. PICK i \in Items : m[x].items = {i}
    BY DEF Singles
  <2>2. (CHOOSE k \in Items : k \in m[x].items) \in Items
    BY <2>1
  <2>3. QED
    BY <2>2 DEF DecisionOf, Decision, Decisions, Rows, Singles, Listed
<1>2. PICK n \in Nat : list \in [1 .. n -> Singles(m)]
  <2>1. IsFiniteSet(Singles(m))
    BY MatchingAssumption, FS_Subset DEF Singles, Listed
  <2>2. QED
    BY <2>1, FS_CardinalityType DEF SingleLists, SetToSeqs
<1>3. all \in Seq(Decisions) /\ \A k \in DOMAIN all : all[k] = DecisionOf(m, list[k])
  BY <1>1, <1>2 DEF AutoDecisions
<1>4. \A k \in DOMAIN all : \E x \in Singles(m) : all[k] = DecisionOf(m, x)
  BY <1>2, <1>3 DEF AutoDecisions
<1> HIDE DEF all
<1>5. CASE limit = None \/ limit > Len(all)
  BY <1>3, <1>4, <1>5 DEF Limited, all
<1>6. CASE ~(limit = None \/ limit > Len(all))
  <2>1. limit = 1 /\ Len(all) \in Nat /\ 1 <= Len(all) /\ DOMAIN all = 1 .. Len(all)
    BY <1>3, <1>6, LenProperties
  <2>2. Limited(all, limit) = SubSeq(all, 1, 1)
    BY <1>6, <2>1 DEF Limited
  <2>3. \A k \in 1 .. 1 : all[k] \in Decisions
    BY <1>3, <2>1, ElementOfSeq
  <2>4. /\ SubSeq(all, 1, 1) \in Seq(Decisions) /\ Len(SubSeq(all, 1, 1)) = 1
        /\ \A k \in 1 .. 1 : SubSeq(all, 1, 1)[k] = all[1 + k - 1]
    BY <2>1, <2>3, SubSeqProperties
  <2>5. DOMAIN SubSeq(all, 1, 1) = 1 .. 1 /\ SubSeq(all, 1, 1)[1] = all[1]
    BY <2>4, LenProperties
  <2>6. PICK x \in Singles(m) : all[1] = DecisionOf(m, x)
    BY <1>4, <2>1
  <2>7. /\ Limited(all, limit) \in Seq(Decisions)
        /\ \A k \in DOMAIN Limited(all, limit) : Limited(all, limit)[k] = DecisionOf(m, x)
    BY <2>2, <2>4, <2>5, <2>6
  <2>8. QED
    BY <2>7 DEF all
<1>7. QED
  BY <1>5, <1>6

(* A decision under way is one of the job's, and so is its update.         *)
LEMMA CurrentTyped ==
  ASSUME BlikTypeOK, NEW j \in Jobs, Deciding(j) \/ jobs[j].update # None
  PROVE  /\ Position(j) \in DOMAIN jobs[j].todo
         /\ Position(j) \in Nat
         /\ Current(j) \in Decisions
         /\ Current(j).tx \in Txs /\ Current(j).row \in Rows
<1>1. jobs[j].todo \in Seq(Decisions) /\ jobs[j].outcomes \in Seq(Outcomes)
  BY DEF BlikTypeOK, JobRecords
<1>2. Position(j) \in DOMAIN jobs[j].todo
  <2>1. CASE Deciding(j)
    BY <1>1, <2>1, LenProperties DEF Deciding, Position
  <2>2. CASE jobs[j].update # None
    BY <2>2 DEF BlikTypeOK
  <2>3. QED
    BY <2>1, <2>2
<1>3. Current(j) \in Decisions
  BY <1>1, <1>2, LenProperties, ElementOfSeq DEF Current
<1>4. QED
  BY <1>1, <1>2, <1>3, LenProperties DEF Decisions, Position

LEMMA BuildTyped ==
  ASSUME NEW seen \in FireflyTxs, NEW r \in Rows
  PROVE  BuildTxUpdate(seen, r) \in Updates
<1>1. seen.desc \in Seq(Rows) /\ seen.notes \in Seq(Rows)
  BY DEF FireflyTxs
<1>2. Append(seen.desc, r) \in Seq(Rows) /\ Append(seen.notes, r) \in Seq(Rows)
  BY <1>1, AppendProperties
<1>3. QED
  BY <1>2 DEF BuildTxUpdate, Updates

LEMMA RecordedTyped ==
  ASSUME NEW job \in JobRecords, NEW outcome \in Outcomes
  PROVE  /\ Recorded(job, outcome) \in JobRecords
         /\ Recorded(job, outcome).update = None
<1>1. Append(job.outcomes, outcome) \in Seq(Outcomes)
  BY AppendProperties DEF JobRecords
<1>2. QED
  BY <1>1 DEF Recorded, JobRecords

LEMMA CountTyped ==
  ASSUME NEW outcomes \in Seq(Outcomes), NEW outcome
  PROVE  Count(outcomes, outcome) \in Nat
<1>1. IsFiniteSet(DOMAIN outcomes)
  BY FS_Interval, LenProperties
<1>2. {k \in DOMAIN outcomes : outcomes[k] = outcome} \in SUBSET DOMAIN outcomes
  OBVIOUS
<1>3. QED
  BY <1>1, <1>2, FS_Subset, FS_CardinalityType DEF Count

LEMMA PublishedTyped ==
  ASSUME NEW job \in JobRecords
  PROVE  /\ Published(job) \in JobRecords
         /\ Published(job).update = job.update
<1>1. \A outcome : Count(job.outcomes, outcome) \in Nat
  BY CountTyped DEF JobRecords
<1>2. QED
  BY <1>1 DEF Published, JobRecords

-----------------------------------------------------------------------------
(* What is sound stays sound.                                              *)

LEMMA SoundGrows ==
  ASSUME NEW F, NEW G, F \subseteq G, NEW x, NEW t, SoundTx(F, x, t)
  PROVE  SoundTx(G, x, t)
BY DEF SoundTx, FromFile

LEMMA MatchesGrow ==
  ASSUME NEW F, NEW G, F \subseteq G, NEW f, NEW m, MatchesOf(F, f, m)
  PROVE  MatchesOf(G, f, m)
BY SoundGrows DEF MatchesOf

LEMMA JobGrows ==
  ASSUME NEW F, NEW G, F \subseteq G, NEW job, JobFits(F, job)
  PROVE  JobFits(G, job)
<1>1. \A x, r : FromFile(F, x, r) => FromFile(G, x, r)
  BY DEF FromFile
<1>2. SoundJob(G, job)
  BY <1>1, MatchesGrow DEF JobFits, SoundJob, SoundUpdate
<1>3. QED
  BY <1>2 DEF JobFits

(* Appending adds one member, and repeats none that was not there.         *)
LEMMA AppendOnce ==
  ASSUME NEW s \in Seq(Rows), NEW r \in Rows
  PROVE  /\ ToSet(Append(s, r)) = ToSet(s) \union {r}
         /\ Append(s, r) # <<>>
         /\ IsInjective(s) /\ r \notin ToSet(s) => IsInjective(Append(s, r))
<1>1. PICK n \in Nat : n = Len(s) /\ DOMAIN s = 1 .. n
  BY LenProperties
<1>2. /\ DOMAIN Append(s, r) = 1 .. n + 1
      /\ \A k \in 1 .. n : Append(s, r)[k] = s[k]
      /\ Append(s, r)[n + 1] = r
  BY <1>1, AppendProperties, LenProperties
<1>3. ToSet(Append(s, r)) = ToSet(s) \union {r}
  <2>1. ToSet(s) = {s[k] : k \in 1 .. n}
    BY <1>1 DEF ToSet
  <2>2. ToSet(Append(s, r)) = {Append(s, r)[k] : k \in 1 .. n + 1}
    BY <1>2 DEF ToSet
  <2>3. 1 .. n + 1 = (1 .. n) \union {n + 1}
    BY <1>1
  <2>4. QED
    BY <1>2, <2>1, <2>2, <2>3
<1>4. Append(s, r) # <<>>
  BY AppendProperties
<1>5. ASSUME IsInjective(s), r \notin ToSet(s) PROVE IsInjective(Append(s, r))
  <2>1. \A k \in 1 .. n : s[k] # r
    BY <1>1, <1>5 DEF ToSet
  <2>2. \A k, l \in 1 .. n : s[k] = s[l] => k = l
    BY <1>1, <1>5 DEF IsInjective
  <2>3. ASSUME NEW k \in 1 .. n + 1, NEW l \in 1 .. n + 1,
               Append(s, r)[k] = Append(s, r)[l]
        PROVE  k = l
    <3>1. (k \in 1 .. n \/ k = n + 1) /\ (l \in 1 .. n \/ l = n + 1)
      BY <1>1
    <3>2. QED
      BY <1>2, <2>1, <2>2, <2>3, <3>1
  <2>4. QED
    BY <1>2, <2>3 DEF IsInjective
<1>6. QED
  BY <1>3, <1>4, <1>5

(* What build_tx_update makes of a sound copy and a candidate is sound.    *)
LEMMA BuildSound ==
  ASSUME NEW F, NEW x, NEW seen \in FireflyTxs, NEW r \in Rows,
         SoundTx(F, x, seen), FromFile(F, x, r)
  PROVE  SoundUpdate(F, x, BuildTxUpdate(seen, r))
<1> DEFINE u == BuildTxUpdate(seen, r)
<1>1. seen.desc \in Seq(Rows) /\ seen.notes \in Seq(Rows)
  BY DEF FireflyTxs
<1>2. u.notes # <<>> /\ \A q \in ToSet(u.notes) : FromFile(F, x, q)
  <2>1. u.notes = Append(seen.notes, r)
    BY DEF BuildTxUpdate
  <2>2. u.notes # <<>> /\ ToSet(u.notes) = ToSet(seen.notes) \union {r}
    BY <1>1, <2>1, AppendOnce
  <2>3. QED
    BY <2>2 DEF SoundTx
<1>3. ASSUME u.desc # None
      PROVE  (\A q \in ToSet(u.desc) : FromFile(F, x, q)) /\ IsInjective(u.desc)
  <2>1. r \notin ToSet(seen.desc) /\ u.desc = Append(seen.desc, r)
    BY <1>3 DEF BuildTxUpdate
  <2>2. IsInjective(u.desc) /\ ToSet(u.desc) = ToSet(seen.desc) \union {r}
    BY <1>1, <2>1, AppendOnce DEF SoundTx
  <2>3. QED
    BY <2>2 DEF SoundTx
<1>4. QED
  BY <1>2, <1>3 DEF SoundUpdate

(* What Firefly makes of a sound update is sound.                          *)
LEMMA WriteSound ==
  ASSUME NEW F, NEW x, NEW u, NEW t, SoundTx(F, x, t), SoundUpdate(F, x, u)
  PROVE  SoundTx(F, x, [done |-> TRUE, notes |-> u.notes,
                        desc |-> IF u.desc = None THEN t.desc ELSE u.desc])
BY DEF SoundTx, SoundUpdate

-----------------------------------------------------------------------------
(* The steps of a job.                                                     *)

LEMMA EmptyCount ==
  ASSUME NEW outcome
  PROVE  Count(<<>>, outcome) = 0
<1>1. {k \in DOMAIN <<>> : <<>>[k] = outcome} = {}
  OBVIOUS
<1>2. QED
  BY <1>1, FS_EmptySet DEF Count

(* The record a step gives a job that has been started.                    *)
Fitting(F, job, r) ==
  /\ r \in JobRecords
  /\ r.file = job.file /\ r.todo = job.todo
  /\ r.update # None => Len(r.outcomes) + 1 \in DOMAIN r.todo
  /\ JobFits(F, r)
  /\ <<job.st, r.st>> \in
       {<<"pending", "running">>, <<"running", "running">>, <<"running", "done">>}

LEMMA BeginsFit ==
  ASSUME NEW F, NEW job \in JobRecords, JobFits(F, job), job.st = "pending"
  PROVE  Fitting(F, job, [job EXCEPT !.st = "running"])
<1> DEFINE r == [job EXCEPT !.st = "running"]
<1>1. /\ r \in JobRecords /\ r.st = "running" /\ r.update = job.update
      /\ r.file = job.file /\ r.auto = job.auto /\ r.todo = job.todo
      /\ r.matches = job.matches /\ r.outcomes = job.outcomes
      /\ r.results = job.results /\ r.applied = job.applied /\ r.failed = job.failed
      /\ r.written = job.written /\ r.refused = job.refused
  BY DEF JobRecords
<1> HIDE DEF r
<1>2. job.update = None
  BY DEF JobFits, Tallied
<1>3. SoundJob(F, r)
  BY <1>1, <1>2 DEF JobFits, SoundJob
<1>4. Truthful(r)
  BY <1>1 DEF JobFits, Truthful, TrueOutcome, Known
<1>5. Tallied(r)
  BY <1>1 DEF JobFits, Tallied
<1>6. QED
  BY <1>1, <1>2, <1>3, <1>4, <1>5 DEF Fitting, JobFits, r

(* An update of the decision that is due.                                  *)
LEMMA UpdateFits ==
  ASSUME NEW F, NEW job \in JobRecords, JobFits(F, job), job.st = "running",
         NEW u \in Updates, NEW w \in SUBSET Nat,
         Len(job.outcomes) + 1 \in DOMAIN job.todo,
         SoundUpdate(F, Due(job).tx, u), job.written \subseteq w,
         u.st = "written" => Len(job.outcomes) + 1 \in w
  PROVE  Fitting(F, job, [job EXCEPT !.update = u, !.written = w])
<1> DEFINE r == [job EXCEPT !.update = u, !.written = w]
<1>1. /\ r \in JobRecords /\ r.st = "running" /\ r.update = u
      /\ r.file = job.file /\ r.auto = job.auto /\ r.todo = job.todo
      /\ r.matches = job.matches /\ r.outcomes = job.outcomes
      /\ r.results = job.results /\ r.applied = job.applied /\ r.failed = job.failed
      /\ r.written = w /\ r.refused = job.refused
  BY DEF JobRecords
<1> HIDE DEF r
<1>2. SoundJob(F, r)
  BY <1>1 DEF JobFits, SoundJob, Due
<1>3. Truthful(r)
  BY <1>1 DEF JobFits, Truthful, TrueOutcome, Known
<1>4. Tallied(r)
  BY <1>1 DEF JobFits, Tallied
<1>5. QED
  BY <1>1, <1>2, <1>3, <1>4 DEF Fitting, JobFits, r

(* A decision that is handled is recorded truly.                           *)
LEMMA RecordedFits ==
  ASSUME NEW F, NEW job \in JobRecords, JobFits(F, job), NEW outcome \in Outcomes,
         job.st = "running", Len(job.outcomes) + 1 \in DOMAIN job.todo,
         IF outcome = "success" THEN Len(job.outcomes) + 1 \in job.written
         ELSE Len(job.outcomes) + 1 \in job.refused \/ ~Known(job, Due(job))
  PROVE  Fitting(F, job, Recorded(job, outcome))
<1> DEFINE r == Recorded(job, outcome)
<1>1. /\ r.st = job.st /\ r.update = None
      /\ r.file = job.file /\ r.auto = job.auto /\ r.todo = job.todo
      /\ r.matches = job.matches /\ r.outcomes = Append(job.outcomes, outcome)
      /\ r.results = job.results /\ r.applied = job.applied /\ r.failed = job.failed
      /\ r.written = job.written /\ r.refused = job.refused
  BY DEF Recorded, JobRecords
<1>2. r \in JobRecords
  BY RecordedTyped
<1> HIDE DEF r
<1>3. job.outcomes \in Seq(Outcomes) /\ job.todo \in Seq(Decisions)
  BY DEF JobRecords
<1>4. PICK n \in Nat : n = Len(job.outcomes) /\ DOMAIN job.outcomes = 1 .. n
  BY <1>3, LenProperties
<1>5. /\ DOMAIN r.outcomes = 1 .. n + 1 /\ Len(r.outcomes) = n + 1
      /\ \A k \in 1 .. n : r.outcomes[k] = job.outcomes[k]
      /\ r.outcomes[n + 1] = outcome
  BY <1>1, <1>3, <1>4, AppendProperties, LenProperties
<1>6. \A d : Known(r, d) <=> Known(job, d)
  BY <1>1 DEF Known
<1>7. SoundJob(F, r)
  BY <1>1 DEF JobFits, SoundJob
<1>8. Truthful(r)
  <2>1. \A k \in 1 .. n : TrueOutcome(r, k)
    BY <1>1, <1>4, <1>5, <1>6 DEF JobFits, Truthful, TrueOutcome
  <2>2. TrueOutcome(r, n + 1)
    BY <1>1, <1>4, <1>5, <1>6 DEF TrueOutcome, Due
  <2>3. QED
    BY <1>1, <1>4, <1>5, <1>6, <2>1, <2>2 DEF JobFits, Truthful
<1>9. Tallied(r)
  <2>1. n + 1 <= Len(job.todo)
    BY <1>3, <1>4, LenProperties
  <2>2. QED
    BY <1>1, <1>5, <2>1 DEF JobFits, Tallied
<1>10. QED
  BY <1>1, <1>2, <1>7, <1>8, <1>9 DEF Fitting, JobFits, r

LEMMA PublishedFits ==
  ASSUME NEW F, NEW job \in JobRecords, JobFits(F, job), job.st = "running",
         job.update = None, Len(job.outcomes) = Len(job.todo)
  PROVE  Fitting(F, job, Published(job))
<1> DEFINE r == Published(job)
<1>1. /\ r.st = "done" /\ r.update = None
      /\ r.file = job.file /\ r.auto = job.auto /\ r.todo = job.todo
      /\ r.matches = job.matches /\ r.outcomes = job.outcomes
      /\ r.results = job.outcomes
      /\ r.applied = Count(job.outcomes, "success")
      /\ r.failed = Count(job.outcomes, "failed")
      /\ r.written = job.written /\ r.refused = job.refused
  BY DEF Published, JobRecords
<1>2. r \in JobRecords
  BY PublishedTyped
<1> HIDE DEF r
<1>3. SoundJob(F, r)
  BY <1>1 DEF JobFits, SoundJob
<1>4. Truthful(r)
  BY <1>1 DEF JobFits, Truthful, TrueOutcome, Known
<1>5. Tallied(r)
  BY <1>1 DEF JobFits, Tallied
<1>6. QED
  BY <1>1, <1>2, <1>3, <1>4, <1>5 DEF Fitting, JobFits, r

(* The step changes job j to r, a fitting record, and Firefly soundly.     *)
ChangesTo(j, r) ==
  /\ jobs' = [jobs EXCEPT ![j] = r]
  /\ Fitting(files, jobs[j], r)
  /\ ff' \in [Txs -> FireflyTxs]
  /\ \A x \in Txs : SoundTx(files, x, ff'[x])
  /\ UNCHANGED <<files, cache, previews>>

LEMMA JobStepFits ==
  ASSUME BlikInv, NEW j \in Jobs, JobStep(j)
  PROVE  \E r : ChangesTo(j, r)
<1> PICK job : job = jobs[j]
  OBVIOUS
<1>1. /\ jobs \in [Jobs -> JobRecords] /\ job \in JobRecords /\ JobFits(files, job)
      /\ ff \in [Txs -> FireflyTxs] /\ \A x \in Txs : SoundTx(files, x, ff[x])
  BY DEF BlikInv, BlikTypeOK
<1>2. /\ Position(j) = Len(job.outcomes) + 1 /\ Current(j) = Due(job)
      /\ Deciding(j) => job.st = "running"
      /\ job.update # None => job.st = "running"
  BY <1>1 DEF Position, Current, Due, Deciding, JobFits, Tallied
<1>3. ASSUME Deciding(j) \/ job.update # None
      PROVE  /\ Len(job.outcomes) + 1 \in DOMAIN job.todo
             /\ Len(job.outcomes) + 1 \in Nat
             /\ Due(job) \in Decisions
  BY <1>2, <1>3, CurrentTyped DEF BlikInv
<1>4. ASSUME NEW r, jobs' = [jobs EXCEPT ![j] = r], Fitting(files, job, r),
             ff' \in [Txs -> FireflyTxs], \A x \in Txs : SoundTx(files, x, ff'[x]),
             UNCHANGED <<files, cache, previews>>
      PROVE  \E q : ChangesTo(j, q)
  BY <1>4 DEF ChangesTo
<1>5. CASE JobBegins(j)
  BY <1>1, <1>4, <1>5, BeginsFit DEF JobBegins
<1>6. CASE RejectDecision(j)
  <2>1. ~Known(job, Due(job))
    BY <1>2, <1>6 DEF RejectDecision, Selectable, MatchIds, Known
  <2>2. Fitting(files, job, Recorded(job, "failed"))
    BY <1>1, <1>2, <1>3, <1>6, <2>1, RecordedFits DEF RejectDecision, Outcomes
  <2>3. QED
    BY <1>1, <1>4, <1>6, <2>2 DEF RejectDecision
<1>7. CASE SendUpdate(j)
  <2> PICK d : d = Due(job)
    OBVIOUS
  <2> PICK u : u = BuildTxUpdate(job.matches[d.tx].seen, d.row)
    OBVIOUS
  <2>1. job.st = "running" /\ d \in Decisions /\ d.tx \in Txs /\ d.row \in Rows
    BY <1>2, <1>3, <1>7 DEF SendUpdate, Decisions
  <2>2. MatchesOf(files, job.file, job.matches)
    BY <1>1, <2>1 DEF JobFits, SoundJob
  <2>3. /\ d.tx \in Listed(job.matches)
        /\ \E i \in job.matches[d.tx].items : Row[i] = d.row
    BY <1>2, <1>7 DEF SendUpdate, Selectable, MatchIds
  <2>4. SoundTx(files, d.tx, job.matches[d.tx].seen) /\ FromFile(files, d.tx, d.row)
    BY <2>2, <2>3 DEF MatchesOf, FromFile, Candidates
  <2>5. job.matches[d.tx].seen \in FireflyTxs
    BY <1>1, <2>1, <2>3 DEF JobRecords, MatchLists, MatchResults, Listed
  <2>6. u \in Updates /\ SoundUpdate(files, d.tx, u) /\ u.st = "sent"
    BY <2>1, <2>4, <2>5, BuildTyped, BuildSound DEF BuildTxUpdate
  <2>7. Fitting(files, job, [job EXCEPT !.update = u, !.written = job.written])
    BY <1>1, <1>3, <1>7, <2>1, <2>6, UpdateFits DEF SendUpdate, JobRecords
  <2>8. [job EXCEPT !.update = u, !.written = job.written] = [job EXCEPT !.update = u]
    BY <1>1 DEF JobRecords
  <2>9. jobs' = [jobs EXCEPT ![j] = [job EXCEPT !.update = u]]
    BY <1>2, <1>7 DEF SendUpdate
  <2>10. QED
    BY <1>1, <1>4, <1>7, <2>7, <2>8, <2>9 DEF SendUpdate
<1>8. CASE FireflyWrites(j)
  <2> PICK x : x = Due(job).tx
    OBVIOUS
  <2> PICK u : u = job.update
    OBVIOUS
  <2> PICK w : w = job.written \union {Len(job.outcomes) + 1}
    OBVIOUS
  <2> PICK v : v = [u EXCEPT !.st = "written"]
    OBVIOUS
  <2> PICK t : t = [done |-> TRUE, notes |-> u.notes,
                    desc |-> IF u.desc = None THEN ff[x].desc ELSE u.desc]
    OBVIOUS
  <2>1. u # None /\ u \in Updates /\ x \in Txs /\ job.st = "running"
    BY <1>1, <1>2, <1>3, <1>8 DEF FireflyWrites, JobRecords, Decisions
  <2>2. SoundUpdate(files, x, u)
    BY <1>1, <2>1 DEF JobFits, SoundJob
  <2>3. SoundTx(files, x, t) /\ t \in FireflyTxs
    <3>1. SoundTx(files, x, t)
      BY <1>1, <2>1, <2>2, WriteSound
    <3>2. t \in FireflyTxs
      BY <1>1, <2>1 DEF FireflyTxs, Updates
    <3>3. QED
      BY <3>1, <3>2
  <2>4. v \in Updates /\ SoundUpdate(files, x, v) /\ v.st = "written"
    BY <2>1, <2>2 DEF Updates, SoundUpdate
  <2>5. w \in SUBSET Nat /\ job.written \subseteq w /\ Len(job.outcomes) + 1 \in w
    BY <1>1, <1>3, <2>1 DEF JobRecords
  <2>6. Fitting(files, job, [job EXCEPT !.update = v, !.written = w])
    BY <1>1, <1>3, <2>1, <2>4, <2>5, UpdateFits
  <2>7. /\ ff' = [ff EXCEPT ![x] = t]
        /\ jobs' = [jobs EXCEPT ![j] = [job EXCEPT !.update = v, !.written = w]]
    BY <1>2, <1>8 DEF FireflyWrites
  <2>8. ff' \in [Txs -> FireflyTxs] /\ \A z \in Txs : SoundTx(files, z, ff'[z])
    BY <1>1, <2>1, <2>3, <2>7
  <2>9. QED
    BY <1>4, <1>8, <2>6, <2>7, <2>8 DEF FireflyWrites
<1>9. CASE UpdateSucceeds(j)
  <2>1. job.update # None /\ Len(job.outcomes) + 1 \in job.written
    BY <1>1, <1>9 DEF UpdateSucceeds, Answered, JobFits, Truthful
  <2>2. Fitting(files, job, Recorded(job, "success"))
    BY <1>1, <1>2, <1>3, <2>1, RecordedFits DEF Outcomes
  <2>3. QED
    BY <1>1, <1>4, <1>9, <2>2 DEF UpdateSucceeds
<1>10. CASE UpdateFails(j)
  <2> PICK w : w = job.refused \union {Len(job.outcomes) + 1}
    OBVIOUS
  <2> PICK r : r = [job EXCEPT !.refused = w]
    OBVIOUS
  <2>1. job.update # None /\ job.st = "running" /\ w \in SUBSET Nat
    BY <1>1, <1>2, <1>3, <1>10 DEF UpdateFails, JobRecords
  <2>2. /\ r \in JobRecords /\ r.st = job.st /\ r.update = job.update
        /\ r.file = job.file /\ r.auto = job.auto /\ r.todo = job.todo
        /\ r.matches = job.matches /\ r.outcomes = job.outcomes
        /\ r.results = job.results /\ r.applied = job.applied
        /\ r.failed = job.failed /\ r.written = job.written /\ r.refused = w
    BY <1>1, <2>1 DEF JobRecords
  <2>3. JobFits(files, r)
    <3>1. SoundJob(files, r)
      BY <1>1, <2>2 DEF JobFits, SoundJob, Due
    <3>2. Truthful(r)
      BY <1>1, <2>2 DEF JobFits, Truthful, TrueOutcome, Known
    <3>3. Tallied(r)
      BY <1>1, <2>2 DEF JobFits, Tallied
    <3>4. QED
      BY <3>1, <3>2, <3>3 DEF JobFits
  <2>4. Fitting(files, r, Recorded(r, "failed"))
    BY <1>3, <2>1, <2>2, <2>3, RecordedFits DEF Outcomes
  <2>5. Fitting(files, job, Recorded(r, "failed"))
    BY <2>2, <2>4 DEF Fitting
  <2>6. jobs' = [jobs EXCEPT ![j] = Recorded(r, "failed")]
    BY <1>2, <1>10 DEF UpdateFails
  <2>7. QED
    BY <1>1, <1>4, <1>10, <2>5, <2>6 DEF UpdateFails
<1>11. CASE JobEnds(j)
  <2>1. Len(job.outcomes) = Len(job.todo)
    BY <1>1, <1>2, <1>11, LenProperties
       DEF JobEnds, AllDecided, JobFits, Tallied, JobRecords
  <2>2. Fitting(files, job, Published(job))
    BY <1>1, <1>11, <2>1, PublishedFits DEF JobEnds
  <2>3. QED
    BY <1>1, <1>4, <1>11, <2>2 DEF JobEnds
<1>12. QED
  BY <1>5, <1>6, <1>7, <1>8, <1>9, <1>10, <1>11 DEF JobStep

-----------------------------------------------------------------------------
(* Every step keeps the invariant.                                         *)

LEMMA NewJobFits ==
  ASSUME NEW F
  PROVE  JobFits(F, NoJob) /\ JobFits(F, LostJob)
BY EmptyCount DEF JobFits, SoundJob, Truthful, Tallied, NoJob, LostJob, Job

(* A job starts with the matches of its own file; if the service chose the *)
(* decisions, they can be applied.                                         *)
LEMMA StartFits ==
  ASSUME BlikInv, NEW j \in Jobs, NEW f \in Files, NEW auto \in BOOLEAN,
         NEW ds \in Seq(Decisions), StartJob(j, f, auto, ds),
         auto => \A k \in DOMAIN ds : \E x \in Singles(cache[f]) : ds[k] = DecisionOf(cache[f], x)
  PROVE  BlikInv'
<1> PICK job : job = Job("pending", f, auto, ds, cache[f])
  OBVIOUS
<1>1. /\ jobs' = [jobs EXCEPT ![j] = job] /\ cache[f] \in MatchLists
      /\ MatchesOf(files, f, cache[f]) /\ UNCHANGED <<ff, files, cache, previews>>
  BY DEF StartJob, BlikInv, BlikTypeOK
<1>2. job \in JobRecords /\ job.update = None /\ job.file = f /\ f \in files
  BY <1>1, NewJobTyped DEF MatchesOf
<1>3. JobFits(files, job)
  <2>1. SoundJob(files, job)
    BY <1>1 DEF SoundJob, Job
  <2>2. ASSUME auto, NEW k \in DOMAIN ds PROVE Known(job, ds[k])
    <3>1. PICK x \in Singles(cache[f]) : ds[k] = DecisionOf(cache[f], x)
      BY <2>2
    <3>2. PICK i \in Items : cache[f][x].items = {i}
      BY DEF Singles
    <3>3. (CHOOSE e \in Items : e \in cache[f][x].items) = i
      BY <3>2
    <3>4. ds[k].tx = x /\ ds[k].row = Row[i] /\ x \in Listed(cache[f])
      BY <3>1, <3>3 DEF DecisionOf, Decision, Singles
    <3>5. QED
      BY <3>2, <3>4 DEF Known, Job
  <2>3. Truthful(job)
    <3>1. /\ job.outcomes = <<>> /\ job.update = None
          /\ job.auto = auto /\ job.todo = ds
      BY DEF Job
    <3>2. auto => \A k \in DOMAIN ds : Known(job, ds[k])
      BY <2>2
    <3>3. QED
      BY <3>1, <3>2 DEF Truthful
  <2>4. Tallied(job)
    BY EmptyCount, LenProperties DEF Tallied, Job
  <2>5. QED
    BY <2>1, <2>3, <2>4 DEF JobFits
<1>4. BlikTypeOK'
  BY <1>1, <1>2 DEF BlikInv, BlikTypeOK, Position
<1>5. \A k \in Jobs : JobFits(files, jobs'[k])
  BY <1>1, <1>3 DEF BlikInv, BlikTypeOK
<1>6. QED
  BY <1>1, <1>4, <1>5 DEF BlikInv

LEMMA JobStepKeeps ==
  ASSUME BlikInv, NEW j \in Jobs, JobStep(j)
  PROVE  BlikInv'
<1>1. PICK r : ChangesTo(j, r)
  BY JobStepFits
<1>2. BlikTypeOK'
  <2>1. \A k \in Jobs : k # j => jobs'[k] = jobs[k]
    BY <1>1 DEF ChangesTo, BlikInv, BlikTypeOK
  <2>2. jobs'[j] = r /\ jobs' \in [Jobs -> JobRecords]
    BY <1>1 DEF ChangesTo, Fitting, BlikInv, BlikTypeOK
  <2>3. jobs[j].st # "free"
    BY <1>1 DEF ChangesTo, Fitting
  <2>4. \A k \in Jobs : /\ jobs'[k].st # "free" => jobs'[k].file \in files \union {None}
                        /\ jobs'[k].update # None =>
                             Len(jobs'[k].outcomes) + 1 \in DOMAIN jobs'[k].todo
    BY <1>1, <2>1, <2>2, <2>3
       DEF ChangesTo, Fitting, BlikInv, BlikTypeOK, Position
  <2>5. QED
    BY <1>1, <2>2, <2>4 DEF ChangesTo, BlikInv, BlikTypeOK, Position
<1>3. \A k \in Jobs : JobFits(files, jobs'[k])
  BY <1>1 DEF ChangesTo, Fitting, BlikInv, BlikTypeOK
<1>4. QED
  BY <1>1, <1>2, <1>3 DEF ChangesTo, BlikInv

(* What Firefly lists for a preview are the matches of its file.           *)
LEMMA MatchedFits ==
  ASSUME BlikInv, NEW f \in files
  PROVE  MatchesOf(files, f, Matched(f))
<1> PICK m : m = Matched(f)
  OBVIOUS
<1>1. f \in Files
  BY DEF BlikInv, BlikTypeOK
<1>2. ASSUME NEW x \in Window(Content[f])
      PROVE  /\ m[x] \in MatchResults
             /\ m[x].items = Candidates(Content[f], x)
             /\ SoundTx(files, x, m[x].seen)
  <2> PICK c : c = Candidates(Content[f], x)
    OBVIOUS
  <2>1. x \in Txs
    BY DEF Window
  <2>2. ff[x] \in FireflyTxs /\ SoundTx(files, x, ff[x]) /\ c \in SUBSET Items
    BY <1>1, <2>1, BlikAssumption DEF BlikInv, BlikTypeOK, Candidates
  <2>3. m[x] = [seen |-> ff[x], items |-> c]
    BY <2>1 DEF Matched
  <2>4. [seen |-> ff[x], items |-> c] \in MatchResults
    BY <2>2 DEF MatchResults
  <2>5. QED
    BY <2>2, <2>3, <2>4
<1>3. Listed(m) = Window(Content[f])
  <2>1. \A x \in Window(Content[f]) : m[x] # None
    BY <1>2, BlikAssumption
  <2>2. \A x \in Txs : x \notin Window(Content[f]) => m[x] = None
    BY DEF Matched
  <2>3. QED
    BY <2>1, <2>2 DEF Listed, Window
<1>4. QED
  BY <1>2, <1>3 DEF MatchesOf

LEMMA PreviewStepKeeps ==
  ASSUME BlikInv, NEW v \in Previews, PreviewStep(v)
  PROVE  BlikInv'
<1>1. /\ UNCHANGED <<ff, files, jobs>>
      /\ \A w \in Previews : w # v => previews'[w] = previews[w]
  BY DEF PreviewStep, PreviewAsks, FireflyReads, PreviewEnds, PreviewFails,
         BlikInv, BlikTypeOK
<1>2. ASSUME NEW p \in PreviewRecords, previews' = [previews EXCEPT ![v] = p],
             p.st # "idle" => p.file \in files,
             p.st = "read" => MatchesOf(files, p.file, p.matches),
             cache' \in [Files -> MatchLists],
             \A f \in Files : cache'[f] = NoMatches \/ MatchesOf(files, f, cache'[f])
      PROVE  BlikInv'
  <2>1. BlikTypeOK'
    <3>1. \A f \in Files \ files : cache'[f] = NoMatches
      BY <1>2 DEF MatchesOf
    <3>2. QED
      BY <1>1, <1>2, <3>1 DEF BlikInv, BlikTypeOK, Position
  <2>2. \A w \in Previews : previews'[w].st = "read" =>
          MatchesOf(files, previews'[w].file, previews'[w].matches)
    BY <1>2 DEF BlikInv, BlikTypeOK
  <2>3. QED
    BY <1>1, <1>2, <2>1, <2>2 DEF BlikInv
<1>3. /\ cache \in [Files -> MatchLists]
      /\ \A f \in Files : cache[f] = NoMatches \/ MatchesOf(files, f, cache[f])
      /\ previews \in [Previews -> PreviewRecords] /\ previews[v] \in PreviewRecords
      /\ previews[v].st # "idle" => previews[v].file \in files
  BY DEF BlikInv, BlikTypeOK
<1>4. ASSUME NEW f \in Files, PreviewAsks(v, f) PROVE BlikInv'
  <2> PICK p : p = Preview("asked", f, NoMatches)
    OBVIOUS
  <2>1. p \in PreviewRecords /\ p.st = "asked" /\ p.file = f
    BY NoMatchesTyped DEF Preview, PreviewRecords
  <2>2. QED
    BY <1>2, <1>3, <1>4, <2>1 DEF PreviewAsks
<1>5. CASE FireflyReads(v)
  <2> PICK f : f = previews[v].file
    OBVIOUS
  <2> PICK p : p = Preview("read", f, Matched(f))
    OBVIOUS
  <2>1. f \in files /\ f \in Files
    BY <1>3, <1>5 DEF FireflyReads, BlikInv, BlikTypeOK
  <2>2. p \in PreviewRecords /\ p.st = "read" /\ p.file = f /\ p.matches = Matched(f)
    BY <2>1, MatchedTyped DEF Preview, PreviewRecords, BlikInv
  <2>3. MatchesOf(files, p.file, p.matches)
    BY <2>1, <2>2, MatchedFits
  <2>4. previews' = [previews EXCEPT ![v] = p] /\ cache' = cache
    BY <1>3, <1>5 DEF FireflyReads
  <2>5. QED
    BY <1>2, <1>3, <2>1, <2>2, <2>3, <2>4
<1>6. CASE PreviewEnds(v)
  <2> PICK f : f = previews[v].file
    OBVIOUS
  <2>1. f \in Files /\ MatchesOf(files, f, previews[v].matches)
    BY <1>3, <1>6 DEF PreviewEnds, BlikInv, BlikTypeOK
  <2>2. previews[v].matches \in MatchLists
    BY <1>3 DEF PreviewRecords
  <2>3. cache' = [cache EXCEPT ![f] = previews[v].matches]
    BY <1>6 DEF PreviewEnds, PutMatches
  <2>4. /\ cache' \in [Files -> MatchLists]
        /\ \A g \in Files : cache'[g] = NoMatches \/ MatchesOf(files, g, cache'[g])
    BY <1>3, <2>1, <2>2, <2>3
  <2>5. QED
    BY <1>2, <1>6, <2>4, IdleTyped DEF PreviewEnds
<1>7. CASE PreviewFails(v)
  BY <1>2, <1>3, <1>7, IdleTyped DEF PreviewFails
<1>8. QED
  BY <1>4, <1>5, <1>6, <1>7 DEF PreviewStep

LEMMA UploadKeeps ==
  ASSUME BlikInv, NEW f \in Files, Upload(f)
  PROVE  BlikInv'
<1>1. files' = files \union {f} /\ files \subseteq files' /\ UNCHANGED <<ff, cache, previews, jobs>>
  BY DEF Upload
<1>2. BlikTypeOK'
  BY <1>1 DEF BlikInv, BlikTypeOK, Position
<1>3. QED
  BY <1>1, <1>2, SoundGrows, MatchesGrow, JobGrows DEF BlikInv

LEMMA RestartKeeps ==
  ASSUME BlikInv, Restart
  PROVE  BlikInv'
<1>1. NoJob \in JobRecords /\ NoJob.update = None /\ NoJob.st = "free"
  BY NewJobTyped, NoMatchesTyped DEF NoJob, Job, JobRecords
<1>2. LostJob \in JobRecords /\ LostJob.update = None /\ LostJob.file = None
  BY NewJobTyped, NoMatchesTyped DEF LostJob, Job, JobRecords
<1>3. BlikTypeOK'
  BY <1>1, <1>2, IdleTyped, NoMatchesTyped DEF Restart, BlikInv, BlikTypeOK, Position
<1>4. \A k \in Jobs : JobFits(files, jobs'[k])
  BY NewJobFits DEF Restart
<1>5. QED
  BY <1>3, <1>4, IdleTyped DEF Restart, BlikInv

LEMMA BlikStep ==
  ASSUME BlikInv, [Next]_vars
  PROVE  BlikInv'
<1>1. ASSUME NEW j \in Jobs, NEW f \in Files, StartApply(j, f) PROVE BlikInv'
  BY <1>1, StartFits, BlikAssumption DEF StartApply
<1>2. ASSUME NEW j \in Jobs, NEW f \in Files, NEW limit \in {None, 1},
             AutoApply(j, f, limit)
      PROVE  BlikInv'
  <2>1. PICK list \in SingleLists(cache[f]) :
          StartJob(j, f, TRUE, Limited(AutoDecisions(cache[f], list), limit))
    BY <1>2 DEF AutoApply
  <2>2. cache[f] \in MatchLists
    BY DEF BlikInv, BlikTypeOK
  <2>3. QED
    BY <2>1, <2>2, AutoDecisionsTyped, StartFits
<1>3. CASE UNCHANGED vars
  <2>1. UNCHANGED ff /\ UNCHANGED files /\ UNCHANGED cache /\ UNCHANGED previews /\ UNCHANGED jobs
    BY <1>3 DEF vars
  <2>2. BlikTypeOK'
    BY <2>1 DEF BlikInv, BlikTypeOK, Position
  <2>3. QED
    BY <2>1, <2>2 DEF BlikInv
<1>4. QED
  BY <1>1, <1>2, <1>3, UploadKeeps, PreviewStepKeeps, JobStepKeeps, RestartKeeps
     DEF Next, Start

LEMMA AlwaysBlikInv == Spec => []BlikInv
<1>1. Init => BlikInv
  <2> SUFFICES ASSUME Init PROVE BlikInv
    OBVIOUS
  <2>1. NoJob \in JobRecords /\ NoJob.update = None /\ NoJob.st = "free"
    BY NewJobTyped, NoMatchesTyped DEF NoJob, Job, JobRecords
  <2>2. BlikTypeOK
    BY <2>1, IdleTyped, NoMatchesTyped DEF Init, BlikTypeOK, FireflyTxs, Position
  <2>3. \A x \in Txs : SoundTx(files, x, ff[x])
    BY DEF Init, SoundTx, ToSet, IsInjective
  <2>4. QED
    BY <2>2, <2>3, IdleTyped, NewJobFits DEF Init, BlikInv
<1>2. QED
  BY <1>1, BlikStep, PTL DEF Spec

(* Every value the service, its previews and its jobs hold keeps its type, *)
(* and only an uploaded file has matches.                                  *)
THEOREM BlikTypeCorrect == Spec => []BlikTypeOK
<1>1. BlikInv => BlikTypeOK
  BY DEF BlikInv
<1>2. QED
  BY <1>1, AlwaysBlikInv, PTL

(* For any number of files, previews and jobs that overlap, records reach  *)
(* only transactions they match, from uploaded files, and not without the  *)
(* tag (bank_record.py 68-82).                                             *)
THEOREM BlikEnrichmentIsSoundHolds == Spec => []BlikEnrichmentIsSound
<1>1. BlikInv => BlikEnrichmentIsSound
  BY DEF BlikInv, BlikEnrichmentIsSound, SoundTx, FromFile
<1>2. QED
  BY <1>1, AlwaysBlikInv, PTL

(* However old the copy an update is built from, a record's details are    *)
(* appended to a description once (bank_record.py 70-73).                  *)
THEOREM DescriptionOnceHolds == Spec => []DescriptionOnce
<1>1. BlikInv => DescriptionOnce
  BY DEF BlikInv, DescriptionOnce, SoundTx
<1>2. QED
  BY <1>1, AlwaysBlikInv, PTL

(* The results of a job are the outcomes it recorded.                      *)
LEMMA ResultsAreOutcomes ==
  ASSUME BlikInv, NEW j \in Jobs, NEW k \in DOMAIN jobs[j].results
  PROVE  /\ jobs[j].results = jobs[j].outcomes /\ jobs[j].st = "done"
         /\ k \in DOMAIN jobs[j].todo
         /\ jobs[j].results[k] \in Outcomes
         /\ TrueOutcome(jobs[j], k)
<1> PICK job : job = jobs[j]
  OBVIOUS
<1>1. job \in JobRecords /\ Truthful(job) /\ Tallied(job)
  BY DEF BlikInv, BlikTypeOK, JobFits
<1>2. job.results = job.outcomes /\ job.st = "done" /\ Len(job.outcomes) = Len(job.todo)
  BY <1>1 DEF Tallied
<1>3. job.outcomes \in Seq(Outcomes) /\ job.todo \in Seq(Decisions)
  BY <1>1 DEF JobRecords
<1>4. k \in DOMAIN job.todo /\ job.outcomes[k] \in Outcomes
  BY <1>2, <1>3, LenProperties, ElementOfSeq
<1>5. QED
  BY <1>1, <1>2, <1>4 DEF Truthful

(* For any number of jobs and decisions, what a finished job reports is    *)
(* what happened to Firefly, or what its own file says (277-326).          *)
THEOREM BlikOutcomesAreTrueHolds == Spec => []BlikOutcomesAreTrue
<1>1. ASSUME BlikInv PROVE BlikOutcomesAreTrue
  <2> SUFFICES ASSUME NEW j \in Jobs, NEW k \in DOMAIN jobs[j].results
               PROVE  LET d == jobs[j].todo[k] IN
                      IF jobs[j].results[k] = "success" THEN k \in jobs[j].written
                      ELSE \/ k \in jobs[j].refused
                           \/ d.tx \notin Window(Content[jobs[j].file])
                           \/ \A i \in Candidates(Content[jobs[j].file], d.tx) :
                                Row[i] # d.row
    BY DEF BlikOutcomesAreTrue
  <2> PICK job : job = jobs[j]
    OBVIOUS
  <2> PICK d : d = job.todo[k]
    OBVIOUS
  <2>1. /\ job.results = job.outcomes /\ TrueOutcome(job, k)
        /\ MatchesOf(files, job.file, job.matches)
    BY <1>1, ResultsAreOutcomes DEF BlikInv, JobFits, SoundJob
  <2>2. CASE job.results[k] = "success"
    BY <2>1, <2>2 DEF TrueOutcome
  <2>3. CASE job.results[k] # "success" /\ k \notin job.refused
    <3>1. ~Known(job, d)
      BY <2>1, <2>3 DEF TrueOutcome
    <3>2. CASE d.tx \in Window(Content[job.file])
      <4>1. /\ d.tx \in Listed(job.matches)
            /\ job.matches[d.tx].items = Candidates(Content[job.file], d.tx)
        BY <2>1, <3>2 DEF MatchesOf
      <4>2. \A i \in Candidates(Content[job.file], d.tx) : Row[i] # d.row
        BY <3>1, <4>1 DEF Known
      <4>3. QED
        BY <2>3, <4>2
    <3>3. QED
      BY <2>3, <3>2
  <2>4. QED
    BY <2>2, <2>3
<1>2. QED
  BY <1>1, AlwaysBlikInv, PTL

(* For any number of jobs, a decision the service took itself fails only   *)
(* if Firefly fails it (172-197).                                          *)
THEOREM BlikAutoAppliesSinglesHolds == Spec => []BlikAutoAppliesSingles
<1>1. ASSUME BlikInv PROVE BlikAutoAppliesSingles
  <2> SUFFICES ASSUME NEW j \in Jobs, jobs[j].auto, NEW k \in DOMAIN jobs[j].results,
                      jobs[j].results[k] = "failed"
               PROVE  k \in jobs[j].refused
    BY DEF BlikAutoAppliesSingles
  <2>1. /\ jobs[j].outcomes[k] = "failed" /\ TrueOutcome(jobs[j], k)
        /\ k \in DOMAIN jobs[j].todo
    BY <1>1, ResultsAreOutcomes
  <2>2. Known(jobs[j], jobs[j].todo[k])
    BY <1>1, <2>1 DEF BlikInv, JobFits, Truthful
  <2>3. QED
    BY <2>1, <2>2 DEF TrueOutcome
<1>2. QED
  BY <1>1, AlwaysBlikInv, PTL

-----------------------------------------------------------------------------
(* The refinement.                                                         *)

Views == [j \in Jobs |-> View(j)]

(* What a client sees of a job follows from its state, its decisions and,  *)
(* when it is done, its outcomes.                                          *)
ViewOf(job) ==
  Contract!JobView(job.st, Len(job.todo), IF job.st = "done" THEN job.outcomes ELSE <<>>)

LEMMA SameCount ==
  ASSUME NEW results, NEW outcome
  PROVE  Contract!Count(results, outcome) = Count(results, outcome)
<1>1. \A S : Contract!Cardinality(S) = Cardinality(S)
  BY DEF Cardinality, Contract!Cardinality
<1>2. QED
  BY <1>1 DEF Count, Contract!Count

LEMMA TalliedView ==
  ASSUME NEW job, Tallied(job)
  PROVE  [st |-> job.st, total |-> Len(job.todo), results |-> job.results,
          applied |-> job.applied, failed |-> job.failed] = ViewOf(job)
BY SameCount DEF Tallied, ViewOf, Contract!JobView

LEMMA ViewsAre ==
  ASSUME BlikInv
  PROVE  Views = [j \in Jobs |-> ViewOf(jobs[j])]
BY TalliedView DEF Views, View, BlikInv, JobFits

LEMMA ViewsNext ==
  ASSUME BlikInv'
  PROVE  Views' = [j \in Jobs |-> ViewOf(jobs'[j])]
BY TalliedView DEF Views, View, BlikInv, JobFits

(* A step of one job changes what is seen of that one only.                *)
LEMMA ViewStep ==
  ASSUME NEW j \in Jobs, NEW r, BlikInv, BlikInv', jobs' = [jobs EXCEPT ![j] = r]
  PROVE  /\ Views' = [Views EXCEPT ![j] = ViewOf(r)]
         /\ Views'[j] = ViewOf(r)
<1>1. jobs'[j] = r /\ \A k \in Jobs : k # j => jobs'[k] = jobs[k]
  BY DEF BlikInv, BlikTypeOK
<1>2. Views' = [k \in Jobs |-> IF k = j THEN ViewOf(r) ELSE ViewOf(jobs[k])]
  BY <1>1, ViewsNext
<1>3. [Views EXCEPT ![j] = ViewOf(r)] =
        [k \in Jobs |-> IF k = j THEN ViewOf(r) ELSE ViewOf(jobs[k])]
  BY ViewsAre
<1>4. QED
  BY <1>2, <1>3

LEMMA StartCreates ==
  ASSUME NEW j \in Jobs, NEW f \in Files, NEW auto \in BOOLEAN,
         NEW ds \in Seq(Decisions), BlikInv, BlikInv', StartJob(j, f, auto, ds)
  PROVE  Contract!JobsNext
<1>1. /\ Views' = [Views EXCEPT ![j] = Contract!JobView("pending", Len(ds), <<>>)]
      /\ Views'[j] = Contract!JobView("pending", Len(ds), <<>>)
  BY ViewStep DEF StartJob, Job, ViewOf
<1>2. Views[j].st = "free" /\ Len(ds) \in Nat /\ Views'[j].total = Len(ds)
  BY <1>1, LenProperties DEF StartJob, Views, View, Contract!JobView
<1>3. Contract!Create(j)
  BY <1>1, <1>2 DEF Contract!Create, Views
<1>4. QED
  BY <1>3 DEF Contract!JobsNext

(* A job shows nothing new until it ends, and then everything.             *)
LEMMA JobStepAllowed ==
  ASSUME NEW j \in Jobs, BlikInv, BlikInv', JobStep(j)
  PROVE  [Contract!JobsNext]_Views
<1> PICK job : job = jobs[j]
  OBVIOUS
<1>1. PICK r : ChangesTo(j, r)
  BY JobStepFits
<1>2. /\ job \in JobRecords /\ r \in JobRecords /\ r.todo = job.todo
      /\ Views' = [Views EXCEPT ![j] = ViewOf(r)] /\ Views'[j] = ViewOf(r)
      /\ Views[j] = ViewOf(job)
  BY <1>1, ViewStep, ViewsAre DEF ChangesTo, Fitting, BlikInv, BlikTypeOK
<1>3. CASE job.st = "pending" /\ r.st = "running"
  <2>1. ViewOf(r) = [Views[j] EXCEPT !.st = "running"] /\ Views[j].st = "pending"
    BY <1>2, <1>3 DEF ViewOf, Contract!JobView
  <2>2. Contract!Begin(j)
    BY <1>2, <2>1 DEF Contract!Begin, Views
  <2>3. QED
    BY <2>2 DEF Contract!JobsNext
<1>4. CASE job.st = "running" /\ r.st = "running"
  <2>1. ViewOf(r) = Views[j]
    BY <1>2, <1>4 DEF ViewOf
  <2>2. Views' = Views
    BY <1>2, <2>1 DEF Views
  <2>3. QED
    BY <2>2
<1>5. CASE job.st = "running" /\ r.st = "done"
  <2>1. /\ Views[j].st = "running" /\ Views[j].total = Len(r.todo)
        /\ Views[j].results = <<>> /\ Views'[j].results = r.outcomes
    BY <1>2, <1>5 DEF ViewOf, Contract!JobView
  <2>2. r.outcomes \in Seq(Outcomes) /\ Len(r.outcomes) = Len(r.todo)
    BY <1>1, <1>2, <1>5 DEF ChangesTo, Fitting, JobFits, Tallied, JobRecords
  <2>3. Views' = [Views EXCEPT ![j] =
                    Contract!JobView("done", Views[j].total, r.outcomes)]
    BY <1>2, <1>5, <2>1 DEF ViewOf
  <2>4. Contract!Extends(r.outcomes, <<>>) /\ Len(r.outcomes) <= Len(r.todo)
    BY <2>2, LenProperties DEF Contract!Extends
  <2>5. Contract!Report(j)
    BY <2>1, <2>2, <2>3, <2>4
       DEF Contract!Report, Contract!Outcomes, Outcomes, Views
  <2>6. QED
    BY <2>5 DEF Contract!JobsNext
<1>6. QED
  BY <1>1, <1>3, <1>4, <1>5 DEF ChangesTo, Fitting

(* A restart forgets what was started, and nothing else.                   *)
LEMMA RestartAllowed ==
  ASSUME BlikInv, BlikInv', Restart
  PROVE  Contract!JobsNext
<1> DEFINE none(st) == Contract!JobView(st, 0, <<>>)
<1>1. ViewOf(NoJob) = none("free") /\ ViewOf(LostJob) = none("lost")
  BY DEF ViewOf, NoJob, LostJob, Job
<1>2. ASSUME NEW j \in Jobs
      PROVE  ViewOf(jobs'[j]) = Contract!Forgotten(ViewOf(jobs[j]))
  <2>1. ViewOf(jobs[j]).st = jobs[j].st
    BY DEF ViewOf, Contract!JobView
  <2>2. jobs'[j] = IF jobs[j].st = "free" THEN NoJob ELSE LostJob
    BY DEF Restart
  <2>3. ASSUME jobs[j].st = "free" PROVE ViewOf(jobs[j]) = none("free")
    <3>1. jobs[j].todo = <<>>
      BY <2>3 DEF BlikInv, JobFits, Tallied
    <3>2. QED
      BY <2>3, <3>1 DEF ViewOf
  <2>4. QED
    BY <1>1, <2>1, <2>2, <2>3 DEF Contract!Forgotten
<1>3. Views' = [j \in Jobs |-> Contract!Forgotten(Views[j])]
  BY <1>2, ViewsAre, ViewsNext
<1>4. QED
  BY <1>3 DEF Contract!JobsNext, Contract!Restart, Views

(* For any number of jobs, decisions and restarts, a client that polls     *)
(* sees what JobContract allows (199-241).                                 *)
THEOREM BlikServiceImplementsContract == Spec => BlikImplementsContract
<1>1. Init => Contract!JobsInit
  <2> SUFFICES ASSUME Init
               PROVE  Views = [j \in Jobs |-> Contract!JobView("free", 0, <<>>)]
    BY DEF Contract!JobsInit, Views
  <2>1. Tallied(NoJob)
    BY NewJobFits DEF JobFits
  <2>2. ViewOf(NoJob) = Contract!JobView("free", 0, <<>>)
    BY DEF ViewOf, NoJob, Job
  <2>3. QED
    BY <2>1, <2>2, TalliedView DEF Init, Views, View
<1>2. ASSUME BlikInv, BlikInv', [Next]_vars
      PROVE  [Contract!JobsNext]_Views
  <2>1. ASSUME NEW j \in Jobs, NEW f \in Files, Start(j, f) PROVE Contract!JobsNext
    <3>1. CASE StartApply(j, f)
      BY <1>2, <3>1, StartCreates, BlikAssumption DEF StartApply
    <3>2. ASSUME NEW limit \in {None, 1}, AutoApply(j, f, limit)
          PROVE  Contract!JobsNext
      <4>1. PICK list \in SingleLists(cache[f]) :
              StartJob(j, f, TRUE, Limited(AutoDecisions(cache[f], list), limit))
        BY <3>2 DEF AutoApply
      <4>2. Limited(AutoDecisions(cache[f], list), limit) \in Seq(Decisions)
        BY <1>2, AutoDecisionsTyped DEF BlikInv, BlikTypeOK
      <4>3. QED
        BY <1>2, <4>1, <4>2, StartCreates
    <3>3. QED
      BY <2>1, <3>1, <3>2 DEF Start
  <2>2. ASSUME NEW j \in Jobs, JobStep(j) PROVE [Contract!JobsNext]_Views
    BY <1>2, <2>2, JobStepAllowed
  <2>3. CASE Restart
    BY <1>2, <2>3, RestartAllowed
  <2>4. CASE jobs' = jobs
    BY <2>4 DEF Views, View
  <2>5. QED
    BY <1>2, <2>1, <2>2, <2>3, <2>4
       DEF Next, vars, Upload, PreviewStep, PreviewAsks, FireflyReads, PreviewEnds,
           PreviewFails
<1>3. QED
  BY <1>1, <1>2, AlwaysBlikInv, PTL
     DEF Spec, BlikImplementsContract, Contract!JobsSpec, Views
=============================================================================
