---------------------------- MODULE AllegroProofs ----------------------------
(***************************************************************************)
(* Proofs about AllegroJobs, for every set of transactions, payments,      *)
(* pages, previews and jobs: its types, what the jobs do to Firefly, and   *)
(* what a client that polls them is told.                                  *)
(***************************************************************************)
EXTENDS AllegroJobs, SequenceTheorems, FiniteSetTheorems, WellFoundedInduction, TLAPS

-----------------------------------------------------------------------------
(* Types.                                                                  *)

(* What a job has in hand belongs to a decision of its list.               *)
Fits(job) ==
  /\ job.update = None \/ job.outcome = None
  /\ job.update # None \/ job.outcome # None =>
       Len(job.results) + 1 \in DOMAIN job.todo

(* The types of the service, and those of its clients.                     *)
ServiceTypes ==
  /\ ff \in [Txs -> FireflyTxs]
  /\ cache \in Seq(Entries)
  /\ \A k, l \in DOMAIN cache : cache[k].page = cache[l].page => k = l
  /\ previews \in [Previews -> PreviewRecords]
  /\ \A v \in Previews : previews[v].st # "idle" => previews[v].page \in Pages
  /\ jobs \in [Jobs -> JobRecords]
  /\ \A j \in Jobs : Fits(jobs[j])

ClientTypes ==
  /\ polls \in [Clients -> PollRecords]
  /\ answers \in [Clients -> Answers \union {None}]

LEMMA TypesAre == AllegroTypeOK <=> ServiceTypes /\ ClientTypes
BY DEF AllegroTypeOK, ServiceTypes, ClientTypes, Fits, Position

(* A step that gives one job a typed record keeps the jobs typed.          *)
LEMMA JobTyped ==
  ASSUME ServiceTypes, NEW j \in Jobs, NEW r \in JobRecords, Fits(r),
         jobs' = [jobs EXCEPT ![j] = r]
  PROVE  /\ jobs' \in [Jobs -> JobRecords]
         /\ \A k \in Jobs : Fits(jobs'[k])
BY DEF ServiceTypes

(* The matches the preview makes are typed.                                *)
LEMMA MatchedTyped ==
  ASSUME AllegroTypeOK, NEW items \in SUBSET Items
  PROVE  Matched(items) \in MatchLists
BY DEF Matched, MatchLists, MatchResults, Candidates, AllegroTypeOK

LEMMA NoMatchesTyped == NoMatches \in MatchLists
BY DEF NoMatches, MatchLists

(* A non-empty set of places in a sequence has a last one.                 *)
LEMMA LastPlace ==
  ASSUME NEW n \in Nat, NEW T, T \subseteq 1 .. n, T # {}
  PROVE  \E k \in T : \A l \in T : l <= k
<1> DEFINE D == {n - k : k \in T}
<1>1. \A k \in T : k \in 1 .. n /\ n - k \in Nat
  OBVIOUS
<1>2. D \in SUBSET Nat /\ D # {}
  BY <1>1
<1>3. PICK d \in D : \A e \in D : d <= e
  <2> HIDE DEF D
  <2>1. PICK d \in D : \A e \in D : <<e, d>> \notin OpToRel(<, Nat)
    BY <1>2, WFMin, NatLessThanWellFounded
  <2>2. \A e \in D : ~(e < d)
    BY <1>2, <2>1 DEF OpToRel
  <2>3. QED
    BY <1>2, <2>2
<1>4. PICK k \in T : d = n - k
  OBVIOUS
<1>5. \A l \in T : l <= k
  <2> TAKE l \in T
  <2>1. n - k <= n - l
    BY <1>3, <1>4
  <2>2. QED
    BY <1>1, <2>1
<1>6. QED
  BY <1>5

(* The index holds the matches of some cached page for each transaction.   *)
LEMMA IndexIsCached ==
  ASSUME cache \in Seq(Entries), NEW x \in Txs
  PROVE  \/ Index[x] = None
         \/ \E k \in DOMAIN cache : Index[x] = cache[k].matches[x]
<1> DEFINE holding == {k \in DOMAIN cache : cache[k].matches[x] # None}
<1>1. CASE holding = {}
  BY <1>1 DEF Index
<1>2. CASE holding # {}
  <2>1. \E k \in holding : \A l \in holding : l <= k
    BY <1>2, LastPlace, LenProperties
  <2>2. (CHOOSE k \in holding : \A l \in holding : l <= k) \in holding
    BY <2>1
  <2>3. QED
    BY <1>2, <2>2 DEF Index
<1>3. QED
  BY <1>1, <1>2

LEMMA IndexTyped ==
  ASSUME cache \in Seq(Entries)
  PROVE  Index \in MatchLists
<1>1. \A x \in Txs : Index[x] \in MatchResults \union {None}
  <2> TAKE x \in Txs
  <2>1. \A k \in DOMAIN cache : cache[k].matches[x] \in MatchResults \union {None}
    <3> TAKE k \in DOMAIN cache
    <3>1. cache[k] \in Entries
      BY ElementOfSeq, LenProperties
    <3>2. QED
      BY <3>1 DEF Entries, MatchLists
  <2>2. QED
    BY <2>1, IndexIsCached
<1>2. QED
  BY <1>1 DEF Index, MatchLists

(* The decisions the service makes itself are decisions.                   *)
LEMMA AutoDecisionsTyped ==
  ASSUME cache \in Seq(Entries), NEW list \in SingleLists, NEW limit \in Nat
  PROVE  Limited(AutoDecisions(list), limit) \in Seq(Decisions)
<1>1. \A s \in Singles : DecisionOf(s) \in Decisions
  BY DEF Singles, DecisionOf, Decision, Decisions
<1>2. PICK n \in Nat : list \in [1 .. n -> Singles]
  <2>1. IsFiniteSet(DOMAIN cache)
    BY FS_Interval, LenProperties
  <2>2. IsFiniteSet((DOMAIN cache) \X Txs)
    BY <2>1, FS_Product, MatchingAssumption
  <2>3. IsFiniteSet(Singles)
    BY <2>2, FS_Subset DEF Singles
  <2>4. QED
    BY <2>3, FS_CardinalityType DEF SingleLists, SetToSeqs
<1>3. AutoDecisions(list) \in Seq(Decisions)
  BY <1>1, <1>2 DEF AutoDecisions
<1>4. ASSUME limit \in 1 .. Len(AutoDecisions(list))
      PROVE  SubSeq(AutoDecisions(list), 1, limit) \in Seq(Decisions)
  BY <1>3, <1>4, SubSeqProperties
<1>5. QED
  BY <1>3, <1>4, LenProperties DEF Limited

(* Adding or replacing a page keeps one entry for each page.               *)
LEMMA WithEntryTyped ==
  ASSUME AllegroTypeOK, NEW entry \in Entries
  PROVE  /\ WithEntry(entry) \in Seq(Entries)
         /\ \A k, l \in DOMAIN WithEntry(entry) :
              WithEntry(entry)[k].page = WithEntry(entry)[l].page => k = l
         /\ \A k \in DOMAIN WithEntry(entry) :
              WithEntry(entry)[k] = entry
                \/ \E l \in DOMAIN cache : WithEntry(entry)[k] = cache[l]
<1>1. PICK n \in Nat : cache \in [1 .. n -> Entries] /\ n = Len(cache)
  BY LenProperties DEF AllegroTypeOK
<1>2. CASE \E k \in DOMAIN cache : cache[k].page = entry.page
  <2>1. WithEntry(entry) =
          [k \in 1 .. n |-> IF cache[k].page = entry.page THEN entry ELSE cache[k]]
    BY <1>1, <1>2 DEF WithEntry
  <2>2. WithEntry(entry) \in Seq(Entries)
    BY <1>1, <2>1
  <2>3. \A k, l \in 1 .. n : cache[k].page = cache[l].page => k = l
    BY <1>1 DEF AllegroTypeOK
  <2>4. QED
    BY <1>1, <2>1, <2>2, <2>3
<1>3. CASE ~\E k \in DOMAIN cache : cache[k].page = entry.page
  <2>1. WithEntry(entry) = Append(cache, entry)
    BY <1>3 DEF WithEntry
  <2>2. /\ Append(cache, entry) \in Seq(Entries)
        /\ DOMAIN Append(cache, entry) = 1 .. n + 1
        /\ \A k \in 1 .. n : Append(cache, entry)[k] = cache[k]
        /\ Append(cache, entry)[n + 1] = entry
    BY <1>1, AppendProperties, LenProperties DEF AllegroTypeOK
  <2>3. \A k, l \in 1 .. n : cache[k].page = cache[l].page => k = l
    BY <1>1 DEF AllegroTypeOK
  <2>4. \A k \in 1 .. n : cache[k].page # entry.page
    BY <1>1, <1>3
  <2>5. QED
    BY <1>1, <2>1, <2>2, <2>3, <2>4
<1>4. QED
  BY <1>2, <1>3

(* RemoveAt closes the gap.                                                *)
LEMMA RemoveAtProperties ==
  ASSUME NEW S, NEW s \in Seq(S), NEW p \in 1 .. Len(s)
  PROVE  /\ RemoveAt(s, p) \in Seq(S)
         /\ Len(RemoveAt(s, p)) = Len(s) - 1
         /\ \A k \in 1 .. Len(s) - 1 :
              RemoveAt(s, p)[k] = IF k < p THEN s[k] ELSE s[k + 1]
<1> DEFINE front == SubSeq(s, 1, p - 1)
           back == SubSeq(s, p + 1, Len(s))
<1>1. Len(s) \in Nat /\ p \in Nat /\ 1 <= p /\ p <= Len(s)
  BY LenProperties
<1>2. \A k \in 1 .. Len(s) : s[k] \in S
  BY ElementOfSeq
<1>3. /\ front \in Seq(S) /\ Len(front) = p - 1
      /\ \A k \in 1 .. p - 1 : front[k] = s[k]
  <2>1. \A k \in 1 .. p - 1 : s[k] \in S
    BY <1>1, <1>2
  <2>2. /\ front \in Seq(S)
        /\ Len(front) = IF 1 <= p - 1 THEN p - 1 - 1 + 1 ELSE 0
        /\ \A k \in 1 .. p - 1 - 1 + 1 : front[k] = s[1 + k - 1]
    BY <1>1, <2>1, SubSeqProperties
  <2>3. QED
    BY <1>1, <2>2
<1>4. /\ back \in Seq(S) /\ Len(back) = Len(s) - p
      /\ \A k \in 1 .. Len(s) - p : back[k] = s[k + p]
  <2>1. \A k \in p + 1 .. Len(s) : s[k] \in S
    BY <1>1, <1>2
  <2>2. /\ back \in Seq(S)
        /\ Len(back) = IF p + 1 <= Len(s) THEN Len(s) - (p + 1) + 1 ELSE 0
        /\ \A k \in 1 .. Len(s) - (p + 1) + 1 : back[k] = s[p + 1 + k - 1]
    BY <1>1, <2>1, SubSeqProperties
  <2>3. QED
    BY <1>1, <2>2
<1>5. RemoveAt(s, p) = front \o back
  BY DEF RemoveAt
<1> HIDE DEF front, back
<1>6. /\ front \o back \in Seq(S)
      /\ Len(front \o back) = Len(front) + Len(back)
      /\ \A k \in 1 .. Len(front) + Len(back) : (front \o back)[k] =
           IF k <= Len(front) THEN front[k] ELSE back[k - Len(front)]
  BY <1>3, <1>4, ConcatProperties
<1>7. Len(front) + Len(back) = Len(s) - 1
  BY <1>1, <1>3, <1>4
<1>8. ASSUME NEW k \in 1 .. Len(s) - 1
      PROVE  (front \o back)[k] = IF k < p THEN s[k] ELSE s[k + 1]
  <2>1. k \in Nat /\ 1 <= k /\ k <= Len(s) - 1
    BY <1>1
  <2>2. (front \o back)[k] = IF k <= p - 1 THEN front[k] ELSE back[k - (p - 1)]
    BY <1>3, <1>6, <1>7
  <2>3. CASE k < p
    <3>1. k \in 1 .. p - 1
      BY <1>1, <2>1, <2>3
    <3>2. QED
      BY <1>1, <1>3, <2>1, <2>2, <2>3, <3>1
  <2>4. CASE ~(k < p)
    <3>1. k - (p - 1) \in 1 .. Len(s) - p /\ (k - (p - 1)) + p = k + 1
      BY <1>1, <2>1, <2>4
    <3>2. QED
      BY <1>1, <1>4, <2>1, <2>2, <2>4, <3>1
  <2>5. QED
    BY <2>3, <2>4
<1>9. QED
  BY <1>5, <1>6, <1>7, <1>8

(* Removing an entry keeps the others.                                     *)
LEMMA RemoveAtTyped ==
  ASSUME AllegroTypeOK, NEW p \in DOMAIN cache
  PROVE  /\ RemoveAt(cache, p) \in Seq(Entries)
         /\ \A k, l \in DOMAIN RemoveAt(cache, p) :
              RemoveAt(cache, p)[k].page = RemoveAt(cache, p)[l].page => k = l
         /\ \A k \in DOMAIN RemoveAt(cache, p) :
              \E l \in DOMAIN cache : RemoveAt(cache, p)[k] = cache[l]
<1>1. PICK n \in Nat : /\ n = Len(cache) /\ cache \in Seq(Entries)
                      /\ DOMAIN cache = 1 .. n /\ p \in 1 .. n
  BY LenProperties DEF AllegroTypeOK
<1>2. PICK rest \in Seq(Entries) :
        /\ rest = RemoveAt(cache, p) /\ Len(rest) = n - 1
        /\ \A k \in 1 .. n - 1 :
             rest[k] = IF k < p THEN cache[k] ELSE cache[k + 1]
  BY <1>1, RemoveAtProperties
<1>3. DOMAIN rest = 1 .. n - 1
  BY <1>1, <1>2, LenProperties
<1>4. \A k, l \in 1 .. n : cache[k].page = cache[l].page => k = l
  BY <1>1 DEF AllegroTypeOK
<1>5. \A k \in 1 .. n - 1 : \E l \in 1 .. n : rest[k] = cache[l]
  BY <1>1, <1>2
<1>6. ASSUME NEW k \in 1 .. n - 1, NEW l \in 1 .. n - 1, rest[k].page = rest[l].page
      PROVE  k = l
  <2> DEFINE at(m) == IF m < p THEN m ELSE m + 1
  <2>1. at(k) \in 1 .. n /\ at(l) \in 1 .. n
    BY <1>1
  <2>2. rest[k] = cache[at(k)] /\ rest[l] = cache[at(l)]
    BY <1>2
  <2>3. at(k) = at(l)
    BY <1>4, <1>6, <2>1, <2>2
  <2>4. QED
    BY <1>1, <2>3
<1>7. QED
  BY <1>1, <1>2, <1>3, <1>5, <1>6, ZenonT(30)

(* A decision under way is one of the job's, and so is its update.         *)
LEMMA CurrentTyped ==
  ASSUME AllegroTypeOK, NEW j \in Jobs,
         Deciding(j) \/ jobs[j].update # None \/ jobs[j].outcome # None
  PROVE  /\ Position(j) \in DOMAIN jobs[j].todo
         /\ Current(j) \in Decisions
         /\ Current(j).tx \in Txs
<1>1. jobs[j].todo \in Seq(Decisions) /\ jobs[j].results \in Seq(Outcomes)
  BY DEF AllegroTypeOK, JobRecords
<1>2. Position(j) \in DOMAIN jobs[j].todo
  <2>1. CASE Deciding(j)
    BY <1>1, <2>1, LenProperties DEF Deciding, Position
  <2>2. CASE jobs[j].update # None \/ jobs[j].outcome # None
    BY <2>2 DEF AllegroTypeOK
  <2>3. QED
    BY <2>1, <2>2
<1>3. Current(j) \in Decisions
  BY <1>1, <1>2, LenProperties, ElementOfSeq DEF Current
<1>4. QED
  BY <1>2, <1>3 DEF Decisions

(* What is sent to Firefly is an update.                                   *)
LEMMA BuildTyped ==
  ASSUME NEW seen \in FireflyTxs, NEW i \in Items
  PROVE  BuildTxUpdate(seen, i) \in Updates
<1>1. Append(seen.notes, i) \in Seq(Items)
  BY AppendProperties DEF FireflyTxs
<1>2. QED
  BY <1>1 DEF BuildTxUpdate, Updates, FireflyTxs

(* A job that has counted an outcome is typed, and so is one that has      *)
(* recorded it.                                                            *)
LEMMA CountedTyped ==
  ASSUME NEW job \in JobRecords, NEW outcome \in Outcomes
  PROVE  /\ Counted(job, outcome) \in JobRecords
         /\ Counted(job, outcome).update = None
         /\ Counted(job, outcome).outcome = outcome
         /\ Counted(job, outcome).results = job.results
         /\ Counted(job, outcome).todo = job.todo
         /\ Counted(job, outcome).index = job.index
<1>1. /\ job.applied \in Nat /\ job.failed \in Nat
      /\ (IF outcome = "success" THEN job.applied + 1 ELSE job.applied) \in Nat
      /\ (IF outcome = "failed" THEN job.failed + 1 ELSE job.failed) \in Nat
  BY DEF JobRecords
<1>2. QED
  BY <1>1 DEF Counted, JobRecords

LEMMA RecordedTyped ==
  ASSUME NEW job \in JobRecords, job.outcome # None
  PROVE  /\ Recorded(job) \in JobRecords
         /\ Recorded(job).outcome = None
         /\ Recorded(job).update = job.update
         /\ Recorded(job).results = Append(job.results, job.outcome)
         /\ Recorded(job).todo = job.todo
         /\ Recorded(job).index = job.index
<1>1. job.outcome \in Outcomes
  BY DEF JobRecords
<1>2. Append(job.results, job.outcome) \in Seq(Outcomes)
  BY <1>1, AppendProperties DEF JobRecords
<1>3. QED
  BY <1>2 DEF Recorded, JobRecords

(* Every value the service and its jobs hold keeps its type, and a page    *)
(* one entry in the cache, through every step.                             *)
LEMMA ServiceTypeStep ==
  ASSUME AllegroTypeOK, [Next]_vars
  PROVE  ServiceTypes'
<1> USE MatchingAssumption, AllegroAssumption
<1> ServiceTypes
  BY TypesAre
<1>1. ASSUME NEW v \in Previews, PreviewStep(v) PROVE ServiceTypes'
  <2>1. /\ jobs' = jobs /\ ff' = ff
        /\ previews' \in [Previews -> PreviewRecords]
        /\ \A w \in Previews : previews'[w].st # "idle" => previews'[w].page \in Pages
    <3>1. ASSUME NEW p \in Pages, NEW items \in Contents[p], PreviewAsks(v, p, items)
          PROVE  <2>1!:
      <4>1. items \in SUBSET Items
        BY MatchingAssumption
      <4>2. Preview("asked", p, items, NoMatches) \in PreviewRecords
        BY <4>1, NoMatchesTyped DEF Preview, PreviewRecords
      <4>3. QED
        BY <3>1, <4>2 DEF PreviewAsks, ServiceTypes, Preview
    <3>2. CASE FireflyReads(v)
      <4>1. previews[v] \in PreviewRecords /\ previews[v].page \in Pages
        BY <3>2 DEF FireflyReads, ServiceTypes
      <4>2. Preview("read", previews[v].page, previews[v].items,
                    Matched(previews[v].items)) \in PreviewRecords
        BY <4>1, MatchedTyped DEF Preview, PreviewRecords
      <4>3. QED
        BY <3>2, <4>1, <4>2 DEF FireflyReads, ServiceTypes, Preview
    <3>3. CASE PreviewEnds(v) \/ PreviewFails(v)
      <4>1. Idle \in PreviewRecords /\ Idle.st = "idle"
        BY NoMatchesTyped DEF Idle, Preview, PreviewRecords
      <4>2. jobs' = jobs /\ ff' = ff /\ previews' = [previews EXCEPT ![v] = Idle]
        BY <3>3 DEF PreviewEnds, PreviewFails
      <4>3. QED
        BY <4>1, <4>2 DEF ServiceTypes
    <3>4. \/ \E p \in Pages : \E items \in Contents[p] : PreviewAsks(v, p, items)
          \/ FireflyReads(v) \/ PreviewEnds(v) \/ PreviewFails(v)
      BY <1>1 DEF PreviewStep
    <3>5. QED
      BY <3>1, <3>2, <3>3, <3>4
  <2>2. CASE PreviewEnds(v)
    <3>1. Entry(previews[v].page, previews[v].matches) \in Entries
      BY <2>2 DEF PreviewEnds, ServiceTypes, PreviewRecords, Entry, Entries
    <3>2. cache' = WithEntry(Entry(previews[v].page, previews[v].matches))
      BY <2>2 DEF PreviewEnds
    <3>3. QED
      BY <2>1, <3>1, <3>2, WithEntryTyped DEF ServiceTypes
  <2>3. CASE cache' = cache
    BY <2>1, <2>3 DEF ServiceTypes
  <2>4. QED
    BY <1>1, <2>2, <2>3 DEF PreviewStep, PreviewAsks, FireflyReads, PreviewFails
<1>2. ASSUME NEW p \in Pages, ClearPage(p) PROVE ServiceTypes'
  BY <1>2, RemoveAtTyped DEF ClearPage, ServiceTypes
<1>3. ASSUME ClearSecret PROVE ServiceTypes'
  BY <1>3 DEF ClearSecret, ServiceTypes
<1>4. ASSUME NEW j \in Jobs, NEW auto \in BOOLEAN, NEW ds \in Seq(Decisions),
             StartJob(j, auto, ds)
      PROVE  ServiceTypes'
  <2>1. /\ Job("pending", auto, ds, Index) \in JobRecords
        /\ Fits(Job("pending", auto, ds, Index))
    BY IndexTyped DEF Job, JobRecords, JobStates, ServiceTypes, Fits
  <2>2. QED
    BY <1>4, <2>1, JobTyped DEF StartJob, ServiceTypes
<1>5. ASSUME NEW j \in Jobs, StartApply(j) PROVE ServiceTypes'
  BY <1>4, <1>5 DEF StartApply
<1>6. ASSUME NEW j \in Jobs, NEW limit \in Limits, AutoApply(j, limit)
      PROVE  ServiceTypes'
  <2>1. PICK list \in SingleLists :
          StartJob(j, TRUE, Limited(AutoDecisions(list), limit))
    BY <1>6 DEF AutoApply
  <2>2. Limited(AutoDecisions(list), limit) \in Seq(Decisions)
    BY AutoDecisionsTyped DEF ServiceTypes
  <2>3. QED
    BY <1>4, <2>1, <2>2
<1>7. ASSUME NEW j \in Jobs, JobStep(j) PROVE ServiceTypes'
  <2>1. jobs[j] \in JobRecords /\ Fits(jobs[j])
    BY DEF ServiceTypes
  <2>2. ASSUME NEW r \in JobRecords, jobs' = [jobs EXCEPT ![j] = r], Fits(r),
               ff' \in [Txs -> FireflyTxs], cache' = cache, previews' = previews
        PROVE  ServiceTypes'
    BY <2>2, JobTyped DEF ServiceTypes
  <2>3. CASE JobBegins(j)
    <3>1. [jobs[j] EXCEPT !.st = "running"] \in JobRecords
      BY <2>1 DEF JobRecords, JobStates
    <3>2. Fits([jobs[j] EXCEPT !.st = "running"])
      BY <2>1 DEF Fits, JobRecords
    <3>3. QED
      BY <2>2, <2>3, <3>1, <3>2 DEF JobBegins, ServiceTypes
  <2>4. ASSUME NEW job \in JobRecords, NEW outcome \in Outcomes,
               job.results = jobs[j].results, job.todo = jobs[j].todo,
               Position(j) \in DOMAIN jobs[j].todo,
               jobs' = [jobs EXCEPT ![j] = Counted(job, outcome)],
               ff' = ff, cache' = cache, previews' = previews
        PROVE  ServiceTypes'
    <3>1. Counted(job, outcome) \in JobRecords /\ Fits(Counted(job, outcome))
      BY <2>4, CountedTyped DEF Fits, Position
    <3>2. QED
      BY <2>2, <2>4, <3>1 DEF ServiceTypes
  <2>5. CASE RejectDecision(j)
    <3>1. Position(j) \in DOMAIN jobs[j].todo
      BY <2>5, CurrentTyped DEF RejectDecision
    <3>2. QED
      BY <2>1, <2>4, <2>5, <3>1 DEF RejectDecision, Outcomes, ServiceTypes
  <2>6. CASE LoopIsFree /\ SendUpdate(j)
    <3>1. PICK i \in Chosen(j) : jobs' = [jobs EXCEPT ![j] =
            [@ EXCEPT !.update = BuildTxUpdate(jobs[j].index[Current(j).tx].seen, i)]]
      BY <2>6 DEF SendUpdate
    <3> DEFINE u == BuildTxUpdate(jobs[j].index[Current(j).tx].seen, i)
    <3>2. jobs[j].index[Current(j).tx] \in MatchResults
      BY <2>1, <2>6, CurrentTyped
         DEF SendUpdate, Selectable, Listed, JobRecords, MatchLists
    <3>3. u \in Updates
      BY <3>2, BuildTyped DEF Chosen, MatchResults
    <3> HIDE DEF u
    <3>4. [jobs[j] EXCEPT !.update = u] \in JobRecords
      BY <2>1, <3>3 DEF JobRecords
    <3>5. Len(jobs[j].results) + 1 \in DOMAIN jobs[j].todo /\ jobs[j].outcome = None
      BY <2>6, CurrentTyped DEF SendUpdate, Position, LoopIsFree
    <3>6. Fits([jobs[j] EXCEPT !.update = u])
      BY <2>1, <3>5 DEF Fits, JobRecords
    <3>7. jobs' = [jobs EXCEPT ![j] = [jobs[j] EXCEPT !.update = u]]
      BY <3>1 DEF u, ServiceTypes
    <3>8. QED
      BY <2>2, <2>6, <3>4, <3>6, <3>7 DEF SendUpdate, ServiceTypes
  <2>7. CASE FireflyWrites(j)
    <3> DEFINE u == jobs[j].update
               x == Current(j).tx
               w == [u EXCEPT !.st = "written"]
               r == [jobs[j] EXCEPT !.update = w, !.written = @ \union {Position(j)}]
               y == [tags |-> u.tags,
                     notes |-> IF u.notes = None THEN ff[x].notes ELSE u.notes]
    <3>1. /\ u \in Updates /\ x \in Txs /\ Position(j) \in DOMAIN jobs[j].todo
          /\ jobs[j].outcome = None
      BY <2>1, <2>7, CurrentTyped DEF FireflyWrites, JobRecords, Fits
    <3>2. y \in FireflyTxs
      BY <3>1 DEF ServiceTypes, FireflyTxs, Updates
    <3>3. w \in Updates
      BY <3>1 DEF Updates
    <3>4. Position(j) \in Nat
      BY <2>1, LenProperties DEF Position, JobRecords
    <3> HIDE DEF w
    <3>5. /\ r \in JobRecords /\ r.results = jobs[j].results /\ r.todo = jobs[j].todo
          /\ r.outcome = jobs[j].outcome
      BY <2>1, <3>3, <3>4 DEF JobRecords
    <3>6. ff' = [ff EXCEPT ![x] = y] /\ jobs' = [jobs EXCEPT ![j] = r]
      BY <2>7 DEF FireflyWrites, w
    <3> HIDE DEF r, y
    <3>7. ff' \in [Txs -> FireflyTxs]
      BY <3>1, <3>2, <3>6 DEF ServiceTypes
    <3>8. Fits(r)
      BY <3>1, <3>5 DEF Fits, Position
    <3>9. QED
      BY <2>2, <2>7, <3>5, <3>6, <3>7, <3>8 DEF FireflyWrites
  <2>8. CASE UpdateSucceeds(j)
    <3>1. Position(j) \in DOMAIN jobs[j].todo
      BY <2>8, CurrentTyped DEF UpdateSucceeds, Answered
    <3>2. QED
      BY <2>1, <2>4, <2>8, <3>1 DEF UpdateSucceeds, Outcomes, ServiceTypes
  <2>9. CASE UpdateFails(j)
    <3> DEFINE r == [jobs[j] EXCEPT !.refused = @ \union {Position(j)}]
    <3>1. Position(j) \in Nat /\ Position(j) \in DOMAIN jobs[j].todo
      BY <2>1, <2>9, LenProperties, CurrentTyped DEF Position, JobRecords, UpdateFails
    <3>2. r \in JobRecords /\ r.results = jobs[j].results /\ r.todo = jobs[j].todo
      BY <2>1, <3>1 DEF JobRecords
    <3>3. jobs' = [jobs EXCEPT ![j] = Counted(r, "failed")]
      BY <2>9 DEF UpdateFails
    <3> HIDE DEF r
    <3>4. QED
      BY <2>4, <2>9, <3>1, <3>2, <3>3 DEF UpdateFails, Outcomes
  <2>10. CASE RecordOutcome(j)
    <3> DEFINE r == Recorded(jobs[j])
    <3>1. /\ r \in JobRecords /\ r.update = jobs[j].update /\ r.outcome = None
          /\ jobs[j].outcome # None
      BY <2>1, <2>10, RecordedTyped DEF RecordOutcome
    <3>2. jobs' = [jobs EXCEPT ![j] = r]
      BY <2>10 DEF RecordOutcome
    <3> HIDE DEF r
    <3>3. Fits(r)
      BY <2>1, <3>1 DEF Fits
    <3>4. QED
      BY <2>2, <2>10, <3>1, <3>2, <3>3 DEF RecordOutcome, ServiceTypes
  <2>11. CASE JobEnds(j)
    <3>1. [jobs[j] EXCEPT !.st = "done"] \in JobRecords
      BY <2>1 DEF JobRecords, JobStates
    <3>2. Fits([jobs[j] EXCEPT !.st = "done"])
      BY <2>1 DEF Fits, JobRecords
    <3>3. QED
      BY <2>2, <2>11, <3>1, <3>2 DEF JobEnds, ServiceTypes
  <2>12. QED
    BY <1>7, <2>3, <2>5, <2>6, <2>7, <2>8, <2>9, <2>10, <2>11 DEF JobStep, TaskStep
<1>8. ASSUME Restart PROVE ServiceTypes'
  <2>1. /\ NoJob \in JobRecords /\ Fits(NoJob)
        /\ LostJob \in JobRecords /\ Fits(LostJob)
    BY NoMatchesTyped DEF NoJob, LostJob, Job, JobRecords, JobStates, Fits
  <2>2. Idle \in PreviewRecords /\ Idle.st = "idle"
    BY NoMatchesTyped DEF Idle, Preview, PreviewRecords
  <2>3. QED
    BY <1>8, <2>1, <2>2 DEF Restart, ServiceTypes
<1>9. ASSUME UNCHANGED vars \/ \E c \in Clients : PollStep(c) PROVE ServiceTypes'
  BY <1>9 DEF vars, ServiceTypes, PollStep, PollStatus, PollApplied, PollFailed,
              PollResults
<1>10. QED
  BY <1>1, <1>2, <1>3, <1>5, <1>6, <1>7, <1>8, <1>9 DEF Next

(* A step of the service is none of a client.                              *)
LEMMA OnlyPollsServe ==
  ASSUME [Next]_vars
  PROVE  \/ polls' = polls /\ answers' = answers
         \/ jobs' = jobs /\ \E c \in Clients : PollStep(c)
         \/ Restart
BY DEF Next, vars, served, PreviewStep, PreviewAsks, FireflyReads, PreviewEnds,
       PreviewFails, ClearPage, ClearSecret, StartApply, AutoApply, StartJob, JobStep,
       TaskStep, JobBegins, RejectDecision, SendUpdate, UpdateSucceeds, UpdateFails,
       JobEnds, RecordOutcome, FireflyWrites, PollStep, PollStatus, PollApplied,
       PollFailed, PollResults

LEMMA ClientTypeStep ==
  ASSUME AllegroTypeOK, [Next]_vars
  PROVE  ClientTypes'
<1>1. ClientTypes /\ jobs \in [Jobs -> JobRecords]
  BY TypesAre DEF ServiceTypes
<1>2. ASSUME NEW c \in Clients, PollStep(c) PROVE ClientTypes'
  <2>1. polls[c] \in PollRecords /\ NoPoll.at = "none"
    BY <1>1 DEF ClientTypes, NoPoll, Poll
  <2>2. ASSUME NEW j \in Jobs, PollStatus(c, j) PROVE ClientTypes'
    <3>1. Poll(j, "status", jobs[j].st, 0, 0) \in PollRecords
      BY <1>1 DEF Poll, PollRecords, JobRecords
    <3>2. QED
      BY <1>1, <2>2, <3>1 DEF PollStatus, ClientTypes
  <2>3. ASSUME polls[c].at # "none"
        PROVE  /\ polls[c] \in [job : Jobs, at : {"status", "applied", "failed"},
                                st : JobStates, applied : Nat, failed : Nat]
               /\ jobs[polls[c].job] \in JobRecords
    BY <1>1, <2>1, <2>3 DEF PollRecords
  <2>4. CASE PollApplied(c)
    <3> DEFINE p == [polls[c] EXCEPT !.at = "applied",
                                     !.applied = jobs[polls[c].job].applied]
    <3>1. p \in PollRecords
      BY <2>3, <2>4 DEF PollApplied, PollRecords, JobRecords
    <3>2. polls' = [polls EXCEPT ![c] = p] /\ answers' = answers
      BY <2>4 DEF PollApplied
    <3> HIDE DEF p
    <3>3. QED
      BY <1>1, <3>1, <3>2 DEF ClientTypes
  <2>5. CASE PollFailed(c)
    <3> DEFINE p == [polls[c] EXCEPT !.at = "failed",
                                     !.failed = jobs[polls[c].job].failed]
    <3>1. p \in PollRecords
      BY <2>3, <2>5 DEF PollFailed, PollRecords, JobRecords
    <3>2. polls' = [polls EXCEPT ![c] = p] /\ answers' = answers
      BY <2>5 DEF PollFailed
    <3> HIDE DEF p
    <3>3. QED
      BY <1>1, <3>1, <3>2 DEF ClientTypes
  <2>6. CASE PollResults(c)
    <3>1. Answer(polls[c]) \in Answers
      BY <2>3, <2>6, LenProperties DEF PollResults, Answer, Answers, JobRecords
    <3>2. NoPoll \in PollRecords
      BY DEF PollRecords
    <3>3. QED
      BY <1>1, <2>6, <3>1, <3>2 DEF PollResults, ClientTypes
  <2>7. QED
    BY <1>2, <2>2, <2>4, <2>5, <2>6 DEF PollStep
<1>3. CASE Restart
  BY <1>1, <1>3 DEF Restart, ClientTypes, PollRecords
<1>4. CASE polls' = polls /\ answers' = answers
  BY <1>1, <1>4 DEF ClientTypes
<1>5. QED
  BY <1>2, <1>3, <1>4, OnlyPollsServe

LEMMA TypeStep ==
  ASSUME AllegroTypeOK, [Next]_vars
  PROVE  AllegroTypeOK'
<1>1. ServiceTypes' /\ ClientTypes'
  BY ServiceTypeStep, ClientTypeStep
<1>2. QED
  BY <1>1 DEF AllegroTypeOK, ServiceTypes, ClientTypes, Fits, Position

(* Every value the service and its jobs hold keeps its type, a page has    *)
(* one entry in the cache, and what a job has in hand belongs to one of    *)
(* its decisions.                                                          *)
THEOREM AllegroTypeCorrect == Spec => []AllegroTypeOK
<1>1. Init => AllegroTypeOK
  <2> SUFFICES ASSUME Init PROVE ServiceTypes /\ ClientTypes
    BY TypesAre
  <2>1. NoJob \in JobRecords /\ Fits(NoJob)
    BY NoMatchesTyped DEF NoJob, Job, JobRecords, JobStates, Fits
  <2>2. Idle \in PreviewRecords /\ Idle.st = "idle"
    BY NoMatchesTyped DEF Idle, Preview, PreviewRecords
  <2>3. QED
    BY <2>1, <2>2 DEF Init, ServiceTypes, ClientTypes, FireflyTxs, PollRecords
<1>2. QED
  BY <1>1, TypeStep, PTL DEF Spec

-----------------------------------------------------------------------------
(* The invariant behind EnrichmentIsSound and NotesOnce: every copy of a   *)
(* transaction, however old, is sound by itself, and so is every update    *)
(* built from one.                                                         *)

SoundTx(x, t) ==
  /\ \A i \in ToSet(t.notes) : Compare(i, x)
  /\ t.notes # <<>> => DoneTag \in t.tags
  /\ IsInjective(t.notes)

SoundMatches(m) ==
  \A x \in Listed(m) : /\ SoundTx(x, m[x].seen)
                       /\ \A i \in m[x].items : Compare(i, x)

SoundUpdate(x, u) ==
  /\ DoneTag \in u.tags
  /\ u.notes # None => SoundTx(x, u)

SoundJob(j) ==
  /\ SoundMatches(jobs[j].index)
  /\ jobs[j].update # None => SoundUpdate(Current(j).tx, jobs[j].update)

AllSound ==
  /\ \A x \in Txs : SoundTx(x, ff[x])
  /\ \A k \in DOMAIN cache : SoundMatches(cache[k].matches)
  /\ \A v \in Previews : SoundMatches(previews[v].matches)
  /\ \A j \in Jobs : SoundJob(j)

LEMMA NoMatchesSound == SoundMatches(NoMatches)
BY DEF SoundMatches, NoMatches, Listed

(* Appending a payment that is not there keeps the notes free of           *)
(* repetitions.                                                            *)
LEMMA AppendOnce ==
  ASSUME NEW notes \in Seq(Items), NEW i \in Items, IsInjective(notes),
         i \notin ToSet(notes)
  PROVE  /\ IsInjective(Append(notes, i))
         /\ ToSet(Append(notes, i)) = ToSet(notes) \union {i}
<1>1. PICK n \in Nat : n = Len(notes) /\ DOMAIN notes = 1 .. n
  BY LenProperties
<1>2. /\ DOMAIN Append(notes, i) = 1 .. n + 1
      /\ \A k \in 1 .. n : Append(notes, i)[k] = notes[k]
      /\ Append(notes, i)[n + 1] = i
  BY <1>1, AppendProperties, LenProperties
<1>3. \A k \in 1 .. n : notes[k] # i
  BY <1>1 DEF ToSet
<1>4. \A k, l \in 1 .. n : notes[k] = notes[l] => k = l
  BY <1>1 DEF IsInjective
<1>5. ASSUME NEW k \in 1 .. n + 1, NEW l \in 1 .. n + 1,
             Append(notes, i)[k] = Append(notes, i)[l]
      PROVE  k = l
  <2>1. (k \in 1 .. n \/ k = n + 1) /\ (l \in 1 .. n \/ l = n + 1)
    BY <1>1
  <2>2. QED
    BY <1>2, <1>3, <1>4, <1>5, <2>1
<1>6. IsInjective(Append(notes, i))
  BY <1>2, <1>5 DEF IsInjective
<1>7. ToSet(Append(notes, i)) = ToSet(notes) \union {i}
  <2>1. ToSet(notes) = {notes[k] : k \in 1 .. n}
    BY <1>1 DEF ToSet
  <2>2. ToSet(Append(notes, i)) = {Append(notes, i)[k] : k \in 1 .. n + 1}
    BY <1>2 DEF ToSet
  <2>3. 1 .. n + 1 = (1 .. n) \union {n + 1}
    BY <1>1
  <2>4. QED
    BY <1>2, <2>1, <2>2, <2>3
<1>8. QED
  BY <1>6, <1>7

(* What build_tx_update makes of a sound copy and a candidate is sound.    *)
LEMMA BuildSound ==
  ASSUME NEW x \in Txs, NEW seen \in FireflyTxs, NEW i \in Items,
         SoundTx(x, seen), Compare(i, x)
  PROVE  SoundUpdate(x, BuildTxUpdate(seen, i))
<1> DEFINE u == BuildTxUpdate(seen, i)
<1>1. DoneTag \in u.tags
  BY DEF BuildTxUpdate
<1>2. ASSUME u.notes # None PROVE SoundTx(x, u)
  <2>1. seen.notes \in Seq(Items)
    BY DEF FireflyTxs
  <2>2. i \notin ToSet(seen.notes) /\ u.notes = Append(seen.notes, i)
    BY <1>2 DEF BuildTxUpdate
  <2>3. /\ IsInjective(u.notes)
        /\ ToSet(u.notes) = ToSet(seen.notes) \union {i}
    BY <2>1, <2>2, AppendOnce DEF SoundTx
  <2>4. QED
    BY <1>1, <2>3 DEF SoundTx
<1>3. QED
  BY <1>1, <1>2 DEF SoundUpdate

(* What Firefly makes of a sound update is sound.                          *)
LEMMA WriteSound ==
  ASSUME NEW x \in Txs, NEW u \in Updates, NEW t \in FireflyTxs,
         SoundTx(x, t), SoundUpdate(x, u)
  PROVE  SoundTx(x, [tags |-> u.tags,
                     notes |-> IF u.notes = None THEN t.notes ELSE u.notes])
BY DEF SoundTx, SoundUpdate

(* The other jobs stay sound when one changes.                             *)
LEMMA JobSound ==
  ASSUME AllegroTypeOK, AllSound, NEW j \in Jobs, NEW r \in JobRecords,
         jobs' = [jobs EXCEPT ![j] = r],
         SoundMatches(r.index),
         r.update # None => SoundUpdate(r.todo[Len(r.results) + 1].tx, r.update)
  PROVE  \A k \in Jobs : SoundJob(k)'
<1>1. jobs'[j] = r /\ \A k \in Jobs : k # j => jobs'[k] = jobs[k]
  BY DEF AllegroTypeOK
<1>2. SoundJob(j)'
  BY <1>1 DEF SoundJob, Current, Position
<1>3. ASSUME NEW k \in Jobs, k # j PROVE SoundJob(k)'
  BY <1>1, <1>3 DEF SoundJob, AllSound, Current, Position
<1>4. QED
  BY <1>2, <1>3

LEMMA IndexSound ==
  ASSUME AllegroTypeOK, AllSound
  PROVE  SoundMatches(Index)
<1> SUFFICES ASSUME NEW x \in Txs, Index[x] # None
             PROVE  /\ SoundTx(x, Index[x].seen)
                    /\ \A i \in Index[x].items : Compare(i, x)
  BY DEF SoundMatches, Listed
<1>1. PICK k \in DOMAIN cache : Index[x] = cache[k].matches[x]
  BY IndexIsCached DEF AllegroTypeOK
<1>2. SoundMatches(cache[k].matches)
  BY DEF AllSound
<1>3. QED
  BY <1>1, <1>2 DEF SoundMatches, Listed

(* A step of a job keeps every copy sound.                                 *)
LEMMA SoundJobStep ==
  ASSUME AllegroTypeOK, AllSound, NEW j \in Jobs, JobStep(j)
  PROVE  AllSound'
<1> USE AllegroAssumption
<1>1. jobs[j] \in JobRecords /\ SoundJob(j) /\ cache' = cache /\ previews' = previews
  BY DEF AllegroTypeOK, AllSound, JobStep, TaskStep, JobBegins, RejectDecision,
         SendUpdate, FireflyWrites, UpdateSucceeds, UpdateFails, RecordOutcome, JobEnds
<1>2. ASSUME NEW r \in JobRecords, jobs' = [jobs EXCEPT ![j] = r],
             r.index = jobs[j].index,
             r.update # None =>
               SoundUpdate(r.todo[Len(r.results) + 1].tx, r.update),
             \A x \in Txs : SoundTx(x, ff'[x])
      PROVE  AllSound'
  <2>1. \A k \in Jobs : SoundJob(k)'
    BY <1>1, <1>2, JobSound DEF SoundJob
  <2>2. QED
    BY <1>1, <1>2, <2>1 DEF AllSound
<1>3. CASE JobBegins(j)
  <2>1. [jobs[j] EXCEPT !.st = "running"] \in JobRecords
    BY <1>1 DEF JobRecords, JobStates
  <2>2. QED
    BY <1>1, <1>2, <1>3, <2>1
       DEF JobBegins, AllSound, SoundJob, Current, Position, JobRecords
<1>4. ASSUME NEW job \in JobRecords, NEW outcome \in Outcomes,
             job.index = jobs[j].index,
             jobs' = [jobs EXCEPT ![j] = Counted(job, outcome)], ff' = ff
      PROVE  AllSound'
  BY <1>2, <1>4, CountedTyped DEF AllSound
<1>5. CASE RejectDecision(j) \/ UpdateSucceeds(j)
  BY <1>1, <1>4, <1>5 DEF RejectDecision, UpdateSucceeds, Outcomes
<1>6. CASE UpdateFails(j)
  <2> DEFINE r == [jobs[j] EXCEPT !.refused = @ \union {Position(j)}]
  <2>1. Position(j) \in Nat
    BY <1>1, LenProperties DEF Position, JobRecords
  <2>2. r \in JobRecords /\ r.index = jobs[j].index
    BY <1>1, <2>1 DEF JobRecords
  <2>3. jobs' = [jobs EXCEPT ![j] = Counted(r, "failed")] /\ ff' = ff
    BY <1>6 DEF UpdateFails
  <2> HIDE DEF r
  <2>4. QED
    BY <1>4, <2>2, <2>3 DEF Outcomes
<1>7. CASE SendUpdate(j)
  <2>1. PICK i \in Chosen(j) : jobs' = [jobs EXCEPT ![j] =
          [@ EXCEPT !.update = BuildTxUpdate(jobs[j].index[Current(j).tx].seen, i)]]
    BY <1>7 DEF SendUpdate
  <2> DEFINE x == Current(j).tx
             seen == jobs[j].index[x].seen
             u == BuildTxUpdate(seen, i)
             r == [jobs[j] EXCEPT !.update = u]
  <2>2. x \in Txs /\ x \in Listed(jobs[j].index) /\ i \in jobs[j].index[x].items
    BY <1>7, CurrentTyped DEF SendUpdate, Selectable, Chosen
  <2>3. seen \in FireflyTxs /\ i \in Items
    BY <1>1, <2>2 DEF Listed, JobRecords, MatchLists, MatchResults
  <2>4. SoundTx(x, seen) /\ Compare(i, x)
    BY <1>1, <2>2 DEF SoundJob, SoundMatches
  <2>5. SoundUpdate(x, u)
    BY <2>2, <2>3, <2>4, BuildSound
  <2>6. u \in Updates
    BY <2>3, BuildTyped
  <2>7. jobs' = [jobs EXCEPT ![j] = r] /\ ff' = ff
    BY <1>7, <2>1 DEF SendUpdate, AllegroTypeOK
  <2>8. x = jobs[j].todo[Len(jobs[j].results) + 1].tx
    BY DEF Current, Position
  <2> HIDE DEF u, x
  <2>9. /\ r \in JobRecords /\ r.update = u /\ r.index = jobs[j].index
        /\ r.todo = jobs[j].todo /\ r.results = jobs[j].results
    BY <1>1, <2>6 DEF JobRecords
  <2> HIDE DEF r
  <2>10. QED
    BY <1>2, <2>5, <2>7, <2>8, <2>9 DEF AllSound
<1>8. CASE FireflyWrites(j)
  <2> DEFINE u == jobs[j].update
             x == Current(j).tx
             w == [u EXCEPT !.st = "written"]
             r == [jobs[j] EXCEPT !.update = w, !.written = @ \union {Position(j)}]
             y == [tags |-> u.tags,
                   notes |-> IF u.notes = None THEN ff[x].notes ELSE u.notes]
  <2>1. u # None /\ u \in Updates /\ x \in Txs /\ Position(j) \in Nat
    BY <1>1, <1>8, CurrentTyped, LenProperties DEF FireflyWrites, Position, JobRecords
  <2>2. SoundUpdate(x, u)
    BY <1>1, <2>1 DEF SoundJob
  <2>3. SoundTx(x, y)
    BY <2>1, <2>2, WriteSound DEF AllSound, AllegroTypeOK
  <2>4. w \in Updates /\ SoundUpdate(x, w)
    BY <2>1, <2>2 DEF Updates, SoundUpdate, SoundTx
  <2>5. ff' = [ff EXCEPT ![x] = y] /\ jobs' = [jobs EXCEPT ![j] = r]
    BY <1>8 DEF FireflyWrites
  <2>6. x = jobs[j].todo[Len(jobs[j].results) + 1].tx
    BY DEF Current, Position
  <2> HIDE DEF x, y, w
  <2>7. /\ r \in JobRecords /\ r.update = w /\ r.index = jobs[j].index
        /\ r.todo = jobs[j].todo /\ r.results = jobs[j].results
    BY <1>1, <2>1, <2>4 DEF JobRecords
  <2>8. \A z \in Txs : SoundTx(z, ff'[z])
    BY <2>1, <2>3, <2>5 DEF AllSound, AllegroTypeOK
  <2> HIDE DEF r
  <2>9. QED
    BY <1>2, <2>4, <2>5, <2>6, <2>7, <2>8
<1>9. CASE JobEnds(j)
  <2>1. /\ [jobs[j] EXCEPT !.st = "done"] \in JobRecords
        /\ [jobs[j] EXCEPT !.st = "done"].update = None
        /\ [jobs[j] EXCEPT !.st = "done"].index = jobs[j].index
    BY <1>1, <1>9 DEF JobRecords, JobStates, JobEnds
  <2>2. QED
    BY <1>2, <1>9, <2>1 DEF JobEnds, AllSound
<1>10. CASE RecordOutcome(j)
  <2> DEFINE r == Recorded(jobs[j])
  <2>1. /\ r \in JobRecords /\ r.index = jobs[j].index /\ r.update = None
        /\ jobs' = [jobs EXCEPT ![j] = r] /\ ff' = ff
    BY <1>1, <1>10, RecordedTyped DEF RecordOutcome, AllegroTypeOK
  <2> HIDE DEF r
  <2>2. QED
    BY <1>2, <2>1 DEF AllSound
<1>11. QED
  BY <1>3, <1>5, <1>6, <1>7, <1>8, <1>9, <1>10 DEF JobStep, TaskStep

(* Every step keeps every copy sound.                                      *)
LEMMA SoundStep ==
  ASSUME AllegroTypeOK, AllSound, [Next]_vars
  PROVE  AllSound'
<1> USE AllegroAssumption
<1>1. ASSUME NEW v \in Previews, PreviewStep(v) PROVE AllSound'
  <2>1. jobs' = jobs /\ ff' = ff /\ \A j \in Jobs : SoundJob(j)'
    BY <1>1 DEF PreviewStep, PreviewAsks, FireflyReads, PreviewEnds, PreviewFails,
                AllSound, SoundJob, Current, Position
  <2>2. \A w \in Previews : w # v => previews'[w] = previews[w]
    BY <1>1 DEF PreviewStep, PreviewAsks, FireflyReads, PreviewEnds, PreviewFails,
                AllegroTypeOK
  <2>3. SoundMatches(previews'[v].matches)
    <3>1. CASE FireflyReads(v)
      <4>1. SoundMatches(Matched(previews[v].items))
        BY DEF SoundMatches, Matched, Listed, Candidates, AllSound
      <4>2. previews'[v].matches = Matched(previews[v].items)
        BY <3>1 DEF FireflyReads, Preview, AllegroTypeOK
      <4>3. QED
        BY <4>1, <4>2
    <3>2. CASE ~FireflyReads(v)
      <4>1. previews'[v].matches = NoMatches
        BY <1>1, <3>2 DEF PreviewStep, PreviewAsks, PreviewEnds, PreviewFails,
                          Preview, Idle, AllegroTypeOK
      <4>2. QED
        BY <4>1, NoMatchesSound
    <3>3. QED
      BY <3>1, <3>2
  <2>4. \A k \in DOMAIN cache' : SoundMatches(cache'[k].matches)
    <3>1. CASE PreviewEnds(v)
      <4> DEFINE entry == Entry(previews[v].page, previews[v].matches)
      <4>1. entry \in Entries /\ cache' = WithEntry(entry)
        BY <3>1 DEF PreviewEnds, AllegroTypeOK, PreviewRecords, Entry, Entries
      <4>2. SoundMatches(entry.matches)
        BY DEF AllSound, Entry
      <4>3. QED
        BY <4>1, <4>2, WithEntryTyped DEF AllSound
    <3>2. CASE ~PreviewEnds(v)
      BY <1>1, <3>2 DEF PreviewStep, PreviewAsks, FireflyReads, PreviewFails, AllSound
    <3>3. QED
      BY <3>1, <3>2
  <2>5. \A w \in Previews : SoundMatches(previews'[w].matches)
    BY <2>2, <2>3 DEF AllSound
  <2>6. QED
    BY <2>1, <2>4, <2>5 DEF AllSound
<1>2. ASSUME NEW p \in Pages, ClearPage(p) PROVE AllSound'
  <2>1. PICK k \in DOMAIN cache : cache' = RemoveAt(cache, k)
    BY <1>2 DEF ClearPage
  <2>2. \A l \in DOMAIN cache' : SoundMatches(cache'[l].matches)
    BY <2>1, RemoveAtTyped DEF AllSound
  <2>3. QED
    BY <1>2, <2>2 DEF ClearPage, AllSound, SoundJob, Current, Position
<1>3. CASE ClearSecret
  BY <1>3 DEF ClearSecret, AllSound, SoundJob, Current, Position
<1>4. ASSUME NEW j \in Jobs, NEW auto \in BOOLEAN, NEW ds \in Seq(Decisions),
             StartJob(j, auto, ds)
      PROVE  AllSound'
  <2> DEFINE r == Job("pending", auto, ds, Index)
  <2>1. r \in JobRecords /\ r.update = None /\ r.index = Index
    BY IndexTyped DEF Job, JobRecords, JobStates, AllegroTypeOK
  <2>2. SoundMatches(r.index) /\ jobs' = [jobs EXCEPT ![j] = r]
    BY <1>4, <2>1, IndexSound DEF StartJob
  <2> HIDE DEF r
  <2>3. \A k \in Jobs : SoundJob(k)'
    BY <2>1, <2>2, JobSound
  <2>4. QED
    BY <1>4, <2>3 DEF StartJob, AllSound
<1>5. ASSUME NEW j \in Jobs, StartApply(j) PROVE AllSound'
  BY <1>4, <1>5 DEF StartApply
<1>6. ASSUME NEW j \in Jobs, NEW limit \in Limits, AutoApply(j, limit)
      PROVE  AllSound'
  <2>1. PICK list \in SingleLists :
          StartJob(j, TRUE, Limited(AutoDecisions(list), limit))
    BY <1>6 DEF AutoApply
  <2>2. Limited(AutoDecisions(list), limit) \in Seq(Decisions)
    BY AutoDecisionsTyped DEF AllegroTypeOK
  <2>3. QED
    BY <1>4, <2>1, <2>2
<1>7. CASE Restart
  <2>1. \A j \in Jobs : jobs'[j] = NoJob \/ jobs'[j] = LostJob
    BY <1>7 DEF Restart
  <2>2. /\ NoJob.index = NoMatches /\ NoJob.update = None
        /\ LostJob.index = NoMatches /\ LostJob.update = None
    BY DEF NoJob, LostJob, Job
  <2>3. \A j \in Jobs : SoundJob(j)'
    BY <2>1, <2>2, NoMatchesSound DEF SoundJob
  <2>4. QED
    BY <1>7, <2>3, NoMatchesSound DEF Restart, AllSound, Idle, Preview
<1>8. ASSUME UNCHANGED vars \/ \E c \in Clients : PollStep(c) PROVE AllSound'
  <2>1. UNCHANGED <<ff, cache, previews, jobs>>
    BY <1>8 DEF vars, PollStep, PollStatus, PollApplied, PollFailed, PollResults
  <2>2. QED
    BY <2>1 DEF AllSound, SoundJob, Current, Position
<1>9. QED
  BY <1>1, <1>2, <1>3, <1>5, <1>6, <1>7, <1>8, SoundJobStep DEF Next

LEMMA AlwaysSound == Spec => []AllSound
<1>1. Init => AllSound
  <2> SUFFICES ASSUME Init PROVE AllSound
    OBVIOUS
  <2>1. \A x \in Txs : SoundTx(x, ff[x])
    BY DEF Init, SoundTx, ToSet, IsInjective
  <2>2. \A j \in Jobs : SoundJob(j)
    BY NoMatchesSound DEF Init, SoundJob, NoJob, Job
  <2>3. QED
    BY <2>1, <2>2, NoMatchesSound DEF Init, AllSound, Idle, Preview
<1>2. QED
  BY <1>1, SoundStep, AllegroTypeCorrect, PTL DEF Spec

(* For any jobs, previews and restarts, the details of a payment reach     *)
(* only transactions it matches, and not without the tag                   *)
(* (order_payment.py 20-43).                                               *)
THEOREM EnrichmentIsSoundHolds == Spec => []EnrichmentIsSound
<1>1. AllegroTypeOK /\ AllSound => EnrichmentIsSound
  BY DEF AllSound, SoundTx, EnrichmentIsSound
<1>2. QED
  BY <1>1, AlwaysSound, AllegroTypeCorrect, PTL

(* However many jobs apply the same payment to the same transaction, from  *)
(* copies of any age, its details are in the notes once                    *)
(* (order_payment.py 33-36).                                               *)
THEOREM NotesOnceHolds == Spec => []NotesOnce
<1>1. AllSound => NotesOnce
  BY DEF AllSound, SoundTx, NotesOnce
<1>2. QED
  BY <1>1, AlwaysSound, PTL

-----------------------------------------------------------------------------
(* The invariant behind OutcomesAreTrue: so far every outcome is true,     *)
(* recorded or only counted, and an update that Firefly carried out is     *)
(* remembered as such.                                                     *)

TrueOutcome(job, k, outcome) ==
  LET d == job.todo[k] IN
  IF outcome = "success"
  THEN k \in job.written
  ELSE \/ k \in job.refused
       \/ d.tx \notin Listed(job.index)
       \/ \A i \in job.index[d.tx].items : ShortId[i] # d.id

Truthful(job) ==
  /\ \A k \in DOMAIN job.results : TrueOutcome(job, k, job.results[k])
  /\ job.outcome # None => TrueOutcome(job, Len(job.results) + 1, job.outcome)
  /\ job.update # None /\ job.update.st = "written" =>
       Len(job.results) + 1 \in job.written

(* The invariant behind AnswersAgree: the counters count the results and   *)
(* the outcome that is not yet among them.                                 *)

Pending(job, outcome) == IF job.outcome = outcome THEN 1 ELSE 0

Tallied(job) ==
  /\ job.applied = Count(job.results, "success") + Pending(job, "success")
  /\ job.failed = Count(job.results, "failed") + Pending(job, "failed")
  /\ job.applied + job.failed = Len(job.results) + IF job.outcome = None THEN 0 ELSE 1
  /\ Len(job.results) <= Len(job.todo)
  /\ job.st = "done" => Len(job.results) = Len(job.todo)
  /\ job.update # None \/ job.outcome # None => job.st = "running"

Reports(job) == Truthful(job) /\ Tallied(job)

LEMMA EmptyCount ==
  ASSUME NEW outcome
  PROVE  Count(<<>>, outcome) = 0
<1>1. {k \in DOMAIN <<>> : <<>>[k] = outcome} = {}
  OBVIOUS
<1>2. QED
  BY <1>1, FS_EmptySet DEF Count

(* One outcome more: its count grows, the other's does not.                *)
LEMMA AppendCount ==
  ASSUME NEW results \in Seq(Outcomes), NEW outcome \in Outcomes, NEW other
  PROVE  Count(Append(results, outcome), other) =
           IF other = outcome THEN Count(results, other) + 1 ELSE Count(results, other)
<1> DEFINE new == Append(results, outcome)
           these == {k \in DOMAIN results : results[k] = other}
<1>1. PICK n \in Nat : n = Len(results) /\ DOMAIN results = 1 .. n
  BY LenProperties
<1>2. /\ DOMAIN new = 1 .. n + 1
      /\ \A k \in 1 .. n : new[k] = results[k]
      /\ new[n + 1] = outcome
  BY <1>1, AppendProperties, LenProperties
<1>3. n + 1 \notin 1 .. n /\ 1 .. n + 1 = (1 .. n) \union {n + 1}
  BY <1>1
<1>4. IsFiniteSet(these) /\ n + 1 \notin these
  <2>1. IsFiniteSet(1 .. n)
    BY FS_Interval
  <2>2. these \in SUBSET (1 .. n)
    BY <1>1
  <2>3. QED
    BY <1>3, <2>1, <2>2, FS_Subset
<1> HIDE DEF new
<1>5. {k \in DOMAIN new : new[k] = other} =
        IF other = outcome THEN these \union {n + 1} ELSE these
  BY <1>1, <1>2, <1>3
<1>6. Cardinality(these \union {n + 1}) = Cardinality(these) + 1
  BY <1>4, FS_AddElement
<1>7. QED
  BY <1>5, <1>6 DEF Count, new

(* Counts are numbers.                                                     *)
CountsAreNumbers(results) ==
  Count(results, "success") \in Nat /\ Count(results, "failed") \in Nat

LEMMA CountTyped ==
  ASSUME NEW results \in Seq(Outcomes)
  PROVE  CountsAreNumbers(results)
<1>1. IsFiniteSet(DOMAIN results)
  BY FS_Interval, LenProperties
<1>2. \A o : IsFiniteSet({k \in DOMAIN results : results[k] = o})
  BY <1>1, FS_Subset
<1>3. QED
  BY <1>2, FS_CardinalityType DEF Count, CountsAreNumbers

LEMMA NewReports ==
  /\ Reports(NoJob) /\ Reports(LostJob)
  /\ \A auto, ds, index : ds \in Seq(Decisions) => Reports(Job("pending", auto, ds, index))
BY EmptyCount, LenProperties, AllegroAssumption
   DEF Reports, Truthful, Tallied, Pending, NoJob, LostJob, Job, Outcomes

(* An outcome that is counted is true, and counted once.                   *)
LEMMA CountedReports ==
  ASSUME NEW job \in JobRecords, Reports(job), NEW outcome \in Outcomes,
         job.st = "running", job.outcome = None,
         TrueOutcome(job, Len(job.results) + 1, outcome)
  PROVE  Reports(Counted(job, outcome))
<1> DEFINE r == Counted(job, outcome)
<1>1. /\ r.st = job.st /\ r.todo = job.todo /\ r.index = job.index
      /\ r.written = job.written /\ r.refused = job.refused
      /\ r.update = None /\ r.outcome = outcome /\ r.results = job.results
      /\ r.applied = IF outcome = "success" THEN job.applied + 1 ELSE job.applied
      /\ r.failed = IF outcome = "failed" THEN job.failed + 1 ELSE job.failed
  BY DEF Counted, JobRecords
<1> HIDE DEF r
<1>2. Truthful(r)
  <2>1. \A k : TrueOutcome(job, k, job.results[k]) => TrueOutcome(r, k, r.results[k])
    BY <1>1 DEF TrueOutcome
  <2>2. TrueOutcome(r, Len(r.results) + 1, r.outcome)
    BY <1>1 DEF TrueOutcome
  <2>3. QED
    BY <1>1, <2>1, <2>2 DEF Reports, Truthful
<1>3. Tallied(r)
  <2>1. /\ None # "success" /\ None # "failed"
        /\ outcome = "success" \/ outcome = "failed"
    BY AllegroAssumption DEF Outcomes
  <2>2. /\ job.applied = Count(job.results, "success")
        /\ job.failed = Count(job.results, "failed")
        /\ job.applied + job.failed = Len(job.results)
        /\ job.applied \in Nat /\ job.failed \in Nat /\ Len(job.results) \in Nat
    <3>1. job.results \in Seq(Outcomes) /\ CountsAreNumbers(job.results)
      BY CountTyped DEF JobRecords
    <3>2. Pending(job, "success") = 0 /\ Pending(job, "failed") = 0
      BY <2>1 DEF Pending
    <3>3. QED
      BY <3>1, <3>2, LenProperties DEF Reports, Tallied, JobRecords, CountsAreNumbers
  <2>3. /\ r.applied = Count(r.results, "success") + Pending(r, "success")
        /\ r.failed = Count(r.results, "failed") + Pending(r, "failed")
    BY <1>1, <2>1, <2>2 DEF Pending
  <2>4. r.applied + r.failed = Len(r.results) + 1
    BY <1>1, <2>1, <2>2
  <2>5. QED
    BY <1>1, <2>1, <2>3, <2>4 DEF Reports, Tallied
<1>4. QED
  BY <1>2, <1>3 DEF Reports, r

(* An outcome that is recorded changes places with the counted one.        *)
LEMMA RecordedReports ==
  ASSUME NEW job \in JobRecords, Reports(job), Fits(job), job.outcome # None
  PROVE  Reports(Recorded(job))
<1> DEFINE r == Recorded(job)
<1>1. /\ r.st = job.st /\ r.todo = job.todo /\ r.index = job.index
      /\ r.written = job.written /\ r.refused = job.refused
      /\ r.update = None /\ r.outcome = None
      /\ r.results = Append(job.results, job.outcome)
      /\ r.applied = job.applied /\ r.failed = job.failed
  BY DEF Recorded, JobRecords, Fits
<1> HIDE DEF r
<1>2. /\ job.results \in Seq(Outcomes) /\ job.todo \in Seq(Decisions)
      /\ job.outcome \in Outcomes
  BY DEF JobRecords
<1>3. PICK n \in Nat : n = Len(job.results) /\ DOMAIN job.results = 1 .. n
  BY <1>2, LenProperties
<1>4. /\ DOMAIN r.results = 1 .. n + 1 /\ Len(r.results) = n + 1
      /\ \A k \in 1 .. n : r.results[k] = job.results[k]
      /\ r.results[n + 1] = job.outcome
  BY <1>1, <1>2, <1>3, AppendProperties, LenProperties
<1>5. Truthful(r)
  <2>1. \A k \in 1 .. n : TrueOutcome(r, k, r.results[k])
    BY <1>1, <1>3, <1>4 DEF Reports, Truthful, TrueOutcome
  <2>2. TrueOutcome(r, n + 1, r.results[n + 1])
    BY <1>1, <1>3, <1>4 DEF Reports, Truthful, TrueOutcome
  <2>3. \A k \in 1 .. n + 1 : k \in 1 .. n \/ k = n + 1
    BY <1>3
  <2>4. QED
    BY <1>1, <1>4, <2>1, <2>2, <2>3 DEF Truthful
<1>6. Tallied(r)
  <2>1. /\ None # "success" /\ None # "failed"
        /\ job.outcome = "success" \/ job.outcome = "failed"
    BY <1>2, AllegroAssumption DEF Outcomes
  <2>2. /\ Count(r.results, "success") =
             IF "success" = job.outcome THEN Count(job.results, "success") + 1
                                        ELSE Count(job.results, "success")
        /\ Count(r.results, "failed") =
             IF "failed" = job.outcome THEN Count(job.results, "failed") + 1
                                       ELSE Count(job.results, "failed")
    BY <1>1, <1>2, AppendCount
  <2>3. /\ job.applied = Count(job.results, "success") + Pending(job, "success")
        /\ job.failed = Count(job.results, "failed") + Pending(job, "failed")
        /\ job.applied + job.failed = n + 1
        /\ job.applied \in Nat /\ job.failed \in Nat
    BY <1>3 DEF Reports, Tallied, JobRecords
  <2>4. /\ r.applied = Count(r.results, "success")
        /\ r.failed = Count(r.results, "failed")
    <3>1. CountsAreNumbers(job.results)
      BY <1>2, CountTyped
    <3>2. QED
      BY <1>1, <2>1, <2>2, <2>3, <3>1 DEF Pending, CountsAreNumbers
  <2>5. Pending(r, "success") = 0 /\ Pending(r, "failed") = 0
    BY <1>1, <2>1 DEF Pending
  <2>6. n + 1 <= Len(job.todo)
    BY <1>2, <1>3, LenProperties DEF Fits
  <2>7. job.st = "running"
    BY DEF Reports, Tallied
  <2>8. r.applied \in Nat /\ r.failed \in Nat
    BY <1>1, <2>3
  <2>9. QED
    BY <1>1, <1>4, <2>3, <2>4, <2>5, <2>6, <2>7, <2>8 DEF Tallied
<1>7. QED
  BY <1>5, <1>6 DEF Reports, r

(* A step that gives one job a record with a true report keeps every       *)
(* report true.                                                            *)
LEMMA JobReports ==
  ASSUME AllegroTypeOK, \A k \in Jobs : Reports(jobs[k]),
         NEW j \in Jobs, NEW r, jobs' = [jobs EXCEPT ![j] = r], Reports(r)
  PROVE  \A k \in Jobs : Reports(jobs'[k])
BY DEF AllegroTypeOK

(* A step of a job keeps its report true.                                  *)
LEMMA ReportsJobStep ==
  ASSUME AllegroTypeOK, NEW j \in Jobs, Reports(jobs[j]), JobStep(j)
  PROVE  /\ jobs' = [jobs EXCEPT ![j] = jobs'[j]]
         /\ Reports(jobs'[j])
<1> USE AllegroAssumption
<1> DEFINE job == jobs[j]
<1>1. job \in JobRecords /\ Fits(job) /\ jobs \in [Jobs -> JobRecords]
  BY TypesAre DEF ServiceTypes
<1>2. ASSUME NEW r, jobs' = [jobs EXCEPT ![j] = r], Reports(r)
      PROVE  /\ jobs' = [jobs EXCEPT ![j] = jobs'[j]]
             /\ Reports(jobs'[j])
  BY <1>1, <1>2
<1>3. CASE JobBegins(j)
  <2>1. jobs' = [jobs EXCEPT ![j] = [job EXCEPT !.st = "running"]]
    BY <1>1, <1>3 DEF JobBegins
  <2>2. Reports([job EXCEPT !.st = "running"])
    BY <1>1, <1>3
       DEF JobBegins, Reports, Truthful, TrueOutcome, Tallied, Pending, JobRecords
  <2>3. QED
    BY <1>2, <2>1, <2>2
<1>4. CASE LoopIsFree /\ RejectDecision(j)
  <2>1. job.st = "running" /\ job.outcome = None
    BY <1>4 DEF RejectDecision, Deciding, LoopIsFree
  <2>2. TrueOutcome(job, Len(job.results) + 1, "failed")
    BY <1>4 DEF RejectDecision, Selectable, Chosen, Current, Position, TrueOutcome
  <2>3. Reports(Counted(job, "failed"))
    BY <1>1, <2>1, <2>2, CountedReports DEF Outcomes
  <2>4. jobs' = [jobs EXCEPT ![j] = Counted(job, "failed")]
    BY <1>1, <1>4 DEF RejectDecision
  <2>5. QED
    BY <1>2, <2>3, <2>4
<1>5. CASE LoopIsFree /\ SendUpdate(j)
  <2>1. PICK i \in Chosen(j) : jobs' = [jobs EXCEPT ![j] =
          [@ EXCEPT !.update = BuildTxUpdate(jobs[j].index[Current(j).tx].seen, i)]]
    BY <1>5 DEF SendUpdate
  <2> DEFINE u == BuildTxUpdate(jobs[j].index[Current(j).tx].seen, i)
             r == [job EXCEPT !.update = u]
  <2>2. u.st = "sent"
    BY DEF BuildTxUpdate
  <2>3. jobs' = [jobs EXCEPT ![j] = r] /\ job.st = "running" /\ job.outcome = None
    BY <1>1, <1>5, <2>1 DEF SendUpdate, Deciding, LoopIsFree
  <2> HIDE DEF u
  <2>4. Reports(r)
    BY <1>1, <2>2, <2>3 DEF Reports, Truthful, TrueOutcome, Tallied, Pending, JobRecords
  <2> HIDE DEF r
  <2>5. QED
    BY <1>2, <2>3, <2>4
<1>6. CASE FireflyWrites(j)
  <2> DEFINE w == [job.update EXCEPT !.st = "written"]
             r == [job EXCEPT !.update = w, !.written = @ \union {Position(j)}]
  <2>1. jobs' = [jobs EXCEPT ![j] = r] /\ job.update # None /\ job.outcome = None
    BY <1>1, <1>6 DEF FireflyWrites, Fits
  <2> HIDE DEF w
  <2>2. Reports(r)
    BY <1>1, <2>1
       DEF Reports, Truthful, TrueOutcome, Tallied, Pending, JobRecords, Position
  <2> HIDE DEF r
  <2>3. QED
    BY <1>2, <2>1, <2>2
<1>7. CASE UpdateSucceeds(j)
  <2>1. job.update # None /\ job.update.st = "written" /\ job.outcome = None
    BY <1>1, <1>7 DEF UpdateSucceeds, Answered, Fits
  <2>2. job.st = "running" /\ TrueOutcome(job, Len(job.results) + 1, "success")
    BY <2>1 DEF Reports, Tallied, Truthful, TrueOutcome
  <2>3. Reports(Counted(job, "success"))
    BY <1>1, <2>1, <2>2, CountedReports DEF Outcomes
  <2>4. jobs' = [jobs EXCEPT ![j] = Counted(job, "success")]
    BY <1>1, <1>7 DEF UpdateSucceeds
  <2>5. QED
    BY <1>2, <2>3, <2>4
<1>8. CASE UpdateFails(j)
  <2> DEFINE r == [job EXCEPT !.refused = @ \union {Position(j)}]
  <2>1. /\ jobs' = [jobs EXCEPT ![j] = Counted(r, "failed")]
        /\ job.update # None /\ job.outcome = None
    BY <1>1, <1>8 DEF UpdateFails, Fits
  <2>2. Position(j) \in Nat /\ Position(j) = Len(job.results) + 1
    BY <1>1, LenProperties DEF Position, JobRecords
  <2>3. job.st = "running"
    BY <2>1 DEF Reports, Tallied
  <2>4. /\ r \in JobRecords /\ r.st = job.st /\ r.outcome = job.outcome
        /\ r.results = job.results /\ r.refused = job.refused \union {Position(j)}
    BY <1>1, <2>2 DEF JobRecords
  <2>5. Reports(r)
    BY <1>1 DEF Reports, Truthful, TrueOutcome, Tallied, Pending, JobRecords
  <2> HIDE DEF r
  <2>6. TrueOutcome(r, Len(r.results) + 1, "failed")
    BY <2>2, <2>4 DEF TrueOutcome
  <2>7. Reports(Counted(r, "failed"))
    BY <2>1, <2>3, <2>4, <2>5, <2>6, CountedReports DEF Outcomes
  <2>8. QED
    BY <1>2, <2>1, <2>7
<1>9. CASE RecordOutcome(j)
  <2>1. job.outcome # None /\ jobs' = [jobs EXCEPT ![j] = Recorded(job)]
    BY <1>1, <1>9 DEF RecordOutcome
  <2>2. Reports(Recorded(job))
    BY <1>1, <2>1, RecordedReports
  <2>3. QED
    BY <1>2, <2>1, <2>2
<1>10. CASE LoopIsFree /\ JobEnds(j)
  <2> DEFINE r == [job EXCEPT !.st = "done"]
  <2>1. /\ jobs' = [jobs EXCEPT ![j] = r]
        /\ job.update = None /\ job.outcome = None
    BY <1>1, <1>10 DEF JobEnds, LoopIsFree
  <2>2. Len(job.results) = Len(job.todo)
    BY <1>1, <1>10, LenProperties
       DEF JobEnds, AllDecided, Position, Reports, Tallied, JobRecords
  <2>3. Reports(r)
    BY <1>1, <2>1, <2>2 DEF Reports, Truthful, TrueOutcome, Tallied, Pending, JobRecords
  <2> HIDE DEF r
  <2>4. QED
    BY <1>2, <2>1, <2>3
<1>11. QED
  BY <1>3, <1>4, <1>5, <1>6, <1>7, <1>8, <1>9, <1>10 DEF JobStep, TaskStep

AllReport == \A j \in Jobs : Reports(jobs[j])

LEMMA ReportsStep ==
  ASSUME AllegroTypeOK, AllReport, [Next]_vars
  PROVE  AllReport'
<1> USE AllegroAssumption
<1>1. ASSUME NEW j \in Jobs, NEW auto \in BOOLEAN, NEW ds \in Seq(Decisions),
             StartJob(j, auto, ds)
      PROVE  AllReport'
  BY <1>1, NewReports, JobReports DEF StartJob, AllReport
<1>2. ASSUME NEW j \in Jobs, StartApply(j) PROVE AllReport'
  BY <1>1, <1>2 DEF StartApply
<1>3. ASSUME NEW j \in Jobs, NEW limit \in Limits, AutoApply(j, limit)
      PROVE  AllReport'
  <2>1. PICK list \in SingleLists :
          StartJob(j, TRUE, Limited(AutoDecisions(list), limit))
    BY <1>3 DEF AutoApply
  <2>2. Limited(AutoDecisions(list), limit) \in Seq(Decisions)
    BY AutoDecisionsTyped DEF AllegroTypeOK
  <2>3. QED
    BY <1>1, <2>1, <2>2
<1>4. ASSUME NEW j \in Jobs, JobStep(j) PROVE AllReport'
  BY <1>4, ReportsJobStep, JobReports DEF AllReport
<1>5. CASE Restart
  BY <1>5, NewReports DEF Restart, AllReport
<1>6. CASE jobs' = jobs
  BY <1>6 DEF AllReport
<1>7. QED
  BY <1>2, <1>3, <1>4, <1>5, <1>6
     DEF Next, vars, PreviewStep, PreviewAsks, FireflyReads, PreviewEnds, PreviewFails,
         ClearPage, ClearSecret, PollStep, PollStatus, PollApplied, PollFailed,
         PollResults

LEMMA AlwaysReports == Spec => []AllReport
<1>1. Init => AllReport
  BY NewReports DEF Init, AllReport
<1>2. QED
  BY <1>1, ReportsStep, AllegroTypeCorrect, PTL DEF Spec

(* For any number of jobs and decisions, what a job reports is what        *)
(* happened to Firefly (218-238).                                          *)
THEOREM OutcomesAreTrueHolds == Spec => []OutcomesAreTrue
<1>1. AllReport => OutcomesAreTrue
  BY DEF AllReport, Reports, Truthful, TrueOutcome, OutcomesAreTrue
<1>2. QED
  BY <1>1, AlwaysReports, PTL

-----------------------------------------------------------------------------
(* The polls.                                                              *)

(* A job after some of its steps.                                          *)
Grown(old, new) ==
  /\ new.st # "free" /\ (new.st = "lost" <=> old.st = "lost")
  /\ NotBack(old.st, new.st)
  /\ new.todo = old.todo
  /\ old.applied <= new.applied /\ old.failed <= new.failed
  /\ Extends(new.results, old.results)
  /\ old.st = "done" =>
       /\ new.applied = old.applied /\ new.failed = old.failed
       /\ new.results = old.results

LEMMA GrownReflexive ==
  ASSUME NEW job \in JobRecords, job.st # "free"
  PROVE  Grown(job, job)
<1>1. job.results \in Seq(Outcomes) /\ Len(job.results) \in Nat
  BY LenProperties DEF JobRecords
<1>2. QED
  BY <1>1 DEF Grown, NotBack, Extends, JobRecords

LEMMA ExtendsReflexive ==
  ASSUME NEW results \in Seq(Outcomes)
  PROVE  Extends(results, results)
BY LenProperties DEF Extends

LEMMA ExtendsTransitive ==
  ASSUME NEW a \in Seq(Outcomes), NEW b \in Seq(Outcomes), NEW c \in Seq(Outcomes),
         Extends(b, a), Extends(c, b)
  PROVE  Extends(c, a)
BY LenProperties DEF Extends

LEMMA AppendExtends ==
  ASSUME NEW results \in Seq(Outcomes), NEW outcome \in Outcomes
  PROVE  Extends(Append(results, outcome), results)
BY AppendProperties, LenProperties DEF Extends

(* A job that counts an outcome moves on.                                  *)
LEMMA CountedGrows ==
  ASSUME NEW old \in JobRecords, NEW job \in JobRecords, NEW outcome \in Outcomes,
         old.st = "running", job.st = old.st, job.todo = old.todo,
         job.applied = old.applied, job.failed = old.failed,
         job.results = old.results
  PROVE  Grown(old, Counted(job, outcome))
<1> DEFINE r == Counted(job, outcome)
<1>1. /\ r.st = "running" /\ r.todo = old.todo /\ r.results = old.results
      /\ r.applied \in {old.applied, old.applied + 1}
      /\ r.failed \in {old.failed, old.failed + 1}
  BY DEF Counted, JobRecords
<1> HIDE DEF r
<1>2. old.applied <= r.applied /\ old.failed <= r.failed
  BY <1>1 DEF JobRecords
<1>3. Extends(r.results, old.results)
  BY <1>1, ExtendsReflexive DEF JobRecords
<1>4. Grown(old, r)
  BY <1>1, <1>2, <1>3 DEF Grown, NotBack
<1>5. QED
  BY <1>4 DEF r

(* Every step of a job but its start moves it on.                          *)
LEMMA GrowsByJobStep ==
  ASSUME AllegroTypeOK, NEW j \in Jobs, Reports(jobs[j]), JobStep(j)
  PROVE  Grown(jobs[j], jobs'[j])
<1> USE AllegroAssumption
<1> DEFINE job == jobs[j]
<1>1. job \in JobRecords /\ Fits(job) /\ jobs \in [Jobs -> JobRecords]
  BY TypesAre DEF ServiceTypes
<1>2. /\ job.results \in Seq(Outcomes) /\ job.applied \in Nat /\ job.failed \in Nat
      /\ Extends(job.results, job.results)
  BY <1>1, ExtendsReflexive DEF JobRecords
<1>3. ASSUME NEW r, jobs' = [jobs EXCEPT ![j] = r], Grown(job, r)
      PROVE  Grown(job, jobs'[j])
  BY <1>1, <1>3
<1>4. ASSUME NEW r, jobs' = [jobs EXCEPT ![j] = r],
             r.st \in {"running", "done"}, job.st # "done", job.st # "lost",
             job.st = "pending" \/ job.st = "running", r.todo = job.todo,
             r.applied = job.applied, r.failed = job.failed, r.results = job.results
      PROVE  Grown(job, jobs'[j])
  <2>1. Extends(r.results, job.results)
    BY <1>2, <1>4
  <2>2. job.applied <= r.applied /\ job.failed <= r.failed
    BY <1>2, <1>4
  <2>3. Grown(job, r)
    BY <1>4, <2>1, <2>2 DEF Grown, NotBack
  <2>4. QED
    BY <1>3, <1>4, <2>3
<1>5. CASE JobBegins(j)
  <2> DEFINE r == [job EXCEPT !.st = "running"]
  <2>1. /\ jobs' = [jobs EXCEPT ![j] = r] /\ job.st = "pending"
        /\ r.st = "running" /\ r.todo = job.todo /\ r.applied = job.applied
        /\ r.failed = job.failed /\ r.results = job.results
    BY <1>1, <1>5 DEF JobBegins, JobRecords
  <2> HIDE DEF r
  <2>2. QED
    BY <1>4, <2>1
<1>6. CASE RejectDecision(j)
  <2>1. job.st = "running" /\ jobs' = [jobs EXCEPT ![j] = Counted(job, "failed")]
    BY <1>1, <1>6 DEF RejectDecision, Deciding
  <2>2. Grown(job, Counted(job, "failed"))
    BY <1>1, <2>1, CountedGrows DEF Outcomes
  <2>3. QED
    BY <1>3, <2>1, <2>2
<1>7. CASE SendUpdate(j)
  <2>1. PICK i \in Chosen(j) : jobs' = [jobs EXCEPT ![j] =
          [@ EXCEPT !.update = BuildTxUpdate(jobs[j].index[Current(j).tx].seen, i)]]
    BY <1>7 DEF SendUpdate
  <2> DEFINE u == BuildTxUpdate(jobs[j].index[Current(j).tx].seen, i)
             r == [job EXCEPT !.update = u]
  <2> HIDE DEF u
  <2>2. /\ jobs' = [jobs EXCEPT ![j] = r] /\ job.st = "running"
        /\ r.st = "running" /\ r.todo = job.todo /\ r.applied = job.applied
        /\ r.failed = job.failed /\ r.results = job.results
    BY <1>1, <1>7, <2>1 DEF SendUpdate, Deciding, JobRecords, u
  <2> HIDE DEF r
  <2>3. QED
    BY <1>4, <2>2
<1>8. CASE FireflyWrites(j)
  <2> DEFINE w == [job.update EXCEPT !.st = "written"]
             r == [job EXCEPT !.update = w, !.written = @ \union {Position(j)}]
  <2>1. jobs' = [jobs EXCEPT ![j] = r] /\ job.update # None
    BY <1>1, <1>8 DEF FireflyWrites
  <2> HIDE DEF w
  <2>2. job.st = "running"
    BY <2>1 DEF Reports, Tallied
  <2>3. /\ r.st = "running" /\ r.todo = job.todo /\ r.applied = job.applied
        /\ r.failed = job.failed /\ r.results = job.results
    BY <1>1, <2>2 DEF JobRecords
  <2> HIDE DEF r
  <2>4. QED
    BY <1>4, <2>1, <2>2, <2>3
<1>9. CASE UpdateSucceeds(j)
  <2>1. job.update # None /\ jobs' = [jobs EXCEPT ![j] = Counted(job, "success")]
    BY <1>1, <1>9 DEF UpdateSucceeds, Answered
  <2>2. job.st = "running"
    BY <2>1 DEF Reports, Tallied
  <2>3. Grown(job, Counted(job, "success"))
    BY <1>1, <2>2, CountedGrows DEF Outcomes
  <2>4. QED
    BY <1>3, <2>1, <2>3
<1>10. CASE UpdateFails(j)
  <2> DEFINE r == [job EXCEPT !.refused = @ \union {Position(j)}]
  <2>1. /\ jobs' = [jobs EXCEPT ![j] = Counted(r, "failed")]
        /\ job.update # None
    BY <1>1, <1>10 DEF UpdateFails
  <2>2. Position(j) \in Nat
    BY <1>1, LenProperties DEF Position, JobRecords
  <2>3. job.st = "running"
    BY <2>1 DEF Reports, Tallied
  <2>4. /\ r \in JobRecords /\ r.st = job.st /\ r.todo = job.todo
        /\ r.applied = job.applied /\ r.failed = job.failed
        /\ r.results = job.results
    BY <1>1, <2>2 DEF JobRecords
  <2> HIDE DEF r
  <2>5. Grown(job, Counted(r, "failed"))
    BY <1>1, <2>3, <2>4, CountedGrows DEF Outcomes
  <2>6. QED
    BY <1>3, <2>1, <2>5
<1>11. CASE RecordOutcome(j)
  <2> DEFINE r == Recorded(job)
  <2>1. job.outcome # None /\ jobs' = [jobs EXCEPT ![j] = r]
    BY <1>1, <1>11 DEF RecordOutcome
  <2>2. job.st = "running" /\ job.outcome \in Outcomes
    BY <1>1, <2>1 DEF Reports, Tallied, JobRecords
  <2>3. /\ r.st = "running" /\ r.todo = job.todo /\ r.applied = job.applied
        /\ r.failed = job.failed /\ r.results = Append(job.results, job.outcome)
    BY <1>1, <2>2 DEF Recorded, JobRecords
  <2> HIDE DEF r
  <2>4. Extends(r.results, job.results)
    BY <1>2, <2>2, <2>3, AppendExtends
  <2>5. job.applied <= r.applied /\ job.failed <= r.failed
    BY <1>2, <2>3
  <2>6. Grown(job, r)
    BY <2>2, <2>3, <2>4, <2>5 DEF Grown, NotBack
  <2>7. QED
    BY <1>3, <2>1, <2>6
<1>12. CASE JobEnds(j)
  <2> DEFINE r == [job EXCEPT !.st = "done"]
  <2>1. /\ jobs' = [jobs EXCEPT ![j] = r] /\ job.st = "running"
        /\ r.st = "done" /\ r.todo = job.todo /\ r.applied = job.applied
        /\ r.failed = job.failed /\ r.results = job.results
    BY <1>1, <1>12 DEF JobEnds, JobRecords
  <2> HIDE DEF r
  <2>2. QED
    BY <1>4, <2>1
<1>13. QED
  BY <1>5, <1>6, <1>7, <1>8, <1>9, <1>10, <1>11, <1>12 DEF JobStep, TaskStep

(* As long as the server runs, every job that was started moves on.        *)
AllGrow == \A j \in Jobs : jobs[j].st # "free" => Grown(jobs[j], jobs'[j])

LEMMA JobsGrow ==
  ASSUME AllegroTypeOK, AllReport, [Next]_vars
  PROVE  AllGrow \/ Restart
<1>1. jobs \in [Jobs -> JobRecords]
  BY TypesAre DEF ServiceTypes
<1>2. \A j \in Jobs : jobs[j].st # "free" => Grown(jobs[j], jobs[j])
  BY <1>1, GrownReflexive
<1>3. ASSUME NEW k \in Jobs, NEW auto, NEW ds, StartJob(k, auto, ds)
      PROVE  AllGrow
  <2>1. /\ jobs[k].st = "free"
        /\ \A j \in Jobs : j # k => jobs'[j] = jobs[j]
    BY <1>1, <1>3 DEF StartJob
  <2>2. QED
    BY <1>2, <2>1 DEF AllGrow
<1>4. ASSUME NEW k \in Jobs, StartApply(k) PROVE AllGrow
  BY <1>3, <1>4 DEF StartApply
<1>5. ASSUME NEW k \in Jobs, NEW limit \in Limits, AutoApply(k, limit)
      PROVE  AllGrow
  BY <1>3, <1>5 DEF AutoApply
<1>6. ASSUME NEW k \in Jobs, JobStep(k) PROVE AllGrow
  <2>1. jobs' = [jobs EXCEPT ![k] = jobs'[k]]
    BY <1>6, ReportsJobStep DEF AllReport
  <2>2. Grown(jobs[k], jobs'[k])
    BY <1>6, GrowsByJobStep DEF AllReport
  <2>3. QED
    BY <1>1, <1>2, <2>1, <2>2 DEF AllGrow
<1>7. CASE jobs' = jobs
  BY <1>2, <1>7 DEF AllGrow
<1>8. QED
  BY <1>4, <1>5, <1>6, <1>7
     DEF Next, vars, PreviewStep, PreviewAsks, FireflyReads, PreviewEnds, PreviewFails,
         ClearPage, ClearSecret, PollStep, PollStatus, PollApplied, PollFailed,
         PollResults

(* What a poll under way has read, against the job as it now is: nothing   *)
(* is ahead of the job, and nothing is behind one that was done.           *)
Reading(p, job) ==
  /\ job.st # "free" /\ job.st # "lost"
  /\ NotBack(p.st, job.st)
  /\ p.at \in {"applied", "failed"} =>
       p.applied <= job.applied /\ (p.st = "done" => p.applied = job.applied)
  /\ p.at = "failed" =>
       p.failed <= job.failed /\ (p.st = "done" => p.failed = job.failed)

(* The last answer, against the job, and against a poll that follows it.   *)
Told(a, job) ==
  /\ job.st # "free"
  /\ job.st # "lost" =>
       /\ NotBack(a.st, job.st)
       /\ a.applied <= job.applied /\ a.failed <= job.failed
       /\ Extends(job.results, a.results)

Follows(p, a) ==
  /\ NotBack(a.st, p.st)
  /\ p.at \in {"applied", "failed"} => a.applied <= p.applied
  /\ p.at = "failed" => a.failed <= p.failed

(* AnswersAgree, of one answer.                                            *)
Agrees(a) ==
  /\ Len(a.results) <= a.total
  /\ a.applied <= Count(a.results, "success") + 1
  /\ a.failed <= Count(a.results, "failed") + 1
  /\ a.applied + a.failed <= Len(a.results) + 1
  /\ a.st = "done" =>
       /\ Len(a.results) = a.total
       /\ a.applied = Count(a.results, "success")
       /\ a.failed = Count(a.results, "failed")

PollsRead ==
  \A c \in Clients : polls[c].at # "none" => Reading(polls[c], jobs[polls[c].job])

AnswersTell ==
  \A c \in Clients : answers[c] # None =>
    Agrees(answers[c]) /\ Told(answers[c], jobs[answers[c].job])

PollsFollow ==
  \A c \in Clients :
    polls[c].at # "none" /\ answers[c] # None /\ polls[c].job = answers[c].job =>
      Follows(polls[c], answers[c])

ClientsServed == PollsRead /\ AnswersTell /\ PollsFollow

LEMMA PollTyped ==
  ASSUME AllegroTypeOK, NEW c \in Clients, polls[c].at # "none"
  PROVE  /\ polls[c].job \in Jobs /\ polls[c].st \in JobStates
         /\ polls[c].applied \in Nat /\ polls[c].failed \in Nat
         /\ polls[c].at \in {"status", "applied", "failed"}
         /\ jobs[polls[c].job] \in JobRecords
BY DEF AllegroTypeOK, PollRecords, NoPoll, Poll

LEMMA ReadingGrows ==
  ASSUME NEW old \in JobRecords, NEW new \in JobRecords, Grown(old, new),
         NEW p, p.applied \in Nat, p.failed \in Nat, Reading(p, old)
  PROVE  Reading(p, new)
BY DEF Reading, Grown, NotBack, JobRecords

LEMMA ToldGrows ==
  ASSUME NEW old \in JobRecords, NEW new \in JobRecords, Grown(old, new),
         NEW a \in Answers, Told(a, old)
  PROVE  Told(a, new)
<1>1. new.st # "free" /\ (new.st = "lost" <=> old.st = "lost")
  BY DEF Grown
<1>2. CASE new.st # "lost"
  <2>1. NotBack(a.st, new.st)
    BY <1>1, <1>2 DEF Told, Grown, NotBack
  <2>2. a.applied <= new.applied /\ a.failed <= new.failed
    BY <1>1, <1>2 DEF Told, Grown, Answers, JobRecords
  <2>3. Extends(old.results, a.results) /\ Extends(new.results, old.results)
    BY <1>1, <1>2 DEF Told, Grown
  <2>4. Extends(new.results, a.results)
    BY <2>3, ExtendsTransitive DEF Answers, JobRecords
  <2>5. QED
    BY <1>1, <2>1, <2>2, <2>4 DEF Told
<1>3. QED
  BY <1>1, <1>2 DEF Told

(* What a poll that has read both counters tells of the job agrees.        *)
LEMMA AnswerTells ==
  ASSUME AllegroTypeOK, AllReport, NEW c \in Clients, polls[c].at = "failed",
         Reading(polls[c], jobs[polls[c].job])
  PROVE  /\ Agrees(Answer(polls[c]))
         /\ Told(Answer(polls[c]), jobs[polls[c].job])
<1> USE AllegroAssumption
<1> DEFINE p == polls[c]
           job == jobs[p.job]
           a == Answer(p)
<1>1. p.job \in Jobs /\ p.applied \in Nat /\ p.failed \in Nat /\ job \in JobRecords
  BY PollTyped
<1>2. Reports(job)
  BY <1>1 DEF AllReport
<1>3. /\ a.st = p.st /\ a.total = Len(job.todo) /\ a.results = job.results
      /\ a.applied = p.applied /\ a.failed = p.failed
  BY DEF Answer
<1>4. job.results \in Seq(Outcomes) /\ CountsAreNumbers(job.results)
  BY <1>1, CountTyped DEF JobRecords
<1>5. /\ job.st # "free" /\ job.st # "lost" /\ NotBack(p.st, job.st)
      /\ p.applied <= job.applied /\ p.failed <= job.failed
      /\ p.st = "done" => p.applied = job.applied /\ p.failed = job.failed
  BY DEF Reading
<1> HIDE DEF a, job, p
<1>6. Told(a, job)
  BY <1>3, <1>4, <1>5, ExtendsReflexive DEF Told
<1>7. /\ None # "success" /\ None # "failed"
      /\ Pending(job, "success") \in {0, 1} /\ Pending(job, "failed") \in {0, 1}
      /\ job.outcome = None => Pending(job, "success") = 0 /\ Pending(job, "failed") = 0
  BY DEF Outcomes, Pending
<1>8. /\ job.applied = Count(job.results, "success") + Pending(job, "success")
      /\ job.failed = Count(job.results, "failed") + Pending(job, "failed")
      /\ Len(job.results) <= Len(job.todo)
      /\ job.applied \in Nat /\ job.failed \in Nat /\ Len(job.results) \in Nat
      /\ job.applied + job.failed \in {Len(job.results), Len(job.results) + 1}
  BY <1>1, <1>2, <1>4, LenProperties DEF Reports, Tallied, JobRecords
<1>9. job.st = "done" => job.outcome = None /\ Len(job.results) = Len(job.todo)
  BY <1>2 DEF Reports, Tallied
<1>10. /\ a.applied <= Count(a.results, "success") + 1
       /\ a.failed <= Count(a.results, "failed") + 1
  BY <1>1, <1>3, <1>4, <1>5, <1>7, <1>8 DEF CountsAreNumbers
<1>11. a.applied + a.failed <= Len(a.results) + 1
  <2>1. p.applied + p.failed <= job.applied + job.failed
    BY <1>1, <1>5, <1>8
  <2>2. QED
    BY <1>1, <1>3, <1>8, <2>1
<1>12. ASSUME a.st = "done"
       PROVE  /\ Len(a.results) = a.total
              /\ a.applied = Count(a.results, "success")
              /\ a.failed = Count(a.results, "failed")
  <2>1. job.st = "done" /\ p.applied = job.applied /\ p.failed = job.failed
    BY <1>3, <1>5, <1>12 DEF NotBack
  <2>2. QED
    BY <1>3, <1>4, <1>7, <1>8, <1>9, <2>1 DEF CountsAreNumbers
<1>13. Agrees(a)
  BY <1>3, <1>8, <1>10, <1>11, <1>12 DEF Agrees
<1>14. QED
  BY <1>6, <1>13 DEF a, job, p

(* Each read of a poll is of the job as it is at that moment.              *)
LEMMA PollStepServes ==
  ASSUME AllegroTypeOK, AllReport, ClientsServed, NEW c \in Clients,
         PollStep(c), jobs' = jobs
  PROVE  ClientsServed'
<1> USE AllegroAssumption
<1>1. /\ polls \in [Clients -> PollRecords] /\ answers \in [Clients -> Answers \union {None}]
      /\ jobs \in [Jobs -> JobRecords]
  BY DEF AllegroTypeOK
<1>2. ASSUME NEW p, polls' = [polls EXCEPT ![c] = p], answers' = answers,
             Reading(p, jobs[p.job]),
             answers[c] # None /\ p.job = answers[c].job => Follows(p, answers[c])
      PROVE  ClientsServed'
  BY <1>1, <1>2 DEF ClientsServed, PollsRead, AnswersTell, PollsFollow
<1>3. /\ polls[c].at # "none" => Reading(polls[c], jobs[polls[c].job])
      /\ answers[c] # None =>
           answers[c] \in Answers /\ Told(answers[c], jobs[answers[c].job])
      /\ polls[c].at # "none" /\ answers[c] # None /\ polls[c].job = answers[c].job =>
           Follows(polls[c], answers[c])
  BY <1>1 DEF ClientsServed, PollsRead, AnswersTell, PollsFollow
<1>4. ASSUME NEW j \in Jobs, PollStatus(c, j) PROVE ClientsServed'
  <2> DEFINE p == Poll(j, "status", jobs[j].st, 0, 0)
  <2>1. /\ polls' = [polls EXCEPT ![c] = p] /\ answers' = answers
        /\ jobs[j].st # "free" /\ jobs[j].st # "lost"
    BY <1>4 DEF PollStatus
  <2>2. p.job = j /\ p.at = "status" /\ p.st = jobs[j].st
    BY DEF Poll
  <2> HIDE DEF p
  <2>3. Reading(p, jobs[p.job])
    BY <2>1, <2>2 DEF Reading, NotBack
  <2>4. answers[c] # None /\ p.job = answers[c].job => Follows(p, answers[c])
    BY <1>3, <2>1, <2>2 DEF Told, Follows
  <2>5. QED
    BY <1>2, <2>1, <2>3, <2>4
<1>5. CASE PollApplied(c)
  <2> DEFINE old == polls[c]
             job == jobs[old.job]
             p == [old EXCEPT !.at = "applied", !.applied = job.applied]
  <2>1. /\ polls' = [polls EXCEPT ![c] = p] /\ answers' = answers
        /\ old.at = "status"
    BY <1>5 DEF PollApplied
  <2>2. job \in JobRecords /\ Reading(old, job)
    BY <1>3, <2>1, PollTyped
  <2>3. p.job = old.job /\ p.st = old.st /\ p.at = "applied" /\ p.applied = job.applied
    <3>1. old \in [job : Jobs, at : {"status", "applied", "failed"}, st : JobStates,
                   applied : Nat, failed : Nat]
      BY <1>1, <2>1 DEF PollRecords, NoPoll, Poll
    <3>2. QED
      BY <3>1
  <2> HIDE DEF p
  <2>4. Reading(p, job)
    BY <2>2, <2>3 DEF Reading, JobRecords
  <2>5. answers[c] # None /\ p.job = answers[c].job => Follows(p, answers[c])
    BY <1>3, <2>1, <2>2, <2>3 DEF Told, Follows, Reading
  <2>6. QED
    BY <1>2, <2>1, <2>3, <2>4, <2>5
<1>6. CASE PollFailed(c)
  <2> DEFINE old == polls[c]
             job == jobs[old.job]
             p == [old EXCEPT !.at = "failed", !.failed = job.failed]
  <2>1. /\ polls' = [polls EXCEPT ![c] = p] /\ answers' = answers
        /\ old.at = "applied"
    BY <1>6 DEF PollFailed
  <2>2. job \in JobRecords /\ Reading(old, job)
    BY <1>3, <2>1, PollTyped
  <2>3. /\ p.job = old.job /\ p.st = old.st /\ p.at = "failed"
        /\ p.applied = old.applied /\ p.failed = job.failed
    <3>1. old \in [job : Jobs, at : {"status", "applied", "failed"}, st : JobStates,
                   applied : Nat, failed : Nat]
      BY <1>1, <2>1 DEF PollRecords, NoPoll, Poll
    <3>2. QED
      BY <3>1
  <2> HIDE DEF p
  <2>4. Reading(p, job)
    BY <2>1, <2>2, <2>3 DEF Reading, JobRecords
  <2>5. answers[c] # None /\ p.job = answers[c].job => Follows(p, answers[c])
    BY <1>3, <2>1, <2>2, <2>3 DEF Told, Follows, Reading
  <2>6. QED
    BY <1>2, <2>1, <2>3, <2>4, <2>5
<1>7. CASE PollResults(c)
  <2> DEFINE a == Answer(polls[c])
  <2>1. /\ polls' = [polls EXCEPT ![c] = NoPoll]
        /\ answers' = [answers EXCEPT ![c] = a]
        /\ polls[c].at = "failed"
    BY <1>7 DEF PollResults
  <2>2. NoPoll.at = "none" /\ a.job = polls[c].job
    BY DEF NoPoll, Poll, Answer
  <2>3. Agrees(a) /\ Told(a, jobs[a.job])
    BY <1>3, <2>1, <2>2, AnswerTells
  <2> HIDE DEF a
  <2>4. QED
    BY <1>1, <2>1, <2>2, <2>3 DEF ClientsServed, PollsRead, AnswersTell, PollsFollow
<1>8. QED
  BY <1>4, <1>5, <1>6, <1>7 DEF PollStep

(* Whatever the jobs do meanwhile, it stays true of the job.               *)
LEMMA ServedStep ==
  ASSUME AllegroTypeOK, AllegroTypeOK', AllReport, ClientsServed, [Next]_vars
  PROVE  ClientsServed'
<1>1. /\ answers \in [Clients -> Answers \union {None}]
      /\ jobs \in [Jobs -> JobRecords] /\ jobs' \in [Jobs -> JobRecords]
  BY DEF AllegroTypeOK
<1>2. CASE Restart
  <2>1. /\ polls' = [c \in Clients |-> NoPoll] /\ answers' = answers
        /\ \A j \in Jobs : jobs'[j] = IF jobs[j].st = "free" THEN NoJob ELSE LostJob
    BY <1>2 DEF Restart
  <2>2. NoPoll.at = "none" /\ LostJob.st = "lost"
    BY DEF NoPoll, Poll, LostJob, Job
  <2>3. ASSUME NEW c \in Clients, answers[c] # None
        PROVE  Agrees(answers[c]) /\ Told(answers[c], jobs'[answers[c].job])
    <3>1. /\ answers[c].job \in Jobs /\ Agrees(answers[c])
          /\ Told(answers[c], jobs[answers[c].job])
      BY <1>1, <2>3 DEF ClientsServed, AnswersTell, Answers
    <3>2. jobs'[answers[c].job].st = "lost"
      BY <2>1, <2>2, <3>1 DEF Told
    <3>3. QED
      BY <3>1, <3>2 DEF Told
  <2>4. QED
    BY <2>1, <2>2, <2>3 DEF ClientsServed, PollsRead, AnswersTell, PollsFollow
<1>3. CASE polls' = polls /\ answers' = answers /\ ~Restart
  <2>1. AllGrow
    BY <1>3, JobsGrow
  <2>2. ASSUME NEW c \in Clients, polls[c].at # "none"
        PROVE  Reading(polls[c], jobs'[polls[c].job])
    <3>1. Reading(polls[c], jobs[polls[c].job]) /\ polls[c].job \in Jobs
      BY <2>2, PollTyped DEF ClientsServed, PollsRead
    <3>2. Grown(jobs[polls[c].job], jobs'[polls[c].job])
      BY <2>1, <3>1 DEF AllGrow, Reading
    <3>3. QED
      BY <1>1, <2>2, <3>1, <3>2, PollTyped, ReadingGrows
  <2>3. ASSUME NEW c \in Clients, answers[c] # None
        PROVE  Agrees(answers[c]) /\ Told(answers[c], jobs'[answers[c].job])
    <3>1. /\ answers[c] \in Answers /\ answers[c].job \in Jobs /\ Agrees(answers[c])
          /\ Told(answers[c], jobs[answers[c].job])
      BY <1>1, <2>3 DEF ClientsServed, AnswersTell, Answers
    <3>2. Grown(jobs[answers[c].job], jobs'[answers[c].job])
      BY <2>1, <3>1 DEF AllGrow, Told
    <3>3. QED
      BY <1>1, <3>1, <3>2, ToldGrows
  <2>4. QED
    BY <1>3, <2>2, <2>3 DEF ClientsServed, PollsRead, AnswersTell, PollsFollow
<1>4. ASSUME jobs' = jobs, NEW c \in Clients, PollStep(c) PROVE ClientsServed'
  BY <1>4, PollStepServes
<1>5. QED
  BY <1>2, <1>3, <1>4, OnlyPollsServe

LEMMA AlwaysServed == Spec => []ClientsServed
<1>1. Init => ClientsServed
  BY DEF Init, ClientsServed, PollsRead, AnswersTell, PollsFollow, NoPoll, Poll
<1>2. QED
  BY <1>1, ServedStep, AllegroTypeCorrect, AlwaysReports, PTL DEF Spec

(* For any number of jobs, decisions and clients: a poll that reads a job  *)
(* field by field while the job is at work never has more to tell than one *)
(* outcome that is not yet among the results, and one that tells DONE      *)
(* tells all (allegro_application_service.py 230-240, mappers/allegro.py   *)
(* 135-146).                                                               *)
THEOREM AnswersAgreeHolds == Spec => []AnswersAgree
<1>1. ClientsServed => AnswersAgree
  BY DEF ClientsServed, AnswersTell, Agrees, AnswersAgree
<1>2. QED
  BY <1>1, AlwaysServed, PTL

(* Nor does a later poll of a job take back what an earlier one told: each *)
(* field of the second is read after the first was answered, from a job    *)
(* that only grows (the same lines).                                       *)
THEOREM AnswersAdvanceHolds == Spec => AnswersAdvance
<1> DEFINE A == \A c \in Clients :
                  /\ answers[c] # None /\ answers'[c] # None
                  /\ answers[c].job = answers'[c].job
                  => Later(answers[c], answers'[c])
<1>1. ASSUME AllegroTypeOK, ClientsServed, [Next]_vars PROVE [A]_answers
  <2>1. answers \in [Clients -> Answers \union {None}]
    BY <1>1 DEF AllegroTypeOK
  <2>2. ASSUME NEW c \in Clients, answers[c] # None, answers'[c] # None,
               answers[c].job = answers'[c].job, answers'[c] # answers[c]
        PROVE  Later(answers[c], answers'[c])
    <3>1. PICK d \in Clients : PollStep(d)
      BY <1>1, <2>2, OnlyPollsServe DEF Restart
    <3>2. d = c /\ PollResults(c)
      BY <2>1, <2>2, <3>1 DEF PollStep, PollStatus, PollApplied, PollFailed, PollResults
    <3> DEFINE p == polls[c]
               a == answers[c]
               b == Answer(p)
    <3>3. p.at = "failed" /\ answers'[c] = b
      BY <2>1, <3>2 DEF PollResults
    <3>4. /\ b.job = p.job /\ b.st = p.st /\ b.applied = p.applied
          /\ b.failed = p.failed /\ b.results = jobs[p.job].results
      BY DEF Answer
    <3> HIDE DEF b
    <3>5. a.job = p.job
      BY <2>2, <3>3, <3>4
    <3>6. Follows(p, a)
      BY <1>1, <2>2, <3>3, <3>5 DEF ClientsServed, PollsFollow
    <3>7. Extends(jobs[p.job].results, a.results)
      <4>1. Told(a, jobs[p.job]) /\ Reading(p, jobs[p.job])
        BY <1>1, <2>2, <3>3, <3>5 DEF ClientsServed, AnswersTell, PollsRead
      <4>2. QED
        BY <4>1 DEF Told, Reading
    <3>8. Later(a, b)
      BY <3>3, <3>4, <3>6, <3>7 DEF Follows, Later
    <3>9. QED
      BY <3>3, <3>8
  <2>3. ASSUME NEW c \in Clients, answers[c] # None, answers'[c] = answers[c]
        PROVE  Later(answers[c], answers'[c])
    <3>1. answers[c] \in Answers
      BY <2>1, <2>3
    <3>2. QED
      BY <2>3, <3>1, ExtendsReflexive DEF Later, NotBack, Answers
  <2>4. QED
    BY <2>2, <2>3
<1>2. QED
  BY <1>1, AllegroTypeCorrect, AlwaysServed, PTL DEF Spec, AnswersAdvance

-----------------------------------------------------------------------------
(* The window.                                                             *)

(* A preview asks Firefly for the days from the first candidate's to some  *)
(* days after the last one's (firefly_enrichment_service.py:25-29), so a   *)
(* candidate it reports unmatched might have a match outside.  It has      *)
(* none, as long as the setting reaches as far as OrderPayment.compare     *)
(* does; the records of a file need no margin at all.                      *)
THEOREM WindowCoversMatches ==
  ASSUME NEW items \in SUBSET Items, 6 <= FutureDays \/ items \intersect Payments = {}
  PROVE  Unmatched(items) = {i \in items : \A x \in Txs : ~Compare(i, x)}
<1>1. ASSUME NEW i \in items, NEW x \in Txs, Compare(i, x)
      PROVE  x \in Window(items)
  <2>1. Date[i] \in Int /\ Date[x] \in Int /\ FutureDays \in Nat
    BY MatchingAssumption
  <2>2. Date[i] <= Date[x] /\ Date[x] <= Date[i] + FutureDays
    <3>1. CASE i \in Payments
      BY <1>1, <2>1, <3>1 DEF Compare
    <3>2. CASE i \notin Payments
      BY <1>1, <2>1, <3>2 DEF Compare
    <3>3. QED
      BY <3>1, <3>2
  <2>3. QED
    BY <2>2 DEF Window
<1>2. Window(items) \subseteq Txs
  BY DEF Window
<1>3. QED
  BY <1>1, <1>2 DEF Unmatched
=============================================================================
