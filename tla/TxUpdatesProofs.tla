-------------------------- MODULE TxUpdatesProofs --------------------------
(***************************************************************************)
(* Proofs about TxUpdates, for every set of transactions, categories, tags *)
(* and concurrent requests.  Sound says what is true of each kind of       *)
(* request while others change Firefly: a copy of the tags is current or   *)
(* marked stale, an update that is done can be seen, and a screening has   *)
(* followed what became eligible and what ceased to be.                    *)
(***************************************************************************)
EXTENDS TxUpdates, TLAPS

EligibleNow == {t \in Txs : Eligible(firefly[t])}

(* A request that writes tags: its copy, and its tag once it is written.   *)
TaggingFits(q) ==
  /\ q.tx \in Txs
  /\ q.what \in TxTags
  /\ q.st = "loaded" /\ ~q.stale => q.copy = firefly[q.tx].tags
  /\ q.st = "done" => q.tx \in raced \/ q.what \in firefly[q.tx].tags

FilingFits(q) ==
  /\ q.tx \in Txs
  /\ q.what \in Categories
  /\ q.st = "done" => firefly[q.tx].category # None

ScreeningFits(q) ==
  /\ q.tx = None
  /\ q.before \subseteq filed
  /\ q.st # "done" => q.always \subseteq EligibleNow /\ EligibleNow \subseteq q.ever
  /\ q.st = "done" => /\ q.always \subseteq q.listed
                      /\ q.listed \subseteq q.ever
                      /\ q.listed \intersect q.before = {}

Sound(q) ==
  q.st # "idle" =>
    \/ q.op \in {"tag", "match"} /\ TaggingFits(q)
    \/ q.op = "category" /\ FilingFits(q)
    \/ q.op = "screening" /\ ScreeningFits(q)

TxInv ==
  /\ TxTypeOK
  /\ AcknowledgedStays
  /\ \A r \in Requests : Sound(requests[r])

-----------------------------------------------------------------------------
(* The four filters of a screening keep exactly what is eligible.          *)
LEMMA ScreenedIsEligible == Screened(Txs) = EligibleNow
BY DEF Screened, AllegroDone, NoActionRequired, NotBlik, Uncategorized, EligibleNow, Eligible

LEMMA EndedSound == Ended \in RequestRecords /\ Sound(Ended)
BY DEF Ended, Request, RequestRecords, Sound

LEMMA RequestTyped ==
  ASSUME NEW op \in {"tag", "category", "screening", "match"}, NEW st \in {"asked", "loaded"},
         NEW t \in Txs \union {None}, NEW w \in TxTags \union Categories \union {None}
  PROVE  /\ Request(op, st, t, w) \in RequestRecords
         /\ Request(op, st, t, w).op = op /\ Request(op, st, t, w).st = st
         /\ Request(op, st, t, w).tx = t /\ Request(op, st, t, w).what = w
BY DEF Request, RequestRecords

(* Steps of one request that leave Firefly and the other requests alone.   *)
Quiet(r, q) ==
  /\ Becomes(r, q)
  /\ UNCHANGED <<firefly, raced>>
  /\ filed \subseteq filed'

LEMMA QuietSound ==
  ASSUME TxInv, NEW r \in Requests, NEW q \in RequestRecords, Quiet(r, q), Sound(q)'
  PROVE  requests' \in [Requests -> RequestRecords] /\ \A p \in Requests : Sound(requests[p])'
<1>1. requests' = [requests EXCEPT ![r] = q] /\ requests \in [Requests -> RequestRecords]
  BY DEF Quiet, Becomes, TxInv, TxTypeOK
<1>2. requests' \in [Requests -> RequestRecords]
  BY <1>1
<1>3. ASSUME NEW p \in Requests PROVE Sound(requests[p])'
  <2>1. PICK v : v = requests'[p]
    OBVIOUS
  <2>2. Sound(v)'
    <3>1. CASE p = r
      BY <1>1, <2>1, <3>1
    <3>2. CASE p # r
      <4>1. v = requests[p]
        BY <1>1, <2>1, <3>2
      <4>2. Sound(v)
        BY <4>1 DEF TxInv
      <4>3. EligibleNow' = EligibleNow
        BY DEF Quiet, EligibleNow, Eligible
      <4>4. QED
        BY <4>2, <4>3 DEF Quiet, Sound, TaggingFits, FilingFits, ScreeningFits
    <3>3. QED
      BY <3>1, <3>2
  <2>3. QED
    BY <2>1, <2>2 DEF Sound, TaggingFits, FilingFits, ScreeningFits, EligibleNow, Eligible
<1>4. QED
  BY <1>2, <1>3

Asking(r) ==
  \/ \E t \in Txs, tag \in Tags : TagAsked(r, t, tag)
  \/ \E t \in Txs, c \in Categories : CategoryAsked(r, t, c)
  \/ ScreeningAsked(r)
  \/ \E t \in Txs : Previewed(r, t)

Going(r) == Loaded(r) \/ TransactionsListed(r) \/ Answered(r) \/ Failed(r)

Sending(r) == CategorySent(r) \/ TagsSent(r) \/ MatchSent(r)

LEMMA NextSteps ==
  ASSUME [Next]_vars
  PROVE  (\E r \in Requests : Asking(r) \/ Going(r) \/ Sending(r)) \/ UNCHANGED vars
BY DEF Next, Asking, Going, Sending

LEMMA AskingStep ==
  ASSUME TxInv, NEW r \in Requests, Asking(r)
  PROVE  TxInv'
<1>1. UNCHANGED <<firefly, acked, filed, raced>>
  BY DEF Asking, TagAsked, CategoryAsked, ScreeningAsked, Previewed
<1>2. ASSUME NEW q \in RequestRecords, Becomes(r, q), Sound(q)' PROVE TxInv'
  <2>1. requests' \in [Requests -> RequestRecords] /\ \A p \in Requests : Sound(requests[p])'
    BY <1>1, <1>2, QuietSound DEF Quiet
  <2>2. TxTypeOK' /\ AcknowledgedStays'
    BY <1>1, <2>1 DEF TxInv, TxTypeOK, AcknowledgedStays
  <2>3. QED
    BY <2>1, <2>2 DEF TxInv
<1>3. ASSUME NEW t \in Txs, NEW tag \in Tags, TagAsked(r, t, tag) PROVE TxInv'
  <2>1. PICK q : q = Request("tag", "asked", t, tag)
    OBVIOUS
  <2>2. q \in RequestRecords /\ q.op = "tag" /\ q.st = "asked" /\ q.tx = t /\ q.what = tag
    BY <2>1, RequestTyped, TxAssumption
  <2>3. Sound(q)'
    BY <2>2, TxAssumption DEF Sound, TaggingFits
  <2>4. QED
    BY <1>2, <1>3, <2>1, <2>2, <2>3 DEF TagAsked, Asks
<1>4. ASSUME NEW t \in Txs, NEW c \in Categories, CategoryAsked(r, t, c) PROVE TxInv'
  <2>1. PICK q : q = Request("category", "asked", t, c)
    OBVIOUS
  <2>2. q \in RequestRecords /\ q.op = "category" /\ q.st = "asked" /\ q.tx = t /\ q.what = c
    BY <2>1, RequestTyped
  <2>3. Sound(q)'
    BY <2>2 DEF Sound, FilingFits
  <2>4. QED
    BY <1>2, <1>4, <2>1, <2>2, <2>3 DEF CategoryAsked, Asks
<1>5. CASE ScreeningAsked(r)
  <2>1. PICK q : q = [Request("screening", "asked", None, None) EXCEPT
                        !.always = EligibleNow, !.ever = EligibleNow, !.before = filed]
    OBVIOUS
  <2>2. /\ q \in RequestRecords /\ q.op = "screening" /\ q.st = "asked" /\ q.tx = None
        /\ q.always = EligibleNow /\ q.ever = EligibleNow /\ q.before = filed
    <3>1. EligibleNow \in SUBSET Txs /\ filed \in SUBSET Txs
      BY DEF EligibleNow, TxInv, TxTypeOK
    <3>2. QED
      BY <2>1, <3>1 DEF Request, RequestRecords
  <2>3. EligibleNow' = EligibleNow
    BY <1>1 DEF EligibleNow, Eligible
  <2>4. Sound(q)'
    BY <1>1, <2>2, <2>3 DEF Sound, ScreeningFits
  <2>5. QED
    BY <1>2, <1>5, <2>1, <2>2, <2>4 DEF ScreeningAsked, Asks, EligibleNow
<1>6. ASSUME NEW t \in Txs, Previewed(r, t) PROVE TxInv'
  <2> DEFINE tag == DoneTag(firefly[t].text)
  <2>1. PICK q : q = [Request("match", "loaded", t, tag) EXCEPT !.copy = TagsRead(t)]
    OBVIOUS
  <2>2. tag \in TxTags
    BY DEF DoneTag, TxTags
  <2>3. /\ q \in RequestRecords /\ q.op = "match" /\ q.st = "loaded" /\ q.tx = t
        /\ q.what = tag /\ q.copy = firefly[t].tags
    <3>1. firefly[t].tags \in SUBSET TxTags
      BY DEF TxInv, TxTypeOK, Transactions
    <3> HIDE DEF tag
    <3>2. QED
      BY <2>1, <2>2, <3>1 DEF Request, RequestRecords, TagsRead
  <2>4. Sound(q)'
    BY <1>1, <2>2, <2>3 DEF Sound, TaggingFits
  <2>5. QED
    BY <1>2, <1>6, <2>1, <2>3, <2>4 DEF Previewed, Asks
<1>7. QED
  BY <1>3, <1>4, <1>5, <1>6 DEF Asking

LEMMA GoingStep ==
  ASSUME TxInv, NEW r \in Requests, Going(r)
  PROVE  TxInv'
<1>1. firefly' = firefly /\ raced' = raced
  BY DEF Going, Loaded, TransactionsListed, Answered, Failed
<1>2. PICK q \in RequestRecords : q = requests[r]
  BY DEF TxInv, TxTypeOK
<1>3. Sound(q)
  BY <1>2 DEF TxInv
<1>4. EligibleNow' = EligibleNow
  BY <1>1 DEF EligibleNow, Eligible
<1>5. ASSUME NEW p \in RequestRecords, Becomes(r, p), Sound(p)',
             acked' = acked /\ filed' = filed
      PROVE TxInv'
  <2>1. requests' \in [Requests -> RequestRecords] /\ \A s \in Requests : Sound(requests[s])'
    BY <1>1, <1>5, QuietSound DEF Quiet
  <2>2. TxTypeOK' /\ AcknowledgedStays'
    BY <1>1, <1>5, <2>1 DEF TxInv, TxTypeOK, AcknowledgedStays
  <2>3. QED
    BY <2>1, <2>2 DEF TxInv
<1>6. CASE Loaded(r)
  <2>1. PICK p : p = [q EXCEPT !.st = "loaded",
                               !.copy = IF q.tx = None THEN {} ELSE TagsRead(q.tx)]
    OBVIOUS
  <2>2. q.tx # None => firefly[q.tx].tags \in SUBSET TxTags
    BY DEF RequestRecords, TxInv, TxTypeOK, Transactions
  <2>3. /\ p \in RequestRecords /\ p.op = q.op /\ p.st = "loaded" /\ p.tx = q.tx
        /\ p.what = q.what /\ p.stale = q.stale /\ p.before = q.before
        /\ p.always = q.always /\ p.ever = q.ever
        /\ q.tx \in Txs => p.copy = firefly[q.tx].tags
    BY <2>1, <2>2, TxAssumption DEF RequestRecords, TagsRead
  <2>4. q.st = "asked" /\ Becomes(r, p)
    BY <1>2, <1>6, <2>1 DEF Loaded
  <2>5. Sound(p)'
    BY <1>1, <1>3, <1>4, <1>6, <2>3, <2>4
       DEF Loaded, Sound, TaggingFits, FilingFits, ScreeningFits
  <2>6. QED
    BY <1>5, <1>6, <2>3, <2>4, <2>5 DEF Loaded
<1>7. CASE TransactionsListed(r)
  <2>1. PICK p : p = [q EXCEPT !.st = "done", !.listed = EligibleNow]
    OBVIOUS
  <2>2. /\ p \in RequestRecords /\ p.op = q.op /\ p.st = "done" /\ p.tx = q.tx
        /\ p.before = q.before /\ p.always = q.always /\ p.ever = q.ever
        /\ p.listed = EligibleNow
    BY <2>1 DEF RequestRecords, EligibleNow
  <2>3. q.op = "screening" /\ q.st = "loaded" /\ Becomes(r, p)
    BY <1>2, <1>7, <2>1, ScreenedIsEligible DEF TransactionsListed, At
  <2>4. EligibleNow \intersect filed = {}
    BY DEF EligibleNow, Eligible, TxInv, AcknowledgedStays
  <2>5. Sound(p)'
    BY <1>3, <1>7, <2>2, <2>3, <2>4 DEF TransactionsListed, Sound, ScreeningFits
  <2>6. QED
    BY <1>5, <1>7, <2>2, <2>3, <2>5 DEF TransactionsListed
<1>8. CASE Failed(r)
  <2>1. Sound(Ended)'
    BY EndedSound DEF Sound, Ended, Request
  <2>2. QED
    BY <1>5, <1>8, <2>1, EndedSound DEF Failed
<1>9. CASE Answered(r)
  <2>1. Sound(Ended)'
    BY EndedSound DEF Sound, Ended, Request
  <2>2. /\ acked' = IF q.op \in {"tag", "match"}
                    THEN [acked EXCEPT ![q.tx] = @ \union {q.what}] ELSE acked
        /\ filed' = IF q.op = "category" THEN filed \union {q.tx} ELSE filed
        /\ q.st = "done" /\ Becomes(r, Ended)
    BY <1>2, <1>9 DEF Answered
  <2>3. requests' \in [Requests -> RequestRecords] /\ \A s \in Requests : Sound(requests[s])'
    BY <1>1, <2>1, <2>2, EndedSound, QuietSound DEF Quiet
  <2>4. CASE q.op \in {"tag", "match"}
    <3>1. TaggingFits(q) /\ filed' = filed
      BY <1>3, <2>2, <2>4 DEF Sound
    <3>2. acked' = [t \in Txs |-> IF t = q.tx THEN acked[t] \union {q.what} ELSE acked[t]]
      BY <2>2, <2>4 DEF TxInv, TxTypeOK
    <3>3. acked' \in [Txs -> SUBSET TxTags]
      BY <3>1, <3>2 DEF TxInv, TxTypeOK, TaggingFits
    <3>4. TxTypeOK'
      BY <1>1, <2>3, <3>1, <3>3 DEF TxInv, TxTypeOK
    <3>5. AcknowledgedStays'
      BY <1>1, <2>2, <3>1, <3>2 DEF TxInv, AcknowledgedStays, TaggingFits
    <3>6. QED
      BY <2>3, <3>4, <3>5 DEF TxInv
  <2>5. CASE q.op \notin {"tag", "match"}
    <3>1. acked' = acked
      BY <2>2, <2>5
    <3>2. \A t \in filed' : t \in Txs /\ firefly[t].category # None
      BY <1>3, <2>2 DEF Sound, FilingFits, TxInv, TxTypeOK, AcknowledgedStays
    <3>3. TxTypeOK' /\ AcknowledgedStays'
      BY <1>1, <2>3, <3>1, <3>2 DEF TxInv, TxTypeOK, AcknowledgedStays
    <3>4. QED
      BY <2>3, <3>3 DEF TxInv
  <2>6. QED
    BY <2>4, <2>5
<1>10. QED
  BY <1>6, <1>7, <1>8, <1>9 DEF Going

(* What another request sees when Firefly makes tx of transaction t.       *)
After(q, t, tx) ==
  LET seen == IF Eligible(tx) THEN {t} ELSE {} IN
  IF q.op = "screening" /\ q.st \in {"asked", "loaded"}
  THEN [q EXCEPT !.always = (@ \ {t}) \union (@ \intersect seen), !.ever = @ \union seen]
  ELSE IF q.tx = t /\ q.st = "loaded" /\ tx.tags # firefly[t].tags
  THEN [q EXCEPT !.stale = TRUE]
  ELSE q

LEMMA AfterFields ==
  ASSUME TxInv, NEW q \in RequestRecords, NEW t \in Txs, NEW tx \in Transactions
  PROVE  LET p == After(q, t, tx) IN
         /\ p \in RequestRecords
         /\ p.op = q.op /\ p.st = q.st /\ p.tx = q.tx /\ p.what = q.what
         /\ p.copy = q.copy /\ p.listed = q.listed /\ p.before = q.before
         /\ q.st = "done" => p = q
<1> DEFINE seen == IF Eligible(tx) THEN {t} ELSE {}
<1>1. (q.always \ {t}) \union (q.always \intersect seen) \in SUBSET Txs
      /\ q.ever \union seen \in SUBSET Txs
  BY DEF RequestRecords
<1> HIDE DEF seen
<1>2. After(q, t, tx) =
        IF q.op = "screening" /\ q.st \in {"asked", "loaded"}
        THEN [q EXCEPT !.always = (q.always \ {t}) \union (q.always \intersect seen),
                       !.ever = q.ever \union seen]
        ELSE IF q.tx = t /\ q.st = "loaded" /\ tx.tags # firefly[t].tags
        THEN [q EXCEPT !.stale = TRUE]
        ELSE q
  BY DEF After, seen, RequestRecords
<1>3. QED
  BY <1>1, <1>2, ZenonT(30) DEF RequestRecords

LEMMA CarriedOut ==
  ASSUME TxInv, NEW r \in Requests, NEW t \in Txs, NEW tx \in Transactions,
         CarriesOut(r, t, tx), requests[r].st = "loaded"
  PROVE  /\ firefly' = [firefly EXCEPT ![t] = tx] /\ firefly' \in [Txs -> Transactions]
         /\ \A p \in Requests : requests'[p] = IF p = r THEN [requests[r] EXCEPT !.st = "done"]
                                               ELSE After(requests[p], t, tx)
         /\ requests' \in [Requests -> RequestRecords]
<1>1. firefly' = [firefly EXCEPT ![t] = tx]
  BY DEF CarriesOut
<1>2. requests' = [p \in Requests |-> IF p = r THEN [requests[r] EXCEPT !.st = "done"]
                                              ELSE After(requests[p], t, tx)]
  BY DEF CarriesOut, After
<1>3. [requests[r] EXCEPT !.st = "done"] \in RequestRecords
  <2>1. \A q \in RequestRecords : [q EXCEPT !.st = "done"] \in RequestRecords
    BY DEF RequestRecords
  <2>2. QED
    BY <2>1 DEF TxInv, TxTypeOK
<1>4. \A p \in Requests : After(requests[p], t, tx) \in RequestRecords
  BY AfterFields DEF TxInv, TxTypeOK
<1>5. requests' \in [Requests -> RequestRecords]
  BY <1>2, <1>3, <1>4
<1>6. firefly' \in [Txs -> Transactions]
  BY <1>1 DEF TxInv, TxTypeOK
<1>7. QED
  BY <1>1, <1>2, <1>5, <1>6

(* The others are sound again if nothing is taken from the transaction but *)
(* tags, and these by a writer that raced.                                 *)
LEMMA AfterSound ==
  ASSUME TxInv, NEW q \in RequestRecords, Sound(q), NEW t \in Txs, NEW tx \in Transactions,
         firefly' = [firefly EXCEPT ![t] = tx], filed' = filed, raced \subseteq raced',
         firefly[t].category # None => tx.category # None,
         t \in raced' \/ firefly[t].tags \subseteq tx.tags,
         NEW p, p = After(q, t, tx)
  PROVE  Sound(p)'
<1> DEFINE seen == IF Eligible(tx) THEN {t} ELSE {}
<1>1. /\ p.op = q.op /\ p.st = q.st /\ p.tx = q.tx /\ p.what = q.what /\ p.copy = q.copy
      /\ p.listed = q.listed /\ p.before = q.before
      /\ q.st = "done" => p = q
  BY AfterFields
<1>2. \A u \in Txs : firefly'[u] = IF u = t THEN tx ELSE firefly[u]
  BY DEF TxInv, TxTypeOK
<1>3. ASSUME q.op \in {"tag", "match"}, TaggingFits(q) PROVE TaggingFits(p)'
  <2>1. ASSUME p.st = "loaded", ~p.stale PROVE p.copy = firefly'[p.tx].tags
    <3>1. CASE q.tx = t /\ tx.tags # firefly[t].tags
      <4>1. p = [q EXCEPT !.stale = TRUE]
        BY <1>1, <1>3, <2>1, <3>1 DEF After
      <4>2. QED
        BY <2>1, <4>1 DEF RequestRecords
    <3>2. CASE ~(q.tx = t /\ tx.tags # firefly[t].tags)
      <4>1. p = q
        BY <1>3, <3>2 DEF After
      <4>2. QED
        BY <1>2, <1>3, <2>1, <3>2, <4>1 DEF TaggingFits
    <3>3. QED
      BY <3>1, <3>2
  <2>2. p.st = "done" => p.tx \in raced' \/ p.what \in firefly'[p.tx].tags
    BY <1>1, <1>2, <1>3 DEF TaggingFits
  <2>3. QED
    BY <1>1, <1>3, <2>1, <2>2 DEF TaggingFits
<1>4. ASSUME FilingFits(q) PROVE FilingFits(p)'
  BY <1>1, <1>2, <1>4 DEF FilingFits
<1>5. ASSUME q.op = "screening", q.st # "idle", ScreeningFits(q) PROVE ScreeningFits(p)'
  <2>1. CASE q.st = "done"
    BY <1>1, <1>5, <2>1 DEF ScreeningFits
  <2>2. CASE q.st # "done"
    <3>1. q.st \in {"asked", "loaded"}
      BY <1>5, <2>2 DEF RequestRecords
    <3>2. /\ p.always = (q.always \ {t}) \union (q.always \intersect seen)
          /\ p.ever = q.ever \union seen
      BY <1>5, <3>1 DEF After, RequestRecords
    <3>3. EligibleNow' = (EligibleNow \ {t}) \union seen
      BY <1>2 DEF EligibleNow, Eligible
    <3>4. QED
      BY <1>1, <1>5, <2>2, <3>2, <3>3 DEF ScreeningFits
  <2>3. QED
    BY <2>1, <2>2
<1>6. QED
  BY <1>1, <1>3, <1>4, <1>5 DEF Sound

LEMMA SendingStep ==
  ASSUME TxInv, NEW r \in Requests, Sending(r)
  PROVE  TxInv'
<1>1. PICK q \in RequestRecords : q = requests[r]
  BY DEF TxInv, TxTypeOK
<1>2. q.st = "loaded" /\ q.op \in {"category", "tag", "match"} /\ Sound(q)
  BY <1>1 DEF Sending, CategorySent, TagsSent, MatchSent, At, TxInv
<1>3. q.tx \in Txs /\ firefly[q.tx] \in Transactions
  BY <1>2 DEF Sound, TaggingFits, FilingFits, TxInv, TxTypeOK
<1>4. PICK p : p = [q EXCEPT !.st = "done"]
  OBVIOUS
<1>5. p.st = "done" /\ p.op = q.op /\ p.tx = q.tx /\ p.what = q.what
  BY <1>4 DEF RequestRecords
<1>6. acked' = acked /\ filed' = filed
  BY DEF Sending, CategorySent, TagsSent, MatchSent
<1>7. ASSUME NEW tx \in Transactions, CarriesOut(r, q.tx, tx),
             raced \subseteq raced', raced' \subseteq Txs,
             firefly[q.tx].category # None => tx.category # None,
             q.tx \in raced' \/ firefly[q.tx].tags \subseteq tx.tags,
             q.op = "category" => tx.category # None,
             q.op # "category" => q.what \in tx.tags
      PROVE  TxInv'
  <2>1. /\ firefly' = [firefly EXCEPT ![q.tx] = tx] /\ firefly' \in [Txs -> Transactions]
        /\ \A s \in Requests : requests'[s] = IF s = r THEN [requests[r] EXCEPT !.st = "done"]
                                              ELSE After(requests[s], q.tx, tx)
        /\ requests' \in [Requests -> RequestRecords]
    BY <1>1, <1>2, <1>3, <1>7, CarriedOut
  <2>2. \A u \in Txs : firefly'[u] = IF u = q.tx THEN tx ELSE firefly[u]
    BY <2>1 DEF TxInv, TxTypeOK
  <2>3. Sound(p)'
    BY <1>2, <1>3, <1>5, <1>7, <2>2 DEF Sound, TaggingFits, FilingFits
  <2>4. ASSUME NEW s \in Requests PROVE Sound(requests[s])'
    <3>1. PICK v : v = requests'[s]
      OBVIOUS
    <3>2. Sound(v)'
      <4>1. CASE s = r
        BY <1>1, <1>4, <2>1, <2>3, <3>1, <4>1
      <4>2. CASE s # r
        <5>1. PICK w \in RequestRecords : w = requests[s]
          BY DEF TxInv, TxTypeOK
        <5>2. Sound(w)
          BY <5>1 DEF TxInv
        <5>3. v = After(w, q.tx, tx)
          BY <2>1, <3>1, <4>2, <5>1
        <5>4. QED
          BY <1>3, <1>6, <1>7, <2>1, <5>2, <5>3, AfterSound
      <4>3. QED
        BY <4>1, <4>2
    <3>3. QED
      BY <3>1, <3>2 DEF Sound, TaggingFits, FilingFits, ScreeningFits, EligibleNow, Eligible
  <2>5. TxTypeOK' /\ AcknowledgedStays'
    BY <1>6, <1>7, <2>1, <2>2 DEF TxInv, TxTypeOK, AcknowledgedStays
  <2>6. QED
    BY <2>4, <2>5 DEF TxInv
<1> DEFINE old == firefly[q.tx]
<1>8. CASE CategorySent(r)
  <2>1. q.op = "category" /\ q.what \in Categories /\ q.what # None
    BY <1>1, <1>2, <1>8, TxAssumption DEF CategorySent, At, Sound, FilingFits
  <2>2. PICK tx : tx = [old EXCEPT !.category = q.what]
    OBVIOUS
  <2>3. tx \in Transactions /\ tx.category = q.what /\ tx.tags = old.tags
    BY <1>3, <2>1, <2>2 DEF Transactions
  <2>4. CarriesOut(r, q.tx, tx) /\ raced' = raced
    BY <1>1, <1>8, <2>2 DEF CategorySent
  <2>5. QED
    BY <1>7, <2>1, <2>3, <2>4 DEF TxInv, TxTypeOK
<1>9. ASSUME q.op \in {"tag", "match"}, TagsWritten(r), NEW tx \in Transactions,
             tx.category = old.category, tx.tags = q.copy \union {q.what},
             CarriesOut(r, q.tx, tx)
      PROVE  TxInv'
  <2>1. TaggingFits(q)
    BY <1>2, <1>9 DEF Sound
  <2>2. raced' = IF q.stale THEN raced \union {q.tx} ELSE raced
    BY <1>1, <1>9 DEF TagsWritten
  <2>3. q.tx \in raced' \/ old.tags \subseteq tx.tags
    BY <1>2, <1>9, <2>1, <2>2 DEF TaggingFits
  <2>4. raced \subseteq raced' /\ raced' \subseteq Txs
    BY <1>3, <2>2 DEF TxInv, TxTypeOK
  <2>5. QED
    BY <1>7, <1>9, <2>3, <2>4
<1>10. CASE TagsSent(r)
  <2>1. PICK tx : tx = [old EXCEPT !.tags = q.copy \union {q.what}]
    OBVIOUS
  <2>2. q.op = "tag" /\ q.what \in TxTags /\ q.copy \in SUBSET TxTags
    BY <1>1, <1>2, <1>10 DEF TagsSent, At, Sound, TaggingFits, RequestRecords
  <2>3. /\ tx \in Transactions /\ tx.category = old.category
        /\ tx.tags = q.copy \union {q.what}
    BY <1>3, <2>1, <2>2 DEF Transactions
  <2>4. QED
    BY <1>1, <1>9, <1>10, <2>1, <2>2, <2>3 DEF TagsSent
<1>11. CASE MatchSent(r)
  <2> DEFINE text == IF old.text = "blik" THEN "blik detailed" ELSE old.text
  <2>1. PICK tx : tx = [old EXCEPT !.tags = q.copy \union {q.what}, !.text = text]
    OBVIOUS
  <2>2. q.op = "match" /\ q.what \in TxTags /\ q.copy \in SUBSET TxTags
    BY <1>1, <1>2, <1>11 DEF MatchSent, At, Sound, TaggingFits, RequestRecords
  <2>3. text \in Texts
    BY <1>3 DEF Transactions, Texts
  <2>4. CarriesOut(r, q.tx, tx)
    BY <1>1, <1>3, <1>11, <2>1 DEF MatchSent, Transactions
  <2> HIDE DEF text
  <2>5. /\ tx \in Transactions /\ tx.category = old.category
        /\ tx.tags = q.copy \union {q.what}
    BY <1>3, <2>1, <2>2, <2>3 DEF Transactions
  <2>6. QED
    BY <1>9, <1>11, <2>2, <2>4, <2>5 DEF MatchSent
<1>12. QED
  BY <1>8, <1>10, <1>11 DEF Sending

LEMMA TxInvariant == Spec => []TxInv
<1>1. Init => TxInv
  <2> SUFFICES ASSUME Init PROVE TxInv
    OBVIOUS
  <2>1. \A t \in Txs : firefly[t] \in [tags : {{}, {"action_req"}}, category : {None}, text : Texts]
    BY DEF Init
  <2>2. firefly \in [Txs -> Transactions]
    <3>1. [tags : {{}, {"action_req"}}, category : {None}, text : Texts] \subseteq Transactions
      BY DEF Transactions, TxTags
    <3>2. QED
      BY <3>1 DEF Init
  <2>3. acked \in [Txs -> SUBSET TxTags] /\ \A t \in Txs : acked[t] = firefly[t].tags
    BY <2>2 DEF Init, Transactions
  <2>4. requests \in [Requests -> RequestRecords] /\ \A r \in Requests : Sound(requests[r])
    BY EndedSound DEF Init
  <2>5. QED
    BY <2>2, <2>3, <2>4 DEF Init, TxInv, TxTypeOK, AcknowledgedStays
<1>2. TxInv /\ [Next]_vars => TxInv'
  <2> SUFFICES ASSUME TxInv, [Next]_vars PROVE TxInv'
    OBVIOUS
  <2>1. CASE UNCHANGED vars
    BY <2>1 DEF vars, TxInv, TxTypeOK, AcknowledgedStays, Sound, TaggingFits, FilingFits,
                ScreeningFits, EligibleNow, Eligible
  <2>2. QED
    BY <2>1, NextSteps, AskingStep, GoingStep, SendingStep
<1>3. QED
  BY <1>1, <1>2, PTL DEF Spec

-----------------------------------------------------------------------------
(* Transactions keep their types under every interleaving of updates, and  *)
(* so do the requests that carry copies of their tags.                     *)
THEOREM TxTypeCorrect == Spec => []TxTypeOK
<1>1. TxInv => TxTypeOK
  BY DEF TxInv
<1>2. QED
  BY <1>1, TxInvariant, PTL

(* Whoever else updates the transaction, a category that was acknowledged  *)
(* stays, and a tag does unless somebody writes the tags from a copy that  *)
(* was read before they were changed (add_tag, apply_category, apply_match *)
(* and the awaits in them).                                                *)
THEOREM AcknowledgedStaysHolds == Spec => []AcknowledgedStays
<1>1. TxInv => AcknowledgedStays
  BY DEF TxInv
<1>2. QED
  BY <1>1, TxInvariant, PTL

(* A screening lists what is eligible as long as it runs and nothing that  *)
(* never is, nor what was filed before it began, whatever is tagged, filed *)
(* or matched between its awaits (get_screening_month).                    *)
THEOREM ScreeningIsCurrentHolds == Spec => []ScreeningIsCurrent
<1>1. TxInv => ScreeningIsCurrent
  <2> SUFFICES ASSUME TxInv, NEW r \in Requests, At(r, {"screening"}, "done")
      PROVE  LET q == requests[r] IN
             /\ q.always \subseteq q.listed
             /\ q.listed \subseteq q.ever
             /\ q.listed \intersect q.before = {}
    BY DEF ScreeningIsCurrent
  <2>1. Sound(requests[r])
    BY DEF TxInv
  <2>2. QED
    BY <2>1 DEF At, Sound, ScreeningFits
<1>2. QED
  BY <1>1, TxInvariant, PTL
=============================================================================
