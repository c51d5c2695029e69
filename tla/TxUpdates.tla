----------------------------- MODULE TxUpdates -----------------------------
(***************************************************************************)
(* Screening, categories and tags: TxApplicationService and                *)
(* FireflyTxService under the routes of api/tx, beside the jobs that apply *)
(* matches.  The routes run on the event loop and await Firefly: between a *)
(* request and its answer other requests run, and Firefly carries a        *)
(* request out at some moment in between, also when the answer is an error *)
(* or is lost.  Firefly itself is external; an update replaces the fields  *)
(* it names.                                                               *)
(***************************************************************************)
EXTENDS FiniteSets

CONSTANTS
  None,
  Txs,        \* transactions of the month
  Categories,
  Tags,       \* tags the clients add
  Requests    \* concurrent requests and jobs

TxTags == {"blik_done", "allegro_done", "rule_potential", "action_req"}

ASSUME TxAssumption ==
  /\ Tags \subseteq TxTags
  /\ None \notin Txs \union Categories \union TxTags

VARIABLES
  firefly,  \* the transactions as Firefly has them
  requests, \* requests under way
  acked,    \* history: tags a transaction had or whose request was answered
  filed,    \* history: transactions known to have a category
  raced     \* history: transactions whose tags were written from an old copy

vars == <<firefly, requests, acked, filed, raced>>

-----------------------------------------------------------------------------
(* What filter_by_description tells apart: the BLIK filter, a description  *)
(* that contains it, one that contains the Allegro filter, any other.      *)
Texts == {"blik", "blik detailed", "allegro", "other"}
Transactions == [tags : SUBSET TxTags, category : Categories \union {None}, text : Texts]

(* "asked": the transaction, or the categories, are awaited; "loaded": the *)
(* update, or the transactions, are; "done": the answer is on its way.     *)
(* copy: the tags read; stale: the tags were written since; listed: the    *)
(* answer to a screening; always, ever, before: history, the transactions  *)
(* eligible throughout it and at some moment, and those filed before it.   *)
Request(op, st, tx, what) ==
  [op |-> op, st |-> st, tx |-> tx, what |-> what, copy |-> {}, stale |-> FALSE,
   listed |-> {}, always |-> {}, ever |-> {}, before |-> {}]
RequestRecords ==
  [op : {"tag", "category", "screening", "match", None},
   st : {"idle", "asked", "loaded", "done"}, tx : Txs \union {None},
   what : TxTags \union Categories \union {None}, copy : SUBSET TxTags,
   stale : BOOLEAN, listed : SUBSET Txs, always : SUBSET Txs, ever : SUBSET Txs,
   before : SUBSET Txs]
Ended == Request(None, "idle", None, None)

Init ==
  /\ firefly \in [Txs -> [tags : {{}, {"action_req"}}, category : {None}, text : Texts]]
  /\ requests = [r \in Requests |-> Ended]
  /\ acked = [t \in Txs |-> firefly[t].tags]
  /\ filed = {}
  /\ raced = {}

-----------------------------------------------------------------------------
(* get_txs_for_screening.                                                  *)

Uncategorized(txs) == {t \in txs : firefly[t].category = None}
NotBlik(txs) == {t \in txs : firefly[t].text # "blik"}
NoActionRequired(txs) == {t \in txs : "action_req" \notin firefly[t].tags}
AllegroDone(txs) ==
  {t \in txs : ~(firefly[t].text = "allegro" /\ "allegro_done" \notin firefly[t].tags)}

(* Mutant: transactions with a category are not excluded.                  *)
ScreenedAll(txs) == AllegroDone(NoActionRequired(NotBlik(txs)))

Screened(txs) == AllegroDone(NoActionRequired(NotBlik(Uncategorized(txs))))

(* By README.md, "transactions eligible for manual categorization".        *)
Eligible(tx) ==
  /\ tx.category = None
  /\ tx.text # "blik"
  /\ tx.tags \intersect {"action_req"} = {}
  /\ tx.text = "allegro" => tx.tags \intersect {"allegro_done"} # {}

-----------------------------------------------------------------------------
At(r, op, st) == requests[r].op \in op /\ requests[r].st = st
Becomes(r, q) == requests' = [requests EXCEPT ![r] = q]

Asks(r, q) ==
  /\ requests[r].st = "idle"
  /\ Becomes(r, q)

TagAsked(r, t, tag) ==
  /\ Asks(r, Request("tag", "asked", t, tag))
  /\ UNCHANGED <<firefly, acked, filed, raced>>

CategoryAsked(r, t, c) ==
  /\ Asks(r, Request("category", "asked", t, c))
  /\ UNCHANGED <<firefly, acked, filed, raced>>

ScreeningAsked(r) ==
  LET now == {t \in Txs : Eligible(firefly[t])} IN
  /\ Asks(r, [Request("screening", "asked", None, None) EXCEPT
                !.always = now, !.ever = now, !.before = filed])
  /\ UNCHANGED <<firefly, acked, filed, raced>>

DoneTag(text) == IF text = "allegro" THEN "allegro_done" ELSE "blik_done"

(* tx_from_ff_tx; of a transaction read, only its tags are used again.     *)
TagsRead(t) == firefly[t].tags

(* A preview reads the transaction that a job will write.                  *)
Previewed(r, t) ==
  /\ firefly[t].text # "other"
  /\ Asks(r, [Request("match", "loaded", t, DoneTag(firefly[t].text)) EXCEPT
                !.copy = TagsRead(t)])
  /\ UNCHANGED <<firefly, acked, filed, raced>>

(* get_transaction answers; the categories of a screening do.              *)
Loaded(r) ==
  LET q == requests[r] IN
  /\ q.st = "asked"
  /\ Becomes(r, [q EXCEPT !.st = "loaded",
                          !.copy = IF q.tx = None THEN {} ELSE TagsRead(q.tx)])
  /\ UNCHANGED <<firefly, acked, filed, raced>>

(* update_transaction is carried out with tx and changes what screenings   *)
(* under way see; writers of tags that have read the old ones are stale.   *)
CarriesOut(r, t, tx) ==
  LET seen == IF Eligible(tx) THEN {t} ELSE {}
      After(q) ==
        IF q.op = "screening" /\ q.st \in {"asked", "loaded"}
        THEN [q EXCEPT !.always = (@ \ {t}) \union (@ \intersect seen),
                       !.ever = @ \union seen]
        ELSE IF q.tx = t /\ q.st = "loaded" /\ tx.tags # firefly[t].tags
        THEN [q EXCEPT !.stale = TRUE]
        ELSE q
  IN
  /\ firefly' = [firefly EXCEPT ![t] = tx]
  /\ requests' = [p \in Requests |-> IF p = r THEN [requests[r] EXCEPT !.st = "done"]
                                     ELSE After(requests[p])]

(* Mutant: the category is sent with the tags that were read.              *)
CategorySentWithTags(r) ==
  LET q == requests[r] IN
  /\ At(r, {"category"}, "loaded")
  /\ CarriesOut(r, q.tx, [firefly[q.tx] EXCEPT !.category = q.what, !.tags = q.copy])
  /\ UNCHANGED <<acked, filed, raced>>

(* apply_category: only the category is sent.                              *)
CategorySent(r) ==
  LET q == requests[r] IN
  /\ At(r, {"category"}, "loaded")
  /\ CarriesOut(r, q.tx, [firefly[q.tx] EXCEPT !.category = q.what])
  /\ UNCHANGED <<acked, filed, raced>>

TagsWritten(r) ==
  raced' = IF requests[r].stale THEN raced \union {requests[r].tx} ELSE raced

(* add_tag: the tags read, and the new one.                                *)
TagsSent(r) ==
  LET q == requests[r] IN
  /\ At(r, {"tag"}, "loaded")
  /\ CarriesOut(r, q.tx, [firefly[q.tx] EXCEPT !.tags = q.copy \union {q.what}])
  /\ TagsWritten(r)
  /\ UNCHANGED <<acked, filed>>

(* apply_match: tags, and for BLIK a longer description.                   *)
MatchSent(r) ==
  LET q == requests[r] IN
  /\ At(r, {"match"}, "loaded")
  /\ CarriesOut(r, q.tx,
       [firefly[q.tx] EXCEPT !.tags = q.copy \union {q.what},
                            !.text = IF @ = "blik" THEN "blik detailed" ELSE @])
  /\ TagsWritten(r)
  /\ UNCHANGED <<acked, filed>>

TransactionsListed(r) ==
  /\ At(r, {"screening"}, "loaded")
  /\ Becomes(r, [requests[r] EXCEPT !.st = "done", !.listed = Screened(Txs)])
  /\ UNCHANGED <<firefly, acked, filed, raced>>

(* The answer; a month with nothing to screen has none (204).              *)
Answered(r) ==
  LET q == requests[r] IN
  /\ q.st = "done"
  /\ acked' = IF q.op \in {"tag", "match"}
              THEN [acked EXCEPT ![q.tx] = @ \union {q.what}] ELSE acked
  /\ filed' = IF q.op = "category" THEN filed \union {q.tx} ELSE filed
  /\ Becomes(r, Ended)
  /\ UNCHANGED <<firefly, raced>>

(* Firefly fails, before or after it carried the update out.               *)
Failed(r) ==
  /\ requests[r].st # "idle"
  /\ Becomes(r, Ended)
  /\ UNCHANGED <<firefly, acked, filed, raced>>

Next ==
  \E r \in Requests :
    \/ \E t \in Txs, tag \in Tags : TagAsked(r, t, tag)
    \/ \E t \in Txs, c \in Categories : CategoryAsked(r, t, c)
    \/ ScreeningAsked(r)
    \/ \E t \in Txs : Previewed(r, t)
    \/ Loaded(r)
    \/ CategorySent(r)
    \/ TagsSent(r)
    \/ MatchSent(r)
    \/ TransactionsListed(r)
    \/ Answered(r)
    \/ Failed(r)

Spec == Init /\ [][Next]_vars

-----------------------------------------------------------------------------
(* Properties.                                                             *)

(* Transactions, requests and histories have their types.                  *)
TxTypeOK ==
  /\ firefly \in [Txs -> Transactions]
  /\ requests \in [Requests -> RequestRecords]
  /\ acked \in [Txs -> SUBSET TxTags]
  /\ filed \subseteq Txs
  /\ raced \subseteq Txs

(* What was acknowledged stays, whatever tags and matches are written from *)
(* copies read before: a category always, a tag as long as nobody writes   *)
(* the tags from a copy read before they were changed.  A category update  *)
(* in between loses nothing (add_tag_by_id, apply_category_by_id,          *)
(* apply_match).                                                           *)
AcknowledgedStays ==
  /\ \A t \in filed : firefly[t].category # None
  /\ \A t \in Txs \ raced : acked[t] \subseteq firefly[t].tags

(* A screening lists what is eligible throughout it and nothing that never *)
(* is while it runs; what was filed before it began does not come back     *)
(* (get_screening_month, two awaits).                                      *)
ScreeningIsCurrent ==
  \A r \in Requests :
    LET q == requests[r] IN
    At(r, {"screening"}, "done") =>
      /\ q.always \subseteq q.listed
      /\ q.listed \subseteq q.ever
      /\ q.listed \intersect q.before = {}
=============================================================================
