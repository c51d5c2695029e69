---------------------------- MODULE Suggestions ----------------------------
(***************************************************************************)
(* Category suggestions: DefaultCategorySuggestionService over             *)
(* SnapshotCategorizationProvider and WeightedTransactionSimilarityEngine. *)
(* A request takes the transaction it asks about from one get_snapshot and *)
(* the candidates from another, between which the snapshot may have been   *)
(* replaced (SnapshotContract says by what).  Scores are exact: weights,   *)
(* amount and text similarities are multiples of 1/20, so that a score is  *)
(* a number of 400ths, and products of them are fractions.  A 400th is     *)
(* 0.0025, so that rounding a match's score to four places leaves it as it *)
(* is; the error of floating point, and similarities that are no 20ths,    *)
(* are left out.  How similar two texts are (SequenceMatcher and token     *)
(* overlap) is a constant.                                                 *)
(***************************************************************************)
EXTENDS PythonData

CONSTANTS
  Ids,             \* identities of transactions, in the order of their text
  Kinds,           \* what a snapshot may hold: Contents
  Categories,      \* numbered in the order of their identities
  NameRank,        \* the place of a category's lower-case name
  Texts,           \* titles and notes of which normalize leaves something
  TextSimilarity,  \* _text_similarity of two of them, in 20ths
  MatchLimit,      \* 20 in the code
  SuggestionLimit  \* 3 in the code

(* A transaction of the snapshot, without its identity.                    *)
Contents ==
  [category : Categories \union {None}, internal : BOOLEAN, title : Texts,
   notes : Texts \union {None}, amount : Int, allegro_done : BOOLEAN]

ASSUME SuggestionsAssumption ==
  /\ Kinds \subseteq Contents
  /\ Ids \subseteq Nat
  /\ Categories \subseteq Nat
  /\ NameRank \in [Categories -> Nat]
  /\ TextSimilarity \in [Texts \X Texts -> 0 .. 20]
  /\ MatchLimit \in Nat \ {0, 1}
  /\ SuggestionLimit \in Nat \ {0}

VARIABLES
  snapshot,  \* the transactions of the stored snapshot, in its order
  request    \* the request under way

suggestionVars == <<snapshot, request>>

Identified(id, kind) ==
  [id |-> id, category |-> kind.category, internal |-> kind.internal,
   title |-> kind.title, notes |-> kind.notes, amount |-> kind.amount,
   allegro_done |-> kind.allegro_done]

-----------------------------------------------------------------------------
(* AmountBucketizer: buckets are numbered from 1.                          *)

UpperBounds == <<10, 25, 50, 100, 250, 500>>
AbsValue(n) == IF n < 0 THEN -n ELSE n

BucketForAmount(amount) ==
  1 + Cardinality({i \in DOMAIN UpperBounds : UpperBounds[i] < AbsValue(amount)})

-----------------------------------------------------------------------------
(* SnapshotCategorizationProvider.                                         *)

(* A Transaction has no merchant: getattr finds none.                      *)
Merchant(tx) == None

(* "blik" needs a merchant.                                                *)
InferSourceType(tx) ==
  IF tx.allegro_done /\ tx.notes # None THEN "allegro" ELSE "bank"

(* get_query_for_transaction_id.                                           *)
QueryOf(tx) ==
  [id |-> tx.id, title |-> tx.title, merchant |-> Merchant(tx), notes |-> tx.notes,
   bucket |-> BucketForAmount(tx.amount), source |-> InferSourceType(tx)]

(* _to_document: uncategorized transactions and internal operations are no *)
(* candidates.                                                             *)
IsDocument(tx) == tx.category # None /\ ~tx.internal
Documents(txs) == Kept(txs, {tx \in ToSet(txs) : IsDocument(tx)})

-----------------------------------------------------------------------------
(* WeightedTransactionSimilarityEngine.                                    *)

Unit == 400
MinSimilarity == 140  \* 0.35

AmountSimilarity(left, right) ==
  CASE AbsValue(left - right) = 0 -> 20
    [] AbsValue(left - right) = 1 -> 13
    [] AbsValue(left - right) = 2 -> 7
    [] OTHER -> 0

Similarity(left, right) ==
  IF None \in {left, right} THEN 0 ELSE TextSimilarity[<<left, right>>]

Fields == {"title", "merchant", "notes", "amount"}
Weights(title, merchant, notes, amount) ==
  [title |-> title, merchant |-> merchant, notes |-> notes, amount |-> amount]

SelectWeights(query) ==
  CASE query.source = "blik" /\ query.merchant # None -> Weights(5, 10, 3, 2)
    [] query.source = "allegro" /\ query.notes # None -> Weights(4, 2, 11, 3)
    [] query.merchant # None -> Weights(7, 8, 3, 2)
    [] query.notes # None -> Weights(9, 0, 8, 3)
    [] OTHER -> Weights(15, 0, 2, 3)

Contributions(query, doc) ==
  LET w == SelectWeights(query) IN
  [title |-> w.title * Similarity(query.title, doc.title),
   merchant |-> w.merchant * Similarity(query.merchant, Merchant(doc)),
   notes |-> w.notes * Similarity(query.notes, doc.notes),
   amount |-> w.amount * AmountSimilarity(query.bucket, BucketForAmount(doc.amount))]

Priority == [merchant |-> 3, notes |-> 2, title |-> 1, amount |-> 0]

(* _score_pair; nothing scores twice the same in both.                     *)
Score(query, doc) ==
  LET c == Contributions(query, doc) IN c.title + c.merchant + c.notes + c.amount
MatchedBy(query, doc) ==
  LET c == Contributions(query, doc) IN
  CHOOSE f \in Fields : \A g \in Fields \ {f} :
    \/ c[g] < c[f]
    \/ c[g] = c[f] /\ Priority[g] < Priority[f]

(* The best score first, then by name, then by identity.                   *)
MatchBefore(m, n) ==
  \/ m.score > n.score
  \/ /\ m.score = n.score
     /\ \/ NameRank[m.category] < NameRank[n.category]
        \/ NameRank[m.category] = NameRank[n.category] /\ m.id < n.id

UpTo(seq, limit) == SubSeq(seq, 1, IF Len(seq) < limit THEN Len(seq) ELSE limit)

Match(query, doc) ==
  [id |-> doc.id, category |-> doc.category, score |-> Score(query, doc),
   by |-> MatchedBy(query, doc)]

Similar(query, docs) ==
  Kept(docs, {doc \in ToSet(docs) :
                doc.id # query.id /\ Score(query, doc) >= MinSimilarity})
Matches(query, docs) == {Match(query, doc) : doc \in ToSet(docs)}

(* Mutant: the list is cut before it is sorted.                            *)
FindFirstSimilar(query, docs) ==
  Sorted(Matches(query, UpTo(Similar(query, docs), MatchLimit)), MatchBefore)

(* find_similar.                                                           *)
FindSimilar(query, docs) ==
  UpTo(Sorted(Matches(query, Similar(query, docs)), MatchBefore), MatchLimit)

-----------------------------------------------------------------------------
(* DefaultCategorySuggestionService._aggregate.                            *)

(* 1.0 - left / whole to four places: left / whole is what is left of 1.0, *)
(* (1 - a) * (1 - b) * ...                                                 *)
Rounded(left, whole) == ((whole - left) * 10000 + whole \div 2) \div whole

(* A bucket is made at a category's first match.                           *)
FirstOf(match) == [whole |-> 1, left |-> 1, best |-> match]
AddMatch(buckets, match) ==
  LET bucket == IF match.category \in DOMAIN buckets
                THEN buckets[match.category] ELSE FirstOf(match)
      updated == [whole |-> bucket.whole * Unit,
                  left |-> bucket.left * (Unit - match.score),
                  best |-> IF match.score > bucket.best.score
                           THEN match ELSE bucket.best]
  IN [c \in DOMAIN buckets \union {match.category} |->
        IF c = match.category THEN updated ELSE buckets[c]]

SuggestionBefore(a, b) ==
  \/ a.score > b.score
  \/ /\ a.score = b.score
     /\ \/ NameRank[a.category] < NameRank[b.category]
        \/ NameRank[a.category] = NameRank[b.category] /\ a.category < b.category

Aggregate(matches) ==
  LET buckets == FoldLeft(AddMatch, <<>>, matches)
      Suggestion(c) == [category |-> c,
                        score |-> Rounded(buckets[c].left, buckets[c].whole),
                        reason |-> buckets[c].best.by]
  IN UpTo(Sorted({Suggestion(c) : c \in DOMAIN buckets}, SuggestionBefore),
          SuggestionLimit)

-----------------------------------------------------------------------------
Request(st, query, answer) == [st |-> st, query |-> query, answer |-> answer]
Ended == Request("idle", None, <<>>)

HasId(txs, id) == \E i \in DOMAIN txs : txs[i].id = id

SuggestionsInit ==
  /\ snapshot = <<>>
  /\ request = Ended

(* A newer snapshot: a transaction is added, changed or deleted, or the    *)
(* order is another.  Nothing is awaited from the second get_snapshot to   *)
(* the answer.                                                             *)
SnapshotReplaced ==
  /\ request.st # "answered"
  /\ \/ \E id \in Ids, kind \in Kinds :
          /\ ~HasId(snapshot, id)
          /\ snapshot' = Append(snapshot, Identified(id, kind))
     \/ \E i \in DOMAIN snapshot :
          \/ \E kind \in Kinds :
               snapshot' = [snapshot EXCEPT ![i] = Identified(@.id, kind)]
          \/ snapshot' = RemoveAt(snapshot, i)
     \/ Len(snapshot) > 1 /\ snapshot' = Append(Tail(snapshot), Head(snapshot))
  /\ UNCHANGED request

(* The first get_snapshot; a transaction it does not hold is a 404.        *)
QueryTaken(id) ==
  /\ request.st = "idle"
  /\ \E i \in DOMAIN snapshot :
       /\ snapshot[i].id = id
       /\ request' = Request("query", QueryOf(snapshot[i]), <<>>)
  /\ UNCHANGED snapshot

(* The second get_snapshot, and what is computed of it.                    *)
CandidatesTaken ==
  /\ request.st = "query"
  /\ request' = Request("answered", request.query,
       Aggregate(FindSimilar(request.query, Documents(snapshot))))
  /\ UNCHANGED snapshot

(* The answer is sent, or the snapshot service has failed.                 *)
Ends ==
  /\ request.st # "idle"
  /\ request' = Ended
  /\ UNCHANGED snapshot

SuggestionsNext ==
  \/ SnapshotReplaced
  \/ \E id \in Ids : QueryTaken(id)
  \/ CandidatesTaken
  \/ Ends

SuggestionsSpec ==
  SuggestionsInit /\ [][SuggestionsNext]_suggestionVars

-----------------------------------------------------------------------------
(* Properties.                                                             *)

SeenTxs == ToSet(snapshot)
Suggested == ToSet(request.answer)

(* The same with sets in place of lists and folds over them:               *)
(* the best sources; what they leave of 1.0; who comes first.              *)
SourceBefore(query, a, b) ==
  MatchBefore([score |-> Score(query, a), category |-> a.category, id |-> a.id],
              [score |-> Score(query, b), category |-> b.category, id |-> b.id])
Sources(query) ==
  LET similar == {tx \in SeenTxs : /\ tx.id # query.id
                                   /\ tx.category # None /\ ~tx.internal
                                   /\ Score(query, tx) >= MinSimilarity}
  IN {tx \in similar :
        Cardinality({other \in similar : SourceBefore(query, other, tx)}) < MatchLimit}
Product(f) == FoldFunction(LAMBDA x, y : x * y, 1, f)
ScoreOf(query, txs) == Rounded(Product([tx \in txs |-> Unit - Score(query, tx)]),
                               Product([tx \in txs |-> Unit]))
Reference(query) ==
  LET from == Sources(query)
  IN {[category |-> c, score |-> ScoreOf(query, {tx \in from : tx.category = c})] :
        c \in {tx.category : tx \in from}}

(* The answer is the beginning of the one ranking of the categories: it    *)
(* depends on which transactions the snapshot holds and not on their order,*)
(* and leaves out only what ranks behind what it shows (_aggregate).       *)
(* Every suggestion rests on another transaction that shares text with the *)
(* query, also when the transaction asked about was categorized between    *)
(* the two snapshots, and its reason is that of the best (find_similar).   *)
SuggestionsAreRanked ==
  request.st = "answered" =>
    LET query == request.query
        all == Reference(query)
        shown == {[category |-> s.category, score |-> s.score] : s \in Suggested}
    IN
    /\ shown \subseteq all
    /\ Len(request.answer) = Cardinality(shown)
    /\ Cardinality(shown) = Cardinality(all) \/ Cardinality(shown) = SuggestionLimit
    /\ \A s \in shown, o \in all \ shown : SuggestionBefore(s, o)
    /\ \A i, j \in DOMAIN request.answer :
         i < j => SuggestionBefore(request.answer[i], request.answer[j])
    /\ \A s \in Suggested : \E best \in Sources(query) :
         /\ best.category = s.category
         /\ \A other \in Sources(query) :
              other.category = s.category => ~SourceBefore(query, other, best)
         /\ s.reason = MatchedBy(query, best)
         /\ \/ Similarity(query.title, best.title) > 0
            \/ Similarity(query.notes, best.notes) > 0
=============================================================================
