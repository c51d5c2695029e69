------------------------------ MODULE Matching ------------------------------
(***************************************************************************)
(* Pairing of evidence (records of a bank file, Allegro payments) with     *)
(* Firefly transactions: FireflyEnrichmentService.match_with_unmatched and *)
(* match_transactions.  The transactions are the ones whose description    *)
(* passes the filter.                                                      *)
(***************************************************************************)
EXTENDS Integers, FiniteSets

CONSTANTS
  Txs,        \* Firefly transactions
  Place,      \* Place[x]: where x comes in Firefly's answers
  Items,      \* pieces of evidence
  Payments,   \* the items that are Allegro payments, the others are records
  Date,       \* Date[e]: the day of an item or a transaction
  Amount,     \* Amount[e]: its amount, signed
  FutureDays  \* MATCH_WITH_UNMATCHED_FUTURE_DAYS

ASSUME MatchingAssumption ==
  /\ IsFiniteSet(Txs)
  /\ Payments \subseteq Items
  /\ Place \in [Txs -> Nat]
  /\ \A x, y \in Txs : Place[x] = Place[y] => x = y
  /\ Date \in [Txs \union Items -> Int]
  /\ Amount \in [Txs \union Items -> Int]
  /\ FutureDays \in Nat

SameAmount(i, x) == Amount[i] \in {Amount[x], -Amount[x]}

(* BaseMatchItem.compare: the same day.  OrderPayment.compare: a payment   *)
(* is booked up to six days later.                                         *)
Compare(i, x) ==
  /\ SameAmount(i, x)
  /\ IF i \in Payments THEN Date[x] \in Date[i] .. Date[i] + 6
                       ELSE Date[x] = Date[i]

(* The transactions fetched from Firefly for a non-empty set of candidates *)
(* (for an empty one min() raises).                                        *)
Window(items) ==
  {x \in Txs : /\ \E i \in items : Date[i] <= Date[x]
               /\ \E i \in items : Date[x] <= Date[i] + FutureDays}

Candidates(items, x) == {i \in items : Compare(i, x)}

Unmatched(items) == {i \in items : \A x \in Window(items) : ~Compare(i, x)}
=============================================================================
