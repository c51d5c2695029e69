--------------------------- MODULE AllegroPayments ---------------------------
(***************************************************************************)
(* What a page of Allegro orders becomes: AllegroService.fetch asks for    *)
(* the buyer's login and for a page of order groups, GetOrdersResult puts  *)
(* the orders that were paid together into one Payment, and an             *)
(* AllegroOrderPayment is made of each, with the lines that will become    *)
(* the notes of a transaction.  Allegro is external: the buyer's orders,   *)
(* newest first, to which purchases are added between two requests.        *)
(* Amounts are in cents; every order of a payment shows its whole amount.  *)
(***************************************************************************)
EXTENDS PythonData

CONSTANTS
  PaymentIds,
  Purchases,  \* what may be bought at once: sequences of groups of orders
  Discounts,  \* what coupons take off a payment
  PaidDays,   \* days on which a payment may have been made, None if not told
  Limits,     \* page sizes asked for
  Offsets

Money == Nat

(* An order's offers, delivery (None, or with a cost that may be None) and *)
(* days: created (may be None) and ordered.                                *)
Offers == [price : Money, quantity : Nat \ {0}]
Deliveries == [cost : Money \union {None}]
Orders == [offers : Seq(Offers), delivery : Deliveries \union {None},
           created : Int \union {None}, ordered : Int]

ASSUME PaymentsAssumption ==
  /\ Purchases \subseteq Seq(Seq(Orders))
  /\ Discounts \subseteq Nat
  /\ PaidDays \subseteq Int \union {None}
  /\ Limits \subseteq Nat \ {0}
  /\ Offsets \subseteq Nat
  /\ None \notin Money \union Deliveries

VARIABLES
  shop,   \* Allegro: the groups of orders, newest first
  fetch   \* the request under way, or the latest answer

paymentsVars == <<shop, fetch>>

-----------------------------------------------------------------------------
(* Totals of an order.                                                     *)
ItemsTotal(o) ==
  SumFunction([i \in DOMAIN o.offers |-> o.offers[i].price * o.offers[i].quantity])

DeliveryTotal(o) ==
  IF o.delivery = None THEN 0
  ELSE IF o.delivery.cost = None THEN 0 ELSE o.delivery.cost

OrderTotal(o) == ItemsTotal(o) + DeliveryTotal(o)

(* Total of a payment.                                                     *)
KnownTotal(orders) == SumFunction([k \in DOMAIN orders |-> OrderTotal(orders[k])])

(* Allegro's side of a purchase: the orders carry the payment's id, day    *)
(* and amount.                                                             *)
Bought(groups, id, paid, discount) ==
  LET amount == KnownTotal(FlattenSeq(groups)) - discount
      Carry(o) == [offers |-> o.offers, delivery |-> o.delivery, created |-> o.created,
                   ordered |-> o.ordered, payment |-> id, paid |-> paid, amount |-> amount]
  IN [g \in DOMAIN groups |-> [k \in DOMAIN groups[g] |-> Carry(groups[g][k])]]

-----------------------------------------------------------------------------
(* Mutant: an order replaces the ones paid with it.                        *)
ReplaceOrder(groups, o) ==
  IF \E k \in DOMAIN groups : groups[k].id = o.payment
  THEN [k \in DOMAIN groups |->
          IF groups[k].id = o.payment THEN [groups[k] EXCEPT !.orders = <<o>>]
          ELSE groups[k]]
  ELSE Append(groups, [id |-> o.payment, orders |-> <<o>>])

(* Payment.from_orders: a dictionary of lists, in order of first insertion.*)
AddOrder(groups, o) ==
  IF \E k \in DOMAIN groups : groups[k].id = o.payment
  THEN [k \in DOMAIN groups |->
          IF groups[k].id = o.payment
          THEN [groups[k] EXCEPT !.orders = Append(@, o)] ELSE groups[k]]
  ELSE Append(groups, [id |-> o.payment, orders |-> <<o>>])

FromOrders(orders) == FoldLeft(AddOrder, <<>>, orders)

(* Mutant: a payment is told by its first order.                           *)
FirstDetails(orders) ==
  [i \in DOMAIN orders[1].offers |-> <<"offer", orders[1].offers[i]>>]

(* Payment.list_details: the offers of each order, and its delivery unless *)
(* that is free.                                                           *)
DetailsOf(o) ==
  [i \in DOMAIN o.offers |-> <<"offer", o.offers[i]>>]
    \o IF DeliveryTotal(o) = 0 THEN <<>> ELSE <<<<"delivery", o.delivery>>>>
ListDetails(orders) == FlattenSeq([k \in DOMAIN orders |-> DetailsOf(orders[k])])

Tolerance == 1

(* Mutant: the tolerance itself is out of balance.                         *)
WithinTolerance(difference) == difference \in (1 - Tolerance)..(Tolerance - 1)

Balanced(difference) == difference \in (-Tolerance)..Tolerance

(* Payment.date: what the first order tells.                               *)
PaymentDate(o) ==
  IF o.paid # None THEN o.paid ELSE IF o.created # None THEN o.created ELSE o.ordered

(* from_allegro_payment.  Buyer and metadata lines are the same for all.   *)
OrderPayment(p) ==
  [id |-> p.id,
   amount |-> p.orders[1].amount,
   date |-> PaymentDate(p.orders[1]),
   details |-> ListDetails(p.orders),
   balanced |-> Balanced(p.orders[1].amount - KnownTotal(p.orders))]

-----------------------------------------------------------------------------
Fetch(st, limit, offset, status, orders, payments) ==
  [st |-> st, limit |-> limit, offset |-> offset, status |-> status,
   orders |-> orders, payments |-> payments]
Idle == Fetch("idle", None, None, None, <<>>, <<>>)
Answered(status) == Fetch("idle", None, None, status, <<>>, <<>>)

PaymentsInit == shop = <<>> /\ fetch = Idle

(* The buyer pays for a purchase.                                          *)
Buy(id, groups, paid, discount) ==
  /\ \A g \in DOMAIN shop : \A k \in DOMAIN shop[g] : shop[g][k].payment # id
  /\ shop' = Bought(groups, id, paid, discount) \o shop
  /\ UNCHANGED fetch

(* fetch_for_id; the vault may refuse the secret, which _raise_allegro_    *)
(* http_error turns into a status, as it does the errors of Allegro.       *)
Status(error) ==
  CASE error = "VaultLocked" -> 423
    [] error = "VaultSessionExpired" -> 401
    [] error = "VaultNotConfigured" -> 409
    [] error = "SecretDecryptionFailed" -> 422
    [] error = "InvalidSecretId" -> 400
    [] error = "ExternalServiceFailed" -> 502
VaultErrors == {"VaultLocked", "VaultSessionExpired", "VaultNotConfigured",
                "SecretDecryptionFailed", "InvalidSecretId"}

VaultRefuses(error) ==
  /\ fetch.st = "idle"
  /\ fetch' = Answered(Status(error))
  /\ UNCHANGED shop

Ask(limit, offset) ==
  /\ fetch.st = "idle"
  /\ fetch' = Fetch("user", limit, offset, None, <<>>, <<>>)
  /\ UNCHANGED shop

(* get_user_info: the account made of a secret never has its login.        *)
UserTold ==
  /\ fetch.st = "user"
  /\ fetch' = [fetch EXCEPT !.st = "orders"]
  /\ UNCHANGED shop

(* get_orders: the groups of the page, their orders in one list.           *)
PageOf(limit, offset) ==
  SubSeq(shop, offset + 1, IF offset + limit < Len(shop) THEN offset + limit ELSE Len(shop))
OrdersTold ==
  /\ fetch.st = "orders"
  /\ LET orders == FlattenSeq(PageOf(fetch.limit, fetch.offset))
         payments == FromOrders(orders)
     IN fetch' = Fetch("idle", None, None, 200, orders,
                       [k \in DOMAIN payments |-> OrderPayment(payments[k])])
  /\ UNCHANGED shop

(* No answer in time, an HTTP error, a refused cookie, an answer that is   *)
(* not what the payload models expect: all are one error to the caller.    *)
AllegroFails ==
  /\ fetch.st \in {"user", "orders"}
  /\ fetch' = Answered(Status("ExternalServiceFailed"))
  /\ UNCHANGED shop

PaymentsNext ==
  \/ \E id \in PaymentIds, groups \in Purchases, paid \in PaidDays, discount \in Discounts :
       Buy(id, groups, paid, discount)
  \/ \E error \in VaultErrors : VaultRefuses(error)
  \/ \E limit \in Limits, offset \in Offsets : Ask(limit, offset)
  \/ UserTold
  \/ OrdersTold
  \/ AllegroFails

PaymentsSpec == PaymentsInit /\ [][PaymentsNext]_paymentsVars

-----------------------------------------------------------------------------
AllOrders == FlattenSeq(shop)

Paid(orders, id) == Kept(orders, {o \in ToSet(orders) : o.payment = id})

(* A page of payments accounts for its orders (get_order_result.py:298-315 *)
(* and 401-412): each payment is listed once, in the order in which it     *)
(* first appears, and its lines tell, for the orders of the page paid with *)
(* it, every item and cost, to the last cent.                              *)
OfferLines(offers) == [i \in DOMAIN offers |-> <<"offer", offers[i]>>]
Cost(line) ==
  IF line[1] = "offer" THEN line[2].price * line[2].quantity ELSE line[2].cost
PageAccountsForOrders ==
  LET FirstAt(id, k) == /\ fetch.orders[k].payment = id
                        /\ \A l \in 1..(k - 1) : fetch.orders[l].payment # id
  IN /\ {fetch.payments[k].id : k \in DOMAIN fetch.payments}
          = {fetch.orders[k].payment : k \in DOMAIN fetch.orders}
     /\ \A k, l \in DOMAIN fetch.payments : k < l =>
          \E m, n \in DOMAIN fetch.orders :
            m < n /\ FirstAt(fetch.payments[k].id, m) /\ FirstAt(fetch.payments[l].id, n)
     /\ \A k \in DOMAIN fetch.payments :
          LET lines == fetch.payments[k].details
              paid == Paid(fetch.orders, fetch.payments[k].id)
          IN /\ SumFunction([i \in DOMAIN lines |-> Cost(lines[i])]) = KnownTotal(paid)
             /\ Kept(lines, {"offer"} \X Offers)
                  = FlattenSeq([n \in DOMAIN paid |-> OfferLines(paid[n].offers)])

(* What is_balanced tells (get_order_result.py:337-340): page limits and   *)
(* purchases made between two requests may cut a payment in two, and its   *)
(* parts have one id and the whole amount.  The page stays a stretch of    *)
(* the buyer's orders, and a payment is balanced exactly when what its     *)
(* orders off the page cost is, to a cent, what a coupon took off it: no   *)
(* part passes for the whole unless a coupon was worth what is missing.    *)
BalancedIsWhole ==
  \E n \in 0..Len(AllOrders) :
    LET before == SubSeq(AllOrders, 1, n)
        after == SubSeq(AllOrders, n + Len(fetch.orders) + 1, Len(AllOrders))
    IN /\ AllOrders = before \o fetch.orders \o after
       /\ \A k \in DOMAIN fetch.payments :
            LET p == fetch.payments[k]
                missing == KnownTotal(Paid(before, p.id)) + KnownTotal(Paid(after, p.id))
                coupon == KnownTotal(Paid(AllOrders, p.id)) - p.amount
            IN /\ coupon \in Discounts
               /\ p.balanced <=> missing - coupon \in -1..1
=============================================================================
