------------------------- MODULE MCAllegroPayments -------------------------
(***************************************************************************)
(* AllegroPayments for TLC: purchases of one to three orders, in one group *)
(* or several, with deliveries of every kind.  The orders of a purchase    *)
(* differ, so that sets of orders lose nothing.                            *)
(***************************************************************************)
EXTENDS AllegroPayments

Order(offers, delivery, created, ordered) ==
  [offers |-> offers, delivery |-> delivery, created |-> created, ordered |-> ordered]
Offer(price, quantity) == [price |-> price, quantity |-> quantity]

Sent == Order(<<Offer(1000, 2)>>, [cost |-> 500], 2, 1)
Collected == Order(<<Offer(700, 1), Offer(250, 3)>>, None, None, 2)
Untold == Order(<<Offer(900, 1)>>, [cost |-> None], 3, 3)
Gift == Order(<<Offer(0, 1)>>, [cost |-> 0], None, 3)

MCPurchases ==
  {<<<<Sent>>>>, <<<<Sent, Collected>>>>, <<<<Sent>>, <<Collected>>>>,
   <<<<Collected>>, <<Untold>>, <<Sent>>>>, <<<<Untold>>, <<Gift>>>>,
   <<<<Gift>>, <<Sent, Untold>>>>}

MCPaidDays == {None, 4}
=============================================================================
