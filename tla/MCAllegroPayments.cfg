\* Two payments, pages of one to three groups.
SPECIFICATION PaymentsSpec
CONSTANTS
  None = None
  PaymentIds = {p1, p2}
  Purchases <- MCPurchases
  Discounts = {0, 1, 2, 900}
  PaidDays <- MCPaidDays
  Limits = {1, 2, 3}
  Offsets = {0, 1, 2, 3}
INVARIANTS
  PageAccountsForOrders
  BalancedIsWhole
