SPECIFICATION BillingSpec
CONSTANTS
  k1 = k1
  k2 = k2
  t1 = t1
  t2 = t2
  p1 = p1
  p2 = p2
  Key <- MCKey
  Trace <- MCTrace
  Payment <- MCPayment
  Amount = {1, 2}
  PromoCredit = 2
  Period = {1}
  Quantity = {1, 2}
  AddonPrice = 1
  AddonBytes = 3
  PlanPrice = 1
  None = None
SYMMETRY Symmetry
INVARIANTS
  TypeOK
  LedgerBalanced
  DebitMatchesReservation
  HoldsCovered
  PaymentsPosted
  EntitlementMatchesAddons
PROPERTY
  AccountSpec
CHECK_DEADLOCK FALSE
