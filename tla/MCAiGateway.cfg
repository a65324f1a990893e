INIT GatewayInit
NEXT GatewayNext
CONSTANTS
  k1 = k1
  k2 = k2
  t1 = t1
  t2 = t2
  c1 = c1
  c2 = c2
  c3 = c3
  p1 = p1
  p2 = p2
  Key <- MCKey
  Trace <- MCTrace
  Call <- ThreeCalls
  Payment <- OnePayment
  TraceOf <- OwnTrace
  After <- Independent
  Candidates = 1
  AllowFallback = TRUE
  Amount = {1, 2}
  PromoCredit = 1
  Period = {}
  Quantity = {}
  AddonPrice = 1
  AddonBytes = 1
  PlanPrice = 1
  None = None
SYMMETRY CallSymmetry
INVARIANTS
  ExecutedOnce
  DeliveredIsPaid
  EvidenceKept
  UnexpiredHoldPays
CHECK_DEADLOCK FALSE
