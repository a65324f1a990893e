SPECIFICATION GatewaySpec
CONSTANTS
  k1 = k1
  k2 = k2
  t1 = t1
  t2 = t2
  c1 = c1
  c2 = c2
  c3 = c3
  p1 = p1
  p2 = p2
  Key <- MCKey
  Trace <- MCTrace
  Call <- TwoCalls
  Payment = {}
  TraceOf <- OwnTrace
  After <- Independent
  Candidates = 2
  AllowFallback = TRUE
  Amount = {1}
  PromoCredit = 1
  Period = {}
  Quantity = {}
  AddonPrice = 1
  AddonBytes = 1
  PlanPrice = 1
  None = None
PROPERTIES
  UsesWallet
  CallsEnd
  HoldsDrain
CHECK_DEADLOCK FALSE
