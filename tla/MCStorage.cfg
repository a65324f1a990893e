INIT TrackedInit
NEXT TrackedNext
CONSTANTS
  d1 = d1
  d2 = d2
  t = t
  a1 = a1
  Object <- MCObject
  BytesOf <- MCBytes
  Temporary <- MCTemporary
  Included = 2
  Addon <- MCAddon
  AddonBytes = 1
  Call <- MCCall
  Tasks <- MCTasks
INVARIANTS
  UsageMatchesReservations
  QuotaKept
  ObjectsKept
  AvailableIsCharged
  ChargedIsLocated
CHECK_DEADLOCK FALSE
