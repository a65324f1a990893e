SPECIFICATION FairOutboxSpec
CONSTANTS
  e1 = e1
  e2 = e2
  h1 = h1
  h2 = h2
  p1 = p1
  p2 = p2
  Event <- TwoEvents
  Handler <- TwoHandlers
  HandlersOf <- SecondUnhandled
  Polled <- TwoEvents
  Process <- TwoProcesses
  BatchSize = 2
  MaxAttempts = 2
  None = None
INVARIANTS
  OutboxTypeOK
  ProcessedIsHandled
  EffectsBounded
  SharedByOverrun
PROPERTY
  EventsSettle
CHECK_DEADLOCK FALSE
