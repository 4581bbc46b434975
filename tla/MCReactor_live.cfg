CONSTANTS
  e1 = e1
  e2 = e2
  e3 = e3
  u1 = u1
  u2 = u2
  Event = {e1, e2}
  User = {u1}
  ReactorThread = rt
  None = None
  EventType <- SockTimer
  Holders <- Shared
  CbOwned = {}
  Kept = {e2}
  Masks <- OnlyFirst
  Destroyers = {u1}
  max_events = 2
  loops_per_gc = 2
SPECIFICATION FairSpec
PROPERTIES
  Collected
  Served
  DestroyReturns
CHECK_DEADLOCK FALSE
