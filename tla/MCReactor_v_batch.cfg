CONSTANTS
  e1 = e1
  e2 = e2
  e3 = e3
  u1 = u1
  u2 = u2
  Event = {e1}
  User = {u1}
  ReactorThread = rt
  None = None
  EventType <- SockTimer
  Holders <- OneHolder
  CbOwned = {e1}
  Kept = {}
  Masks <- BothAtOnce
  Destroyers = {}
  max_events = 2
  loops_per_gc = 2
SPECIFICATION Spec
INVARIANT ReactorNeverSeesFreed
