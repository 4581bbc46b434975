CONSTANTS
  e1 = e1
  e2 = e2
  e3 = e3
  u1 = u1
  u2 = u2
  Event = {e1, e2, e3}
  User = {u1, u2}
  ReactorThread = rt
  None = None
  EventType <- SigUserSock
  Holders <- OneHolder
  CbOwned = {e2, e3}
  Kept = {}
  Masks <- OnlyFirst
  Destroyers = {u2}
  max_events = 2
  loops_per_gc = 2
SPECIFICATION Spec
INVARIANTS
  ReactorNeverSeesFreed
  NoDanglingUdata
PROPERTY DispatchedOncePerSubmit
CHECK_DEADLOCK FALSE
