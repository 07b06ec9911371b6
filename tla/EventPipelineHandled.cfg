SPECIFICATION Spec
CONSTANTS
  e1 = e1
  e2 = e2
  None = None
  Events <- MCEvents
  Messages = {m1, m2, m3}
  Forwarded <- MCForwarded
  Stuck = {}
  MaxCrashes = 1
SYMMETRY MessageSymmetry
INVARIANT HandledEventIsStored
