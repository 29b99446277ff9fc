SPECIFICATION Spec
CONSTANTS
  r1 = r1
  r2 = r2
  n1 = n1
  n2 = n2
  Handlers = {r1, r2}
  Nodes = {n1, n2}
  Kinds = {"start", "stop", "single", "session", "shot", "config", "page"}
  MaxRequests = 3
  Faults = {"loss", "crash", "close", "unplug", "lapse", "toggle", "stale"}
  MaxFaults = 1
CONSTRAINT AtMostTwo
SYMMETRY Symmetry
INVARIANTS TypeOK ClipInOneTake FaultStaysOnItsNode TakesNumbered ShotOfSession NoRequestHangs
CHECK_DEADLOCK FALSE
