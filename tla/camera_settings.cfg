SPECIFICATION Spec
CONSTANTS
  n1 = n1
  r1 = r1
  r2 = r2
  Nodes = {n1}
  Handlers = {r1, r2}
  Values = {0, 1}
  MaxRequests = 3
  MaxEvents = 3
SYMMETRY Symmetry
INVARIANTS TypeOK  
CHECK_DEADLOCK FALSE
