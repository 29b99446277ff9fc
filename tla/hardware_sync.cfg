SPECIFICATION Spec
CONSTANTS
  Rates = {0, 14, 20, 60, 500}
  Durations = {0, 2000, 30000, 40000}
  DefaultRate = 60
  DefaultDuration = 2000
  BootTime = 6
  MaxFaults = 2
INVARIANTS TypeOK BoxFollowsNode 
CHECK_DEADLOCK FALSE
