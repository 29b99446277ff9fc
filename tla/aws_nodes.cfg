SPECIFICATION FairSpec
CONSTANTS
  Machines = {m1}
  Jobs = {j1}
  Users = {u1, u2}
  NoMachine = NoMachine
  Idle = 2
  MaxStarts = 2
  Faults = {"reply", "ec2", "crash"}
  MaxFaults = 1
INVARIANTS TypeOK StoppedHoldsNoWork
PROPERTIES StartedStaysUp IdleIsStopped ReservedEnds
CHECK_DEADLOCK FALSE
