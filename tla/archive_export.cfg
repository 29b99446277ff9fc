SPECIFICATION Spec
CONSTANTS
  t1 = t1
  t2 = t2
  m1 = m1
  m2 = m2
  p1 = p1
  p2 = p2
  r1 = r1
  r2 = r2
  NoPath = NoPath
  NoMachine = NoMachine
  Takes = {t1, t2}
  Machines = {m1, m2}
  NumFiles <- TwoTakes
  Paths = {p1}
  Handlers = {r1, r2}
  MaxExports = 1
  MaxDeletes = 1
  MaxRestarts = 1
  Faults = {"kill", "remove", "crash"}
  MaxFaults = 2
SYMMETRY Symmetry
CONSTRAINT OneTake
INVARIANTS TypeOK DeletedStaysGone
PROPERTIES FootageInCustody CopiedMeansWhole ThumbnailFindsFiles
CHECK_DEADLOCK FALSE
