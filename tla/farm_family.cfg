SPECIFICATION Spec
CONSTANTS
  export = export
  copy = copy
  copy2 = copy2
  thumb = thumb
  n1 = n1
  n2 = n2
  Jobs = {export, copy, copy2, thumb}
  Nodes = {n1, n2}
  NoJob = NoJob
  NoNode = NoNode
  Parent <- MCParent
  Deps <- MCDeps
  Tagged = {}
  Home <- MCHome
  Priority <- MCPriority
  LightJobs = {thumb}
  CanRun <- OneExporter
  RestartFrom = {"failed", "success", "waiting"}
  PromptWrapper = TRUE
  Budget <- MCBudget
  MaxLoss = 0
  MaxCrash = 0
  MaxLapse = 0
  MaxUser = 0
SYMMETRY SymmetryOfCopies
INVARIANTS SubmitUnique DependenciesHold TerminalMeansStopped
PROPERTY VerdictWaitsForChildren
