SPECIFICATION FairSpec
CONSTANTS
  export = export
  copy = copy
  copy2 = copy2
  thumb = thumb
  n1 = n1
  n2 = n2
  Jobs = {export, copy}
  Nodes = {n1}
  NoJob = NoJob
  NoNode = NoNode
  Parent <- MCParent
  Deps <- MCDeps
  Tagged = {}
  Home <- MCHome
  Priority <- MCPriority
  LightJobs = {}
  CanRun <- MCCanRun
  RestartFrom = {"failed", "success", "waiting"}
  PromptWrapper = FALSE
  Budget <- MCBudget
  MaxLoss = 2
  MaxCrash = 1
  MaxLapse = 1
  MaxUser = 0
PROPERTIES StartedJobsSettle ResultsAreDelivered
