SPECIFICATION EquivFairSpec
CONSTANTS
  Tasks <- movedTasks
  Depends <- movedDepends
  SetsceneTids <- movedSetscene
  Targets = {"image"}
  HardDepsRev <- movedHard
  Hash <- movedHash
  Rank <- movedRank
  Stamp <- movedStamp
  Noexec = {}
  IgnoreTasks = {}
  NumberTasks = 2
  Options <- carryOn
  InitStamped <- none
  InitSqStamped <- none
  WorkersMayDie = FALSE
  SameRecipe <- movedRecipe
  FoundStamps <- movedFound
INVARIANTS EquivTypeOK NeverNeedsRerun NoConcurrentRebuild
PROPERTIES FreshBuild Terminates ImplementsTaskGraph
