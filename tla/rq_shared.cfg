SPECIFICATION FairSpec
CONSTANTS
  Tasks <- sharedTasks
  Depends <- sharedDepends
  SetsceneTids <- sharedSetscene
  Targets = {"image", "app"}
  HardDepsRev <- sharedFree
  Hash <- sharedHash
  Rank <- sharedRank
  Stamp <- sharedStamp
  Noexec = {}
  IgnoreTasks = {}
  NumberTasks = 2
  Options <- commandLines
  InitStamped <- sharedStamped
  InitSqStamped <- sharedSqStamped
  WorkersMayDie = TRUE
INVARIANTS TypeOK HonestOutcome NoOrphans InputsPresent ThreadLimit
PROPERTY Terminates
