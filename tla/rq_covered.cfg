SPECIFICATION Spec
CONSTANTS
  Tasks <- twinTasks
  Depends <- twinDepends
  SetsceneTids <- twinSetscene
  Targets = {"image"}
  HardDepsRev <- twinHard
  Hash <- twinHash
  Rank <- twinRank
  Stamp <- twinStamp
  Noexec = {}
  IgnoreTasks = {}
  NumberTasks = 2
  Options <- carryOn
  InitStamped <- none
  InitSqStamped <- none
  WorkersMayDie = FALSE
INVARIANTS CoveredOrNot
