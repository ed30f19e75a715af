SPECIFICATION Spec
CONSTANTS
  Tasks <- twinTasks
  Depends <- twinDepends
  SetsceneTids <- twinSetscene
  Targets = {"image"}
  HardDepsRev <- twinHard
  Hash <- twinHash
  Rank <- twinRank
  Stamp <- twinStamp
  Noexec = {"prepare"}
  IgnoreTasks = {"build_a"}
  NumberTasks = 2
  Options <- twinOptions
  InitStamped <- none
  InitSqStamped <- none
  WorkersMayDie = TRUE
INVARIANTS DependencyOrder NoConcurrentRebuild KeepsGoing
PROPERTY ImplementsTaskGraph
