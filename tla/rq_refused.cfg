SPECIFICATION FairSpec
CONSTANTS
  Tasks <- miniTasks
  Depends <- miniDepends
  SetsceneTids <- miniSetscene
  Targets = {"image"}
  HardDepsRev <- miniFree
  Hash <- miniHash
  Rank <- miniRank
  Stamp <- miniStamp
  Noexec = {}
  IgnoreTasks = {"image"}
  NumberTasks = 2
  Options <- miniOptions
  InitStamped <- none
  InitSqStamped <- none
  WorkersMayDie = FALSE
PROPERTY Terminates
