SPECIFICATION FairSpec
CONSTANTS
  NumberOfTasks = 5
  Tasks <- allTasks
  Graphs <- allGraphs
  TargetSets <- oneTarget
INVARIANTS TypeOK ResultIsMeant NeverBadlyWrong
PROPERTY Terminates
