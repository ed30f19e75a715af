SPECIFICATION FairSpec
CONSTANTS
  Conns = {"c", "d"}
  Taskhashes = {"a", "b", "t"}
  Outhashes = {"x", "y"}
  Unihashes = {"a", "b", "up"}
  Marks = {"m", "n"}
  NoMark = NoMark
  NoValue = NoValue
  MaxQueue = 1
  Scenarios <- scenarios
INVARIANTS TypeOK AnswersAgree OldestDecides
PROPERTIES SweepKeeps WaitEnds
