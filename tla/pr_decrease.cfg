SPECIFICATION Spec
CONSTANTS
  Conns = {"p", "q"}
  Checksums = {"a", "b", "c"}
  NoValue = NoValue
  Scenarios <- twoBuilds
PROPERTY NeverDecreases
