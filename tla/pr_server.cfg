SPECIFICATION Spec
CONSTANTS
  Conns = {"p", "q"}
  Checksums = {"a", "b", "c"}
  NoValue = NoValue
  Scenarios <- scenarios
INVARIANTS TypeOK NoSharing
PROPERTY NewIsHigher
