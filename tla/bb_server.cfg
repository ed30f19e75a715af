SPECIFICATION FairSpec
CONSTANTS
  Clients = {"a", "b", "k"}
  KillClients = {"k"}
  Retries <- attempts
  ServerIds = {"s1", "s2"}
  Inodes <- inodes
  Backlog = 2
  Scenarios <- scenarios
INVARIANTS TypeOK LockExclusive SocketStays CleanHandover StopsOwnBuild
PROPERTY EveryoneEnds
CHECK_DEADLOCK FALSE
