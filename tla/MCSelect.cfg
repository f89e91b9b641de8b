\* RR, HASH, LC and LL switched by cmd_algorithm over three members with maxc 2 and one
\* hash slot; servers failing and on standby at will.
CONSTANTS
  NMembers = 3
  NClones = 0
  MaxC = 2
  Load <- MCLoad
  SessionWeight = 1
  Algorithms = {"RR", "HASH", "LC", "LL"}
  CloneMode = FALSE
  Hashes = {0}
  NoURI = NoURI
  StandbyKinds = {"member"}
SPECIFICATION Spec
INVARIANTS TypeOK UsageMatchesTable
PROPERTIES MemberChoiceValid RoundRobinRotates LeastConnections LeastLoad
