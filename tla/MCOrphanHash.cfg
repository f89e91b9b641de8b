\* URI hash: a client that is never given a member.
CONSTANTS
  Sessions <- MCSessions
  Members <- MCMembers
  Clones <- MCClones
  None = None
  m1 = m1
  m2 = m2
  MESSAGE_SIZE_LIMIT = 2
  MaxConn = 1
  Algorithm = "HASH"
  CloneMode = FALSE
  MemberOutcomes = {"ok"}
  CloneOutcomes = {"ok"}
  MaxLeaked = 1
SPECIFICATION Spec
CONSTRAINT MCSingleRelease
INVARIANTS NoOrphanSession
