\* Least connections, no cloning: a response that outlives its member is flushed and the client closed.
CONSTANTS
  Sessions <- MCSessions
  Members <- MCMembers
  Clones <- MCClones
  None = None
  m1 = m1
  m2 = m2
  MESSAGE_SIZE_LIMIT = 2
  MaxConn = 1
  Algorithm = "LC"
  CloneMode = FALSE
  MemberOutcomes = {"ok", "socket", "setup", "epoll"}
  CloneOutcomes = {"ok"}
  MaxLeaked = 1
SPECIFICATION FairSpec
CONSTRAINT MCSingleRelease
PROPERTIES FlushThenClose
