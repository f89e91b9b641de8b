\* Least connections with cloning: connect failures after socket().
CONSTANTS
  Sessions <- MCSessions
  Members <- MCMembers
  Clones <- MCClones
  None = None
  m1 = m1
  m2 = m2
  MESSAGE_SIZE_LIMIT = 2
  MaxConn = 1
  Algorithm = "LC"
  CloneMode = TRUE
  MemberOutcomes = {"ok", "socket", "setup", "epoll"}
  CloneOutcomes = {"ok", "socket", "setup", "bind", "epoll"}
  MaxLeaked = 1
SPECIFICATION Spec
CONSTRAINT MCSingleRelease
INVARIANTS NoFdLeak
