\* A deleted member comes back: check_server_state writes its verdict over an admin delete.
CONSTANTS
  NSlots = 3
  NInit = 2
  MaxC = 1
  Load <- MCLoad
  Hashes = {0, 1}
  NoURI = NoURI
  Algorithm = "LC"
SPECIFICATION Spec
CONSTRAINT MCBound
PROPERTIES NeverRevived
