\* A member freed by handle_delete_servers while the event loop still holds it.
CONSTANTS
  NSlots = 3
  NInit = 2
  MaxC = 1
  Load <- MCLoad
  Hashes = {0, 1}
  NoURI = NoURI
  Algorithm = "LC"
SPECIFICATION Spec
CONSTRAINT MCBound
INVARIANT FreedSlotUnreferenced
