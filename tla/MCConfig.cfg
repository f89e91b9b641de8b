\* Files of up to six lines over a small alphabet: two sections fit, each with an address.
CONSTANTS
  MaxLines = 6
  MAXSERVERS = 1
  A = A
  IPs = {A}
  Garbage = Garbage
  Lines <- MCLines
SPECIFICATION Spec
INVARIANT ServersAsDeclared
CHECK_DEADLOCK FALSE
