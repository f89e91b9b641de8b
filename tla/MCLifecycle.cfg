\* Both modes: a master that starts stopping leaves no process behind.
CONSTANTS
  Modes = {"foreground", "daemon"}
SPECIFICATION Spec
CHECK_DEADLOCK FALSE
PROPERTIES ShutdownCompletes
