\* One expose and one stop.
SPECIFICATION Spec
CONSTANTS
  Procs = {p1, p2}
  Commands = {"background", "foreground", "stop"}
  ReadsFail = FALSE
  None = None
  Daemon = Daemon
CHECK_DEADLOCK FALSE
INVARIANTS
  StopPreserves
