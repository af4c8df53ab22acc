SPECIFICATION Spec
CONSTANTS
  Timeout = 7
  Interval = 2
  MaxTime = 12
CHECK_DEADLOCK FALSE
INVARIANTS
  TerminalOwnsTunnel
