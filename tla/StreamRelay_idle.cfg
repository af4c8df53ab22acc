\* Data may move until just before the deadline.
SPECIFICATION Spec
CONSTANTS
  Grace = 1
  IdleTimeout = 3
  MaxSent = 3
CHECK_DEADLOCK FALSE
INVARIANTS
  OnlyIdleExpires
