\* One caller, again and again, and two daemons; up to two crashes or failed writes.
SPECIFICATION FairSpec
CONSTANTS
  Clis = {c1}
  Daemons = {d1, d2}
  MaxFaults = 2
  None = None
INVARIANTS
  Exclusive
PROPERTIES
  DaemonComesUp
