\* Two processes, any commands, failing reads; beside it one dial and one relay.
SPECIFICATION TunnelSpec
CONSTANTS
  Procs = {p1, p2}
  Commands = {"foreground", "background", "stop", "start", "cleanup", "remove", "recover", "scrub"}
  ReadsFail = TRUE
  None = None
  Daemon = Daemon
  Grace = 1
  IdleTimeout = 1
  MaxSent = 2
CHECK_DEADLOCK FALSE
INVARIANTS
  StoppedIsPaused
  RelayNothingDropped
PROPERTIES
  RecordRemovedLast
  RecoverySpares
  CommandsEnd
  ForegroundEnds
  RelayFailureEnds
