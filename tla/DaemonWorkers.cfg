\* One tunnel, two goroutine identities, one change of configuration, any number
\* of crashes; no symmetry, for the temporal properties.
SPECIFICATION FairSpec
CONSTANTS
  Tunnels = {t1}
  Workers = {w1, w2}
  MaxConfig = 2
  None = None
INVARIANTS
  OneLiveWorker
PROPERTIES
  StopSticks
  Disconnects
  Readopts
  DropsOldConfig
