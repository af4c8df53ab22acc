\* One tunnel is there at the start, apply may create the other.
SPECIFICATION PartsSpec
CONSTANTS
  Parts = {"change", "resources"}
  x = x
  y = y
  d = d
  Tunnels = {1, 2}
  Existing = {1}
  Procs = {p1, p2}
  Secrets = {s1, s2, s3}
  Policies = {x, y}
  Domains = {d}
  NoDomain = NoDomain
  Commands <- MCCommands
  None = None
  MaxFaults = 1
  Absent = Absent
  Foreign = Foreign
  ResourceConfigs <- MCConfigs
  \* The Ingress or the Secret of the domain's certificate may be somebody else's.
  Squatted = {"ingress", "tls"}
  Perils = {"crash", "rival", "lost"}
  MaxMishaps = 2
INVARIANTS
  NoWaitCycle
  RecordAgrees
  CleanupComplete
  CallsAreOneStep
PROPERTIES
  ConfirmedIsServed
  UncommittedChangesNothing
  ApplyIsUndone
  OthersUntouched
SYMMETRY Symmetry
