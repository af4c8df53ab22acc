SPECIFICATION Spec
CONSTANTS
  x = x
  y = y
  d = d
  Tunnels = {1, 2}
  Existing = {1}
  Procs = {p1}
  Secrets = {s1, s2}
  Policies = {x, y}
  Domains = {}
  NoDomain = NoDomain
  Commands <- MCReapply
  None = None
  MaxFaults = 0
INVARIANT
  ApplyIdempotent
