\* Two tunnels, for ScrubCredentials to walk among stale copies and crashes, or
\* one with two states and two secrets.  No symmetry, for the liveness property.
SPECIFICATION LoadSpec
CONSTANTS
  Tunnels = {t1, t2}
  Procs = {p1, p2}
  Secrets = {s1, s2}
  States = {"stopped", "connected"}
  NoSecret = NoSecret
  NoRecord = NoRecord
  Corrupt = Corrupt
  NoCopy = NoCopy
  NoCall = NoCall
  NoProc = NoProc
  Raced = t1
  Adopted = s2
INVARIANTS
  ScrubbedHasNoSecret
PROPERTIES
  MarkKeepsOthersWrites
  ImplementsRegister
  ScrubCompletes
  CallsReturn
