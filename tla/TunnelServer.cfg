\* Two of each contend for one slot of either kind.
SPECIFICATION FairSpec
CONSTANTS
  Tunnels = {t1, t2}
  Dials = {d1, d2}
  Raws = {r1, r2}
  StreamSlots = 1
  RawSlots = 1
  None = None
INVARIANTS
  NewestStays
  NoOrphanStream
PROPERTIES
  SupersededEnds
  DialReturns
