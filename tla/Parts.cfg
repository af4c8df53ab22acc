SPECIFICATION PartsSpec
CONSTANTS
  None = None
  Users = {u1, u2, u3}
  NoFile = NoFile
  Short = Short
  MaxCrashes = 2
  Procs = {"p1", "p2"}
  MaxFaults = 2
  \* Three clients compete for two buckets, one of which is the overflow's.
  Requests = {"r1", "r2"}
  Clients = {"c1", "c2", "c3"}
  Overflow = "overflow"
  Limit = 1
  Window = 2
  MaxBuckets = 2
  Threshold = 1
  PruneInterval = 1
  MaxDelay = 2
  MaxClock = 5
  \* More good headers than the cache may hold, and the rings wrap twice.
  Goroutines = {"g1", "g2"}
  Headers = {"h1", "h2", "h3", "h4"}
  NoHeader = "none"
  CacheMax = 1
  LogCap = 2
  AuditCap = 2
  MaxRequests = 5
  \* A login and two renewals, of which two may meet.
  Profile = "work"
  Workspaces = {"own", "team"}
  Default = "own"
  MaxGen = 3
  Names = {"n1", "n2"}
  Tokens = {"t1", "t2"}
  Limits = {"l1", "l2"}
  Ups = {"u1", "u2"}
  Tunnels = {"t1", "t2"}
  MaxSeconds = 1
  \* One of the two domain commands may wait, and one domain moves once.
  Waiters = {"p1"}
  Domains = {"d1", "d2"}
  NoDomain = "none"
  MaxMoves = 1
  \* On the command line a login times out before its code expires, or after it has been
  \* slowed down; in the console two requests are at work while either expires.
  Codes = {"c1", "c2"}
  Profiles = {"work", "home"}
  Handlers = {"h1", "h2"}
  Lifetime = 3
  Interval = 1
  MaxWait = 2
  MaxSlow = 2
  MaxTime = 4
  Parts = {"limiter", "traffic", "credentials", "key",
           "command line", "console", "links", "domain", "project"}
CHECK_DEADLOCK FALSE
INVARIANTS
  TrafficBounded
  CredentialsUsable
  KeyOpensAll
  LoginSound
  LinksHold
PROPERTIES
  LimiterHolds
  DomainHolds
  StateKept
