----------------------------- MODULE RateLimiter -----------------------------
(***************************************************************************)
(* The rate limiter of pkg/accesspolicy: fixed windows, one bucket for a   *)
(* client, a table that is bounded, and pruned when it is large.  A        *)
(* request reads the clock before it waits for the mutex                   *)
(* (handlePublicTraffic), so requests may enter in another order than that *)
(* of their times.                                                         *)
(***************************************************************************)
EXTENDS Naturals, FiniteSets, Functions

CONSTANTS Requests,   \* goroutines that serve a request
          Clients,    \* keys: client addresses
          Overflow,   \* rateLimiterOverflowKey
          Limit,      \* allowed in a window
          Window,     \* its length
          MaxBuckets, \* rateLimiterMaxBuckets
          Threshold,  \* rateLimiterPruneThreshold
          Interval,   \* rateLimiterPruneInterval
          MaxDelay,   \* bound: how long a goroutine waits for the mutex
          MaxTime,    \* bound: when the clock stops
          Never       \* the zero time, and a request that is not there

VARIABLES now,       \* the clock
          waiting,   \* the requests that read the clock and wait for the mutex
          buckets,   \* the table: since when, and how many
          lastPrune, \* when it was last pruned
          seen,      \* every bucket as it was when it was last used
          answer     \* whether the last request may pass

vars == <<now, waiting, buckets, lastPrune, seen, answer>>

Keys == Clients \cup {Overflow}
Times == 1..MaxTime
Buckets == [start : Times, count : 1..(Limit + 1)]

TypeOK ==
  /\ now \in Times
  /\ waiting \in [Requests -> [key : Clients, at : Times] \cup {Never}]
  /\ DOMAIN buckets \subseteq Keys /\ \A k \in DOMAIN buckets : buckets[k] \in Buckets
  /\ lastPrune \in Times \cup {Never}
  /\ DOMAIN seen \subseteq Keys
  /\ \A k \in DOMAIN buckets : k \in DOMAIN seen /\ seen[k] = buckets[k]
  /\ answer \in BOOLEAN

Empty == [k \in {} |-> Never]

Init ==
  /\ now = 1
  /\ waiting = [r \in Requests |-> Never]
  /\ buckets = Empty /\ seen = Empty
  /\ lastPrune = Never
  /\ answer = TRUE

Tick ==
  /\ now < MaxTime
  /\ \A r \in Requests : waiting[r] # Never => now < waiting[r].at + MaxDelay
  /\ now' = now + 1
  /\ UNCHANGED <<waiting, buckets, lastPrune, seen, answer>>

Arrive(r, c) ==
  /\ waiting[r] = Never
  /\ waiting' = [waiting EXCEPT ![r] = [key |-> c, at |-> now]]
  /\ UNCHANGED <<now, buckets, lastPrune, seen, answer>>
-----------------------------------------------------------------------------
\* now.Sub(start) >= d, of times that may be in the wrong order.
Past(t, start, d) == t >= start + d

PruneDue(t) ==
  /\ Cardinality(DOMAIN buckets) > Threshold
  /\ lastPrune = Never \/ Past(t, lastPrune, Interval)

\* Fault: a bucket goes as soon as its window is over for whoever looks.
IdleOneWindow(b, t) == Past(t, b.start, Window)

Idle(b, t) == Past(t, b.start, 2 * Window)

Pruned(t) ==
  IF PruneDue(t) THEN Restrict(buckets, {k \in DOMAIN buckets : ~Idle(buckets[k], t)})
  ELSE buckets

\* A new client of a full table uses the bucket that all of them share.
Counted(k, table) ==
  IF k \notin DOMAIN table /\ Cardinality(DOMAIN table) >= MaxBuckets - 1
    THEN Overflow ELSE k

\* A bucket whose window is over at t, or begins after t, begins anew.
Begins(k, table, t) ==
  \/ k \notin DOMAIN table
  \/ Past(t, table[k].start, Window)
  \/ t < table[k].start

\* RateLimiter.Allow; past the limit the count does not matter.  Under the mutex.
Allow(r) ==
  /\ waiting[r] # Never
  /\ LET t     == waiting[r].at
         table == Pruned(t)
         k     == Counted(waiting[r].key, table)
         b     == IF Begins(k, table, t) THEN [start |-> t, count |-> 1]
                  ELSE [table[k] EXCEPT !.count = IF @ > Limit THEN @ ELSE @ + 1]
         Put(f) == [x \in DOMAIN f \cup {k} |-> IF x = k THEN b ELSE f[x]]
     IN  /\ buckets' = Put(table)
         /\ seen' = Put(seen)
         /\ answer' = (b.count <= Limit)
         /\ lastPrune' = IF PruneDue(t) THEN t ELSE lastPrune
  /\ waiting' = [waiting EXCEPT ![r] = Never]
  /\ UNCHANGED now
-----------------------------------------------------------------------------
Next == Tick \/ \E r \in Requests : Allow(r) \/ \E c \in Clients : Arrive(r, c)

Spec == Init /\ [][Next]_vars
-----------------------------------------------------------------------------
(* Properties. *)

\* However many clients come, the table holds its number of buckets, that of the
\* overflow included (access_policy.go:216-222; access_policy_test.go:188).
TableBounded == Cardinality(DOMAIN buckets) <= MaxBuckets

\* No bucket is refilled before its window is over, or by a request from before its
\* window: neither the pruning, by a request of whatever client, nor the pressure of
\* other clients lets a client begin anew (access_policy.go:218-229, 236-246).
NotRefilledBy ==
  \A k \in DOMAIN seen :
    seen'[k] # seen[k] /\ seen'[k].count = 1
      => \/ Past(seen'[k].start, seen[k].start, Window)
         \/ seen'[k].start < seen[k].start

NotRefilled == [][NotRefilledBy]_vars
=============================================================================
