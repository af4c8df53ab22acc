---------------------------- MODULE Parts_proofs ----------------------------
(***************************************************************************)
(* Theorems of MCParts' parts, for any values of their constants that its  *)
(* assumptions allow.  A behaviour is one of the part that `part` names:   *)
(* each proof follows that part's steps, and what the others do leaves its *)
(* variables as they are.                                                  *)
(***************************************************************************)
EXTENDS MCParts, SequenceTheorems, FiniteSetTheorems, TLAPS

(* The session key.  Whoever wins the race for the file, no record is encrypted with   *)
(* another key than its.  Who makes the key found no file and keeps everybody else     *)
(* from making one; as long as it has not written it, nobody can have used one, so     *)
(* removing the file orphans nothing.                                                  *)

Using(u) == step[u] = "use"

\* KeyOpensAll, by its two parts.
LEMMA OpensAllParts ==
  KeyOpensAll <=> /\ \A k \in sealed : file = k
                  /\ \A u \in Users : Using(u) => file = key[u]
  BY DEF KeyOpensAll, Using

\* As long as the file holds no key, none is in use and no record was written.
LEMMA NoKeyNoRecord ==
  ASSUME IInv, file \notin Users
  PROVE  sealed = {} /\ \A u \in Users : ~Using(u)
<1>1. \A k \in sealed : k \in Users /\ file = k
  BY OpensAllParts DEF IInv, TypeOK
<1>2. \A u \in Users : Using(u) => file = key[u] /\ key[u] \in Users
  BY OpensAllParts DEF IInv, InHand, Using
<1> QED
  BY <1>1, <1>2

LEMMA KeyBegins == Init => IInv
  BY FileAssumption DEF Init, IInv, TypeOK, OneMaker, InHand, KeyOpensAll

\* A step of one process keeps the invariant.
LEMMA KeyKeeps ==
  ASSUME IInv, NEW u \in Users, Process(u)
  PROVE  IInv'
<1> USE FileAssumption DEF IInv
<1>1. CASE Look(u)
  <2>1. TypeOK'
    BY <1>1 DEF Look, Go, TypeOK
  <2>2. OneMaker' /\ InHand' /\ KeyOpensAll'
    BY <1>1 DEF Look, Go, TypeOK, OneMaker, InHand, KeyOpensAll
  <2> QED BY <2>1, <2>2
<1>2. CASE Read(u)
  <2>1. TypeOK'
    BY <1>2 DEF Read, Uses, TypeOK
  <2>2. OneMaker' /\ InHand' /\ KeyOpensAll'
    BY <1>2 DEF Read, Uses, TypeOK, OneMaker, InHand, KeyOpensAll
  <2> QED BY <2>1, <2>2
<1>3. CASE Create(u)
  <2>1. TypeOK'
    BY <1>3 DEF Create, Go, TypeOK
  <2>2. CASE file = NoFile
    <3>1. sealed = {} /\ \A v \in Users : ~Using(v)
      BY <2>2, NoKeyNoRecord
    <3>2. \A v \in Users : step[v] \notin {"write", "remove"}
      BY <2>2 DEF OneMaker
    <3> QED
      BY <1>3, <2>1, <2>2, <3>1, <3>2
      DEF Create, Go, TypeOK, OneMaker, InHand, KeyOpensAll, Using
  <2>3. CASE file # NoFile
    BY <1>3, <2>1, <2>3 DEF Create, Go, TypeOK, OneMaker, InHand, KeyOpensAll
  <2> QED BY <2>2, <2>3
<1>4. CASE Write(u)
  <2>1. TypeOK'
    BY <1>4 DEF Write, Uses, TypeOK
  <2>2. file = Short /\ \A v \in Users : step[v] \in {"write", "remove"} => v = u
    BY <1>4 DEF Write, OneMaker
  <2>3. sealed = {} /\ \A v \in Users : ~Using(v)
    BY <2>2, NoKeyNoRecord
  <2> QED
    BY <1>4, <2>1, <2>2, <2>3
    DEF Write, Uses, TypeOK, OneMaker, InHand, KeyOpensAll, Using
<1>5. CASE Remove(u)
  <2>1. TypeOK'
    BY <1>5 DEF Remove, Go, TypeOK
  <2>2. file = Short /\ \A v \in Users : step[v] \in {"write", "remove"} => v = u
    BY <1>5 DEF Remove, Go, OneMaker
  <2>3. sealed = {} /\ \A v \in Users : ~Using(v)
    BY <2>2, NoKeyNoRecord
  <2> QED
    BY <1>5, <2>1, <2>2, <2>3
    DEF Remove, Go, TypeOK, OneMaker, InHand, KeyOpensAll, Using
<1>6. CASE Use(u)
  <2>1. key[u] \in Users /\ file = key[u]
    BY <1>6, OpensAllParts DEF Use, Go, InHand, Using
  <2>2. TypeOK'
    BY <1>6, <2>1 DEF Use, Go, TypeOK
  <2>3. \A k \in sealed' : file' = k
    BY <1>6, <2>1, OpensAllParts DEF Use
  <2>4. \A v \in Users : step'[v] = "use" => v # u /\ step[v] = "use" /\ key'[v] = key[v]
    BY <1>6 DEF Use, Go, TypeOK
  <2>5. OneMaker' /\ InHand'
    BY <1>6, <2>4 DEF Use, Go, TypeOK, OneMaker, InHand
  <2>6. KeyOpensAll'
    BY <1>6, <2>3, <2>4, OpensAllParts DEF Use, KeyOpensAll, Using
  <2> QED BY <2>2, <2>5, <2>6
<1>7. CASE Crash(u)
  <2>1. TypeOK'
    BY <1>7 DEF Crash, TypeOK
  <2>2. OneMaker' /\ InHand' /\ KeyOpensAll'
    BY <1>7 DEF Crash, TypeOK, OneMaker, InHand, KeyOpensAll
  <2> QED BY <2>1, <2>2
<1> QED
  BY <1>1, <1>2, <1>3, <1>4, <1>5, <1>6, <1>7 DEF Process

LEMMA KeyStays == IInv /\ UNCHANGED vars => IInv'
  BY DEF IInv, vars, TypeOK, OneMaker, InHand, KeyOpensAll

LEMMA KeySteps == [PartsNext]_all => Next \/ UNCHANGED vars
BY DEF PartsNext, all, keyVars, LimiterRuns, TrafficRuns, CredentialsRun, KeyRuns,
       CommandLineRuns, ConsoleRuns, LinksRun, DomainRuns, ProjectRuns

\* The types hold, one process at a time makes the key, and no record is orphaned
\* (encryption.go:127-182).
THEOREM KeyInvariance == PartsSpec => []IInv
<1>1. PartsInit => IInv
  BY KeyBegins DEF PartsInit
<1>2. IInv /\ [PartsNext]_all => IInv'
  BY KeySteps, KeyKeeps, KeyStays DEF Next
<1> QED
  BY <1>1, <1>2, PTL DEF PartsSpec

\* Every record that was written, and every key in use, is of the key in the file,
\* for any number of processes and deaths (encryption.go:127-182).
THEOREM KeyHolds == PartsSpec => []KeyOpensAll
<1>1. IInv => KeyOpensAll
  BY DEF IInv
<1> QED
  BY <1>1, KeyInvariance, PTL
-----------------------------------------------------------------------------
(* The rate limiter. *)

\* What pruned from the table is over for whoever may still come in: nobody waits for
\* longer than a window.
Forgotten ==
  \A k \in DOMAIN seen : k \notin DOMAIN buckets => clock >= seen[k].start + 2 * Window

Waits(q) ==
  q # None => /\ q.key \in Clients /\ q.at \in Limiter!Times
              /\ q.at <= clock /\ clock <= q.at + MaxDelay

\* Without the bucket of the overflow there is always room for it.
Room == Cardinality(DOMAIN buckets \ {Overflow}) <= MaxBuckets - 1

LimiterInv ==
  /\ clock \in Limiter!Times
  /\ DOMAIN waiting = Requests /\ \A r \in Requests : Waits(waiting[r])
  /\ IsFiniteSet(DOMAIN buckets)
  /\ \A k \in DOMAIN seen : seen[k] \in Limiter!Buckets
  /\ \A k \in DOMAIN buckets : k \in DOMAIN seen /\ seen[k] = buckets[k]
  /\ Forgotten /\ Room

\* The instance's cardinality is the library's.
LEMMA LimiterCounts == ASSUME NEW S PROVE Limiter!Cardinality(S) = Cardinality(S)
BY DEF Limiter!Cardinality, Cardinality

\* Room for the overflow's bucket is the bound of the table.
LEMMA TableHolds ==
  ASSUME IsFiniteSet(DOMAIN buckets), Room
  PROVE  Limiter!TableBounded
<1> USE LimiterAssumption
<1> DEFINE rest == DOMAIN buckets \ {Overflow}
<1>1. IsFiniteSet(rest) /\ Cardinality(rest) <= MaxBuckets - 1 /\ Cardinality(rest) \in Nat
  BY FS_RemoveElement, FS_CardinalityType DEF Room
<1> HIDE DEF rest
<1>2. IsFiniteSet(rest \cup {Overflow}) /\ Cardinality(rest \cup {Overflow}) <= MaxBuckets
  BY <1>1, FS_AddElement
<1>3. Cardinality(rest \cup {Overflow}) \in Nat
  BY <1>2, FS_CardinalityType
<1>4. DOMAIN buckets \subseteq rest \cup {Overflow}
  BY DEF rest
<1>5. Cardinality(DOMAIN buckets) <= Cardinality(rest \cup {Overflow})
  BY <1>2, <1>4, FS_Subset
<1>6. Cardinality(DOMAIN buckets) \in Nat
  BY FS_CardinalityType
<1> QED BY <1>2, <1>3, <1>5, <1>6, LimiterCounts DEF Limiter!TableBounded

LEMMA LimiterBegins == Limiter!Init => LimiterInv
<1> SUFFICES ASSUME Limiter!Init PROVE LimiterInv OBVIOUS
<1> USE LimiterAssumption
<1>1. DOMAIN buckets = {} /\ DOMAIN seen = {}
  BY DEF Limiter!Init, Limiter!Empty
<1>2. IsFiniteSet(DOMAIN buckets) /\ Cardinality(DOMAIN buckets \ {Overflow}) = 0
  <2>1. DOMAIN buckets \ {Overflow} = {}
    BY <1>1
  <2> QED BY <1>1, <2>1, FS_EmptySet
<1>3. Room
  BY <1>2 DEF Room
<1>4. clock \in Limiter!Times
  BY DEF Limiter!Init, Limiter!Times
<1>5. DOMAIN waiting = Requests /\ \A r \in Requests : Waits(waiting[r])
  BY DEF Limiter!Init, Waits
<1> QED BY <1>1, <1>2, <1>3, <1>4, <1>5 DEF LimiterInv, Forgotten

LEMMA LimiterWaits ==
  ASSUME LimiterInv, Limiter!Tick \/ \E r \in Requests, c \in Clients : Limiter!Arrive(r, c)
  PROVE  LimiterInv' /\ seen' = seen
<1> USE LimiterAssumption
<1>1. UNCHANGED <<buckets, seen>>
  BY DEF Limiter!Tick, Limiter!Arrive
<1>2. clock' \in Limiter!Times /\ clock' >= clock
  BY DEF Limiter!Tick, Limiter!Arrive, LimiterInv, Limiter!Times
<1>3. DOMAIN waiting' = Requests
  BY DEF Limiter!Tick, Limiter!Arrive, LimiterInv
<1>4. ASSUME NEW r \in Requests PROVE Waits(waiting[r])'
  <2>1. CASE Limiter!Tick
    <3>1. waiting' = waiting /\ clock' = clock + 1 /\ clock \in Nat
      BY <2>1 DEF Limiter!Tick, LimiterInv, Limiter!Times
    <3>2. waiting[r] # None => clock < waiting[r].at + MaxDelay
      BY <2>1 DEF Limiter!Tick
    <3>3. Waits(waiting[r])
      BY DEF LimiterInv
    <3> QED BY <3>1, <3>2, <3>3 DEF Waits, Limiter!Times
  <2>2. ASSUME NEW q \in Requests, NEW c \in Clients, Limiter!Arrive(q, c)
        PROVE  Waits(waiting[r])'
    <3>1. clock' = clock /\ waiting' = [waiting EXCEPT ![q] = [key |-> c, at |-> clock]]
      BY <2>2 DEF Limiter!Arrive
    <3>2. CASE r = q
      <4>1. waiting'[r] = [key |-> c, at |-> clock]
        BY <3>1, <3>2 DEF LimiterInv
      <4> QED BY <3>1, <4>1 DEF Waits, LimiterInv, Limiter!Times
    <3>3. CASE r # q
      <4>1. waiting'[r] = waiting[r] /\ Waits(waiting[r])
        BY <3>1, <3>3 DEF LimiterInv
      <4> QED BY <3>1, <4>1 DEF Waits
    <3> QED BY <3>2, <3>3
  <2> QED BY <2>1, <2>2
<1>5. Forgotten'
  <2> SUFFICES ASSUME NEW k \in DOMAIN seen, k \notin DOMAIN buckets
               PROVE  clock' >= seen[k].start + 2 * Window
    BY <1>1 DEF Forgotten
  <2>1. clock >= seen[k].start + 2 * Window /\ seen[k].start \in Nat
    BY DEF LimiterInv, Forgotten, Limiter!Buckets, Limiter!Times
  <2>2. clock \in Nat /\ clock' \in Nat
    BY <1>2 DEF LimiterInv, Limiter!Times
  <2> QED BY <1>2, <2>1, <2>2
<1>6. Room'
  BY <1>1 DEF LimiterInv, Room
<1> QED BY <1>1, <1>2, <1>3, <1>4, <1>5, <1>6 DEF LimiterInv

LEMMA LimiterAllows ==
  ASSUME LimiterInv, NEW r \in Requests, Limiter!Allow(r)
  PROVE  LimiterInv' /\ Limiter!NotRefilledBy
<1> USE LimiterAssumption
<1> DEFINE t     == waiting[r].at
           table == Limiter!Pruned(t)
           k     == Limiter!Counted(waiting[r].key, table)
           b     == IF Limiter!Begins(k, table, t) THEN [start |-> t, count |-> 1]
                    ELSE [table[k] EXCEPT !.count = IF @ > Limit THEN @ ELSE @ + 1]
<1>1. /\ buckets' = [x \in DOMAIN table \cup {k} |-> IF x = k THEN b ELSE table[x]]
      /\ seen' = [x \in DOMAIN seen \cup {k} |-> IF x = k THEN b ELSE seen[x]]
      /\ waiting' = [waiting EXCEPT ![r] = None] /\ clock' = clock
  BY DEF Limiter!Allow
<1>2. t \in Nat /\ t \in Limiter!Times /\ t <= clock /\ clock <= t + MaxDelay /\ clock \in Nat
  <2>1. waiting[r] # None /\ Waits(waiting[r]) /\ clock \in Limiter!Times
    BY DEF Limiter!Allow, LimiterInv
  <2>2. t \in Limiter!Times /\ t <= clock /\ clock <= t + MaxDelay
    BY <2>1 DEF Waits
  <2> QED BY <2>1, <2>2 DEF Limiter!Times
<1>3. /\ DOMAIN table \subseteq DOMAIN buckets
      /\ \A x \in DOMAIN table : table[x] = buckets[x]
      /\ \A x \in DOMAIN buckets : x \notin DOMAIN table => t >= buckets[x].start + 2 * Window
  BY DEF Limiter!Pruned, Limiter!Idle, Limiter!Past, Limiter!Restrict
<1>4. /\ IsFiniteSet(DOMAIN table)
      /\ Cardinality(DOMAIN table \ {Overflow}) <= MaxBuckets - 1
      /\ Cardinality(DOMAIN table \ {Overflow}) \in Nat
  <2>1. IsFiniteSet(DOMAIN buckets) /\ IsFiniteSet(DOMAIN buckets \ {Overflow})
    BY FS_RemoveElement DEF LimiterInv
  <2>2. DOMAIN table \ {Overflow} \in SUBSET (DOMAIN buckets \ {Overflow})
    BY <1>3
  <2>3. IsFiniteSet(DOMAIN table)
    BY <1>3, <2>1, FS_Subset
  <2>4. Cardinality(DOMAIN table \ {Overflow}) <= Cardinality(DOMAIN buckets \ {Overflow})
    BY <2>1, <2>2, FS_Subset
  <2>5. IsFiniteSet(DOMAIN table \ {Overflow})
    BY <2>1, <2>2, FS_Subset
  <2> QED
    BY <2>1, <2>3, <2>4, <2>5, FS_CardinalityType DEF LimiterInv, Room
<1>5. k # Overflow /\ k \notin DOMAIN table => Cardinality(DOMAIN table) < MaxBuckets - 1
  <2>1. Cardinality(DOMAIN table) \in Nat
    BY <1>4, FS_CardinalityType
  <2> QED BY <2>1, LimiterCounts DEF Limiter!Counted
<1>6. k \in DOMAIN table => k \in DOMAIN seen /\ seen[k] = table[k] /\ k \in DOMAIN buckets
  BY <1>3 DEF LimiterInv
<1>7. b \in Limiter!Buckets
  <2>1. CASE Limiter!Begins(k, table, t)
    BY <2>1, <1>2 DEF Limiter!Buckets
  <2>2. CASE ~Limiter!Begins(k, table, t)
    <3>1. table[k] \in Limiter!Buckets
      BY <2>2, <1>6 DEF Limiter!Begins, LimiterInv
    <3> QED BY <2>2, <3>1 DEF Limiter!Buckets
  <2> QED BY <2>1, <2>2
<1> HIDE DEF b, table, k, t
<1>8. DOMAIN buckets' = DOMAIN table \cup {k} /\ DOMAIN seen' = DOMAIN seen \cup {k}
  BY <1>1
<1>9. IsFiniteSet(DOMAIN buckets')
  BY <1>4, <1>8, FS_AddElement
<1>10. Room'
  <2>1. CASE k = Overflow \/ k \in DOMAIN table
    <3>1. DOMAIN buckets' \ {Overflow} = DOMAIN table \ {Overflow}
      BY <1>8, <2>1
    <3> QED BY <3>1, <1>4 DEF Room
  <2>2. CASE k # Overflow /\ k \notin DOMAIN table
    <3>1. DOMAIN buckets' \ {Overflow} = (DOMAIN table \ {Overflow}) \cup {k}
      BY <1>8, <2>2
    <3>2. IsFiniteSet(DOMAIN table \ {Overflow})
      BY <1>4, FS_RemoveElement
    <3>3. Cardinality(DOMAIN table \ {Overflow}) <= Cardinality(DOMAIN table)
      BY <1>4, FS_Subset
    <3>4. Cardinality(DOMAIN buckets' \ {Overflow}) = Cardinality(DOMAIN table \ {Overflow}) + 1
      BY <2>2, <3>1, <3>2, FS_AddElement
    <3>5. Cardinality(DOMAIN table) \in Nat
      BY <1>4, FS_CardinalityType
    <3> QED BY <1>4, <1>5, <2>2, <3>3, <3>4, <3>5 DEF Room
  <2> QED BY <2>1, <2>2
<1>12. \A x \in DOMAIN seen' : seen'[x] \in Limiter!Buckets
  BY <1>1, <1>7 DEF LimiterInv
<1>13. \A x \in DOMAIN buckets' : x \in DOMAIN seen' /\ seen'[x] = buckets'[x]
  BY <1>1, <1>3 DEF LimiterInv
<1>14. \A x \in DOMAIN seen :
         x \notin DOMAIN table => clock >= seen[x].start + 2 * Window
  <2> SUFFICES ASSUME NEW x \in DOMAIN seen, x \notin DOMAIN table
               PROVE  clock >= seen[x].start + 2 * Window
    OBVIOUS
  <2>1. seen[x].start \in Nat
    BY DEF LimiterInv, Limiter!Buckets, Limiter!Times
  <2>2. CASE x \notin DOMAIN buckets
    BY <2>2 DEF LimiterInv, Forgotten
  <2>3. CASE x \in DOMAIN buckets
    <3>1. seen[x] = buckets[x] /\ t >= buckets[x].start + 2 * Window
      BY <1>3, <2>3 DEF LimiterInv
    <3> QED BY <1>2, <2>1, <3>1
  <2> QED BY <2>2, <2>3
<1>15. Forgotten'
  <2> SUFFICES ASSUME NEW x \in DOMAIN seen', x \notin DOMAIN buckets'
               PROVE  clock' >= seen'[x].start + 2 * Window
    BY DEF Forgotten
  <2>1. x # k /\ x \notin DOMAIN table /\ x \in DOMAIN seen /\ seen'[x] = seen[x]
    BY <1>1, <1>8
  <2> QED BY <1>1, <1>14, <2>1
<1>16. DOMAIN waiting' = Requests /\ \A q \in Requests : Waits(waiting[q])'
  <2>1. DOMAIN waiting' = Requests
    BY <1>1 DEF LimiterInv
  <2>2. ASSUME NEW q \in Requests PROVE Waits(waiting[q])'
    <3>1. waiting'[q] = None \/ (waiting'[q] = waiting[q] /\ Waits(waiting[q]))
      BY <1>1 DEF LimiterInv
    <3> QED BY <1>1, <3>1 DEF Waits
  <2> QED BY <2>1, <2>2
<1>17. LimiterInv'
  BY <1>1, <1>9, <1>10, <1>12, <1>13, <1>15, <1>16 DEF LimiterInv
<1>18. Limiter!NotRefilledBy
  <2> SUFFICES ASSUME NEW x \in DOMAIN seen, seen'[x] # seen[x], seen'[x].count = 1
               PROVE  \/ Limiter!Past(seen'[x].start, seen[x].start, Window)
                      \/ seen'[x].start < seen[x].start
    BY DEF Limiter!NotRefilledBy
  <2>1. x = k /\ seen'[x] = b
    BY <1>1
  <2>2. seen[k] \in Limiter!Buckets
    BY <2>1 DEF LimiterInv
  <2>3. CASE ~Limiter!Begins(k, table, t)
    <3>1. k \in DOMAIN table
      BY <2>3 DEF Limiter!Begins
    <3>2. seen[k] = table[k] /\ table[k] \in Limiter!Buckets
      BY <1>6, <2>2, <3>1
    <3>3. b = [table[k] EXCEPT !.count = IF @ > Limit THEN @ ELSE @ + 1]
      BY <2>3 DEF b
    <3>4. table[k].count > Limit
      BY <2>1, <3>2, <3>3 DEF Limiter!Buckets
    <3>5. b = table[k]
      BY <3>2, <3>3, <3>4 DEF Limiter!Buckets
    <3> QED BY <2>1, <3>2, <3>5
  <2>4. CASE Limiter!Begins(k, table, t)
    <3>1. seen'[x].start = t
      BY <2>1, <2>4 DEF b
    <3>2. seen[k].start \in Nat
      BY <2>2 DEF Limiter!Buckets, Limiter!Times
    <3>3. CASE k \in DOMAIN table
      <4>1. seen[k] = table[k]
        BY <1>6, <3>3
      <4> QED BY <2>1, <2>4, <3>1, <3>3, <4>1 DEF Limiter!Begins
    <3>4. CASE k \notin DOMAIN table
      <4>1. clock >= seen[k].start + 2 * Window
        BY <1>14, <2>1, <3>4
      <4>2. t >= seen[k].start + Window
        BY <1>2, <3>2, <4>1
      <4> QED BY <2>1, <3>1, <4>2 DEF Limiter!Past
    <3> QED BY <3>3, <3>4
  <2> QED BY <2>3, <2>4
<1> QED BY <1>17, <1>18

LEMMA LimiterStays == LimiterInv /\ UNCHANGED limiterVars => LimiterInv'
BY DEF LimiterInv, limiterVars, Forgotten, Room, Waits

\* A step of the parts is one of the limiter's or leaves it where it is.
LEMMA LimiterSteps == [PartsNext]_all => Limiter!Next \/ UNCHANGED limiterVars
BY DEF PartsNext, all, limiterVars, LimiterRuns, TrafficRuns, CredentialsRun, KeyRuns,
       CommandLineRuns, ConsoleRuns, LinksRun, DomainRuns, ProjectRuns

\* However many requests and clients there are, and whatever the limit, the window and
\* the table's bound, if nobody waits for the mutex longer than a window: the table
\* keeps its bound and no bucket is refilled early (access_policy.go:209-253).
THEOREM LimiterBounded == PartsSpec => LimiterHolds
<1>1. PartsInit => LimiterInv
  BY LimiterBegins DEF PartsInit
<1>2. LimiterInv /\ [PartsNext]_all
        => LimiterInv' /\ [Limiter!NotRefilledBy]_limiterVars
  <2> SUFFICES ASSUME LimiterInv, [PartsNext]_all
               PROVE  LimiterInv' /\ (Limiter!NotRefilledBy \/ UNCHANGED limiterVars)
    OBVIOUS
  <2>1. CASE UNCHANGED limiterVars
    BY <2>1, LimiterStays
  <2>2. CASE Limiter!Tick \/ \E r \in Requests, c \in Clients : Limiter!Arrive(r, c)
    <3>1. LimiterInv' /\ seen' = seen
      BY <2>2, LimiterWaits
    <3>2. Limiter!NotRefilledBy
      BY <3>1 DEF Limiter!NotRefilledBy
    <3> QED BY <3>1, <3>2
  <2>3. CASE \E r \in Requests : Limiter!Allow(r)
    BY <2>3, LimiterAllows
  <2> QED BY <2>1, <2>2, <2>3, LimiterSteps DEF Limiter!Next
<1>3. LimiterInv => Limiter!TableBounded
  BY TableHolds DEF LimiterInv
<1>4. Limiter!TableBounded' /\ [Limiter!NotRefilledBy]_limiterVars
        => [part = "limiter" => Limiter!NotRefilledBy /\ Limiter!TableBounded']_limiterVars
  OBVIOUS
<1> QED BY <1>1, <1>2, <1>3, <1>4, PTL DEF PartsSpec, LimiterHolds
-----------------------------------------------------------------------------
(* The cache of good headers. *)

LEMMA TrafficCounts == ASSUME NEW S PROVE Traffic!Cardinality(S) = Cardinality(S)
BY DEF Traffic!Cardinality, Cardinality

\* How many are at a place.
Crowd(f, p) == Cardinality({g \in Goroutines : f[g] = p})

\* One goes from p to q, and f becomes h.
Goes(f, g, p, q, h) ==
  /\ f \in [Goroutines -> Traffic!Places] /\ g \in Goroutines /\ p # q
  /\ f[g] = p /\ h = [f EXCEPT ![g] = q]

LEMMA CrowdMoves ==
  ASSUME NEW f, NEW h, NEW g, NEW p, NEW q, Goes(f, g, p, q, h)
  PROVE  /\ Crowd(h, q) = Crowd(f, q) + 1
         /\ Crowd(h, p) = Crowd(f, p) - 1 /\ Crowd(f, p) > 0
         /\ \A x : x # q /\ x # p => Crowd(h, x) = Crowd(f, x)
<1> USE TrafficAssumption
<1> DEFINE There(e, z) == {x \in Goroutines : e[x] = z}
<1>1. \A e, z : IsFiniteSet(There(e, z))
  <2> SUFFICES ASSUME NEW e, NEW z PROVE IsFiniteSet(There(e, z)) OBVIOUS
  <2>1. There(e, z) \in SUBSET Goroutines
    OBVIOUS
  <2> QED BY <2>1, FS_Subset
<1>2. There(h, q) = There(f, q) \cup {g} /\ g \notin There(f, q)
  BY DEF Goes
<1>3. There(h, p) = There(f, p) \ {g} /\ g \in There(f, p)
  BY DEF Goes
<1>4. \A x : x # q /\ x # p => There(h, x) = There(f, x)
  BY DEF Goes
<1> HIDE DEF There
<1>5. Cardinality(There(h, q)) = Cardinality(There(f, q)) + 1
  BY <1>1, <1>2, FS_AddElement
<1>6. Cardinality(There(h, p)) = Cardinality(There(f, p)) - 1
  BY <1>1, <1>3, FS_RemoveElement
<1>7. Cardinality(There(f, p)) \in Nat /\ Cardinality(There(h, p)) \in Nat
  BY <1>1, FS_CardinalityType
<1>8. Cardinality(There(f, p)) > 0
  BY <1>6, <1>7
<1> QED BY <1>4, <1>5, <1>6, <1>8 DEF Crowd, There

\* Three sets that are apart in another.
LEMMA ThreeApart ==
  ASSUME NEW S, IsFiniteSet(S), NEW P \in SUBSET S, NEW Q \in SUBSET S, NEW R \in SUBSET S,
         P \cap Q = {}, P \cap R = {}, Q \cap R = {}
  PROVE  Cardinality(P) + Cardinality(Q) + Cardinality(R) <= Cardinality(S)
<1>1. IsFiniteSet(P) /\ IsFiniteSet(Q) /\ IsFiniteSet(R)
  BY FS_Subset
<1>2. Cardinality({}) = 0
  BY FS_EmptySet
<1>3. /\ Cardinality(P) \in Nat /\ Cardinality(Q) \in Nat /\ Cardinality(R) \in Nat
  BY <1>1, FS_CardinalityType
<1> DEFINE U == P \cup Q
           W == U \cup R
<1>4. U \cap R = {} /\ W \in SUBSET S
  OBVIOUS
<1>5. IsFiniteSet(U) /\ Cardinality(U) = Cardinality(P) + Cardinality(Q) - Cardinality(P \cap Q)
  BY <1>1, FS_Union
<1> HIDE DEF U
<1>6. Cardinality(W) = Cardinality(U) + Cardinality(R) - Cardinality(U \cap R)
  BY <1>1, <1>5, FS_Union
<1> HIDE DEF W
<1>7. Cardinality(W) <= Cardinality(S)
  BY <1>4, FS_Subset
<1>8. Cardinality(P \cap Q) = 0 /\ Cardinality(U \cap R) = 0
  BY <1>2, <1>4
<1> QED BY <1>3, <1>5, <1>6, <1>7, <1>8

\* Nobody is at two places.
LEMMA CrowdsApart ==
  ASSUME NEW f
  PROVE  /\ \A p : Crowd(f, p) \in Nat
         /\ Cardinality(Goroutines) \in Nat \ {0}
         /\ \A p, q, r : p # q /\ q # r /\ p # r =>
              Crowd(f, p) + Crowd(f, q) + Crowd(f, r) <= Cardinality(Goroutines)
<1> USE TrafficAssumption
<1> DEFINE There(p) == {x \in Goroutines : f[x] = p}
<1>1. \A p : IsFiniteSet(There(p)) /\ Cardinality(There(p)) \in Nat
  <2> SUFFICES ASSUME NEW p PROVE IsFiniteSet(There(p)) /\ Cardinality(There(p)) \in Nat
    OBVIOUS
  <2>1. There(p) \in SUBSET Goroutines
    OBVIOUS
  <2> HIDE DEF There
  <2> QED BY <2>1, FS_Subset, FS_CardinalityType
<1>2. Cardinality(Goroutines) \in Nat \ {0}
  BY FS_CardinalityType, FS_EmptySet
<1>3. ASSUME NEW p, NEW q, NEW r, p # q, q # r, p # r
      PROVE  Crowd(f, p) + Crowd(f, q) + Crowd(f, r) <= Cardinality(Goroutines)
  <2>1. /\ There(p) \in SUBSET Goroutines /\ There(q) \in SUBSET Goroutines
        /\ There(r) \in SUBSET Goroutines
        /\ There(p) \cap There(q) = {} /\ There(p) \cap There(r) = {}
        /\ There(q) \cap There(r) = {}
    BY <1>3
  <2> HIDE DEF There
  <2>2. Cardinality(There(p)) + Cardinality(There(q)) + Cardinality(There(r))
          <= Cardinality(Goroutines)
    BY <2>1, ThreeApart
  <2> QED BY <2>2 DEF Crowd, There
<1>4. \A p : Crowd(f, p) \in Nat
  BY <1>1 DEF Crowd, There
<1> QED BY <1>2, <1>3, <1>4

\* Of the goroutines, l are not about to reset the counter; of these s are about to store
\* a header and a to count theirs; n headers are stored and c counted.  Either all that
\* is stored was stored since the last flush, and the counter waits for its reset; or
\* what is stored and was never counted was lost in resets, each of them of goroutines
\* that are not late any more.
Fits(l, s, a, c, n) ==
  \/ n + s <= l /\ c >= CacheMax
  \/ /\ l >= 1 /\ c + a + s <= CacheMax - 1 + l
     /\ 2 * (n - c - a) <= (l - 1) * (2 * CacheMax - 2 + l)

LEMMA FitsSteps ==
  ASSUME NEW l \in Nat, NEW s \in Nat, NEW a \in Nat, NEW c \in Nat, NEW n \in Nat,
         Fits(l, s, a, c, n)
  PROVE  /\ c >= CacheMax /\ a + s + 1 <= l => Fits(l - 1, s, a, c, 0)
         /\ c < CacheMax /\ a + s + 1 <= l => Fits(l, s + 1, a, c, n)
         /\ s > 0 => Fits(l, s - 1, a + 1, c, n + 1) /\ Fits(l, s - 1, a, c, n)
         /\ a > 0 => Fits(l, s, a - 1, c + 1, n)
BY TrafficAssumption DEF Fits

LEMMA FitsAfterReset ==
  ASSUME NEW l \in Nat, NEW s \in Nat, NEW a \in Nat, NEW c \in Nat, NEW n \in Nat,
         Fits(l, s, a, c, n), a + s <= l
  PROVE  Fits(l + 1, s + 1, a, 0, n)
<1> USE TrafficAssumption
<1>1. l * (2 * CacheMax - 2 + (l + 1))
        = (l - 1) * (2 * CacheMax - 2 + l) + 2 * (CacheMax - 1) + 2 * l
  OBVIOUS
<1>2. 2 * n <= l * (2 * CacheMax - 2 + (l + 1)) + 2 * a
  <2>1. CASE n + s <= l /\ c >= CacheMax
    <3>1. l = 0 \/ l * (2 * CacheMax - 2 + (l + 1)) >= 2 * l
      <4>1. CASE l >= 1
        <5>1. 2 * CacheMax - 2 + (l + 1) >= 2 /\ 2 * CacheMax - 2 + (l + 1) \in Nat
          BY <4>1
        <5> QED BY <4>1, <5>1
      <4> QED BY <4>1
    <3> QED BY <2>1, <3>1
  <2>2. CASE c + a + s <= CacheMax - 1 + l /\
             2 * (n - c - a) <= (l - 1) * (2 * CacheMax - 2 + l)
    BY <1>1, <2>2
  <2> QED BY <2>1, <2>2 DEF Fits
<1> QED BY <1>2 DEF Fits

LEMMA FitsBounds ==
  ASSUME NEW l \in Nat, NEW s \in Nat, NEW a \in Nat, NEW c \in Nat, NEW n \in Nat,
         NEW m \in Nat \ {0}, l <= m, a + s <= l, Fits(l, s, a, c, n)
  PROVE  2 * n <= m * (2 * CacheMax + m - 1)
<1> USE TrafficAssumption
<1>1. m * (2 * CacheMax + m - 1) >= 2 * m
  <2>1. 2 * CacheMax + m - 1 >= 2 /\ 2 * CacheMax + m - 1 \in Nat
    OBVIOUS
  <2> QED BY <2>1
<1>2. l * (2 * CacheMax + l - 1) <= m * (2 * CacheMax + m - 1)
  <2>1. 2 * CacheMax + l - 1 \in Nat /\ 2 * CacheMax + m - 1 \in Nat
    OBVIOUS
  <2>2. \A x, y, u, v \in Nat : x <= y /\ u <= v => x * u <= y * v
    <3>1. \A x, u, v \in Nat : u <= v => x * u <= x * v
      OBVIOUS
    <3>2. \A x, y, v \in Nat : x <= y => x * v <= y * v
      OBVIOUS
    <3> QED BY <3>1, <3>2
  <2> QED BY <2>1, <2>2
<1>3. l * (2 * CacheMax + l - 1)
        = (l - 1) * (2 * CacheMax - 2 + l) + 2 * (CacheMax - 1) + 2 * l
  OBVIOUS
<1> QED BY <1>1, <1>2, <1>3 DEF Fits

Late == Crowd(place, "reset")
CacheFits ==
  Fits(Cardinality(Goroutines) - Late, Crowd(place, "store"), Crowd(place, "add"), count,
       Cardinality(cache))

TrafficTypes ==
  /\ place \in [Goroutines -> Traffic!Places]
  /\ header \in [Goroutines -> Headers \cup {NoHeader}]
  /\ cache \in SUBSET Headers /\ count \in Nat
  /\ \A g \in Goroutines :
       place[g] \in {"count", "reset", "store", "add"} => header[g] \in Headers

CacheInv == TrafficTypes /\ CacheFits

\* What CacheFits is about, as numbers.
LEMMA CacheNumbers ==
  ASSUME TrafficTypes
  PROVE  /\ Late \in Nat /\ Crowd(place, "store") \in Nat /\ Crowd(place, "add") \in Nat
         /\ Cardinality(Goroutines) \in Nat \ {0} /\ Cardinality(Goroutines) - Late \in Nat
         /\ IsFiniteSet(cache) /\ Cardinality(cache) \in Nat
         /\ Late + Crowd(place, "store") + Crowd(place, "add") <= Cardinality(Goroutines)
<1>1. IsFiniteSet(cache) /\ Cardinality(cache) \in Nat
  BY TrafficAssumption, FS_Subset, FS_CardinalityType DEF TrafficTypes
<1>2. /\ Late \in Nat /\ Crowd(place, "store") \in Nat /\ Crowd(place, "add") \in Nat
      /\ Cardinality(Goroutines) \in Nat \ {0}
      /\ Late + Crowd(place, "store") + Crowd(place, "add") <= Cardinality(Goroutines)
  BY CrowdsApart DEF Late
<1> QED BY <1>1, <1>2

\* Room for one more, as long as somebody is elsewhere.
LEMMA SomebodyElse ==
  ASSUME TrafficTypes, NEW g \in Goroutines, place[g] = "count"
  PROVE  Late + Crowd(place, "store") + Crowd(place, "add") + 1 <= Cardinality(Goroutines)
<1> DEFINE f == [place EXCEPT ![g] = "reset"]
<1>1. /\ Crowd(f, "reset") = Crowd(place, "reset") + 1
      /\ Crowd(f, "store") = Crowd(place, "store") /\ Crowd(f, "add") = Crowd(place, "add")
  <2>1. Goes(place, g, "count", "reset", f)
    BY DEF TrafficTypes, Goes
  <2> HIDE DEF f
  <2> QED BY <2>1, CrowdMoves
<1> HIDE DEF f
<1>2. Crowd(f, "reset") + Crowd(f, "store") + Crowd(f, "add") <= Cardinality(Goroutines)
  BY CrowdsApart
<1> QED BY <1>1, <1>2, CacheNumbers DEF Late

LEMMA CacheBegins == Traffic!Init => CacheInv
<1> SUFFICES ASSUME Traffic!Init PROVE CacheInv OBVIOUS
<1>1. TrafficTypes
  BY DEF Traffic!Init, TrafficTypes, Traffic!Places
<1>2. \A p : p # "idle" => Crowd(place, p) = 0
  <2> SUFFICES ASSUME NEW p, p # "idle" PROVE Crowd(place, p) = 0 OBVIOUS
  <2>1. {g \in Goroutines : place[g] = p} = {}
    BY DEF Traffic!Init
  <2> QED BY <2>1, FS_EmptySet DEF Crowd
<1>3. Cardinality(cache) = 0 /\ count = 0
  BY FS_EmptySet DEF Traffic!Init
<1>4. Cardinality(Goroutines) \in Nat \ {0}
  BY CacheNumbers, <1>1
<1>5. \A n \in Nat \ {0} : Fits(n - 0, 0, 0, 0, 0)
  <2> SUFFICES ASSUME NEW n \in Nat \ {0} PROVE Fits(n - 0, 0, 0, 0, 0) OBVIOUS
  <2>1. (n - 1) * (2 * CacheMax - 2 + n) >= 0
    <3>1. n - 1 \in Nat /\ 2 * CacheMax - 2 + n \in Nat
      BY TrafficAssumption
    <3> QED BY <3>1
  <2> QED BY <2>1, TrafficAssumption DEF Fits
<1>6. CacheFits
  BY <1>2, <1>3, <1>4, <1>5 DEF CacheFits, Late
<1> QED BY <1>1, <1>6 DEF CacheInv

\* Steps away from the cache.
LEMMA CacheElsewhere ==
  ASSUME CacheInv, NEW g \in Goroutines,
         Traffic!Arrive(g) \/ Traffic!Authorize(g) \/ Traffic!Proxy(g) \/ Traffic!Audit(g)
  PROVE  CacheInv'
<1>1. UNCHANGED <<cache, count>>
  BY DEF Traffic!Arrive, Traffic!Authorize, Traffic!Proxy, Traffic!Audit
<1>2. PICK q \in Traffic!Places :
        /\ place' = [place EXCEPT ![g] = q] /\ place[g] # q
        /\ place[g] \notin {"reset", "store", "add"} /\ q \notin {"reset", "store", "add"}
        /\ q = "count" => header[g] \in Headers /\ header' = header
  BY DEF Traffic!Arrive, Traffic!Authorize, Traffic!Proxy, Traffic!Audit, Traffic!At,
         Traffic!Go, Traffic!BasicAuth, Traffic!Places
<1>3. header' \in [Goroutines -> Headers \cup {NoHeader}]
  BY DEF CacheInv, TrafficTypes, Traffic!Arrive, Traffic!Authorize, Traffic!Proxy,
         Traffic!Audit
<1>4. \A x \in Goroutines : x # g => header'[x] = header[x]
  BY DEF CacheInv, TrafficTypes, Traffic!Arrive, Traffic!Authorize, Traffic!Proxy,
         Traffic!Audit
<1>5. TrafficTypes'
  BY <1>1, <1>2, <1>3, <1>4 DEF CacheInv, TrafficTypes
<1>6. \A p \in {"reset", "store", "add"} : Crowd(place', p) = Crowd(place, p)
  <2>1. Goes(place, g, place[g], q, place')
    BY <1>2 DEF CacheInv, TrafficTypes, Goes
  <2>2. \A x : x # place[g] /\ x # q => Crowd(place', x) = Crowd(place, x)
    BY <2>1, CrowdMoves
  <2> QED BY <1>2, <2>2
<1>7. CacheFits'
  BY <1>1, <1>6 DEF CacheInv, CacheFits, Late
<1> QED BY <1>5, <1>7 DEF CacheInv

LEMMA CacheSteps ==
  ASSUME CacheInv, NEW g \in Goroutines,
         \/ Traffic!LoadCount(g) \/ Traffic!ResetCount(g)
         \/ Traffic!LoadOrStore(g) \/ Traffic!AddCount(g)
  PROVE  CacheInv'
<1> DEFINE l == Cardinality(Goroutines) - Late
           s == Crowd(place, "store")
           a == Crowd(place, "add")
           n == Cardinality(cache)
<1> USE DEF CacheInv
<1>1. /\ l \in Nat /\ s \in Nat /\ a \in Nat /\ count \in Nat /\ n \in Nat
      /\ a + s <= l /\ Fits(l, s, a, count, n)
      /\ IsFiniteSet(cache) /\ Late \in Nat /\ Cardinality(Goroutines) \in Nat
  BY CacheNumbers DEF TrafficTypes, CacheFits
<1>2. /\ header' = header /\ place[g] \in {"count", "reset", "store", "add"}
      /\ header[g] \in Headers
  BY DEF TrafficTypes, Traffic!LoadCount, Traffic!ResetCount, Traffic!LoadOrStore,
         Traffic!AddCount, Traffic!At
<1>3. TrafficTypes'
  BY <1>1, <1>2 DEF TrafficTypes, Traffic!LoadCount, Traffic!ResetCount, Traffic!LoadOrStore,
         Traffic!AddCount, Traffic!At, Traffic!Go, Traffic!Places
<1> HIDE DEF l, s, a, n
<1> SUFFICES CacheFits'
  BY <1>3
<1>4. CASE Traffic!LoadCount(g)
  <2>1. a + s + 1 <= l
    BY <1>1, <1>4, SomebodyElse, CacheNumbers DEF Traffic!LoadCount, Traffic!At, l, s, a
  <2>2. CASE count >= CacheMax
    <3>1. Goes(place, g, "count", "reset", place') /\ cache' = {} /\ count' = count
      BY <1>4, <2>2
      DEF Traffic!LoadCount, Traffic!Full, Traffic!Go, Traffic!At, TrafficTypes, Goes
    <3>2. Late' = Late + 1 /\ Crowd(place', "store") = s /\ Crowd(place', "add") = a
      BY <3>1, CrowdMoves DEF Late, s, a
    <3>3. Fits(l - 1, s, a, count, 0)
      BY <1>1, <2>1, <2>2, FitsSteps
    <3>4. Cardinality(Goroutines) - Late' = l - 1
      BY <1>1, <3>2 DEF l
    <3>5. Cardinality(cache') = 0
      BY <3>1, FS_EmptySet
    <3> QED BY <3>1, <3>2, <3>3, <3>4, <3>5 DEF CacheFits
  <2>3. CASE ~(count >= CacheMax)
    <3>1. Goes(place, g, "count", "store", place') /\ cache' = cache /\ count' = count
      BY <1>4, <2>3
      DEF Traffic!LoadCount, Traffic!Full, Traffic!Go, Traffic!At, TrafficTypes, Goes
    <3>2. Late' = Late /\ Crowd(place', "store") = s + 1 /\ Crowd(place', "add") = a
      BY <3>1, CrowdMoves DEF Late, s, a
    <3>3. Fits(l, s + 1, a, count, n)
      BY <1>1, <2>1, <2>3, FitsSteps, TrafficAssumption
    <3> QED BY <3>1, <3>2, <3>3 DEF CacheFits, l, n
  <2> QED BY <2>2, <2>3
<1>5. CASE Traffic!ResetCount(g)
  <2>1. Goes(place, g, "reset", "store", place') /\ cache' = cache /\ count' = 0
    BY <1>5 DEF Traffic!ResetCount, Traffic!Go, Traffic!At, TrafficTypes, Goes
  <2>2. Late' = Late - 1 /\ Crowd(place', "store") = s + 1 /\ Crowd(place', "add") = a
    BY <2>1, CrowdMoves DEF Late, s, a
  <2>3. Fits(l + 1, s + 1, a, 0, n)
    BY <1>1, FitsAfterReset
  <2>4. Cardinality(Goroutines) - Late' = l + 1
    BY <1>1, <2>2 DEF l
  <2> QED BY <2>1, <2>2, <2>3, <2>4 DEF CacheFits, n
<1>6. CASE Traffic!LoadOrStore(g)
  <2>1. place[g] = "store" /\ count' = count /\ cache' = cache \cup {header[g]}
    BY <1>6 DEF Traffic!LoadOrStore, Traffic!At
  <2>2. CASE header[g] \in cache
    <3>1. Goes(place, g, "store", "proxy", place') /\ cache' = cache
      BY <1>6, <2>1, <2>2 DEF Traffic!LoadOrStore, Traffic!Go, TrafficTypes, Goes
    <3>2. Late' = Late /\ Crowd(place', "store") = s - 1 /\ Crowd(place', "add") = a /\ s > 0
      BY <3>1, CrowdMoves DEF Late, s, a
    <3>4. Fits(l, s - 1, a, count, n)
      BY <1>1, <3>2, FitsSteps
    <3> QED BY <2>1, <3>1, <3>2, <3>4 DEF CacheFits, l, n
  <2>3. CASE header[g] \notin cache
    <3>1. Goes(place, g, "store", "add", place')
      BY <1>6, <2>1, <2>3 DEF Traffic!LoadOrStore, Traffic!Go, TrafficTypes, Goes
    <3>2. /\ Late' = Late /\ Crowd(place', "store") = s - 1 /\ Crowd(place', "add") = a + 1
          /\ s > 0
      BY <3>1, CrowdMoves DEF Late, s, a
    <3>4. Fits(l, s - 1, a + 1, count, n + 1)
      BY <1>1, <3>2, FitsSteps
    <3>5. Cardinality(cache') = n + 1
      BY <1>1, <2>1, <2>3, FS_AddElement DEF n
    <3> QED BY <2>1, <3>2, <3>4, <3>5 DEF CacheFits, l
  <2> QED BY <2>2, <2>3
<1>7. CASE Traffic!AddCount(g)
  <2>1. Goes(place, g, "add", "proxy", place') /\ count' = count + 1 /\ cache' = cache
    BY <1>7 DEF Traffic!AddCount, Traffic!At, Traffic!Go, TrafficTypes, Goes
  <2>2. Late' = Late /\ Crowd(place', "store") = s /\ Crowd(place', "add") = a - 1 /\ a > 0
    BY <2>1, CrowdMoves DEF Late, s, a
  <2>4. Fits(l, s, a - 1, count + 1, n)
    BY <1>1, <2>2, FitsSteps
  <2> QED BY <2>1, <2>2, <2>4 DEF CacheFits, l, n
<1> QED BY <1>4, <1>5, <1>6, <1>7

LEMMA CacheBound == ASSUME CacheInv PROVE Traffic!CacheBounded
<1> DEFINE l == Cardinality(Goroutines) - Late
           s == Crowd(place, "store")
           a == Crowd(place, "add")
           n == Cardinality(cache)
           m == Cardinality(Goroutines)
<1>1. /\ l \in Nat /\ s \in Nat /\ a \in Nat /\ count \in Nat /\ n \in Nat /\ m \in Nat \ {0}
      /\ l <= m /\ a + s <= l /\ Fits(l, s, a, count, n)
  BY CacheNumbers DEF CacheInv, TrafficTypes, CacheFits
<1> HIDE DEF l, s, a, n, m
<1>2. 2 * n <= m * (2 * CacheMax + m - 1)
  BY <1>1, FitsBounds
<1> QED BY <1>2, TrafficCounts DEF Traffic!CacheBounded, n, m

(* The log and the audit. *)

LogLength == IF nextSeq < LogCap THEN nextSeq ELSE LogCap
AuditLength == IF recorded < AuditCap THEN recorded ELSE AuditCap

\* Slot j of the ring: those behind the start are the older ones.
Slot(j) ==
  IF j > start THEN recorded - AuditLength + (j - start) ELSE recorded - start + j

BooksInv ==
  /\ nextSeq \in Nat /\ logged = Traffic!Newest(LogLength, nextSeq)
  /\ recorded \in Nat /\ start \in 0..(AuditCap - 1) /\ (recorded < AuditCap => start = 0)
  /\ audit \in Seq(Nat) /\ Len(audit) = AuditLength
  /\ \A j \in 1..AuditLength : audit[j] = Slot(j)

LEMMA NewestIsSeq ==
  ASSUME NEW m \in Nat, NEW n \in 0..m
  PROVE  /\ Traffic!Newest(n, m) \in Seq(Nat) /\ Len(Traffic!Newest(n, m)) = n
         /\ \A i \in 1..n : Traffic!Newest(n, m)[i] = m - n + i
<1>1. \A i \in 1..n : m - n + i \in Nat
  OBVIOUS
<1> QED BY <1>1 DEF Traffic!Newest

\* One more, and the oldest gives way.
LEMMA NewestGrows ==
  ASSUME NEW m \in Nat, NEW n \in 0..m
  PROVE  /\ Append(Traffic!Newest(n, m), m + 1) = Traffic!Newest(n + 1, m + 1)
         /\ n > 0 => Append(Tail(Traffic!Newest(n, m)), m + 1) = Traffic!Newest(n, m + 1)
<1> DEFINE s == Traffic!Newest(n, m)
<1>1. s \in Seq(Nat) /\ Len(s) = n /\ \A i \in 1..n : s[i] = m - n + i
  BY NewestIsSeq
<1>2. /\ Traffic!Newest(n + 1, m + 1) \in Seq(Nat) /\ Len(Traffic!Newest(n + 1, m + 1)) = n + 1
      /\ \A i \in 1..(n + 1) : Traffic!Newest(n + 1, m + 1)[i] = m - n + i
  BY NewestIsSeq
<1>3. /\ Traffic!Newest(n, m + 1) \in Seq(Nat) /\ Len(Traffic!Newest(n, m + 1)) = n
      /\ \A i \in 1..n : Traffic!Newest(n, m + 1)[i] = m + 1 - n + i
  BY NewestIsSeq
<1> HIDE DEF s
<1>4. /\ Append(s, m + 1) \in Seq(Nat) /\ Len(Append(s, m + 1)) = n + 1
      /\ \A i \in 1..n : Append(s, m + 1)[i] = s[i]
      /\ Append(s, m + 1)[n + 1] = m + 1
  BY <1>1, AppendProperties
<1>5. Append(s, m + 1) = Traffic!Newest(n + 1, m + 1)
  <2>1. \A i \in 1..(n + 1) : Append(s, m + 1)[i] = Traffic!Newest(n + 1, m + 1)[i]
    BY <1>1, <1>2, <1>4
  <2> QED BY <1>2, <1>4, <2>1, SeqEqual
<1>6. ASSUME n > 0 PROVE Append(Tail(s), m + 1) = Traffic!Newest(n, m + 1)
  <2>1. s # << >>
    BY <1>1, <1>6
  <2>2. /\ Tail(s) \in Seq(Nat) /\ Len(Tail(s)) = n - 1
        /\ \A i \in 1..(n - 1) : Tail(s)[i] = s[i + 1]
    BY <1>1, <2>1, HeadTailProperties
  <2>3. /\ Append(Tail(s), m + 1) \in Seq(Nat) /\ Len(Append(Tail(s), m + 1)) = n
        /\ \A i \in 1..(n - 1) : Append(Tail(s), m + 1)[i] = Tail(s)[i]
        /\ Append(Tail(s), m + 1)[n] = m + 1
    BY <1>6, <2>2, AppendProperties
  <2>4. \A i \in 1..n : Append(Tail(s), m + 1)[i] = Traffic!Newest(n, m + 1)[i]
    BY <1>1, <1>3, <1>6, <2>2, <2>3
  <2> QED BY <1>3, <2>3, <2>4, SeqEqual
<1> QED BY <1>5, <1>6 DEF s

LEMMA BooksBegin == Traffic!Init => BooksInv
<1> SUFFICES ASSUME Traffic!Init PROVE BooksInv OBVIOUS
<1> USE TrafficAssumption
<1>1. nextSeq = 0 /\ recorded = 0 /\ start = 0 /\ logged = << >> /\ audit = << >>
  BY DEF Traffic!Init
<1>2. LogLength = 0 /\ AuditLength = 0
  BY <1>1 DEF LogLength, AuditLength
<1>3. Traffic!Newest(0, 0) = << >>
  BY DEF Traffic!Newest
<1>4. audit \in Seq(Nat) /\ Len(audit) = 0
  BY <1>1
<1> QED BY <1>1, <1>2, <1>3, <1>4 DEF BooksInv

LEMMA LogGrows ==
  ASSUME BooksInv, NEW g \in Goroutines, Traffic!Proxy(g)
  PROVE  BooksInv'
<1> USE TrafficAssumption
<1>1. UNCHANGED <<audit, start, recorded>>
  BY DEF Traffic!Proxy
<1>2. nextSeq' \in Nat /\ logged' = Traffic!Newest(LogLength', nextSeq')
  <2>1. CASE UNCHANGED <<nextSeq, logged>>
    BY <2>1 DEF BooksInv, LogLength
  <2>2. CASE /\ nextSeq' = nextSeq + 1
             /\ logged' = Append(Traffic!Kept(logged, LogCap), nextSeq')
    <3>1. nextSeq \in Nat /\ LogLength \in 0..nextSeq
      BY DEF BooksInv, LogLength
    <3>2. logged = Traffic!Newest(LogLength, nextSeq) /\ Len(logged) = LogLength
      BY <3>1, NewestIsSeq DEF BooksInv
    <3>3. CASE nextSeq < LogCap
      <4>1. LogLength = nextSeq /\ LogLength' = nextSeq + 1
        BY <2>2, <3>1, <3>3 DEF LogLength
      <4>2. logged' = Append(logged, nextSeq + 1)
        BY <2>2, <3>2, <3>3, <4>1 DEF Traffic!Kept
      <4>3. nextSeq \in 0..nextSeq
        BY <3>1
      <4>4. Append(Traffic!Newest(nextSeq, nextSeq), nextSeq + 1)
              = Traffic!Newest(nextSeq + 1, nextSeq + 1)
        BY <3>1, <4>3, NewestGrows
      <4> QED BY <2>2, <3>1, <3>2, <4>1, <4>2, <4>4
    <3>4. CASE ~(nextSeq < LogCap)
      <4>1. LogLength = LogCap /\ LogLength' = LogCap
        BY <2>2, <3>1, <3>4 DEF LogLength
      <4>2. logged' = Append(Tail(logged), nextSeq + 1)
        BY <2>2, <3>2, <4>1 DEF Traffic!Kept
      <4>3. LogCap \in 0..nextSeq /\ LogCap > 0
        BY <3>1, <3>4
      <4>4. Append(Tail(Traffic!Newest(LogCap, nextSeq)), nextSeq + 1)
              = Traffic!Newest(LogCap, nextSeq + 1)
        BY <3>1, <4>3, NewestGrows
      <4> QED BY <2>2, <3>1, <3>2, <4>1, <4>2, <4>4
    <3> QED BY <3>3, <3>4
  <2> QED BY <2>1, <2>2 DEF Traffic!Proxy
<1>3. AuditLength' = AuditLength /\ \A j : Slot(j)' = Slot(j)
  BY <1>1 DEF AuditLength, Slot
<1> QED BY <1>1, <1>2, <1>3 DEF BooksInv

LEMMA AuditGrows ==
  ASSUME BooksInv, NEW g \in Goroutines, Traffic!Audit(g)
  PROVE  BooksInv'
<1> USE TrafficAssumption
<1>1. UNCHANGED <<logged, nextSeq>> /\ recorded' = recorded + 1
  BY DEF Traffic!Audit
<1>2. recorded \in Nat /\ start \in 0..(AuditCap - 1) /\ audit \in Seq(Nat)
      /\ Len(audit) = AuditLength
  BY DEF BooksInv
<1>3. logged' = Traffic!Newest(LogLength', nextSeq') /\ nextSeq' \in Nat
  BY <1>1 DEF BooksInv, LogLength
<1>4. CASE Len(audit) < AuditCap
  <2>1. audit' = Append(audit, recorded + 1) /\ start' = start
    BY <1>1, <1>4 DEF Traffic!Audit
  <2>2. recorded < AuditCap /\ AuditLength = recorded /\ start = 0
    BY <1>2, <1>4 DEF AuditLength, BooksInv
  <2>3. AuditLength' = recorded + 1
    BY <1>1, <1>2, <2>2 DEF AuditLength
  <2>4. /\ audit' \in Seq(Nat) /\ Len(audit') = recorded + 1
        /\ \A j \in 1..recorded : audit'[j] = audit[j]
        /\ audit'[recorded + 1] = recorded + 1
    BY <1>2, <2>1, <2>2, AppendProperties
  <2>5. \A j \in 1..recorded : audit[j] = j
    BY <1>2, <2>2 DEF BooksInv, Slot
  <2>6. \A j \in 1..(recorded + 1) : audit'[j] = j
    BY <1>2, <2>4, <2>5
  <2>7. \A j \in 1..(recorded + 1) : Slot(j)' = j
    BY <1>1, <1>2, <2>1, <2>2, <2>3 DEF Slot
  <2> QED BY <1>1, <1>2, <1>3, <2>1, <2>2, <2>3, <2>4, <2>6, <2>7 DEF BooksInv
<1>5. CASE ~(Len(audit) < AuditCap)
  <2>1. /\ audit' = [audit EXCEPT ![start + 1] = recorded + 1]
        /\ start' = (start + 1) % AuditCap
    BY <1>1, <1>5 DEF Traffic!Audit, Traffic!NextStart
  <2>2. ~(recorded < AuditCap) /\ AuditLength = AuditCap /\ AuditLength' = AuditCap
    BY <1>1, <1>2, <1>5 DEF AuditLength
  <2>3. start' = IF start + 1 = AuditCap THEN 0 ELSE start + 1
    <3>1. CASE start + 1 = AuditCap
      <4>1. AuditCap % AuditCap = 0
        OBVIOUS
      <4> QED BY <2>1, <3>1, <4>1
    <3>2. CASE start + 1 # AuditCap
      <4>1. start + 1 \in 0..(AuditCap - 1)
        BY <1>2, <3>2
      <4>2. (start + 1) % AuditCap = start + 1
        BY <4>1
      <4> QED BY <2>1, <3>2, <4>2
    <3> QED BY <3>1, <3>2
  <2>4. /\ audit' \in Seq(Nat) /\ Len(audit') = AuditCap
        /\ \A j \in 1..AuditCap :
             audit'[j] = IF j = start + 1 THEN recorded + 1 ELSE audit[j]
    <3>1. audit \in [1..AuditCap -> Nat]
      BY <1>2, <2>2
    <3>2. audit' \in [1..AuditCap -> Nat]
      BY <1>2, <2>1, <3>1
    <3> QED BY <1>2, <2>1, <3>1, <3>2
  <2>5. \A j \in 1..AuditCap :
          audit[j] = IF j > start THEN recorded - AuditCap + (j - start)
                     ELSE recorded - start + j
    BY <2>2 DEF BooksInv, Slot
  <2>6. ASSUME NEW j \in 1..AuditCap
        PROVE  Slot(j)' = IF j > start' THEN recorded + 1 - AuditCap + (j - start')
                          ELSE recorded + 1 - start' + j
    <3>1. start' \in Nat
      BY <1>2, <2>3
    <3> QED BY <1>1, <1>2, <2>2, <3>1 DEF Slot
  <2>7. ASSUME NEW j \in 1..AuditCap PROVE audit'[j] = Slot(j)'
    <3> DEFINE new == audit'[j]
    <3>a. new = IF j = start + 1 THEN recorded + 1 ELSE audit[j]
      BY <2>4
    <3>b. audit[j] = IF j > start THEN recorded - AuditCap + (j - start)
                     ELSE recorded - start + j
      BY <2>5
    <3>c. start' \in Nat
      BY <1>2, <2>3
    <3> HIDE DEF new
    <3> SUFFICES new = Slot(j)'
      BY DEF new
    <3>1. CASE start + 1 = AuditCap
      <4>1. Slot(j)' = recorded + 1 - AuditCap + j
        BY <2>3, <2>6, <3>1
      <4>2. CASE j = start + 1
        BY <1>2, <3>1, <3>a, <4>1, <4>2
      <4>3. CASE j # start + 1
        <5>1. ~(j > start)
          BY <1>2, <3>1, <4>3
        <5> QED BY <1>2, <3>1, <3>a, <3>b, <4>1, <4>3, <5>1
      <4> QED BY <4>2, <4>3
    <3>2. CASE start + 1 # AuditCap
      <4>1. start' = start + 1
        BY <2>3, <3>2
      <4>2. CASE j = start + 1
        BY <1>2, <2>6, <3>a, <4>1, <4>2
      <4>3. CASE j # start + 1
        <5>1. CASE j > start
          BY <1>2, <2>6, <3>a, <3>b, <4>1, <4>3, <5>1
        <5>2. CASE ~(j > start)
          BY <1>2, <2>6, <3>a, <3>b, <4>1, <4>3, <5>2
        <5> QED BY <5>1, <5>2
      <4> QED BY <4>2, <4>3
    <3> QED BY <3>1, <3>2
  <2>8. start' \in 0..(AuditCap - 1)
    BY <1>2, <2>3
  <2> QED BY <1>1, <1>2, <1>3, <2>2, <2>4, <2>7, <2>8 DEF BooksInv
<1> QED BY <1>4, <1>5

LEMMA BooksHold == ASSUME BooksInv PROVE Traffic!BooksAreRecent
<1> USE TrafficAssumption
<1>1. recorded \in Nat /\ start \in 0..(AuditCap - 1) /\ audit \in Seq(Nat)
      /\ Len(audit) = AuditLength /\ DOMAIN audit = 1..AuditLength
      /\ AuditLength \in 0..recorded /\ AuditLength \in 0..AuditCap
  BY DEF BooksInv, AuditLength
<1>2. ASSUME NEW i \in 1..AuditLength
      PROVE  audit[((start + i - 1) % Len(audit)) + 1] = recorded - AuditLength + i
  <2> DEFINE k == start + i - 1
  <2>1. k \in Nat /\ AuditLength > 0
    BY <1>1
  <2>2. AuditLength = AuditCap \/ start = 0
    BY <1>1 DEF BooksInv, AuditLength
  <2>3. CASE k < AuditLength
    <3>1. k % Len(audit) = k
      BY <1>1, <2>1, <2>3
    <3>2. audit[k + 1] = Slot(k + 1)
      BY <1>1, <2>1, <2>3 DEF BooksInv
    <3>3. Slot(k + 1) = recorded - AuditLength + i
      BY <1>1 DEF Slot
    <3> QED BY <3>1, <3>2, <3>3
  <2>4. CASE ~(k < AuditLength)
    <3>1. AuditLength = AuditCap /\ k - AuditLength \in 0..(AuditLength - 1)
      BY <1>1, <2>1, <2>2, <2>4
    <3>2. k % Len(audit) = k - AuditLength
      BY <1>1, <2>1, <3>1
    <3>3. audit[k - AuditLength + 1] = Slot(k - AuditLength + 1)
      BY <1>1, <2>1, <3>1 DEF BooksInv
    <3>4. Slot(k - AuditLength + 1) = recorded - AuditLength + i
      BY <1>1, <3>1 DEF Slot
    <3> QED BY <3>2, <3>3, <3>4
  <2> QED BY <2>3, <2>4
<1>3. Traffic!Listed = Traffic!Newest(AuditLength, recorded)
  BY <1>1, <1>2 DEF Traffic!Listed, Traffic!Newest
<1> QED BY <1>3 DEF Traffic!BooksAreRecent, BooksInv, LogLength, AuditLength

LEMMA TrafficSteps == [PartsNext]_all => Traffic!Next \/ UNCHANGED trafficVars
BY DEF PartsNext, all, trafficVars, LimiterRuns, TrafficRuns, CredentialsRun, KeyRuns,
       CommandLineRuns, ConsoleRuns, LinksRun, DomainRuns, ProjectRuns

LEMMA TrafficStays ==
  ASSUME CacheInv, BooksInv, UNCHANGED trafficVars
  PROVE  CacheInv' /\ BooksInv'
<1>1. CacheInv'
  BY DEF CacheInv, TrafficTypes, CacheFits, Late, Crowd, trafficVars
<1>2. BooksInv'
  BY DEF BooksInv, Slot, LogLength, AuditLength, trafficVars
<1> QED BY <1>1, <1>2

\* For any number of goroutines, headers and requests and any size of the cache, the log
\* and the ring: the cache is bounded however its flushes meet, and the log and the
\* audit list the newest entries in their order (server.go:435-492, 837-851).
THEOREM TrafficIsBounded == PartsSpec => []TrafficBounded
<1>1. PartsInit => CacheInv /\ BooksInv
  BY CacheBegins, BooksBegin DEF PartsInit
<1>2. CacheInv /\ BooksInv /\ [PartsNext]_all => CacheInv' /\ BooksInv'
  <2> SUFFICES ASSUME CacheInv, BooksInv, [PartsNext]_all PROVE CacheInv' /\ BooksInv'
    OBVIOUS
  <2>1. CASE UNCHANGED trafficVars
    BY <2>1, TrafficStays
  <2>2. ASSUME NEW g \in Goroutines, Traffic!Goroutine(g) PROVE CacheInv'
    BY <2>2, CacheElsewhere, CacheSteps DEF Traffic!Goroutine
  <2>3. ASSUME NEW g \in Goroutines, Traffic!Goroutine(g) PROVE BooksInv'
    <3>1. CASE Traffic!Proxy(g) \/ Traffic!Audit(g)
      BY <3>1, LogGrows, AuditGrows
    <3>2. CASE UNCHANGED Traffic!books
      BY <3>2 DEF BooksInv, Slot, LogLength, AuditLength, Traffic!books
    <3> QED
      BY <2>3, <3>1, <3>2
      DEF Traffic!Goroutine, Traffic!Arrive, Traffic!Authorize, Traffic!LoadCount,
          Traffic!ResetCount, Traffic!LoadOrStore, Traffic!AddCount
  <2> QED BY <2>1, <2>2, <2>3, TrafficSteps DEF Traffic!Next
<1>3. CacheInv /\ BooksInv => TrafficBounded
  BY CacheBound, BooksHold DEF TrafficBounded, Traffic!KeepsBounded
<1> QED BY <1>1, <1>2, <1>3, PTL DEF PartsSpec
-----------------------------------------------------------------------------
(* The links of a tunnel. *)

LinkRuns ==
  [pc : {"idle", "sync", "ensure", "save", "ready", "await"},
   cmd : ShareCommands!Commands \cup {None}, sess : ShareCommands!Policies,
   next : ShareCommands!Policies, link : ShareCommands!Links \cup {None}]

ClusterTypes ==
  /\ policy \in ShareCommands!Policies /\ print \in ShareCommands!Policies
  /\ served \in [of : ShareCommands!Policies, runs : ShareCommands!Policies]
  /\ uneven \in BOOLEAN /\ gone \subseteq Tokens

LinkTypes ==
  /\ ClusterTypes
  /\ doing \in [Procs -> LinkRuns]
  /\ \A p \in Procs : doing[p].pc # "idle" =>
       opLock = p /\ doing[p].cmd \in ShareCommands!Commands

TokensDiffer == \A l, m \in policy.links : l.token = m.token => l = m
GoneIsGone == \A l \in policy.links : l.token \notin gone
BarredIsGone ==
  barred \subseteq gone /\ (uneven \/ \A l \in served.runs.links : l.token \notin barred)

\* The Deployment says what the Secret has, and the server runs what it was started for.
Level == uneven \/ (print = policy /\ served.runs = served.of)

\* What is in the policy, and what was taken out of it or told of it.
PolicyOK ==
  /\ TokensDiffer /\ GoneIsGone /\ BarredIsGone /\ Level
  /\ ShareCommands!GivenStaysIn /\ ShareCommands!NamesDiffer /\ ShareCommands!LimitStays

\* The link of a command that makes one has its name, and a token that is new.
LinkFits(c, link) ==
  IF c.do \in {"create", "rotate"}
    THEN /\ link \in ShareCommands!Links /\ link.name = c.name /\ link.token \notin gone
         /\ \A l \in policy.links : l.token # link.token
    ELSE link = None

\* Who is about to write works on the policy as it is.
PlanOK(p) ==
  doing[p].pc = "ensure" =>
    /\ doing[p].next = ShareCommands!Changed(doing[p].cmd, policy, doing[p].link)
    /\ ShareCommands!Applies(doing[p].cmd, policy)
    /\ LinkFits(doing[p].cmd, doing[p].link)

DoneOK(p) ==
  /\ doing[p].pc \in {"save", "ready", "await"} =>
       policy = doing[p].next /\ (doing[p].link = None \/ doing[p].link \in policy.links)
  /\ doing[p].pc = "await" => served.of = print

LinksInv == LinkTypes /\ PolicyOK /\ \A p \in Procs : PlanOK(p) /\ DoneOK(p)

LEMMA TokensAre ==
  ASSUME NEW links, NEW t
  PROVE  t \in ShareCommands!TokensOf(links) <=> \E l \in links : l.token = t
BY DEF ShareCommands!TokensOf

LEMMA NamesAre ==
  ASSUME NEW links, NEW n
  PROVE  n \in ShareCommands!NamesOf(links) <=> \E l \in links : l.name = n
BY DEF ShareCommands!NamesOf

LEMMA LinksBegin == ShareCommands!Init => LinksInv
<1> SUFFICES ASSUME ShareCommands!Init PROVE LinksInv OBVIOUS
<1>1. ShareCommands!Empty \in ShareCommands!Policies /\ ShareCommands!Empty.links = {}
  <2>1. (CHOOSE l \in Limits : TRUE) \in Limits
    BY LinksAssumption
  <2> QED BY <2>1 DEF ShareCommands!Empty, ShareCommands!Policies
<1>2. ShareCommands!Idle \in LinkRuns /\ ShareCommands!Idle.pc = "idle"
  BY <1>1 DEF ShareCommands!Idle, LinkRuns
<1>3. /\ policy = ShareCommands!Empty /\ print = ShareCommands!Empty /\ uneven = FALSE
      /\ served = [of |-> ShareCommands!Empty, runs |-> ShareCommands!Empty]
      /\ doing = [p \in Procs |-> ShareCommands!Idle]
      /\ given = {} /\ gone = {} /\ barred = {} /\ limit = ShareCommands!Empty.limit
  BY DEF ShareCommands!Init
<1>4. LinkTypes
  BY <1>1, <1>2, <1>3 DEF LinkTypes, ClusterTypes
<1>5. PolicyOK
  BY <1>1, <1>3
  DEF PolicyOK, TokensDiffer, GoneIsGone, BarredIsGone, Level, ShareCommands!GivenStaysIn,
      ShareCommands!NamesDiffer, ShareCommands!LimitStays
<1>6. ASSUME NEW p \in Procs PROVE PlanOK(p) /\ DoneOK(p)
  BY <1>2, <1>3 DEF PlanOK, DoneOK
<1> QED BY <1>4, <1>5, <1>6 DEF LinksInv

\* While one works the others rest.
LEMMA OneWorks ==
  ASSUME LinkTypes, NEW p \in Procs, NEW q \in Procs, p # q, doing[p].pc # "idle"
  PROVE  doing[q].pc = "idle"
BY DEF LinkTypes

\* A step of p, or of nobody, that leaves the policy to the others.
LEMMA LinksOthers ==
  ASSUME LinkTypes', PolicyOK', NEW p \in Procs, PlanOK(p)', DoneOK(p)',
         \A q \in Procs : q # p => doing'[q].pc = "idle"
  PROVE  LinksInv'
<1>1. ASSUME NEW q \in Procs PROVE PlanOK(q)' /\ DoneOK(q)'
  BY DEF PlanOK, DoneOK
<1> QED BY <1>1 DEF LinksInv

\* The step of p as far as it is the same in all of them.
LEMMA LinkStep ==
  ASSUME LinkTypes, NEW p \in Procs, NEW r \in LinkRuns,
         doing' = [doing EXCEPT ![p] = r],
         doing[p].pc # "idle" \/ (opLock = None /\ opLock' = p),
         r.pc # "idle" => opLock' = p /\ r.cmd \in ShareCommands!Commands
  PROVE  /\ doing' \in [Procs -> LinkRuns] /\ doing'[p] = r
         /\ \A q \in Procs : q # p => doing'[q].pc = "idle"
         /\ \A q \in Procs : doing'[q].pc # "idle" =>
              opLock' = q /\ doing'[q].cmd \in ShareCommands!Commands
<1>1. doing' \in [Procs -> LinkRuns] /\ doing'[p] = r
  BY DEF LinkTypes
<1>2. ASSUME NEW q \in Procs, q # p PROVE doing'[q].pc = "idle"
  <2>1. doing'[q] = doing[q]
    BY <1>2 DEF LinkTypes
  <2>2. doing[q].pc = "idle"
    BY <1>2, OneWorks, LinksAssumption DEF LinkTypes
  <2> QED BY <2>1, <2>2
<1> QED BY <1>1, <1>2

\* The new policy is one, and keeps what PolicyOK says.
LEMMA PutKeeps ==
  ASSUME LinkTypes, PolicyOK, NEW p \in Procs, PlanOK(p), doing[p].pc = "ensure",
         ShareCommands!Put(p), UNCHANGED <<served, given, barred>>,
         uneven => uneven', Level'
  PROVE  /\ policy' \in ShareCommands!Policies /\ gone' \subseteq Tokens /\ PolicyOK'
         /\ policy' = doing[p].next
         /\ doing[p].link = None \/ doing[p].link \in policy'.links
<1> DEFINE c == doing[p].cmd
           link == doing[p].link
<1>1. /\ policy' = doing[p].next /\ policy' = ShareCommands!Changed(c, policy, link)
      /\ doing[p].next \in ShareCommands!Policies /\ c \in ShareCommands!Commands
      /\ LinkFits(c, link) /\ ShareCommands!Applies(c, policy)
      /\ policy \in ShareCommands!Policies
  BY DEF ShareCommands!Put, PlanOK, LinkTypes, ClusterTypes, LinkRuns
<1>2. /\ gone' = IF c.do = "set" THEN gone
                 ELSE gone \cup ShareCommands!TokensOf({l \in policy.links : l.name = c.name})
      /\ limit' = IF c.do = "set" THEN c.limit ELSE limit
  BY DEF ShareCommands!Put
<1> HIDE DEF c, link
<1>3. \A l \in policy.links : l \in ShareCommands!Links
  BY <1>1 DEF ShareCommands!Policies
<1>4. \A t : t \in gone' <=>
        \/ t \in gone
        \/ c.do # "set" /\ \E l \in policy.links : l.name = c.name /\ l.token = t
  BY <1>2, TokensAre
<1>5. gone' \subseteq Tokens
  BY <1>3, <1>4 DEF LinkTypes, ClusterTypes, ShareCommands!Links
<1>6. c.do \in {"set", "create", "revoke", "rotate"}
  BY <1>1 DEF ShareCommands!Commands
<1>7. CASE c.do = "set"
  <2>1. policy'.links = policy.links /\ policy'.limit = c.limit /\ link = None
    BY <1>1, <1>7 DEF ShareCommands!Changed, LinkFits, ShareCommands!Policies
  <2>2. gone' = gone /\ limit' = c.limit
    BY <1>2, <1>7
  <2>3. PolicyOK'
    BY <2>1, <2>2
    DEF PolicyOK, TokensDiffer, GoneIsGone, BarredIsGone, ShareCommands!GivenStaysIn,
        ShareCommands!NamesDiffer, ShareCommands!LimitStays
  <2> QED BY <1>1, <1>5, <2>1, <2>3 DEF link
<1>8. ASSUME c.do # "set",
             link = None \/ link \in policy'.links,
             policy'.limit = policy.limit,
             \A l \in policy'.links :
               \/ l \in policy.links /\ l.name # c.name
               \/ /\ l = link /\ l.name = c.name /\ l.token \notin gone
                  /\ \A m \in policy.links : m.token # l.token,
             \A l \in policy.links : l \in policy'.links \/ l.name = c.name
      PROVE  /\ PolicyOK' /\ (doing[p].link = None \/ doing[p].link \in policy'.links)
  <2>1. TokensDiffer'
    BY <1>8 DEF PolicyOK, TokensDiffer
  <2>2. GoneIsGone'
    BY <1>4, <1>8 DEF PolicyOK, TokensDiffer, GoneIsGone
  <2>3. BarredIsGone'
    BY <1>4 DEF PolicyOK, BarredIsGone
  <2>4. ShareCommands!GivenStaysIn'
    BY <1>4, <1>8 DEF PolicyOK, ShareCommands!GivenStaysIn
  <2>5. ShareCommands!NamesDiffer'
    BY <1>8 DEF PolicyOK, ShareCommands!NamesDiffer
  <2>6. ShareCommands!LimitStays'
    BY <1>2, <1>8 DEF PolicyOK, ShareCommands!LimitStays
  <2> QED BY <1>8, <2>1, <2>2, <2>3, <2>4, <2>5, <2>6 DEF PolicyOK, link
<1>9. CASE c.do = "create"
  <2>1. /\ policy'.links = policy.links \cup {link} /\ policy'.limit = policy.limit
        /\ link.name = c.name /\ link.token \notin gone
        /\ \A l \in policy.links : l.token # link.token
    BY <1>1, <1>9 DEF ShareCommands!Changed, LinkFits, ShareCommands!Policies
  <2>2. \A l \in policy.links : l.name # c.name
    BY <1>1, <1>9, NamesAre DEF ShareCommands!Applies
  <2> QED BY <1>1, <1>5, <1>8, <1>9, <2>1, <2>2
<1>10. CASE c.do = "revoke"
  <2>1. /\ policy'.links = {l \in policy.links : l.name # c.name}
        /\ policy'.limit = policy.limit /\ link = None
    BY <1>1, <1>10
    DEF ShareCommands!Changed, ShareCommands!Without, LinkFits, ShareCommands!Policies
  <2> QED BY <1>1, <1>5, <1>8, <1>10, <2>1
<1>11. CASE c.do = "rotate"
  <2>1. /\ policy'.links = {IF l.name = link.name THEN link ELSE l : l \in policy.links}
        /\ policy'.limit = policy.limit
        /\ link.name = c.name /\ link.token \notin gone
        /\ \A l \in policy.links : l.token # link.token
    BY <1>1, <1>11
    DEF ShareCommands!Changed, ShareCommands!Replaced, LinkFits, ShareCommands!Policies
  <2>2. \E l \in policy.links : l.name = c.name
    BY <1>1, <1>11, NamesAre DEF ShareCommands!Applies
  <2>3. link \in policy'.links
    BY <2>1, <2>2
  <2>4. \A l \in policy'.links : (l \in policy.links /\ l.name # c.name) \/ l = link
    BY <2>1
  <2>5. \A l \in policy.links : l \in policy'.links \/ l.name = c.name
    BY <2>1
  <2> QED BY <1>1, <1>5, <1>8, <1>11, <2>1, <2>3, <2>4, <2>5
<1> QED BY <1>6, <1>7, <1>9, <1>10, <1>11

\* What a command makes of a policy is one.
LEMMA ChangedIsOne ==
  ASSUME NEW c \in ShareCommands!Commands, NEW q \in ShareCommands!Policies, NEW link,
         link \in ShareCommands!Links \/ c.do \notin {"create", "rotate"}
  PROVE  ShareCommands!Changed(c, q, link) \in ShareCommands!Policies
<1>1. q.links \subseteq ShareCommands!Links /\ q.limit \in Limits
  BY DEF ShareCommands!Policies
<1>2. CASE c.do = "set"
  BY <1>1, <1>2 DEF ShareCommands!Changed, ShareCommands!Commands, ShareCommands!Policies
<1>3. CASE c.do = "create"
  BY <1>1, <1>3 DEF ShareCommands!Changed, ShareCommands!Policies
<1>4. CASE c.do = "revoke"
  <2>1. ShareCommands!Without(q.links, c.name) \subseteq ShareCommands!Links
    BY <1>1 DEF ShareCommands!Without
  <2> QED BY <1>1, <1>4, <2>1 DEF ShareCommands!Changed, ShareCommands!Policies
<1>5. CASE c.do = "rotate"
  <2>1. ShareCommands!Replaced(q.links, link) \subseteq ShareCommands!Links
    BY <1>1, <1>5 DEF ShareCommands!Replaced
  <2> QED BY <1>1, <1>5, <2>1 DEF ShareCommands!Changed, ShareCommands!Policies
<1> QED BY <1>2, <1>3, <1>4, <1>5 DEF ShareCommands!Commands

\* A command ends; all that it may have changed is right.
LEMMA LinksQuit ==
  ASSUME LinkTypes, NEW p \in Procs, doing[p].pc # "idle", ShareCommands!Quit(p), PolicyOK',
         ClusterTypes'
  PROVE  LinksInv'
<1>1. ShareCommands!Idle \in LinkRuns /\ ShareCommands!Idle.pc = "idle"
  <2>1. (CHOOSE l \in Limits : TRUE) \in Limits
    BY LinksAssumption
  <2> QED
    BY <2>1 DEF ShareCommands!Idle, LinkRuns, ShareCommands!Empty, ShareCommands!Policies
<1>2. doing' = [doing EXCEPT ![p] = ShareCommands!Idle]
  BY DEF ShareCommands!Quit
<1>3. /\ doing' \in [Procs -> LinkRuns] /\ doing'[p] = ShareCommands!Idle
      /\ \A q \in Procs : q # p => doing'[q].pc = "idle"
      /\ \A q \in Procs : doing'[q].pc # "idle" =>
           opLock' = q /\ doing'[q].cmd \in ShareCommands!Commands
  BY <1>1, <1>2, LinkStep
<1>4. LinkTypes'
  BY <1>3 DEF LinkTypes
<1>5. PlanOK(p)' /\ DoneOK(p)'
  BY <1>1, <1>3 DEF PlanOK, DoneOK
<1> QED BY <1>3, <1>4, <1>5, LinksOthers

\* It goes on.
LEMMA LinksGo ==
  ASSUME LinkTypes, NEW p \in Procs, NEW place_, doing[p].pc # "idle",
         place_ \in {"save", "ready", "await"}, ShareCommands!Go(p, place_), PolicyOK',
         ClusterTypes',
         policy' = doing[p].next, doing[p].link = None \/ doing[p].link \in policy'.links,
         place_ = "await" => served'.of = print'
  PROVE  LinksInv'
<1> DEFINE r == [doing[p] EXCEPT !.pc = place_]
<1>1. /\ r \in LinkRuns /\ r.pc = place_ /\ r.cmd = doing[p].cmd /\ r.next = doing[p].next
      /\ r.link = doing[p].link
  BY DEF LinkTypes, LinkRuns
<1>2. doing' = [doing EXCEPT ![p] = r] /\ opLock' = opLock
  BY DEF ShareCommands!Go
<1>3. opLock = p /\ doing[p].cmd \in ShareCommands!Commands
  BY DEF LinkTypes
<1> HIDE DEF r
<1>4. /\ doing' \in [Procs -> LinkRuns] /\ doing'[p] = r
      /\ \A q \in Procs : q # p => doing'[q].pc = "idle"
      /\ \A q \in Procs : doing'[q].pc # "idle" =>
           opLock' = q /\ doing'[q].cmd \in ShareCommands!Commands
  BY <1>1, <1>2, <1>3, LinkStep
<1>5. LinkTypes'
  BY <1>4 DEF LinkTypes
<1>6. PlanOK(p)' /\ DoneOK(p)'
  BY <1>1, <1>4 DEF PlanOK, DoneOK
<1> QED BY <1>4, <1>5, <1>6, LinksOthers

\* A command up to where it changes the policy.
LEMMA LinksPrepare ==
  ASSUME LinksInv, NEW p \in Procs, ShareCommands!Begin(p) \/ ShareCommands!Sync(p)
  PROVE  LinksInv'
<1> USE DEF LinksInv
<1>1. UNCHANGED <<policy, print, served, uneven, given, gone, barred, limit>>
  BY DEF ShareCommands!Begin, ShareCommands!Sync, ShareCommands!told, ShareCommands!cluster
<1>2. PolicyOK' /\ ClusterTypes'
  BY <1>1
  DEF PolicyOK, TokensDiffer, GoneIsGone, BarredIsGone, Level, ShareCommands!GivenStaysIn,
      ShareCommands!NamesDiffer, ShareCommands!LimitStays, LinkTypes, ClusterTypes
<1>3. CASE ShareCommands!Begin(p)
  <2>1. PICK c \in ShareCommands!Commands :
          doing' = [doing EXCEPT ![p].pc = "sync", ![p].cmd = c]
    BY <1>3 DEF ShareCommands!Begin
  <2> DEFINE r == [doing[p] EXCEPT !.pc = "sync", !.cmd = c]
  <2>2. r \in LinkRuns /\ r.pc = "sync" /\ r.cmd = c
    BY DEF LinkTypes, LinkRuns
  <2>3. doing' = [doing EXCEPT ![p] = r]
    BY <2>1
  <2>4. opLock = None /\ opLock' = p
    BY <1>3 DEF ShareCommands!Begin
  <2> HIDE DEF r
  <2>5. /\ doing' \in [Procs -> LinkRuns] /\ doing'[p] = r
        /\ \A q \in Procs : q # p => doing'[q].pc = "idle"
        /\ \A q \in Procs : doing'[q].pc # "idle" =>
             opLock' = q /\ doing'[q].cmd \in ShareCommands!Commands
    BY <2>2, <2>3, <2>4, LinkStep
  <2>6. LinkTypes'
    BY <1>2, <2>5 DEF LinkTypes
  <2>7. PlanOK(p)' /\ DoneOK(p)'
    BY <2>2, <2>5 DEF PlanOK, DoneOK
  <2> QED BY <1>2, <2>5, <2>6, <2>7, LinksOthers
<1>4. CASE ShareCommands!Sync(p)
  <2>1. doing[p].pc = "sync" /\ opLock = p /\ doing[p].cmd \in ShareCommands!Commands
    BY <1>4 DEF ShareCommands!Sync, ShareCommands!At, LinkTypes
  <2>2. CASE ShareCommands!Quit(p)
    <3>1. doing[p].pc # "idle"
      BY <2>1
    <3> QED BY <1>2, <2>2, <3>1, LinksQuit
  <2>3. CASE ~ShareCommands!Quit(p)
    <3>1. /\ ShareCommands!Applies(doing[p].cmd, policy) /\ opLock' = opLock
          /\ \E link \in ShareCommands!LinksFor(doing[p].cmd) :
               doing' = [doing EXCEPT
                 ![p].pc = "ensure", ![p].sess = policy, ![p].link = link,
                 ![p].next = ShareCommands!Changed(doing[p].cmd, policy, link)]
      BY <1>4, <2>3 DEF ShareCommands!Sync, ShareCommands!Synced
    <3>2. PICK link \in ShareCommands!LinksFor(doing[p].cmd) :
            doing' = [doing EXCEPT
                 ![p].pc = "ensure", ![p].sess = policy, ![p].link = link,
                 ![p].next = ShareCommands!Changed(doing[p].cmd, policy, link)]
      BY <3>1
    <3> DEFINE n == ShareCommands!Changed(doing[p].cmd, policy, link)
               r == [doing[p] EXCEPT !.pc = "ensure", !.sess = policy, !.link = link,
                                     !.next = n]
    <3>3. LinkFits(doing[p].cmd, link) /\ link \in ShareCommands!Links \cup {None}
      <4>1. CASE doing[p].cmd.do \in {"create", "rotate"}
        <5>1. PICK t \in Tokens : ShareCommands!Unused(t)
                                  /\ link = [name |-> doing[p].cmd.name, token |-> t]
          BY <4>1 DEF ShareCommands!LinksFor
        <5>2. t \notin gone /\ \A l \in policy.links : l.token # t
          BY <5>1, TokensAre DEF ShareCommands!Unused
        <5>3. doing[p].cmd.name \in Names
          BY <2>1, <4>1 DEF ShareCommands!Commands
        <5> QED BY <4>1, <5>1, <5>2, <5>3 DEF LinkFits, ShareCommands!Links
      <4>2. CASE doing[p].cmd.do \notin {"create", "rotate"}
        BY <4>2 DEF ShareCommands!LinksFor, LinkFits
      <4> QED BY <4>1, <4>2
    <3>4. n \in ShareCommands!Policies
      BY <2>1, <3>3, ChangedIsOne DEF LinkTypes, ClusterTypes, LinkFits
    <3> HIDE DEF n
    <3>5. /\ r \in LinkRuns /\ r.pc = "ensure" /\ r.cmd = doing[p].cmd /\ r.link = link
          /\ r.next = n
      BY <3>3, <3>4 DEF LinkTypes, ClusterTypes, LinkRuns
    <3>6. doing' = [doing EXCEPT ![p] = r]
      BY <3>2 DEF n
    <3> HIDE DEF r
    <3>7. /\ doing' \in [Procs -> LinkRuns] /\ doing'[p] = r
          /\ \A q \in Procs : q # p => doing'[q].pc = "idle"
          /\ \A q \in Procs : doing'[q].pc # "idle" =>
               opLock' = q /\ doing'[q].cmd \in ShareCommands!Commands
      BY <2>1, <3>1, <3>5, <3>6, LinkStep
    <3>8. LinkTypes'
      BY <1>2, <3>7 DEF LinkTypes
    <3>10. PlanOK(p)'
      BY <1>1, <3>1, <3>3, <3>5, <3>7 DEF PlanOK, LinkFits, n
    <3>11. DoneOK(p)'
      BY <3>5, <3>7 DEF DoneOK
    <3> QED BY <1>2, <3>7, <3>8, <3>10, <3>11, LinksOthers
  <2> QED BY <2>2, <2>3
<1> QED BY <1>3, <1>4

\* Ensure, and what follows.
LEMMA LinksEnsure ==
  ASSUME LinksInv, NEW p \in Procs, ShareCommands!Ensure(p)
  PROVE  LinksInv'
<1> USE DEF LinksInv
<1>1. doing[p].pc = "ensure" /\ UNCHANGED <<served, given, barred>>
  BY DEF ShareCommands!Ensure, ShareCommands!At
<1>2. /\ print' \in ShareCommands!Policies /\ served' = served /\ uneven' \in BOOLEAN
      /\ served' \in [of : ShareCommands!Policies, runs : ShareCommands!Policies]
      /\ uneven => uneven'
  <2>1. print' \in {print, doing[p].next} /\ doing[p].next \in ShareCommands!Policies
    BY DEF ShareCommands!Ensure, LinkTypes, LinkRuns
  <2>2. uneven' = uneven \/ uneven' = (uneven \/ print' # policy')
    BY Zenon DEF ShareCommands!Ensure
  <2> QED BY <1>1, <2>1, <2>2 DEF LinkTypes, ClusterTypes
<1>3. Level'
  <2>1. CASE ShareCommands!Put(p) /\ print' = doing[p].next /\ uneven' = uneven
    BY <1>1, <2>1 DEF ShareCommands!Put, PolicyOK, Level
  <2>2. CASE uneven' = (uneven \/ print' # policy')
    BY <1>1, <2>2 DEF PolicyOK, Level
  <2> QED BY <2>1, <2>2 DEF ShareCommands!Ensure
<1>4. CASE ShareCommands!Put(p)
  <2>1. /\ policy' \in ShareCommands!Policies /\ gone' \subseteq Tokens /\ PolicyOK'
        /\ policy' = doing[p].next
        /\ doing[p].link = None \/ doing[p].link \in policy'.links
    BY <1>1, <1>2, <1>3, <1>4, PutKeeps
  <2>2. ClusterTypes'
    BY <1>2, <2>1 DEF ClusterTypes
  <2>3. CASE ShareCommands!Go(p, "save")
    BY <1>1, <2>1, <2>2, <2>3, LinksGo
  <2>4. CASE ShareCommands!Quit(p)
    BY <1>1, <2>1, <2>2, <2>4, LinksQuit
  <2> QED BY <2>3, <2>4 DEF ShareCommands!Ensure
<1>5. CASE UNCHANGED <<policy, gone, limit>> /\ ShareCommands!Quit(p)
  <2>1. PolicyOK'
    BY <1>1, <1>2, <1>3, <1>5
    DEF PolicyOK, TokensDiffer, GoneIsGone, BarredIsGone, ShareCommands!GivenStaysIn,
        ShareCommands!NamesDiffer, ShareCommands!LimitStays
  <2>2. ClusterTypes'
    BY <1>2, <1>5 DEF LinkTypes, ClusterTypes
  <2> QED BY <1>1, <1>5, <2>1, <2>2, LinksQuit
<1> QED BY <1>4, <1>5 DEF ShareCommands!Ensure

\* Who is told of a success is told when a server was started for the policy.
LEMMA TellKeeps ==
  ASSUME PolicyOK, NEW p \in Procs, NEW success \in BOOLEAN, ShareCommands!Tell(p, success),
         UNCHANGED <<policy, print, served, uneven>>,
         doing[p].link = None \/ doing[p].link \in policy.links,
         success => served.of = print
  PROVE  PolicyOK' /\ gone' = gone
<1>1. gone' = gone /\ limit' = limit
  BY DEF ShareCommands!Tell
<1>2. \A l \in given' : l \in given \/ l \in policy.links
  BY DEF ShareCommands!Tell
<1>3. \A t \in barred' : t \in barred \/ (success /\ t \in gone)
  BY DEF ShareCommands!Tell
<1>4. ShareCommands!GivenStaysIn'
  BY <1>1, <1>2 DEF PolicyOK, ShareCommands!GivenStaysIn
<1>5. BarredIsGone'
  <2>1. barred' \subseteq gone'
    BY <1>1, <1>3 DEF PolicyOK, BarredIsGone
  <2>2. CASE ~uneven /\ success
    <3>1. served.runs = policy
      BY <2>2 DEF PolicyOK, Level
    <3> QED BY <1>1, <2>1, <3>1 DEF PolicyOK, GoneIsGone, BarredIsGone
  <2>3. CASE uneven \/ ~success
    BY <1>3, <2>1, <2>3 DEF PolicyOK, BarredIsGone
  <2> QED BY <2>2, <2>3
<1>6. /\ TokensDiffer' /\ GoneIsGone' /\ Level'
      /\ ShareCommands!NamesDiffer' /\ ShareCommands!LimitStays'
  BY <1>1
  DEF PolicyOK, TokensDiffer, GoneIsGone, Level, ShareCommands!NamesDiffer,
      ShareCommands!LimitStays
<1> QED BY <1>1, <1>4, <1>5, <1>6 DEF PolicyOK

LEMMA LinksFinish ==
  ASSUME LinksInv, NEW p \in Procs,
         ShareCommands!Save(p) \/ ShareCommands!Ready(p) \/ ShareCommands!Await(p)
  PROVE  LinksInv'
<1> USE DEF LinksInv
<1>1. /\ doing[p].pc \in {"save", "ready", "await"}
      /\ UNCHANGED <<policy, print, served, uneven>>
      /\ policy = doing[p].next
      /\ doing[p].link = None \/ doing[p].link \in policy.links
      /\ doing[p].pc = "await" => served.of = print
  BY DEF ShareCommands!Save, ShareCommands!Ready, ShareCommands!Await, ShareCommands!At,
         ShareCommands!cluster, DoneOK
<1>2. gone' = gone => ClusterTypes'
  BY <1>1 DEF LinkTypes, ClusterTypes
<1>4. ASSUME NEW success \in BOOLEAN, ShareCommands!Tell(p, success), ShareCommands!Quit(p),
             success => served.of = print
      PROVE  LinksInv'
  <2>1. PolicyOK' /\ gone' = gone
    BY <1>1, <1>4, TellKeeps
  <2> QED BY <1>1, <1>2, <1>4, <2>1, LinksQuit
<1>5. CASE ShareCommands!Committed(p)
  BY <1>4, <1>5 DEF ShareCommands!Committed
<1>6. ASSUME NEW at \in {"ready", "await"}, ShareCommands!Go(p, at),
             UNCHANGED ShareCommands!told, at = "await" => served.of = print
      PROVE  LinksInv'
  <2>1. PolicyOK' /\ gone' = gone
    BY <1>1, <1>6
    DEF PolicyOK, TokensDiffer, GoneIsGone, BarredIsGone, Level, ShareCommands!GivenStaysIn,
        ShareCommands!NamesDiffer, ShareCommands!LimitStays, ShareCommands!told
  <2> QED BY <1>1, <1>2, <1>6, <2>1, LinksGo
<1>7. CASE ShareCommands!Save(p)
  BY <1>5, <1>6, <1>7 DEF ShareCommands!Save
<1>8. CASE ShareCommands!Ready(p)
  BY <1>4, <1>5, <1>6, <1>8 DEF ShareCommands!Ready
<1>9. CASE ShareCommands!Await(p)
  BY <1>1, <1>4, <1>5, <1>9 DEF ShareCommands!Await, ShareCommands!At
<1> QED BY <1>7, <1>8, <1>9

\* A server that starts for what the Secret has.
LEMMA LinksRollout == ASSUME LinksInv, ShareCommands!Rollout PROVE LinksInv'
<1>1. /\ UNCHANGED <<policy, print, opLock, doing, given, gone, barred, limit>>
      /\ LinkTypes /\ PolicyOK
  BY DEF ShareCommands!Rollout, ShareCommands!told, LinksInv
<1>2. PICK c \in ShareCommands!Found \cup {print} :
        served' = [of |-> print, runs |-> c] /\ uneven' = (c # print \/ print # policy)
  BY DEF ShareCommands!Rollout
<1>3. c \in ShareCommands!Policies
  BY <1>1 DEF ShareCommands!Found, LinkTypes, ClusterTypes, LinkRuns
<1>4. served'.of = print /\ served'.runs = c
  BY <1>2
<1>5. uneven' \in BOOLEAN /\ (~uneven' => c = policy /\ print = policy)
  BY <1>2, Zenon
<1>6. LinkTypes'
  BY <1>1, <1>2, <1>3, <1>5 DEF LinkTypes, ClusterTypes
<1>7. PolicyOK'
  <2>1. BarredIsGone'
    BY <1>1, <1>4, <1>5 DEF PolicyOK, BarredIsGone, GoneIsGone
  <2>2. Level'
    BY <1>1, <1>4, <1>5 DEF Level
  <2> QED BY <1>1, <2>1, <2>2
    DEF PolicyOK, TokensDiffer, GoneIsGone, ShareCommands!GivenStaysIn,
        ShareCommands!NamesDiffer, ShareCommands!LimitStays
<1>8. ASSUME NEW p \in Procs PROVE PlanOK(p)' /\ DoneOK(p)'
  BY <1>1, <1>4 DEF LinksInv, PlanOK, DoneOK, LinkFits
<1> QED BY <1>6, <1>7, <1>8 DEF LinksInv

LEMMA LinksRestart == ASSUME LinksInv, ShareCommands!Restart PROVE LinksInv'
<1>1. /\ UNCHANGED <<policy, print, opLock, doing, given, gone, barred, limit>>
      /\ uneven' = TRUE /\ LinkTypes /\ PolicyOK
  BY DEF ShareCommands!Restart, ShareCommands!told, LinksInv
<1>2. PICK c \in ShareCommands!Found : served' = [served EXCEPT !.runs = c]
  BY DEF ShareCommands!Restart
<1>3. c \in ShareCommands!Policies
  BY <1>1 DEF ShareCommands!Found, LinkTypes, ClusterTypes, LinkRuns
<1>4. /\ served' \in [of : ShareCommands!Policies, runs : ShareCommands!Policies]
      /\ served'.of = served.of
  BY <1>1, <1>2, <1>3 DEF LinkTypes, ClusterTypes
<1>5. LinkTypes'
  BY <1>1, <1>4 DEF LinkTypes, ClusterTypes
<1>6. PolicyOK'
  BY <1>1
  DEF PolicyOK, TokensDiffer, GoneIsGone, BarredIsGone, Level, ShareCommands!GivenStaysIn,
      ShareCommands!NamesDiffer, ShareCommands!LimitStays
<1>7. ASSUME NEW p \in Procs PROVE PlanOK(p)' /\ DoneOK(p)'
  BY <1>1, <1>4 DEF LinksInv, PlanOK, DoneOK, LinkFits
<1> QED BY <1>5, <1>6, <1>7 DEF LinksInv

LEMMA LinksStay == ASSUME LinksInv, UNCHANGED linkVars PROVE LinksInv'
<1>1. UNCHANGED <<policy, print, served, uneven, opLock, doing, given, gone, barred, limit>>
  BY DEF linkVars
<1>2. PolicyOK'
  BY <1>1
  DEF LinksInv, PolicyOK, TokensDiffer, GoneIsGone, BarredIsGone, Level,
      ShareCommands!GivenStaysIn, ShareCommands!NamesDiffer, ShareCommands!LimitStays
<1>3. LinkTypes'
  BY <1>1 DEF LinksInv, LinkTypes, ClusterTypes
<1>4. ASSUME NEW p \in Procs PROVE PlanOK(p)' /\ DoneOK(p)'
  BY <1>1 DEF LinksInv, PlanOK, DoneOK, LinkFits
<1> QED BY <1>2, <1>3, <1>4 DEF LinksInv

LEMMA LinksSteps == [PartsNext]_all => ShareCommands!Next \/ UNCHANGED linkVars
BY DEF PartsNext, all, linkVars, LimiterRuns, TrafficRuns, CredentialsRun, KeyRuns,
       CommandLineRuns, ConsoleRuns, LinksRun, DomainRuns, ProjectRuns

\* For any number of commands, names, tokens and faults: no command drops a link that was
\* given out, takes a revoked one in again or undoes the rate limit, and names stay
\* unique (share.go:128-331, policy.go:163-184).
THEOREM LinksAreKept == PartsSpec => []LinksHold
<1>1. PartsInit => LinksInv
  BY LinksBegin DEF PartsInit
<1>2. LinksInv /\ [PartsNext]_all => LinksInv'
  <2> SUFFICES ASSUME LinksInv, [PartsNext]_all PROVE LinksInv' OBVIOUS
  <2>1. CASE UNCHANGED linkVars
    BY <2>1, LinksStay
  <2>2. CASE ShareCommands!Next
    BY <2>2, LinksPrepare, LinksEnsure, LinksFinish, LinksRollout, LinksRestart
    DEF ShareCommands!Next
  <2> QED BY <2>1, <2>2, LinksSteps
<1>3. LinksInv => LinksHold
  <2> SUFFICES ASSUME LinksInv PROVE ShareCommands!LinksHold
    BY DEF LinksHold
  <2>1. ShareCommands!BarredStaysOut
    BY TokensAre
    DEF LinksInv, PolicyOK, BarredIsGone, GoneIsGone, ShareCommands!BarredStaysOut,
        ShareCommands!Accepts
  <2> QED BY <2>1 DEF LinksInv, PolicyOK, ShareCommands!LinksHold
<1> QED BY <1>1, <1>2, <1>3, PTL DEF PartsSpec
-----------------------------------------------------------------------------
(* The state of a project. *)

UpStates ==
  [pc : {"idle", "load", "compare", "remove", "before", "expose", "serve", "find", "save",
         "over"},
   old : Tunnels \cup {None}, mine : Tunnels \cup {None}, found : Tunnels \cup {None},
   with : SUBSET Tunnels, alone : BOOLEAN, unread : BOOLEAN, raced : BOOLEAN]

Made(t) == t \in Tunnels /\ made[t].by # None

ProjectTypes ==
  /\ second \in Nat
  /\ made \in [Tunnels -> [at : Nat, by : Ups \cup {"other", None}]]
  /\ up \in [Ups -> UpStates]
  /\ \A t \in records : Made(t)
  /\ state = None \/ Made(state)

\* What an up that works alone has to choose from is what it made, and what one gives up
\* is of a tunnel that is gone.
UpOK(r) ==
  /\ r.pc \in {"compare", "remove"} => Made(r.old) /\ (r.unread \/ r.old \notin records)
  /\ r.pc = "remove" => r.raced \/ state \in {r.old, None}
  /\ r.pc = "expose" /\ r.alone => r.unread \/ records \subseteq r.with
  /\ r.pc \in {"serve", "find"} /\ r.alone => r.unread \/ records \ r.with \subseteq {r.mine}
  /\ r.pc = "save" => /\ Made(r.found) /\ r.found \notin r.with
                      /\ r.alone => r.unread \/ r.found = r.mine

ProjectInv == ProjectTypes /\ \A p \in Ups : UpOK(up[p])

LEMMA ProjectBegins == Project!Init => ProjectInv
<1> SUFFICES ASSUME Project!Init PROVE ProjectInv OBVIOUS
<1>1. ProjectTypes
  BY DEF Project!Init, Project!Idle, ProjectTypes, UpStates
<1>2. ASSUME NEW p \in Ups PROVE UpOK(up[p])
  <2>1. up[p].pc = "idle"
    BY DEF Project!Init, Project!Idle
  <2> QED BY <2>1 DEF UpOK
<1> QED BY <1>1, <1>2 DEF ProjectInv

\* A step that makes no tunnel leaves the others right.
LEMMA UpStep ==
  ASSUME ProjectInv, NEW p \in Ups, NEW r \in UpStates, up' = [up EXCEPT ![p] = r],
         UNCHANGED <<second, made>>, records' \subseteq records,
         state' \in {state, None}, UpOK(r)'
  PROVE  ProjectInv'
<1>1. /\ second' \in Nat /\ made' = made /\ up' \in [Ups -> UpStates]
      /\ made \in [Tunnels -> [at : Nat, by : Ups \cup {"other", None}]]
  BY DEF ProjectInv, ProjectTypes
<1>2. \A t : Made(t)' <=> Made(t)
  BY <1>1 DEF Made
<1>3. ProjectTypes'
  BY <1>1, <1>2 DEF ProjectInv, ProjectTypes
<1>4. ASSUME NEW q \in Ups PROVE UpOK(up[q])'
  <2>1. CASE q = p
    <3>1. up'[q] = r
      BY <2>1 DEF ProjectInv, ProjectTypes
    <3> QED BY <3>1 DEF UpOK, Made
  <2>2. CASE q # p
    <3>1. up'[q] = up[q] /\ UpOK(up[q])
      BY <2>2 DEF ProjectInv, ProjectTypes
    <3> QED BY <1>2, <3>1 DEF UpOK
  <2> QED BY <2>1, <2>2
<1> QED BY <1>3, <1>4 DEF ProjectInv

LEMMA UpLooks ==
  ASSUME ProjectInv, NEW p \in Ups,
         \/ Project!Begin(p) \/ Project!Load(p) \/ Project!Compare(p) \/ Project!Remove(p)
         \/ Project!Before(p) \/ Project!Find(p) \/ Project!Save(p) \/ Project!Again(p)
         \/ Project!Serve(p)
  PROVE  ProjectInv'
<1>1. up[p] \in UpStates /\ UpOK(up[p]) /\ \A t \in records : Made(t) /\ t \in Tunnels
  BY DEF ProjectInv, ProjectTypes, Made
<1>2. UNCHANGED <<second, made>> /\ records' \subseteq records
  BY DEF Project!Begin, Project!Load, Project!Compare, Project!Remove, Project!Before,
         Project!Find, Project!Save, Project!Again, Project!Serve, Project!Still
<1>3. \A t : Made(t)' <=> Made(t)
  BY <1>2 DEF Made
<1>4. state = None \/ Made(state)
  BY DEF ProjectInv, ProjectTypes
<1>5. ASSUME NEW r, Project!Set(p, r), r \in UpStates, UpOK(r)', state' \in {state, None}
      PROVE  ProjectInv'
  BY <1>2, <1>5, UpStep DEF Project!Set
<1>6. Project!Idle \in UpStates /\ Project!Over \in UpStates
      /\ Project!Idle.pc = "idle" /\ Project!Over.pc = "over"
  BY DEF Project!Idle, Project!Over, UpStates
<1>7. ASSUME NEW pl \in {"idle", "load", "before", "over"}, NEW r \in UpStates, r.pc = pl
      PROVE  UpOK(r)'
  BY <1>7 DEF UpOK
<1>8. ASSUME NEW pl \in {"load", "before", "remove", "find"}
      PROVE  LET r == [up[p] EXCEPT !.pc = pl]
             IN  r \in UpStates /\ r.pc = pl /\ r.old = up[p].old /\ r.mine = up[p].mine
                 /\ r.with = up[p].with /\ r.alone = up[p].alone
                 /\ r.unread = up[p].unread /\ r.raced = up[p].raced
  BY <1>1 DEF UpStates
<1>9. CASE Project!Begin(p)
  <2>1. state' = state
    BY <1>9 DEF Project!Begin, Project!Still
  <2>2. PICK pl \in {"load", "before"} : Project!Set(p, [up[p] EXCEPT !.pc = pl])
    BY <1>9 DEF Project!Begin, Project!Go
  <2>3. [up[p] EXCEPT !.pc = pl] \in UpStates /\ [up[p] EXCEPT !.pc = pl].pc = pl
    BY <1>8
  <2> QED BY <1>4, <1>5, <1>7, <2>1, <2>2, <2>3
<1>10. CASE Project!Load(p)
  <2>1. UNCHANGED <<state, records>>
    BY <1>10 DEF Project!Load, Project!Still
  <2>2. CASE Project!Go(p, "before")
    <3>1. /\ Project!Set(p, [up[p] EXCEPT !.pc = "before"])
          /\ [up[p] EXCEPT !.pc = "before"] \in UpStates
          /\ [up[p] EXCEPT !.pc = "before"].pc = "before"
      BY <1>8, <2>2 DEF Project!Go
    <3> QED BY <1>4, <1>5, <1>7, <2>1, <3>1
  <2>3. CASE Project!Set(p, Project!Over)
    BY <1>4, <1>5, <1>6, <1>7, <2>1, <2>3
  <2>4. CASE /\ state # None
             /\ Project!Set(p, [up[p] EXCEPT !.pc = "compare", !.old = state,
                                             !.unread = state \in records])
    <3>a. (state \in records) \in BOOLEAN
      OBVIOUS
    <3>b. PICK b \in BOOLEAN : b = (state \in records)
      BY <3>a, Zenon
    <3>r. PICK r : r = [up[p] EXCEPT !.pc = "compare", !.old = state, !.unread = b]
      OBVIOUS
    <3>1. state \in Tunnels /\ Made(state)
      BY <1>4, <2>4 DEF Made
    <3>2. r \in UpStates /\ r.pc = "compare" /\ r.old = state /\ r.unread = b
      BY <3>r, <3>b, <1>1, <3>1 DEF UpStates
    <3>3. Project!Set(p, r)
      BY <3>r, <3>b, <2>4, Zenon
    <3>5. r.unread \/ state \notin records
      BY <3>2, <3>b, Zenon
    <3>4. UpOK(r)'
      BY <1>3, <2>1, <3>1, <3>2, <3>5 DEF UpOK
    <3> QED BY <1>5, <2>1, <3>2, <3>3, <3>4
  <2> QED BY <1>10, <2>2, <2>3, <2>4 DEF Project!Load
<1>11. CASE Project!Compare(p)
  <2>1. UNCHANGED <<state, records>> /\ up[p].pc = "compare"
    BY <1>11 DEF Project!Compare, Project!Still, Project!At
  <2>2. PICK pl \in {"remove", "before"} :
          /\ Project!Set(p, [up[p] EXCEPT !.pc = pl])
          /\ pl = "remove" => state = up[p].old
    BY <1>11 DEF Project!Compare, Project!Go
  <2>r. PICK r : r = [up[p] EXCEPT !.pc = pl]
    OBVIOUS
  <2>3. r \in UpStates /\ r.pc = pl /\ r.old = up[p].old /\ r.unread = up[p].unread
    BY <2>r, <1>8
  <2>4. Project!Set(p, r)
    BY <2>r, <2>2
  <2>5. UpOK(r)'
    BY <1>1, <1>3, <2>1, <2>2, <2>3 DEF UpOK
  <2> QED BY <1>4, <1>5, <2>1, <2>3, <2>4, <2>5
<1>12. CASE Project!Remove(p)
  <2>r. PICK r : r = [Project!Idle EXCEPT !.pc = "before"]
    OBVIOUS
  <2>1. state' \in {state, None} /\ Project!Set(p, r)
    BY <2>r, <1>12 DEF Project!Remove
  <2>2. r \in UpStates /\ r.pc = "before"
    BY <2>r DEF UpStates, Project!Idle
  <2> QED BY <1>5, <1>7, <2>1, <2>2
<1>13. CASE Project!Before(p)
  <2>1. PICK unread \in BOOLEAN :
          Project!Set(p, [Project!Idle EXCEPT !.pc = "expose", !.unread = unread,
                                              !.with = IF unread THEN {} ELSE records])
    BY <1>13 DEF Project!Before
  <2>2. PICK with \in SUBSET Tunnels :
          with = (IF unread THEN {} ELSE records) /\ (unread \/ with = records)
    BY <1>1 DEF Made
  <2>r. PICK r : r = [Project!Idle EXCEPT !.pc = "expose", !.unread = unread, !.with = with]
    OBVIOUS
  <2>3. UNCHANGED <<state, records>> /\ Project!Set(p, r)
    BY <2>r, <1>13, <2>1, <2>2 DEF Project!Before, Project!Still
  <2>4. r \in UpStates /\ r.pc = "expose" /\ r.unread = unread /\ r.with = with
    BY <2>r, <2>2 DEF UpStates, Project!Idle
  <2>5. r.unread \/ records' \subseteq r.with
    BY <2>2, <2>3, <2>4
  <2>6. UpOK(r)'
    BY <2>4, <2>5 DEF UpOK
  <2> QED BY <1>5, <2>3, <2>4, <2>6
<1>14. CASE Project!Find(p)
  <2>1. UNCHANGED <<state, records>> /\ up[p].pc = "find"
    BY <1>14 DEF Project!Find, Project!Still, Project!At
  <2>2. CASE Project!Set(p, Project!Over)
    BY <1>4, <1>5, <1>6, <1>7, <2>1, <2>2
  <2>3. ASSUME NEW t \in Project!Among(p),
               Project!Set(p, [up[p] EXCEPT !.pc = "save", !.found = t])
        PROVE  ProjectInv'
    <3>r. PICK r : r = [up[p] EXCEPT !.pc = "save", !.found = t]
      OBVIOUS
    <3>1. t \in records /\ t \notin up[p].with
      BY DEF Project!Among
    <3>2. /\ r \in UpStates /\ r.pc = "save" /\ r.found = t /\ r.with = up[p].with
          /\ r.mine = up[p].mine /\ r.alone = up[p].alone /\ r.unread = up[p].unread
      BY <3>r, <1>1, <3>1 DEF UpStates
    <3>3. Project!Set(p, r)
      BY <3>r, <2>3
    <3>4. UpOK(r)'
      BY <1>1, <1>3, <2>1, <3>1, <3>2 DEF UpOK
    <3> QED BY <1>4, <1>5, <2>1, <3>2, <3>3, <3>4
  <2> QED BY <1>14, <2>2, <2>3 DEF Project!Find
<1>15. CASE Project!Save(p)
  <2>1. up[p].pc = "save"
    BY <1>15 DEF Project!Save, Project!At
  <2>2. CASE UNCHANGED state /\ Project!Set(p, Project!Over)
    BY <1>5, <1>6, <1>7, <2>2
  <2>3. CASE /\ state' = up[p].found
             /\ up' = [q \in Ups |-> IF q = p THEN Project!Over
                         ELSE [up[q] EXCEPT !.raced = @ \/ Project!At(q, "remove")]]
    <3>1. ASSUME NEW q \in Ups PROVE up'[q] \in UpStates /\ UpOK(up[q])'
      <4>1. CASE q = p
        <5>1. up'[q] = Project!Over
          BY <2>3, <4>1
        <5>2. PICK r : r = up'[q]
          OBVIOUS
        <5> QED BY <1>6, <5>1, <5>2 DEF UpOK
      <4>2. CASE q # p
        <5>1. up[q] \in UpStates /\ UpOK(up[q])
          BY DEF ProjectInv, ProjectTypes
        <5>a. (up[q].raced \/ Project!At(q, "remove")) \in BOOLEAN
          OBVIOUS
        <5>b. PICK raced \in BOOLEAN : raced = (up[q].raced \/ Project!At(q, "remove"))
          BY <5>a, Zenon
        <5>2. up[q].pc = "remove" => raced = TRUE
          <6>1. CASE up[q].pc = "remove"
            <7>1. (up[q].raced \/ Project!At(q, "remove")) = TRUE
              BY <6>1 DEF Project!At
            <7> QED BY <5>b, <7>1, Zenon
          <6> QED BY <6>1
        <5>r. PICK r : r = [up[q] EXCEPT !.raced = raced]
          OBVIOUS
        <5>c. up'[q] = [up[q] EXCEPT !.raced = up[q].raced \/ Project!At(q, "remove")]
          BY <2>3, <4>2, Zenon
        <5>3. up'[q] = r
          BY <5>b, <5>c, <5>r, Zenon
        <5>4. /\ r \in UpStates /\ r.pc = up[q].pc /\ r.old = up[q].old
              /\ r.unread = up[q].unread /\ r.raced = raced /\ r.with = up[q].with
              /\ r.mine = up[q].mine /\ r.alone = up[q].alone /\ r.found = up[q].found
          BY <5>1, <5>2, <5>r DEF UpStates
        <5>5. UpOK(r)'
          <6>1. r.pc = "remove" => r.raced = TRUE
            BY <5>2, <5>4
          <6> QED BY <1>2, <1>3, <1>15, <5>1, <5>4, <6>1 DEF UpOK, Project!Save
        <5> QED BY <5>3, <5>4, <5>5 DEF UpOK
      <4> QED BY <4>1, <4>2
    <3>2. up' \in [Ups -> UpStates]
      BY <2>3, <3>1
    <3>3. \E t \in Tunnels : t = state' /\ Made(t)'
      BY <1>1, <1>3, <2>1, <2>3 DEF UpOK, Made
    <3>4. second' \in Nat /\ \A t \in records' : Made(t)'
      BY <1>2, <1>3 DEF ProjectInv, ProjectTypes
    <3>5. made' \in [Tunnels -> [at : Nat, by : Ups \cup {"other", None}]]
      BY <1>2 DEF ProjectInv, ProjectTypes
    <3> QED BY <3>1, <3>2, <3>3, <3>4, <3>5 DEF ProjectInv, ProjectTypes
  <2> QED BY <1>15, <2>2, <2>3 DEF Project!Save
<1>16. CASE Project!Again(p)
  <2>1. state' = state /\ Project!Set(p, Project!Idle)
    BY <1>16 DEF Project!Again, Project!Still
  <2> QED BY <1>4, <1>5, <1>6, <1>7, <2>1
<1>17. CASE Project!Serve(p)
  <2>r. PICK r : r = [up[p] EXCEPT !.pc = "find"]
    OBVIOUS
  <2>1. state' = state /\ Project!Set(p, r) /\ up[p].pc = "serve"
    BY <2>r, <1>17 DEF Project!Serve, Project!Go, Project!At
  <2>2. /\ r \in UpStates /\ r.pc = "find" /\ r.mine = up[p].mine /\ r.with = up[p].with
        /\ r.alone = up[p].alone /\ r.unread = up[p].unread
    BY <2>r, <1>8
  <2>3. UpOK(r)'
    BY <1>1, <1>2, <2>1, <2>2 DEF UpOK
  <2> QED BY <1>4, <1>5, <2>1, <2>2, <2>3
<1> QED
  BY <1>9, <1>10, <1>11, <1>12, <1>13, <1>14, <1>15, <1>16, <1>17

\* A tunnel is made, and whoever is looking for its own is not alone any more.
LEMMA OneMore ==
  ASSUME ProjectInv, NEW t \in Project!New, NEW by \in Ups \cup {"other"},
         Project!Make(by, t), UNCHANGED <<second, state>>, up' \in [Ups -> UpStates],
         \A q \in Ups : q # by =>
           \/ up'[q] = [up[q] EXCEPT !.alone = FALSE]
           \/ up'[q] = up[q] /\ up[q].pc \notin {"expose", "serve", "find"},
         by \in Ups => UpOK(up[by])'
  PROVE  ProjectInv'
<1>1. t \in Tunnels /\ ~Made(t)
  BY DEF Project!New, Made
<1>2. /\ made' = [made EXCEPT ![t] = [at |-> second, by |-> by]]
      /\ records' = records \cup {t}
  BY DEF Project!Make
<1>3. /\ made \in [Tunnels -> [at : Nat, by : Ups \cup {"other", None}]]
      /\ made' \in [Tunnels -> [at : Nat, by : Ups \cup {"other", None}]]
  BY <1>1, <1>2 DEF ProjectInv, ProjectTypes
<1>4. by # None
  BY ProjectAssumption
<1>5. \A u : Made(u)' <=> Made(u) \/ u = t
  BY <1>1, <1>2, <1>3, <1>4 DEF Made
<1>6. ProjectTypes'
  BY <1>2, <1>3, <1>5 DEF ProjectInv, ProjectTypes
<1>7. ASSUME NEW q \in Ups, q # by PROVE UpOK(up[q])'
  <2>1. UpOK(up[q]) /\ up[q] \in UpStates
    BY DEF ProjectInv, ProjectTypes
  <2>r. PICK r : r = up'[q]
    OBVIOUS
  <2>2. /\ r.pc = up[q].pc /\ r.old = up[q].old /\ r.found = up[q].found
        /\ r.with = up[q].with /\ r.mine = up[q].mine
        /\ r.unread = up[q].unread /\ r.raced = up[q].raced
        /\ \/ r.alone = FALSE
           \/ r.alone = up[q].alone /\ r.pc \notin {"expose", "serve", "find"}
    BY <2>r, <1>7, <2>1 DEF UpStates
  <2>3. /\ r.pc \in {"compare", "remove"} =>
             Made(r.old)' /\ (r.unread \/ r.old \notin records')
        /\ r.pc = "remove" => r.raced \/ state' \in {r.old, None}
        /\ r.pc = "save" => Made(r.found)' /\ r.found \notin r.with
    BY <1>1, <1>2, <1>5, <2>1, <2>2 DEF UpOK
  <2>4. r.pc = "save" /\ r.alone => r.unread \/ r.found = r.mine
    BY <2>1, <2>2 DEF UpOK
  <2>5. /\ ~(r.pc = "expose" /\ r.alone)
        /\ ~(r.pc \in {"serve", "find"} /\ r.alone)
    BY <2>r, <2>2
  <2>6. UpOK(r)'
    BY <2>r, <2>3, <2>4, <2>5 DEF UpOK
  <2> QED BY <2>r, <2>6 DEF UpOK
<1> QED BY <1>6, <1>7 DEF ProjectInv

LEMMA UpExposes == ASSUME ProjectInv, NEW p \in Ups, Project!Expose(p) PROVE ProjectInv'
<1>1. up[p] \in UpStates /\ UpOK(up[p]) /\ up[p].pc = "expose"
  BY DEF ProjectInv, ProjectTypes, Project!Expose, Project!At
<1>2. UNCHANGED <<second, state>>
  BY DEF Project!Expose
<1>3. CASE Project!Set(p, Project!Over) /\ UNCHANGED <<made, records>>
  <2>1. PICK r : r = Project!Over
    OBVIOUS
  <2>2. r \in UpStates /\ r.pc = "over"
    BY <2>1 DEF Project!Over, Project!Idle, UpStates
  <2>3. UpOK(r)'
    BY <2>2 DEF UpOK
  <2>4. state' \in {state, None}
    BY <1>2
  <2> QED BY <1>2, <1>3, <2>1, <2>2, <2>3, <2>4, UpStep DEF Project!Set
<1>4. CASE \E place_ \in {"find", "serve"} :
             /\ Project!New # {} /\ Project!Make(p, CHOOSE t \in Project!New : TRUE)
             /\ up' = [q \in Ups |->
                  IF q = p THEN [up[p] EXCEPT !.pc = place_,
                                              !.mine = CHOOSE t \in Project!New : TRUE]
                  ELSE [up[q] EXCEPT !.alone = FALSE]]
  <2>1. PICK t \in Project!New : t = CHOOSE u \in Project!New : TRUE
    BY <1>4
  <2>2. PICK place_ \in {"find", "serve"} :
          up' = [q \in Ups |->
                  IF q = p THEN [up[p] EXCEPT !.pc = place_, !.mine = t]
                  ELSE [up[q] EXCEPT !.alone = FALSE]]
    BY <1>4, <2>1
  <2>3. Project!Make(p, t) /\ t \in Tunnels
    BY <1>4, <2>1 DEF Project!New
  <2>4. up' \in [Ups -> UpStates]
    <3>1. ASSUME NEW q \in Ups PROVE [up[q] EXCEPT !.alone = FALSE] \in UpStates
      BY DEF ProjectInv, ProjectTypes, UpStates
    <3>2. [up[p] EXCEPT !.pc = place_, !.mine = t] \in UpStates
      BY <1>1, <2>3 DEF UpStates
    <3> QED BY <2>2, <3>1, <3>2
  <2>5. PICK r : r = up'[p]
    OBVIOUS
  <2>6. /\ r.pc \in {"find", "serve"} /\ r.mine = t /\ r.with = up[p].with
        /\ r.alone = up[p].alone /\ r.unread = up[p].unread
    BY <1>1, <2>2, <2>5 DEF UpStates
  <2>7. records' = records \cup {t}
    BY <2>3 DEF Project!Make
  <2>8. UpOK(up[p])'
    BY <1>1, <2>5, <2>6, <2>7 DEF UpOK
  <2>9. \A q \in Ups : q # p => up'[q] = [up[q] EXCEPT !.alone = FALSE]
    BY <2>2
  <2> QED BY <1>2, <2>3, <2>4, <2>8, <2>9, OneMore
<1> QED BY <1>3, <1>4 DEF Project!Expose

LEMMA OthersMake == ASSUME ProjectInv, Project!Other PROVE ProjectInv'
<1>1. UNCHANGED <<second, state>>
  BY DEF Project!Other
<1>2. CASE /\ Project!New # {} /\ Project!Make("other", CHOOSE t \in Project!New : TRUE)
           /\ up' = [p \in Ups |-> IF up[p].pc \in {"expose", "serve", "find"}
                                     THEN [up[p] EXCEPT !.alone = FALSE] ELSE up[p]]
  <2>1. PICK t \in Project!New : Project!Make("other", t)
    BY <1>2
  <2>2. up' \in [Ups -> UpStates]
    <3>1. ASSUME NEW q \in Ups
          PROVE  up[q] \in UpStates /\ [up[q] EXCEPT !.alone = FALSE] \in UpStates
      BY DEF ProjectInv, ProjectTypes, UpStates
    <3> QED BY <1>2, <3>1
  <2>3. \A q \in Ups : \/ up'[q] = [up[q] EXCEPT !.alone = FALSE]
                       \/ up'[q] = up[q] /\ up[q].pc \notin {"expose", "serve", "find"}
    BY <1>2
  <2>4. "other" \notin Ups
    BY ProjectAssumption
  <2> QED BY <1>1, <2>1, <2>2, <2>3, <2>4, OneMore
<1>3. CASE \E t \in records : records' = records \ {t} /\ UNCHANGED <<made, up>>
  <2>1. records' \subseteq records /\ UNCHANGED <<made, up, state, second>>
    BY <1>1, <1>3
  <2>2. ProjectTypes'
    BY <2>1 DEF ProjectInv, ProjectTypes, Made
  <2>3. ASSUME NEW p \in Ups PROVE UpOK(up[p])'
    BY <2>1 DEF ProjectInv, UpOK, Made
  <2> QED BY <2>2, <2>3 DEF ProjectInv
<1> QED BY <1>2, <1>3 DEF Project!Other

LEMMA ProjectElse ==
  ASSUME ProjectInv, Project!Tick \/ UNCHANGED stateVars
  PROVE  ProjectInv'
<1>1. UNCHANGED <<made, records, state, up>>
  BY DEF Project!Tick, stateVars
<1>2. second' \in Nat
  BY DEF Project!Tick, stateVars, ProjectInv, ProjectTypes
<1> QED BY <1>1, <1>2 DEF ProjectInv, ProjectTypes, UpOK, Made

\* The steps of another up leave this one where it is.
LEMMA UpsApart ==
  ASSUME ProjectInv, NEW p \in Ups, NEW q \in Ups, q # p,
         \/ Project!Begin(q) \/ Project!Load(q) \/ Project!Compare(q)
         \/ Project!Remove(q) \/ Project!Before(q) \/ Project!Find(q)
         \/ Project!Save(q) \/ Project!Again(q) \/ Project!Serve(q)
  PROVE  up'[p].pc = up[p].pc
<1>1. up \in [Ups -> UpStates] /\ up[p] \in UpStates
  BY DEF ProjectInv, ProjectTypes
<1>2. CASE \E r : up' = [up EXCEPT ![q] = r]
  BY <1>1, <1>2
<1>3. ASSUME Project!Save(q), state' = up[q].found
      PROVE  up'[p].pc = up[p].pc
  <2>1. CASE Project!Set(q, Project!Over)
    BY <1>2, <2>1 DEF Project!Set
  <2>2. CASE up' = [w \in Ups |-> IF w = q THEN Project!Over
                      ELSE [up[w] EXCEPT !.raced = @ \/ Project!At(w, "remove")]]
    <3>1. up'[p] = [up[p] EXCEPT !.raced = up[p].raced \/ Project!At(p, "remove")]
      BY <2>2
    <3> QED BY <1>1, <3>1 DEF UpStates
  <2> QED BY <1>3, <2>1, <2>2 DEF Project!Save
<1>4. ASSUME Project!Save(q), state' # up[q].found
      PROVE  up'[p].pc = up[p].pc
  BY <1>2, <1>4 DEF Project!Save, Project!Set
<1>5. ASSUME \/ Project!Begin(q) \/ Project!Load(q) \/ Project!Compare(q)
             \/ Project!Remove(q) \/ Project!Before(q) \/ Project!Find(q)
             \/ Project!Again(q) \/ Project!Serve(q)
      PROVE  \E r : up' = [up EXCEPT ![q] = r]
  BY <1>5 DEF Project!Begin, Project!Load, Project!Compare, Project!Remove, Project!Before,
         Project!Find, Project!Again, Project!Serve, Project!Go, Project!Set
<1> QED BY <1>2, <1>3, <1>4, <1>5

\* What a step does to state.json.
LEMMA ProjectActs == ASSUME ProjectInv, Project!Next PROVE Project!StateBy
<1>1. ASSUME NEW p \in Ups, up[p].pc = "save", up'[p].pc # "save", state' # state
      PROVE  state' = up[p].found
  <2>2. ASSUME NEW q \in Ups, Project!Expose(q) PROVE state' = state
    BY <2>2 DEF Project!Expose
  <2>3. Project!Other \/ Project!Tick => state' = state
    BY DEF Project!Other, Project!Tick
  <2>4. ASSUME Project!Begin(p) \/ Project!Load(p) \/ Project!Compare(p) \/ Project!Remove(p)
               \/ Project!Before(p) \/ Project!Find(p) \/ Project!Again(p) \/ Project!Serve(p)
        PROVE  FALSE
    BY <1>1, <2>4
    DEF Project!Begin, Project!Load, Project!Compare, Project!Remove, Project!Before,
        Project!Find, Project!Again, Project!Serve, Project!At
  <2>5. Project!Save(p) => state' = up[p].found
    BY <1>1 DEF Project!Save
  <2> QED BY <1>1, <2>2, <2>3, <2>4, <2>5, UpsApart DEF Project!Next
<1>2. Project!WritesOwn
  <2> SUFFICES ASSUME NEW p \in Ups, up[p].pc = "save", up'[p].pc # "save", state' # state,
                      ~up[p].unread
               PROVE  /\ up[p].alone => state' = up[p].mine
                      /\ state' \notin up[p].with /\ made[state'].by # None
    BY DEF Project!WritesOwn, Project!At
  <2>1. state' = up[p].found
    BY <1>1
  <2> QED BY <2>1 DEF ProjectInv, UpOK, Made
<1>3. Project!ForgetsTheGone
  <2> SUFFICES ASSUME NEW p \in Ups, up[p].pc = "remove", state # None, ~up[p].unread,
                      ~up[p].raced
               PROVE  state \notin records
    BY DEF Project!ForgetsTheGone, Project!Removes, Project!At
  <2>1. UpOK(up[p])
    BY DEF ProjectInv
  <2> QED BY <2>1 DEF UpOK
<1> QED BY <1>2, <1>3 DEF Project!StateBy

LEMMA ProjectSteps == [PartsNext]_all => Project!Next \/ UNCHANGED stateVars
BY DEF PartsNext, all, stateVars, LimiterRuns, TrafficRuns, CredentialsRun, KeyRuns,
       CommandLineRuns, ConsoleRuns, LinksRun, DomainRuns, ProjectRuns

\* For any number of ups and tunnels: an up that could read the store and works alone
\* writes down the tunnel it made, any such up one that was made since it began; and the
\* state that one removes is of a tunnel that is gone, unless another up writes a new one
\* between the comparison and the removal (up.go:106-157, 941-952, 996-1033).
THEOREM ProjectWritesOwn == PartsSpec => StateKept
<1>1. PartsInit => ProjectInv
  BY ProjectBegins DEF PartsInit
<1>2. ProjectInv /\ [PartsNext]_all => ProjectInv' /\ [Project!StateBy]_stateVars
  <2> SUFFICES ASSUME ProjectInv, [PartsNext]_all
               PROVE  ProjectInv' /\ (Project!StateBy \/ UNCHANGED stateVars)
    OBVIOUS
  <2>1. CASE UNCHANGED stateVars
    BY <2>1, ProjectElse
  <2>2. CASE Project!Next
    BY <2>2, UpLooks, UpExposes, OthersMake, ProjectElse, ProjectActs DEF Project!Next
  <2> QED BY <2>1, <2>2, ProjectSteps
<1>3. [Project!StateBy]_stateVars => [part = "project" => Project!StateBy]_stateVars
  OBVIOUS
<1> QED BY <1>1, <1>2, <1>3, PTL DEF PartsSpec, StateKept
-----------------------------------------------------------------------------
(* The device login. *)

CodeStates == [state : {"unused", "pending", "granted", "denied", "spent"}, until : Nat,
               granted : Nat, for : Profiles \cup {None}]
CodesOK == time \in Nat /\ codes \in [Codes -> CodeStates]

\* The code was issued for the login of this profile.
Issued(code, profile) ==
  code \in Codes /\ codes[code].for = profile /\ codes[code].state # "unused"
Spent(code) == codes[code].state = "spent"

\* What the command line knows of the code's grant: since it last asked, if no answer was
\* lost.
GrantedSince(t) == codes[cli.code].state = "granted" /\ ~cli.lost => codes[cli.code].granted >= t
GrantedBy(t) ==
  codes[cli.code].state = "granted" /\ ~cli.lost => codes[cli.code].granted + cli.every >= t

CliStates == [pc : {"idle", "check", "sleep", "ask", "exchange"}, code : Codes \cup {None},
              profile : Profiles \cup {None}, deadline : Nat, every : Nat, wake : Nat,
              lost : BOOLEAN, result : Login!Results]

Polling ==
  /\ cli.pc # "idle" => cli.result = None
  /\ cli.pc = "check" => time <= cli.deadline + cli.every /\ GrantedSince(time)
  /\ cli.pc \in {"sleep", "ask"} =>
       /\ time <= cli.wake /\ cli.wake <= cli.deadline + cli.every
       /\ cli.wake <= time + cli.every /\ GrantedBy(cli.wake)
  /\ cli.pc = "ask" => time = cli.wake
  /\ cli.result = "timeout" => time >= cli.deadline /\ GrantedBy(cli.deadline)
  /\ cli.result = "expired" => time >= codes[cli.code].until /\ GrantedBy(codes[cli.code].until)

CliInv ==
  /\ CodesOK /\ cli \in CliStates
  /\ pending = None
  /\ \A h \in Handlers : Login!At(h, "idle")
  /\ cli.code = None => cli.pc = "idle" /\ cli.result = None /\ saved = {}
  /\ cli.code # None => Issued(cli.code, cli.profile) /\ Polling
  /\ saved \subseteq {[code |-> cli.code, profile |-> cli.profile]}
  /\ saved # {} \/ cli.pc = "exchange" => Spent(cli.code)

\* A login of the console that somebody holds.
Held(l) == l \in [code : Codes, profile : Profiles, until : Nat] /\ Issued(l.code, l.profile)

AtWork(h) == handler[h].pc # "idle"

HandlerOK(h) ==
  /\ handler[h] \in [pc : {"idle", "set", "expired", "ask", "exchange", "done"},
                     pending : {handler[h].pending}]
  /\ AtWork(h) => Held(handler[h].pending)
  /\ handler[h].pc = "exchange" => Spent(handler[h].pending.code)

\* Until the session is set nobody else knows the new code.
OwnCode(h) ==
  handler[h].pc = "set" =>
    /\ ~Spent(handler[h].pending.code)
    /\ pending # None => pending.code # handler[h].pending.code
    /\ \A g \in Handlers : g # h /\ AtWork(g) => handler[g].pending.code # handler[h].pending.code

HandlersOK ==
  /\ DOMAIN handler = Handlers
  /\ \A h \in Handlers : HandlerOK(h) /\ OwnCode(h)
  /\ pending # None => Held(pending)

\* A login that was saved is pending no longer than until its request has cleared it.
SavedOK ==
  /\ \A s \in saved : s \in Login!Logins /\ Issued(s.code, s.profile) /\ Spent(s.code)
  /\ \A s \in saved : pending # None /\ s.code = pending.code
       => \E h \in Handlers : handler[h].pc = "done"

ConsoleInv ==
  CodesOK /\ cli.pc = "idle" /\ cli.result = None /\ HandlersOK /\ SavedOK

LEMMA NewIsUnused ==
  ASSUME Login!Unused # {}
  PROVE  Login!NewCode \in Codes /\ codes[Login!NewCode].state = "unused"
BY DEF Login!Unused, Login!NewCode

LEMMA CodeIssued ==
  ASSUME CodesOK, NEW profile \in Profiles, NEW n, n = Login!NewCode,
         Login!Issue(n, profile), time' = time
  PROVE  /\ n \in Codes /\ codes[n].state = "unused"
         /\ CodesOK' /\ codes'[n].state = "pending" /\ Issued(n, profile)'
         /\ \A c \in Codes : c # n => codes'[c] = codes[c]
<1>1. n \in Codes /\ codes[n].state = "unused"
  BY NewIsUnused DEF Login!Issue
<1>2. codes' = [codes EXCEPT ![n] = [state |-> "pending", until |-> time + Lifetime,
                                     granted |-> 0, for |-> profile]]
  BY DEF Login!Issue
<1>3. [state |-> "pending", until |-> time + Lifetime, granted |-> 0, for |-> profile]
        \in CodeStates
  BY LoginAssumption DEF CodesOK, CodeStates
<1>4. /\ codes' \in [Codes -> CodeStates]
      /\ codes'[n].state = "pending" /\ codes'[n].for = profile
      /\ \A c \in Codes : c # n => codes'[c] = codes[c]
  BY <1>1, <1>2, <1>3 DEF CodesOK
<1>5. Issued(n, profile)'
  BY <1>1, <1>4 DEF Issued
<1> QED BY <1>1, <1>4, <1>5 DEF CodesOK

(* The command line. *)

LEMMA UserGrants ==
  ASSUME CodesOK, NEW c \in Codes, Login!User(c)
  PROVE  /\ codes[c].state = "pending" /\ time < codes[c].until
         /\ codes' \in [Codes -> CodeStates] /\ CodesOK'
         /\ codes'[c].state \in {"granted", "denied"} /\ codes'[c].granted = time
         /\ codes'[c].for = codes[c].for /\ codes'[c].until = codes[c].until
         /\ \A d \in Codes : d # c => codes'[d] = codes[d]
<1>1. /\ codes[c].state = "pending" /\ ~(time >= codes[c].until) /\ time' = time
  BY DEF Login!User, Login!Expired
<1>2. codes[c] \in CodeStates /\ time \in Nat
  BY DEF CodesOK
<1>3. PICK s \in {"granted", "denied"} :
        codes' = [codes EXCEPT ![c].state = s, ![c].granted = time]
  BY DEF Login!User
<1>4. codes' = [codes EXCEPT ![c] = [codes[c] EXCEPT !.state = s, !.granted = time]]
  BY <1>3 DEF CodesOK
<1>5. [codes[c] EXCEPT !.state = s, !.granted = time] \in CodeStates
  BY <1>2 DEF CodeStates
<1>6. /\ codes'[c] = [codes[c] EXCEPT !.state = s, !.granted = time]
      /\ \A d \in Codes : d # c => codes'[d] = codes[d]
      /\ codes' \in [Codes -> CodeStates]
  BY <1>4, <1>5 DEF CodesOK
<1>7. time < codes[c].until
  BY <1>1, <1>2 DEF CodeStates
<1> QED BY <1>1, <1>2, <1>6, <1>7 DEF CodesOK, CodeStates

LEMMA CliUser == ASSUME CliInv, NEW c \in Codes, Login!User(c) PROVE CliInv'
<1>1. UNCHANGED <<time, cli, pending, handler, saved>>
  BY DEF Login!User
<1>2. CodesOK
  BY DEF CliInv
<1>3. /\ codes[c].state = "pending" /\ time < codes[c].until
      /\ codes'[c].state \in {"granted", "denied"} /\ codes'[c].granted = time
      /\ codes'[c].for = codes[c].for /\ codes'[c].until = codes[c].until
      /\ CodesOK' /\ \A d \in Codes : d # c => codes'[d] = codes[d]
  BY <1>2, UserGrants
<1>4. CASE c # cli.code
  <2>1. cli.code # None => codes'[cli.code] = codes[cli.code]
    BY <1>3, <1>4 DEF CliInv, Issued
  <2>2. cli.code # None => Issued(cli.code, cli.profile)' /\ Polling'
    BY <1>1, <2>1 DEF CliInv, Issued, Polling, GrantedSince, GrantedBy
  <2>3. Spent(cli.code) /\ cli.code # None => Spent(cli.code)'
    BY <1>1, <2>1 DEF Spent
  <2> QED BY <1>1, <1>3, <2>2, <2>3 DEF CliInv, Login!At
<1>5. CASE c = cli.code
  <2>1. saved = {} /\ cli.pc # "exchange"
    BY <1>3, <1>5 DEF CliInv, Spent
  <2>2. Issued(cli.code, cli.profile)'
    BY <1>1, <1>3, <1>5, LoginAssumption DEF CliInv, Issued
  <2>3. Polling'
    <3>1. Polling /\ cli \in CliStates /\ time \in Nat /\ codes[c].until \in Nat
      BY <1>2, <1>5, LoginAssumption DEF CliInv, CodesOK, CodeStates
    <3>2. cli.result # "expired"
      BY <1>3, <1>5, <3>1 DEF Polling
    <3>3. GrantedSince(time)' /\ GrantedBy(time)'
      BY <1>1, <1>3, <1>5, <3>1 DEF GrantedSince, GrantedBy, CliStates
    <3>4. cli.pc \in {"sleep", "ask"} => GrantedBy(cli.wake)'
      BY <1>1, <1>3, <1>5, <3>1 DEF Polling, GrantedBy, CliStates
    <3>5. cli.result = "timeout" => GrantedBy(cli.deadline)'
      BY <1>1, <1>3, <1>5, <3>1 DEF Polling, GrantedBy, CliStates
    <3> QED BY <1>1, <3>1, <3>2, <3>3, <3>4, <3>5 DEF Polling
  <2> QED BY <1>1, <1>3, <1>5, <2>1, <2>2, <2>3 DEF CliInv, Login!At
<1> QED BY <1>4, <1>5

LEMMA CliStarts ==
  ASSUME CliInv, NEW profile \in Profiles, Login!CliStart(profile) PROVE CliInv'
<1>n. PICK n : n = Login!NewCode
  OBVIOUS
<1>1. /\ cli.code = None /\ Login!Issue(n, profile)
      /\ UNCHANGED <<time, pending, handler, saved>>
  BY <1>n DEF Login!CliStart
<1>2. PICK end \in Nat :
        /\ time <= end
        /\ cli' = [pc |-> "check", code |-> n, profile |-> profile, deadline |-> end,
                   every |-> Interval, wake |-> 0, lost |-> FALSE, result |-> None]
  <2> DEFINE e == time + (IF Lifetime > MaxWait THEN MaxWait ELSE Lifetime)
  <2>1. e \in Nat /\ time <= e
    BY LoginAssumption DEF CliInv, CodesOK
  <2>2. cli' = [pc |-> "check", code |-> n, profile |-> profile, deadline |-> e,
                every |-> Interval, wake |-> 0, lost |-> FALSE, result |-> None]
    BY <1>n DEF Login!CliStart
  <2> QED BY <2>1, <2>2
<1>3. /\ n \in Codes /\ CodesOK'
      /\ Issued(n, profile)' /\ codes'[n].state = "pending"
  BY <1>n, <1>1, CodeIssued DEF CliInv
<1>4. saved = {} /\ n # None
  BY <1>1, <1>3, LoginAssumption DEF CliInv
<1>5. CodesOK' /\ cli' \in CliStates
  BY <1>1, <1>2, <1>3, LoginAssumption DEF CliInv, CodesOK, CliStates, Login!Results
<1>6. Polling'
  <2>1. GrantedSince(time)'
    BY <1>2, <1>3 DEF GrantedSince
  <2>2. time' <= cli'.deadline + cli'.every
    BY <1>1, <1>2, LoginAssumption DEF CliInv, CodesOK
  <2> QED BY <1>2, <2>1, <2>2, LoginAssumption DEF Polling
<1>7. cli'.code = n /\ Issued(cli.code, cli.profile)'
  BY <1>2, <1>3 DEF Issued
<1>8. pending' = None /\ saved' = {} /\ \A h \in Handlers : Login!At(h, "idle")'
  BY <1>1, <1>4 DEF CliInv, Login!At
<1> QED BY <1>2, <1>4, <1>5, <1>6, <1>7, <1>8 DEF CliInv

\* A step of a login that is going on, which leaves its code and profile as they are, keeps
\* the invariant if it keeps what is known of the time and the saved login.
LEMMA CliGoesOn ==
  ASSUME CliInv, cli.code # None, CodesOK', cli' \in CliStates,
         cli'.code = cli.code, cli'.profile = cli.profile, Issued(cli.code, cli.profile)',
         UNCHANGED <<pending, handler>>, Polling',
         saved' \subseteq saved \cup {[code |-> cli.code, profile |-> cli.profile]},
         saved' # {} \/ cli'.pc = "exchange" => Spent(cli.code)'
  PROVE  CliInv'
BY DEF CliInv, Login!At

LEMMA CliChecks == ASSUME CliInv, Login!CliCheck PROVE CliInv'
<1>1. /\ cli.pc = "check" /\ UNCHANGED <<time, codes, pending, handler, saved>>
      /\ IF time < cli.deadline
           THEN cli' = [cli EXCEPT !.pc = "sleep", !.wake = time + cli.every]
           ELSE cli' = [cli EXCEPT !.pc = "idle", !.result = "timeout"]
  BY DEF Login!CliCheck, Login!CliEnd
<1>2. /\ cli \in CliStates /\ time \in Nat /\ cli.code # None /\ cli.code \in Codes
      /\ codes[cli.code] \in CodeStates
      /\ Issued(cli.code, cli.profile) /\ Polling /\ time <= cli.deadline + cli.every
      /\ GrantedSince(time) /\ cli.result = None
  BY <1>1 DEF CliInv, CodesOK, Issued, Polling
<1>3. /\ cli' \in CliStates /\ cli'.code = cli.code /\ cli'.profile = cli.profile
      /\ cli'.lost = cli.lost /\ cli'.every = cli.every /\ cli'.deadline = cli.deadline
  <2>1. CASE time < cli.deadline
    <3>1. cli' = [cli EXCEPT !.pc = "sleep", !.wake = time + cli.every]
      BY <1>1, <2>1
    <3>2. time + cli.every \in Nat
      BY <1>2 DEF CliStates
    <3> QED BY <1>2, <3>1, <3>2 DEF CliStates
  <2>2. CASE ~(time < cli.deadline)
    <3>1. cli' = [cli EXCEPT !.pc = "idle", !.result = "timeout"] /\ cli \in CliStates
      BY <1>1, <1>2, <2>2
    <3> QED BY <3>1 DEF CliStates, Login!Results
  <2> QED BY <2>1, <2>2
<1>4. CASE time < cli.deadline
  <2>1. cli'.pc = "sleep" /\ cli'.wake = time + cli.every /\ cli'.result = None
    BY <1>1, <1>2, <1>4 DEF CliStates
  <2>2. GrantedBy(cli.wake)'
    BY <1>1, <1>2, <1>3, <2>1 DEF GrantedBy, GrantedSince, CodeStates, CliStates
  <2>3. /\ time <= cli'.wake /\ cli'.wake <= cli.deadline + cli.every
        /\ cli'.wake <= time + cli.every
    BY <1>2, <1>4, <2>1 DEF CliStates
  <2>4. Polling'
    BY <1>1, <1>3, <2>1, <2>2, <2>3, LoginAssumption DEF Polling
  <2> QED BY <1>1, <1>2, <1>3, <2>1, <2>4, CliGoesOn DEF CliInv, CodesOK, Issued, Spent
<1>5. CASE ~(time < cli.deadline)
  <2>1. cli'.pc = "idle" /\ cli'.result = "timeout" /\ time >= cli.deadline
    <3>1. cli' = [cli EXCEPT !.pc = "idle", !.result = "timeout"]
      BY <1>1, <1>5
    <3>2. time >= cli.deadline
      BY <1>2, <1>5 DEF CliStates
    <3> QED BY <1>2, <3>1, <3>2 DEF CliStates
  <2>2. GrantedBy(cli.deadline)'
    BY <1>1, <1>2, <1>3, <2>1 DEF GrantedBy, GrantedSince, CodeStates, CliStates
  <2>3. Polling'
    BY <1>1, <1>3, <2>1, <2>2 DEF Polling
  <2> QED BY <1>1, <1>2, <1>3, <2>1, <2>3, CliGoesOn DEF CliInv, CodesOK, Issued, Spent
<1> QED BY <1>4, <1>5

LEMMA CliWakes == ASSUME CliInv, Login!CliWake PROVE CliInv'
<1>1. /\ cli.pc = "sleep" /\ time >= cli.wake /\ cli' = [cli EXCEPT !.pc = "ask"]
      /\ UNCHANGED <<time, codes, pending, handler, saved>>
  BY DEF Login!CliWake, Login!CliGo
<1>2. /\ cli \in CliStates /\ time \in Nat /\ cli.code # None
      /\ Issued(cli.code, cli.profile) /\ Polling
  BY <1>1 DEF CliInv, CodesOK
<1>3. /\ cli' \in CliStates /\ cli'.code = cli.code /\ cli'.profile = cli.profile
      /\ cli'.lost = cli.lost /\ cli'.every = cli.every /\ cli'.deadline = cli.deadline
      /\ cli'.result = cli.result /\ cli'.pc = "ask" /\ cli'.wake = cli.wake
  BY <1>1, <1>2 DEF CliStates
<1>4. time = cli.wake
  BY <1>1, <1>2 DEF Polling, CliStates
<1>5. Polling'
  BY <1>1, <1>2, <1>3, <1>4 DEF Polling, GrantedBy
<1> QED BY <1>1, <1>2, <1>3, <1>5, CliGoesOn DEF CliInv, CodesOK, Issued, Spent

LEMMA CliExchanges == ASSUME CliInv, Login!CliExchange PROVE CliInv'
<1>1. /\ cli.pc = "exchange" /\ UNCHANGED <<time, codes, pending, handler>>
      /\ \E r \in {"saved", "failed"} : cli' = [cli EXCEPT !.pc = "idle", !.result = r]
      /\ saved' \subseteq saved \cup {[code |-> cli.code, profile |-> cli.profile]}
  BY DEF Login!CliExchange, Login!CliEnd
<1>2. /\ cli \in CliStates /\ cli.code # None /\ Spent(cli.code)
      /\ Issued(cli.code, cli.profile)
  BY <1>1 DEF CliInv
<1>3. /\ cli' \in CliStates /\ cli'.code = cli.code /\ cli'.profile = cli.profile
      /\ cli'.result \in {"saved", "failed"} /\ cli'.pc = "idle"
  BY <1>1, <1>2 DEF CliStates, Login!Results
<1>4. Polling'
  BY <1>3 DEF Polling
<1> QED BY <1>1, <1>2, <1>3, <1>4, CliGoesOn DEF CliInv, CodesOK, Issued, Spent

LEMMA CliTicks == ASSUME CliInv, Login!Tick PROVE CliInv'
<1>1. /\ time' = time + 1 /\ UNCHANGED <<codes, cli, pending, handler, saved>>
      /\ cli.pc = "idle" \/ (cli.pc = "sleep" /\ time < cli.wake)
  BY DEF Login!Tick
<1>2. time \in Nat /\ cli \in CliStates
  BY DEF CliInv, CodesOK
<1>3. CodesOK'
  BY <1>1 DEF CliInv, CodesOK
<1>4. ASSUME cli.code # None PROVE Polling' /\ Issued(cli.code, cli.profile)'
  <2>1. /\ Polling /\ Issued(cli.code, cli.profile) /\ codes[cli.code].until \in Nat
    BY <1>3, <1>4 DEF CliInv, CodesOK, CodeStates, Issued
  <2>2. cli.pc = "sleep" => time + 1 <= cli.wake /\ cli.wake <= time + 1 + cli.every
    BY <1>1, <1>2, <2>1 DEF Polling, CliStates
  <2>3. /\ cli.result = "timeout" => time + 1 >= cli.deadline
        /\ cli.result = "expired" => time + 1 >= codes[cli.code].until
    BY <1>2, <2>1 DEF Polling, CliStates
  <2> QED BY <1>1, <2>1, <2>2, <2>3 DEF Polling, GrantedBy, Issued
<1>5. Spent(cli.code) => Spent(cli.code)'
  BY <1>1 DEF Spent
<1> QED BY <1>1, <1>3, <1>4, <1>5 DEF CliInv, Login!At

\* What an answer of the region tells, and changes.
LEMMA Answered ==
  ASSUME CodesOK, NEW c \in Codes, NEW a \in Login!Answers(c), Login!Give(c, a), time' = time
  PROVE  /\ CodesOK' /\ \A d \in Codes : d # c => codes'[d] = codes[d]
         /\ codes'[c].for = codes[c].for
         /\ a = "token" => Spent(c)' /\ codes'[c].until = 0
         /\ a # "token" => codes' = codes
         /\ a \in {"pending", "slow_down"} => codes[c].state # "granted"
         /\ a = "expired" => time >= codes[c].until
         /\ a \in {"refused", "denied", "expired", "token", "pending", "slow_down"}
         /\ Spent(c) => a = "refused"
         /\ codes[c].state # "unused" => codes'[c].state # "unused"
<1>1. /\ a \in {"refused", "denied", "expired", "token", "pending", "slow_down"}
      /\ a \in {"pending", "slow_down"} => codes[c].state # "granted"
      /\ a = "expired" => time >= codes[c].until
      /\ codes[c].state = "spent" => a = "refused"
  BY DEF Login!Answers, Login!Expired
<1>2. CASE a # "token"
  <2>1. codes' = codes
    BY <1>2 DEF Login!Give
  <2> QED BY <1>1, <1>2, <2>1 DEF CodesOK, Spent
<1>3. CASE a = "token"
  <2> DEFINE r == [codes[c] EXCEPT !.state = "spent", !.until = 0, !.granted = 0]
  <2>1. codes[c] \in CodeStates /\ codes \in [Codes -> CodeStates]
    BY DEF CodesOK
  <2>2. codes' = [codes EXCEPT ![c] = r]
    BY <1>3 DEF Login!Give
  <2>3. /\ r \in CodeStates /\ r.state = "spent" /\ r.for = codes[c].for /\ r.until = 0
    BY <2>1 DEF CodeStates
  <2> HIDE DEF r
  <2>4. /\ codes' \in [Codes -> CodeStates] /\ codes'[c] = r
        /\ \A d \in Codes : d # c => codes'[d] = codes[d]
    BY <2>1, <2>2, <2>3
  <2> QED BY <1>1, <1>3, <2>3, <2>4 DEF CodesOK, Spent
<1> QED BY <1>2, <1>3

LEMMA CliAsks == ASSUME CliInv, Login!CliAsk PROVE CliInv'
<1>c. PICK c : c = cli.code
  OBVIOUS
<1>1. /\ cli.pc = "ask" /\ UNCHANGED <<time, pending, handler, saved>>
      /\ cli \in CliStates /\ time \in Nat /\ c # None /\ c \in Codes /\ (saved = {} \/ Spent(c))
      /\ CodesOK /\ Issued(c, cli.profile) /\ Polling
  BY <1>c DEF Login!CliAsk, CliInv, CodesOK, Issued
<1>2. /\ time = cli.wake /\ time <= cli.deadline + cli.every /\ GrantedBy(time)
  BY <1>1 DEF Polling
<1>3. PICK a \in Login!Answers(c) :
        /\ Login!Give(c, a)
        /\ \/ CASE a = "pending" -> cli' = [cli EXCEPT !.pc = "check"]
                [] a = "slow_down" -> cli' = [cli EXCEPT !.pc = "check", !.every = @ + 1]
                [] a = "token" -> cli' = [cli EXCEPT !.pc = "exchange"]
                [] a = "refused" -> cli' = [cli EXCEPT !.pc = "idle", !.result = "failed"]
                [] OTHER -> cli' = [cli EXCEPT !.pc = "idle", !.result = a]
           \/ a = "token" /\ cli' = [cli EXCEPT !.pc = "idle", !.result = "failed"]
           \/ ~cli.lost /\ cli' = [cli EXCEPT !.pc = "check", !.lost = TRUE]
  BY <1>c DEF Login!CliAsk, Login!CliGo, Login!CliEnd
<1>4. /\ CodesOK' /\ codes'[c].for = codes[c].for
      /\ a = "token" => Spent(c)' /\ codes'[c].until = 0
      /\ a # "token" => codes' = codes
      /\ a \in {"pending", "slow_down"} => codes[c].state # "granted"
      /\ a = "expired" => time >= codes[c].until
      /\ a \in {"refused", "denied", "expired", "token", "pending", "slow_down"}
      /\ Spent(c) => a = "refused"
      /\ codes[c].state # "unused" => codes'[c].state # "unused"
  BY <1>1, <1>3, Answered
<1>5. Issued(c, cli.profile)'
  <2>1. codes'[c].for = cli.profile /\ codes'[c].state # "unused" /\ cli'.profile = cli.profile
    BY <1>1, <1>3, <1>4 DEF Issued, CliStates
  <2> QED BY <1>1, <2>1 DEF Issued
<1>6. saved' # {} => Spent(c)'
  BY <1>1, <1>4 DEF Spent
<1>7. /\ cli' \in CliStates /\ cli'.code = c /\ cli'.profile = cli.profile
      /\ cli'.deadline = cli.deadline /\ cli'.pc \in {"check", "exchange", "idle"}
      /\ cli'.every >= cli.every /\ cli'.every \in Nat
  <2>1. \/ \E pc \in {"check", "exchange"} : cli' = [cli EXCEPT !.pc = pc]
        \/ \E r \in {"failed", "denied", "expired"} :
             cli' = [cli EXCEPT !.pc = "idle", !.result = r]
        \/ cli' = [cli EXCEPT !.pc = "check", !.every = @ + 1]
        \/ cli' = [cli EXCEPT !.pc = "check", !.lost = TRUE]
    BY <1>3, <1>4
  <2>2. cli.every \in Nat /\ cli.every + 1 \in Nat /\ cli.every + 1 >= cli.every
        /\ cli.every >= cli.every
    BY <1>1 DEF CliStates
  <2>3. CASE \E pc \in {"check", "exchange"} : cli' = [cli EXCEPT !.pc = pc]
    BY <1>c, <1>1, <2>2, <2>3 DEF CliStates
  <2>4. CASE \E r \in {"failed", "denied", "expired"} :
               cli' = [cli EXCEPT !.pc = "idle", !.result = r]
    BY <1>c, <1>1, <2>2, <2>4 DEF CliStates, Login!Results
  <2>5. CASE cli' = [cli EXCEPT !.pc = "check", !.every = @ + 1]
    BY <1>c, <1>1, <2>2, <2>5 DEF CliStates
  <2>6. CASE cli' = [cli EXCEPT !.pc = "check", !.lost = TRUE]
    BY <1>c, <1>1, <2>2, <2>6 DEF CliStates
  <2> QED BY <2>1, <2>3, <2>4, <2>5, <2>6
<1>8. cli'.pc = "exchange" => Spent(c)'
  BY <1>1, <1>3, <1>4 DEF CliStates
<1>9. cli'.pc = "check" => codes'[c].state # "granted" \/ cli'.lost
  BY <1>1, <1>3, <1>4 DEF CliStates, Spent
<1>10. /\ cli'.pc # "idle" => cli'.result = None
       /\ cli'.pc = "idle" => cli'.result \in {"failed", "denied", "expired"}
       /\ cli'.result = "expired" => a = "expired" /\ cli'.every = cli.every /\ cli'.lost = cli.lost
  BY <1>1, <1>3, <1>4, LoginAssumption DEF CliStates, Polling
<1>11. Polling'
  <2>1. cli'.pc = "check" => time' <= cli'.deadline + cli'.every
    BY <1>1, <1>2, <1>7 DEF CliStates
  <2>2. cli'.pc = "check" => GrantedSince(time)'
    BY <1>7, <1>9 DEF GrantedSince
  <2>3. cli'.result = "expired"
          => time' >= codes'[cli'.code].until /\ GrantedBy(codes[cli.code].until)'
    BY <1>c, <1>1, <1>2, <1>4, <1>7, <1>10 DEF GrantedBy, CodesOK, CodeStates, CliStates
  <2>4. cli'.result # "timeout"
    BY <1>10, LoginAssumption
  <2> QED BY <1>7, <1>10, <2>1, <2>2, <2>3, <2>4 DEF Polling
<1> QED BY <1>c, <1>1, <1>4, <1>5, <1>6, <1>7, <1>8, <1>11, CliGoesOn

(* The console. *)

\* A code that was issued stays with its login, and one that is spent stays spent.
CodesKept ==
  /\ CodesOK'
  /\ \A c \in Codes, p \in Profiles : Issued(c, p) => Issued(c, p)'
  /\ \A c \in Codes : Spent(c) => Spent(c)'

LEMMA StillHeld == ASSUME CodesKept, NEW l, Held(l) PROVE Held(l)'
BY DEF CodesKept, Held, Issued

LEMMA CodesStay ==
  ASSUME CodesOK, UNCHANGED <<time, codes>>
  PROVE  CodesKept /\ \A c \in Codes : Spent(c)' => Spent(c)
BY DEF CodesKept, CodesOK, Issued, Spent

LEMMA CodesStart ==
  ASSUME CodesOK, UNCHANGED time, NEW n, n = Login!NewCode,
         NEW profile \in Profiles, Login!Issue(n, profile)
  PROVE  /\ CodesKept /\ \A c \in Codes : Spent(c)' => Spent(c)
         /\ n \in Codes /\ Issued(n, profile)' /\ ~Spent(n)'
         /\ \A l : Held(l) => l.code # n
<1>1. /\ n \in Codes /\ codes[n].state = "unused"
      /\ CodesOK' /\ codes'[n].state = "pending" /\ Issued(n, profile)'
      /\ \A c \in Codes : c # n => codes'[c] = codes[c]
  BY CodeIssued
<1>2. \A c \in Codes, p \in Profiles : Issued(c, p) => c # n /\ Issued(c, p)'
  BY <1>1 DEF Issued
<1>3. \A c \in Codes : Spent(c) <=> Spent(c)'
  BY <1>1 DEF Spent
<1>4. ~Spent(n)'
  BY <1>1 DEF Spent
<1>5. \A l : Held(l) => l.code # n
  BY <1>2 DEF Held
<1> QED BY <1>1, <1>2, <1>3, <1>4, <1>5 DEF CodesKept

LEMMA CodesGranted ==
  ASSUME CodesOK, NEW c \in Codes, Login!User(c)
  PROVE  CodesKept /\ \A d \in Codes : Spent(d)' => Spent(d)
<1>1. /\ codes[c].state = "pending" /\ CodesOK' /\ codes'[c].state \in {"granted", "denied"}
      /\ codes'[c].for = codes[c].for /\ \A d \in Codes : d # c => codes'[d] = codes[d]
  BY UserGrants
<1>2. \A d \in Codes, p \in Profiles : Issued(d, p) => Issued(d, p)'
  BY <1>1 DEF Issued
<1>3. \A d \in Codes : Spent(d) <=> Spent(d)'
  BY <1>1 DEF Spent
<1> QED BY <1>1, <1>2, <1>3 DEF CodesKept

LEMMA CodesAnswered ==
  ASSUME CodesOK, UNCHANGED time, NEW c \in Codes, NEW a \in Login!Answers(c), Login!Give(c, a)
  PROVE  /\ CodesKept /\ (a = "token" => Spent(c)')
         /\ \A d \in Codes : d # c /\ Spent(d)' => Spent(d)
<1>1. /\ CodesOK' /\ \A d \in Codes : d # c => codes'[d] = codes[d]
      /\ codes'[c].for = codes[c].for
      /\ a = "token" => Spent(c)'
      /\ a # "token" => codes' = codes
      /\ Spent(c) => a = "refused"
      /\ codes[c].state # "unused" => codes'[c].state # "unused"
  BY Answered
<1>2. \A d \in Codes, p \in Profiles : Issued(d, p) => Issued(d, p)'
  BY <1>1 DEF Issued
<1>3. \A d \in Codes : (Spent(d) => Spent(d)') /\ (d # c /\ Spent(d)' => Spent(d))
  BY <1>1 DEF Spent
<1> QED BY <1>1, <1>2, <1>3 DEF CodesKept

\* When only codes change, and none is spent.
LEMMA ConsoleStays ==
  ASSUME ConsoleInv, CodesKept, \A c \in Codes : Spent(c)' => Spent(c),
         UNCHANGED <<cli, pending, handler, saved>>
  PROVE  ConsoleInv'
<1>1. \A h \in Handlers : HandlerOK(h)'
  <2> TAKE h \in Handlers
  <2>1. HandlerOK(h) /\ (AtWork(h) => Held(handler[h].pending)')
    BY StillHeld DEF ConsoleInv, HandlersOK, HandlerOK
  <2> QED BY <2>1 DEF HandlerOK, AtWork, CodesKept, Held
<1>2. \A h \in Handlers : OwnCode(h)'
  <2> TAKE h \in Handlers
  <2>1. HandlerOK(h) /\ OwnCode(h)
    BY DEF ConsoleInv, HandlersOK
  <2> QED BY <2>1 DEF OwnCode, HandlerOK, AtWork, Held
<1>3. pending # None => Held(pending)'
  BY StillHeld DEF ConsoleInv, HandlersOK
<1>4. \A s \in saved : s \in Login!Logins /\ Issued(s.code, s.profile)' /\ Spent(s.code)'
  BY DEF ConsoleInv, SavedOK, CodesKept, Login!Logins
<1> QED BY <1>1, <1>2, <1>3, <1>4 DEF ConsoleInv, HandlersOK, SavedOK, CodesKept

\* A request goes on to pc with the login l, and sees to it that it holds that login, and
\* that nobody else knows a code before the session is set.
Moves(h, pc, l) ==
  /\ pc \in {"idle", "set", "expired", "ask", "exchange", "done"}
  /\ handler' = [handler EXCEPT ![h] = [pc |-> pc, pending |-> l]]
  /\ pc # "idle" => Held(l)'
  /\ pc = "exchange" => codes'[l.code].state = "spent"
  /\ pending' # None => Held(pending)'
  /\ pc = "set" =>
       /\ codes'[l.code].state # "spent"
       /\ pending' # None => pending'.code # l.code
       /\ \A g \in Handlers : g # h /\ AtWork(g) => handler[g].pending.code # l.code
  /\ \A g \in Handlers : g # h /\ handler[g].pc = "set" =>
       /\ codes'[handler[g].pending.code].state # "spent"
       /\ pending' # None => pending'.code # handler[g].pending.code
       /\ pc # "idle" => l.code # handler[g].pending.code

LEMMA HandlerMoves ==
  ASSUME ConsoleInv, CodesKept, NEW h \in Handlers, NEW l, NEW pc, Moves(h, pc, l)
  PROVE  HandlersOK'
<1>1. /\ DOMAIN handler' = Handlers /\ handler'[h] = [pc |-> pc, pending |-> l]
      /\ \A g \in Handlers : g # h => handler'[g] = handler[g]
  BY DEF Moves, ConsoleInv, HandlersOK
<1>2. ASSUME NEW g \in Handlers PROVE HandlerOK(g)'
  <2>1. CASE g = h
    BY <1>1, <2>1 DEF Moves, HandlerOK, AtWork, Spent
  <2>2. CASE g # h
    <3>1. HandlerOK(g) /\ \A m : AtWork(g) /\ m = handler[g].pending => Held(m)'
      BY StillHeld DEF ConsoleInv, HandlersOK, HandlerOK
    <3>2. handler[g].pc = "exchange" => codes'[handler[g].pending.code].state = "spent"
      BY <3>1 DEF HandlerOK, AtWork, Held, CodesKept, Spent
    <3> QED BY <1>1, <2>2, <3>1, <3>2 DEF HandlerOK, AtWork, Spent, Held
  <2> QED BY <2>1, <2>2
<1>3. ASSUME NEW g \in Handlers PROVE OwnCode(g)'
  <2>1. CASE g = h
    BY <1>1, <2>1 DEF Moves, OwnCode, AtWork, Spent
  <2>2. CASE g # h
    <3>1. OwnCode(g)
      BY DEF ConsoleInv, HandlersOK
    <3> QED BY <1>1, <2>2, <3>1 DEF Moves, OwnCode, AtWork, Spent
  <2> QED BY <2>1, <2>2
<1> QED BY <1>1, <1>2, <1>3 DEF Moves, HandlersOK

\* What a login that was saved needs when none is saved.
LEMMA SavedStay ==
  ASSUME ConsoleInv, CodesKept, saved' = saved,
         \A s \in saved : pending' # None /\ s.code = pending'.code
           => \E h \in Handlers : handler'[h].pc = "done"
  PROVE  SavedOK'
BY DEF ConsoleInv, SavedOK, CodesKept, Login!Logins

LEMMA DeviceStarts ==
  ASSUME ConsoleInv, NEW h \in Handlers, NEW profile \in Profiles, Login!DeviceStart(h, profile)
  PROVE  ConsoleInv'
<1>n. PICK n : n = Login!NewCode
  OBVIOUS
<1>l. PICK l : l = [code |-> n, profile |-> profile, until |-> 0]
  OBVIOUS
<1>1. /\ handler[h].pc = "idle" /\ Login!Issue(n, profile)
      /\ handler' = [handler EXCEPT ![h] = [pc |-> "set", pending |-> l]]
      /\ UNCHANGED <<time, cli, pending, saved>>
  BY <1>n, <1>l DEF Login!DeviceStart, Login!At, Login!Set
<1>2. /\ CodesKept /\ \A c \in Codes : Spent(c)' => Spent(c)
      /\ n \in Codes /\ Issued(n, profile)' /\ ~Spent(n)'
      /\ \A x : Held(x) => x.code # n
  BY <1>n, <1>1, CodesStart DEF ConsoleInv
<1>3. l.code = n /\ Held(l)' /\ codes'[l.code].state # "spent"
  BY <1>l, <1>2 DEF Held, Spent
<1>4. \A g \in Handlers :
        HandlerOK(g) /\ OwnCode(g) /\ (AtWork(g) => handler[g].pending.code # l.code)
  BY <1>2, <1>3 DEF ConsoleInv, HandlersOK, HandlerOK
<1>5. pending' # None => Held(pending)' /\ pending'.code # l.code
  BY <1>1, <1>2, <1>3, StillHeld DEF ConsoleInv, HandlersOK
<1>6. \A g \in Handlers : g # h /\ handler[g].pc = "set" =>
        /\ codes'[handler[g].pending.code].state # "spent"
        /\ pending' # None => pending'.code # handler[g].pending.code
        /\ l.code # handler[g].pending.code
  BY <1>1, <1>2, <1>3, <1>4 DEF OwnCode, HandlerOK, AtWork, Held, Spent
<1>7. HandlersOK'
  <2>1. Moves(h, "set", l)
    BY <1>1, <1>3, <1>4, <1>5, <1>6 DEF Moves
  <2> QED BY <1>2, <2>1, HandlerMoves
<1>8. \A s \in saved : pending' # None /\ s.code = pending'.code
        => \E g \in Handlers : handler'[g].pc = "done"
  BY <1>1 DEF ConsoleInv, HandlersOK, SavedOK
<1>9. SavedOK'
  BY <1>1, <1>2, <1>8, SavedStay
<1> QED BY <1>1, <1>2, <1>7, <1>9 DEF ConsoleInv, CodesKept

\* What is known of the requests, and of the logins they hold, before a step.
LEMMA RequestsBefore ==
  ASSUME ConsoleInv
  PROVE  /\ CodesOK /\ cli.pc = "idle" /\ cli.result = None
         /\ \A h \in Handlers : HandlerOK(h) /\ OwnCode(h)
         /\ \A h \in Handlers : AtWork(h) => Held(handler[h].pending)
         /\ pending # None => Held(pending)
         /\ \A h \in Handlers :
              handler[h] = [pc |-> handler[h].pc, pending |-> handler[h].pending]
         /\ DOMAIN handler = Handlers
BY DEF ConsoleInv, HandlersOK, HandlerOK

LEMMA SessionSet ==
  ASSUME ConsoleInv, NEW h \in Handlers, Login!SetSession(h) PROVE ConsoleInv'
<1>1. /\ handler[h].pc = "set" /\ pending' = [handler[h].pending EXCEPT !.until = time + Lifetime]
      /\ handler' = [handler EXCEPT ![h] = [pc |-> "idle", pending |-> None]]
      /\ UNCHANGED <<time, codes, cli, saved>>
  BY DEF Login!SetSession, Login!At, Login!Set, Login!Is, Login!Rest
<1>2. CodesKept /\ \A c \in Codes : Spent(c)' => Spent(c)
  BY <1>1, CodesStay DEF ConsoleInv
<1>3. /\ Held(handler[h].pending) /\ ~Spent(handler[h].pending.code)
      /\ \A g \in Handlers : g # h /\ AtWork(g) => handler[g].pending.code # handler[h].pending.code
  BY <1>1, RequestsBefore DEF OwnCode, AtWork
<1>4. Held(pending)' /\ pending'.code = handler[h].pending.code
  BY <1>1, <1>3, LoginAssumption DEF Held, Issued, CodesOK, ConsoleInv
<1>5. \A g \in Handlers : g # h /\ handler[g].pc = "set" =>
        /\ codes'[handler[g].pending.code].state # "spent"
        /\ pending' # None => pending'.code # handler[g].pending.code
  BY <1>1, <1>3, <1>4, RequestsBefore DEF OwnCode, AtWork, Spent
<1>6. HandlersOK'
  <2>1. Moves(h, "idle", None)
    BY <1>1, <1>4, <1>5 DEF Moves
  <2> QED BY <1>2, <2>1, HandlerMoves
<1>7. \A s \in saved : s.code # pending'.code
  BY <1>3, <1>4 DEF ConsoleInv, SavedOK
<1>8. SavedOK'
  BY <1>1, <1>2, <1>7, SavedStay
<1> QED BY <1>1, <1>2, <1>6, <1>8 DEF ConsoleInv, CodesKept

LEMMA DevicePolls ==
  ASSUME ConsoleInv, NEW h \in Handlers, Login!DevicePoll(h) PROVE ConsoleInv'
<1>p. PICK l : l = pending
  OBVIOUS
<1>1. /\ handler[h].pc = "idle" /\ l # None
      /\ UNCHANGED <<time, codes, cli, pending, saved>>
  BY <1>p DEF Login!DevicePoll, Login!At
<1>2. PICK pc \in {"expired", "ask"} :
        handler' = [handler EXCEPT ![h] = [pc |-> pc, pending |-> l]]
  BY <1>p DEF Login!DevicePoll, Login!Set
<1>3. CodesKept
  BY <1>1, CodesStay DEF ConsoleInv
<1>4. Held(l) /\ Held(l)' /\ Held(pending)'
  BY <1>p, <1>1, <1>3, RequestsBefore, StillHeld
<1>5. \A g \in Handlers : handler[g].pc = "set" =>
        /\ codes'[handler[g].pending.code].state # "spent"
        /\ l.code # handler[g].pending.code
  BY <1>p, <1>1, RequestsBefore DEF OwnCode, Spent
<1>6. HandlersOK'
  <2>1. Moves(h, pc, l)
    BY <1>p, <1>1, <1>2, <1>4, <1>5 DEF Moves
  <2> QED BY <1>3, <2>1, HandlerMoves
<1>7. \A s \in saved : pending' # None /\ s.code = pending'.code
        => \E g \in Handlers : handler'[g].pc = "done"
  BY <1>1, <1>2, RequestsBefore DEF ConsoleInv, SavedOK
<1>8. SavedOK'
  BY <1>1, <1>3, <1>7, SavedStay
<1> QED BY <1>1, <1>3, <1>6, <1>8 DEF ConsoleInv, CodesKept

LEMMA PollsOnce ==
  ASSUME ConsoleInv, NEW h \in Handlers, Login!PollOnce(h) PROVE ConsoleInv'
<1>p. PICK l : l = handler[h].pending
  OBVIOUS
<1>1. handler[h].pc = "ask" /\ UNCHANGED <<time, cli, pending, saved>>
  BY DEF Login!PollOnce, Login!At
<1>2. PICK a \in Login!Answers(l.code) :
        /\ Login!Give(l.code, a)
        /\ \/ a = "token" /\ handler' = [handler EXCEPT ![h] = [pc |-> "exchange", pending |-> l]]
           \/ handler' = [handler EXCEPT ![h] = [pc |-> "idle", pending |-> None]]
  BY <1>p, RequestsBefore DEF Login!PollOnce, Login!Is, Login!Go, Login!Set, Login!Rest
<1>3. /\ Held(l) /\ l.code \in Codes
      /\ \A g \in Handlers : handler[g].pc = "set" =>
           /\ Held(handler[g].pending) /\ l.code # handler[g].pending.code
           /\ ~Spent(handler[g].pending.code)
           /\ pending # None => pending.code # handler[g].pending.code
  BY <1>p, <1>1, RequestsBefore DEF OwnCode, AtWork, Held
<1>4. /\ CodesKept /\ (a = "token" => Spent(l.code)')
      /\ \A d \in Codes : d # l.code /\ Spent(d)' => Spent(d)
  <2>c. PICK c \in Codes : c = l.code
    BY <1>3
  <2>1. a \in Login!Answers(c) /\ Login!Give(c, a) /\ CodesOK
    BY <1>2, <2>c, RequestsBefore
  <2>2. CodesKept /\ (a = "token" => Spent(c)') /\ \A d \in Codes : d # c /\ Spent(d)' => Spent(d)
    BY <1>1, <2>1, CodesAnswered
  <2> QED BY <2>c, <2>2 DEF Spent
<1>5. Held(l)' /\ (pending' # None => Held(pending)')
  BY <1>1, <1>3, <1>4, RequestsBefore, StillHeld
<1>6. \A g \in Handlers : handler[g].pc = "set" =>
        /\ codes'[handler[g].pending.code].state # "spent"
        /\ pending' # None => pending'.code # handler[g].pending.code
        /\ l.code # handler[g].pending.code
  BY <1>1, <1>3, <1>4 DEF Held, Issued, Spent
<1>7. HandlersOK'
  <2>1. CASE a = "token" /\ handler' = [handler EXCEPT ![h] = [pc |-> "exchange", pending |-> l]]
    <3>1. Moves(h, "exchange", l)
      BY <1>4, <1>5, <1>6, <2>1 DEF Moves, Spent
    <3> QED BY <1>4, <3>1, HandlerMoves
  <2>2. CASE handler' = [handler EXCEPT ![h] = [pc |-> "idle", pending |-> None]]
    <3>1. Moves(h, "idle", None)
      BY <1>5, <1>6, <2>2 DEF Moves
    <3> QED BY <1>4, <3>1, HandlerMoves
  <2> QED BY <1>2, <2>1, <2>2
<1>8. \A s \in saved : pending' # None /\ s.code = pending'.code
        => \E g \in Handlers : handler'[g].pc = "done"
  BY <1>1, <1>2, RequestsBefore DEF ConsoleInv, SavedOK
<1>9. SavedOK'
  BY <1>1, <1>4, <1>8, SavedStay
<1> QED BY <1>1, <1>4, <1>7, <1>9 DEF ConsoleInv, CodesKept

LEMMA Exchanges ==
  ASSUME ConsoleInv, NEW h \in Handlers, Login!Exchange(h) PROVE ConsoleInv'
<1>p. PICK l : l = handler[h].pending
  OBVIOUS
<1>1. handler[h].pc = "exchange" /\ UNCHANGED <<time, codes, cli, pending>>
  BY DEF Login!Exchange, Login!At
<1>2. /\ CodesKept /\ Held(l) /\ Held(l)' /\ Spent(l.code) /\ (pending' # None => Held(pending)')
  BY <1>p, <1>1, CodesStay, RequestsBefore, StillHeld DEF HandlerOK, AtWork
<1>3. \A g \in Handlers : handler[g].pc = "set" =>
        /\ codes'[handler[g].pending.code].state # "spent"
        /\ pending' # None => pending'.code # handler[g].pending.code
        /\ l.code # handler[g].pending.code
  BY <1>p, <1>1, RequestsBefore DEF OwnCode, AtWork, Spent
<1>4. CASE /\ saved' = saved \cup {[code |-> l.code, profile |-> l.profile]}
           /\ handler' = [handler EXCEPT ![h] = [pc |-> "done", pending |-> l]]
  <2>1. HandlersOK'
    <3>1. Moves(h, "done", l)
      BY <1>2, <1>3, <1>4 DEF Moves
    <3> QED BY <1>2, <3>1, HandlerMoves
  <2>2. \E g \in Handlers : handler'[g].pc = "done"
    BY <1>4, RequestsBefore
  <2>3. \A s \in saved' : s \in Login!Logins /\ Issued(s.code, s.profile) /\ Spent(s.code)
    BY <1>2, <1>4 DEF ConsoleInv, SavedOK, Held, Login!Logins
  <2>4. SavedOK'
    BY <1>1, <2>2, <2>3 DEF SavedOK, Issued, Spent
  <2> QED BY <1>1, <1>2, <2>1, <2>4 DEF ConsoleInv, CodesKept
<1>5. CASE saved' = saved /\ handler' = [handler EXCEPT ![h] = [pc |-> "idle", pending |-> None]]
  <2>1. HandlersOK'
    <3>1. Moves(h, "idle", None)
      BY <1>2, <1>3, <1>5 DEF Moves
    <3> QED BY <1>2, <3>1, HandlerMoves
  <2>2. \A s \in saved : pending' # None /\ s.code = pending'.code
          => \E g \in Handlers : handler'[g].pc = "done"
    BY <1>1, <1>5, RequestsBefore DEF ConsoleInv, SavedOK
  <2>3. SavedOK'
    BY <1>2, <1>5, <2>2, SavedStay
  <2> QED BY <1>1, <1>2, <2>1, <2>3 DEF ConsoleInv, CodesKept
<1> QED BY <1>p, <1>4, <1>5, RequestsBefore
        DEF Login!Exchange, Login!Polled, Login!Is, Login!Go, Login!Set, Login!Rest

LEMMA SessionCleared ==
  ASSUME ConsoleInv, NEW h \in Handlers, Login!ClearSession(h) PROVE ConsoleInv'
<1>1. /\ pending' = None /\ UNCHANGED <<time, codes, cli, saved>>
      /\ handler' = [handler EXCEPT ![h] = [pc |-> "idle", pending |-> None]]
  BY DEF Login!ClearSession, Login!Set, Login!Rest
<1>2. CodesKept
  BY <1>1, CodesStay DEF ConsoleInv
<1>3. \A g \in Handlers : handler[g].pc = "set" => codes'[handler[g].pending.code].state # "spent"
  BY <1>1, RequestsBefore DEF OwnCode, Spent
<1>4. HandlersOK'
  <2>1. Moves(h, "idle", None)
    BY <1>1, <1>3 DEF Moves
  <2> QED BY <1>2, <2>1, HandlerMoves
<1>5. SavedOK'
  BY <1>1, <1>2, SavedStay
<1> QED BY <1>1, <1>2, <1>4, <1>5 DEF ConsoleInv, CodesKept

LEMMA ConsoleTicks == ASSUME ConsoleInv, Login!Tick PROVE ConsoleInv'
<1>1. time' = time + 1 /\ UNCHANGED <<codes, cli, pending, handler, saved>>
  BY DEF Login!Tick
<1>2. CodesKept /\ \A c \in Codes : Spent(c)' => Spent(c)
  BY <1>1 DEF ConsoleInv, CodesOK, CodesKept, Issued, Spent
<1> QED BY <1>1, <1>2, ConsoleStays

LEMMA ConsoleUsers ==
  ASSUME ConsoleInv, NEW c \in Codes, Login!User(c) PROVE ConsoleInv'
<1>1. UNCHANGED <<cli, pending, handler, saved>>
  BY DEF Login!User
<1> QED BY <1>1, CodesGranted, ConsoleStays DEF ConsoleInv

\* The logins of the command line, and those of the console.
LoginInv ==
  /\ part = "command line" => CliInv
  /\ part = "console" => ConsoleInv

LEMMA LoginStarts == ASSUME PartsInit PROVE LoginInv
<1>1. /\ time = 0 /\ pending = None /\ saved = {}
      /\ codes = [c \in Codes |-> [state |-> "unused", until |-> 0, granted |-> 0, for |-> None]]
      /\ cli = [pc |-> "idle", code |-> None, profile |-> None, deadline |-> 0, every |-> 0,
                wake |-> 0, lost |-> FALSE, result |-> None]
      /\ handler = [h \in Handlers |-> [pc |-> "idle", pending |-> None]]
  BY DEF PartsInit, Login!Init, Login!Rest
<1>2. CodesOK
  BY <1>1 DEF CodesOK, CodeStates
<1>3. cli \in CliStates
  BY <1>1 DEF CliStates, Login!Results
<1>4. CliInv
  BY <1>1, <1>2, <1>3 DEF CliInv, Login!At
<1>5. HandlersOK
  BY <1>1 DEF HandlersOK, HandlerOK, OwnCode, AtWork
<1> QED BY <1>1, <1>2, <1>4, <1>5 DEF LoginInv, ConsoleInv, SavedOK

LEMMA LoginSteps == ASSUME LoginInv, [PartsNext]_all PROVE LoginInv'
<1>1. CASE CommandLineRuns(Login!CliNext)
  <2>1. CliInv /\ part' = part /\ part = "command line" /\ Login!CliNext
    BY <1>1 DEF CommandLineRuns, LoginInv
  <2>2. CliInv'
    BY <2>1, CliUser, CliStarts, CliChecks, CliWakes, CliAsks, CliExchanges, CliTicks
       DEF Login!CliNext
  <2> QED BY <2>1, <2>2 DEF LoginInv
<1>2. CASE ConsoleRuns(Login!ConsoleNext)
  <2>1. ConsoleInv /\ part' = part /\ part = "console" /\ Login!ConsoleNext
    BY <1>2 DEF ConsoleRuns, LoginInv
  <2>2. ConsoleInv'
    BY <2>1, ConsoleUsers, DeviceStarts, SessionSet, DevicePolls, PollsOnce, Exchanges,
       SessionCleared, ConsoleTicks DEF Login!ConsoleNext
  <2> QED BY <2>1, <2>2 DEF LoginInv
<1>3. CASE UNCHANGED <<part, loginVars>>
  <2>1. CliInv => CliInv'
    BY <1>3 DEF loginVars, CliInv, CodesOK, Issued, Spent, Polling, GrantedSince, GrantedBy,
                Login!At
  <2>2. ConsoleInv => ConsoleInv'
    <3>1. CodesOK => CodesKept /\ \A c \in Codes : Spent(c)' => Spent(c)
      BY <1>3, CodesStay DEF loginVars
    <3> QED BY <1>3, <3>1, ConsoleStays DEF loginVars, ConsoleInv
  <2> QED BY <1>3, <2>1, <2>2 DEF LoginInv
<1> QED BY <1>1, <1>2, <1>3
        DEF PartsNext, all, LimiterRuns, TrafficRuns, CredentialsRun, KeyRuns, LinksRun,
            DomainRuns, ProjectRuns

\* A device login lands in the profile it was begun for, once and only if it was granted,
\* and is not pending when it has been saved; the command line sees each grant that comes
\* in time, and asks at most once after its end: for any requests, codes and times
\* (ui_api.go:432-502, auth.go:218-281).
THEOREM LoginsLand == PartsSpec => []LoginSound
<1>1. PartsInit => LoginInv
  BY LoginStarts
<1>2. LoginInv /\ [PartsNext]_all => LoginInv'
  BY LoginSteps
<1>3. LoginInv => LoginSound
  <2>1. ASSUME CliInv PROVE Login!LoginSound
    <3>1. Login!LandsWhereStarted
      BY <2>1 DEF CliInv, Login!LandsWhereStarted, Issued, Spent
    <3>2. Login!SavedIsFinished
      BY <2>1 DEF CliInv, Login!SavedIsFinished
    <3>3. Login!GrantSeen
      <4> SUFFICES ASSUME cli.result \in {"timeout", "expired"}, ~cli.lost,
                          codes[cli.code].state = "granted"
                   PROVE  codes[cli.code].granted + cli.every >=
                            (IF codes[cli.code].until < cli.deadline
                               THEN codes[cli.code].until ELSE cli.deadline)
        BY DEF Login!GrantSeen
      <4>1. /\ codes[cli.code].granted \in Nat /\ codes[cli.code].until \in Nat
            /\ cli.every \in Nat /\ cli.deadline \in Nat /\ Polling
        BY <2>1, LoginAssumption DEF CliInv, CliStates, CodesOK, CodeStates, Issued
      <4>2. \/ codes[cli.code].granted + cli.every >= cli.deadline
            \/ codes[cli.code].granted + cli.every >= codes[cli.code].until
        BY <4>1 DEF Polling, GrantedBy
      <4> QED BY <4>1, <4>2
    <3>4. Login!PollingEnds
      BY <2>1 DEF CliInv, Login!PollingEnds, Polling, CodesOK, CliStates
    <3> QED BY <3>1, <3>2, <3>3, <3>4 DEF Login!LoginSound
  <2>2. ASSUME ConsoleInv PROVE Login!LoginSound
    <3>1. Login!LandsWhereStarted
      BY <2>2 DEF ConsoleInv, SavedOK, Login!LandsWhereStarted, Login!Logins, Issued, Spent
    <3>2. Login!SavedIsFinished
      BY <2>2 DEF ConsoleInv, SavedOK, Login!SavedIsFinished, Login!At
    <3>3. Login!GrantSeen
      BY <2>2, LoginAssumption DEF ConsoleInv, Login!GrantSeen
    <3>4. Login!PollingEnds
      BY <2>2 DEF ConsoleInv, Login!PollingEnds
    <3> QED BY <3>1, <3>2, <3>3, <3>4 DEF Login!LoginSound
  <2> QED BY <2>1, <2>2 DEF LoginInv, LoginSound
<1> QED BY <1>1, <1>2, <1>3, PTL DEF PartsSpec
-----------------------------------------------------------------------------
(* Custom domains. *)

Zones == Domains \cup {NoDomain}
CertOf(c) == c \in DomainCommands!Certs \cup {None}

AdderStates ==
  [pc : {"idle", "early", "lock", "require", "cert", "ingress", "undo",
         "uncert", "save", "revert", "find", "dns", "host", "ready"},
   want : Zones, wait : BOOLEAN, was : Zones, cert : DomainCommands!Certs \cup {None},
   sess : Zones]

\* Those who have the operation lock.
InLock == {"require", "cert", "ingress", "undo", "uncert", "save", "revert"}

DomainTypes ==
  /\ dns \subseteq Domains /\ host \in Zones /\ domain \in Zones /\ CertOf(cert)
  /\ adding \in [Procs -> AdderStates]
  /\ DOMAIN noticed = Procs
  /\ broken \in BOOLEAN

LockKept ==
  /\ domainLock \in Procs \cup {None}
  /\ \A p \in Procs : adding[p].pc \in InLock <=> domainLock = p

\* The Certificate c is that of the domain d.
Certifies(d, c) == IF d = NoDomain THEN c = None ELSE c # None /\ c.names = d

\* What a command that has the lock can count on: the domain that it found, until it
\* has saved another; and the Certificate and the Ingress as they were until it
\* changes them, unless an undo has failed.
HolderOK(p) ==
  LET r == adding[p] IN
  r.pc \in InLock =>
    /\ domain = r.was
    /\ r.pc \in {"require", "cert", "undo"} => r.want \in Domains
    /\ r.pc \in {"require", "cert", "ingress", "undo"} /\ ~broken
         => host = r.was /\ Certifies(r.was, r.cert)
    /\ r.pc \in {"require", "cert"} /\ ~broken => Certifies(host, cert)
    /\ r.pc = "ingress" /\ r.want \in Domains => Certifies(r.want, cert)
    /\ r.pc = "ingress" /\ r.want = NoDomain /\ ~broken => Certifies(host, cert)
    /\ r.pc = "uncert" => r.want = NoDomain /\ host = NoDomain
    /\ r.pc = "save" => host = r.want /\ (~broken => Certifies(r.want, cert))

\* What a process has been seen to rely on.
NoticedOK(p) ==
  LET r == adding[p] IN
  /\ noticed[p] \subseteq {"led", "had", "sure"}
  /\ r.pc = "cert" => "led" \in noticed[p]
  /\ r.pc = "ingress" /\ r.want \in Domains => "led" \in noticed[p]
  /\ r.pc = "host" => "led" \in noticed[p]
  /\ r.pc = "ready" => "led" \in noticed[p] /\ "had" \in noticed[p]
  /\ DomainCommands!About(r) # {}
       => DomainCommands!Facts(DomainCommands!About(r), dns, host, cert) \subseteq noticed[p]

DomainInv ==
  /\ DomainTypes /\ LockKept
  /\ \A p \in Procs : HolderOK(p) /\ NoticedOK(p)
  /\ DomainCommands!DomainsAgree

\* What is noticed of one domain.
LEMMA FactsOfOne ==
  ASSUME NEW d, NEW zone, NEW h, NEW c
  PROVE  /\ d \in zone => "led" \in DomainCommands!Facts({d}, zone, h, c)
         /\ d = h => "had" \in DomainCommands!Facts({d}, zone, h, c)
         /\ c # None /\ c.ready /\ c.names = d
              => "sure" \in DomainCommands!Facts({d}, zone, h, c)
BY DEF DomainCommands!Facts

\* What a step adds to what is noticed.
LEMMA Remembered ==
  ASSUME NEW begin, DomainCommands!Remember(begin), NEW p \in Procs, NEW r, r = adding'[p]
  PROVE  /\ DOMAIN noticed' = Procs
         /\ DomainCommands!About(r) = {} => noticed'[p] = {}
         /\ DomainCommands!About(r) # {} =>
              /\ DomainCommands!Facts(DomainCommands!About(r), dns', host', cert')
                   \subseteq noticed'[p]
              /\ p \notin begin => noticed[p] \subseteq noticed'[p]
              /\ noticed'[p] \subseteq noticed[p] \cup {"led", "had", "sure"}
<1> DEFINE F == DomainCommands!Facts(DomainCommands!About(r), dns', host', cert')
<1>1. /\ DOMAIN noticed' = Procs
      /\ noticed'[p] = IF DomainCommands!About(r) = {} THEN {}
                       ELSE F \cup (IF p \in begin THEN {} ELSE noticed[p])
  BY DEF DomainCommands!Remember
<1>2. F \subseteq {"led", "had", "sure"}
  BY DEF DomainCommands!Facts
<1> HIDE DEF F
<1>3. CASE DomainCommands!About(r) = {}
  BY <1>1, <1>3
<1>4. CASE DomainCommands!About(r) # {}
  BY <1>1, <1>2, <1>4 DEF F
<1> QED BY <1>3, <1>4

LEMMA AboutOf ==
  ASSUME NEW r
  PROVE  /\ r.pc \in {"require", "cert", "ingress"} => DomainCommands!About(r) = {r.want}
         /\ r.pc \in {"dns", "host", "ready"} => DomainCommands!About(r) = {r.sess}
BY DEF DomainCommands!About

\* A process notices what it needs at the place that it goes on to.
Notices(p, r, begin) ==
  /\ r = adding'[p] /\ DomainCommands!Remember(begin)
  /\ r.pc = "cert" => r.want \in dns'
  /\ r.pc = "ingress" /\ r.want \in Domains => p \notin begin /\ "led" \in noticed[p]
  /\ r.pc = "host" => r.sess \in dns'
  /\ r.pc = "ready" => p \notin begin /\ "led" \in noticed[p] /\ r.sess = host'

LEMMA NoticedMoves ==
  ASSUME DomainInv, NEW p \in Procs, NEW r, NEW begin, Notices(p, r, begin)
  PROVE  NoticedOK(p)'
<1>1. /\ r = adding'[p]
      /\ DomainCommands!About(r) = {} => noticed'[p] = {}
      /\ DomainCommands!About(r) # {} =>
           /\ DomainCommands!Facts(DomainCommands!About(r), dns', host', cert')
                \subseteq noticed'[p]
           /\ p \notin begin => noticed[p] \subseteq noticed'[p]
           /\ noticed'[p] \subseteq noticed[p] \cup {"led", "had", "sure"}
  BY Remembered DEF Notices
<1>2. noticed'[p] \subseteq {"led", "had", "sure"}
  BY <1>1 DEF DomainInv, NoticedOK
<1>3. r.pc = "cert" => "led" \in noticed'[p]
  BY <1>1, AboutOf, FactsOfOne DEF Notices
<1>4. r.pc = "ingress" /\ r.want \in Domains => "led" \in noticed'[p]
  BY <1>1, AboutOf DEF Notices
<1>5. r.pc = "host" => "led" \in noticed'[p]
  BY <1>1, AboutOf, FactsOfOne DEF Notices
<1>6. r.pc = "ready" => "led" \in noticed'[p] /\ "had" \in noticed'[p]
  BY <1>1, AboutOf, FactsOfOne DEF Notices
<1> QED BY <1>1, <1>2, <1>3, <1>4, <1>5, <1>6 DEF NoticedOK

LEMMA NoticedStays ==
  ASSUME DomainInv, NEW p \in Procs, NEW begin, DomainCommands!Remember(begin), p \notin begin,
         adding'[p] = adding[p]
  PROVE  NoticedOK(p)'
<1>1. PICK r : r = adding[p] /\ r = adding'[p]
  OBVIOUS
<1>2. /\ NoticedOK(p)
      /\ DomainCommands!About(r) = {} => noticed'[p] = {}
      /\ DomainCommands!About(r) # {} =>
           /\ DomainCommands!Facts(DomainCommands!About(r), dns', host', cert')
                \subseteq noticed'[p]
           /\ noticed[p] \subseteq noticed'[p]
           /\ noticed'[p] \subseteq noticed[p] \cup {"led", "had", "sure"}
  BY <1>1, Remembered DEF DomainInv
<1>3. noticed'[p] \subseteq {"led", "had", "sure"}
  BY <1>2 DEF NoticedOK
<1>4. r.pc \in {"cert", "ingress", "host", "ready"} => noticed[p] \subseteq noticed'[p]
  BY <1>2, AboutOf
<1> QED BY <1>1, <1>2, <1>3, <1>4 DEF NoticedOK

\* A step of p to r, whose parts the three lemmas that follow have in common.
Adds(p, r, begin) ==
  /\ p \in Procs /\ r \in AdderStates /\ adding' = [adding EXCEPT ![p] = r]
  /\ dns' = dns /\ begin \subseteq {p} /\ Notices(p, r, begin)

LEMMA OthersStay ==
  ASSUME DomainInv, NEW p, NEW r, NEW begin, Adds(p, r, begin)
  PROVE  /\ adding' \in [Procs -> AdderStates] /\ adding'[p] = r
         /\ \A q \in Procs : q # p => adding'[q] = adding[q]
         /\ DOMAIN noticed' = Procs /\ \A q \in Procs : NoticedOK(q)'
<1>1. /\ adding' \in [Procs -> AdderStates] /\ adding'[p] = r
      /\ \A q \in Procs : q # p => adding'[q] = adding[q]
      /\ DomainCommands!Remember(begin) /\ p \in Procs
  BY DEF DomainInv, DomainTypes, Adds, Notices
<1>2. DOMAIN noticed' = Procs
  BY <1>1 DEF DomainCommands!Remember
<1>3. ASSUME NEW q \in Procs PROVE NoticedOK(q)'
  <2>1. CASE q = p
    BY <2>1, NoticedMoves DEF Adds
  <2>2. CASE q # p
    BY <1>1, <2>2, NoticedStays DEF Adds
  <2> QED BY <2>1, <2>2
<1> QED BY <1>1, <1>2, <1>3

\* Outside the lock: at most the record becomes what the Ingress says.
LEMMA AddsOutside ==
  ASSUME DomainInv, NEW p, NEW r, NEW begin, Adds(p, r, begin),
         adding[p].pc \notin InLock, r.pc \notin InLock,
         UNCHANGED <<host, cert, domainLock, broken>>,
         domain' = domain \/ (domainLock = None /\ domain' = host)
  PROVE  DomainInv'
<1>1. /\ adding' \in [Procs -> AdderStates] /\ adding'[p] = r /\ p \in Procs
      /\ \A q \in Procs : q # p => adding'[q] = adding[q]
      /\ DOMAIN noticed' = Procs /\ \A q \in Procs : NoticedOK(q)'
  BY OthersStay DEF Adds
<1>2. DomainTypes'
  BY <1>1 DEF DomainInv, DomainTypes, CertOf, Adds
<1>3. LockKept'
  BY <1>1 DEF DomainInv, LockKept
<1>4. \A q \in Procs : HolderOK(q)'
  <2> TAKE q \in Procs
  <2>1. CASE q = p
    BY <1>1, <2>1 DEF HolderOK
  <2>2. CASE q # p
    <3>1. HolderOK(q) /\ (adding[q].pc \in InLock => domain' = domain)
      BY DomainAssumption DEF DomainInv, LockKept
    <3> QED BY <1>1, <2>2, <3>1 DEF HolderOK, Certifies
  <2> QED BY <2>1, <2>2
<1>5. DomainCommands!DomainsAgree'
  BY DEF DomainInv, DomainCommands!DomainsAgree
<1> QED BY <1>1, <1>2, <1>3, <1>4, <1>5 DEF DomainInv

\* With the lock, which it keeps or takes.
LEMMA AddsInside ==
  ASSUME DomainInv, NEW p, NEW r, NEW begin, Adds(p, r, begin),
         r.pc \in InLock, domainLock \in {p, None}, domainLock' = p,
         host' \in Zones, domain' \in Zones, CertOf(cert'), broken' \in BOOLEAN, HolderOK(p)'
  PROVE  DomainInv'
<1>1. /\ adding' \in [Procs -> AdderStates] /\ adding'[p] = r /\ p \in Procs
      /\ \A q \in Procs : q # p => adding'[q] = adding[q]
      /\ DOMAIN noticed' = Procs /\ \A q \in Procs : NoticedOK(q)'
  BY OthersStay DEF Adds
<1>2. DomainTypes'
  BY <1>1 DEF DomainInv, DomainTypes, CertOf, Adds
<1>3. \A q \in Procs : q # p => adding[q].pc \notin InLock
  BY DomainAssumption DEF DomainInv, LockKept
<1>4. LockKept'
  BY <1>1, <1>3 DEF LockKept
<1>5. \A q \in Procs : HolderOK(q)'
  BY <1>1, <1>3 DEF HolderOK
<1>6. DomainCommands!DomainsAgree'
  BY <1>1, DomainAssumption DEF DomainCommands!DomainsAgree
<1> QED BY <1>1, <1>2, <1>4, <1>5, <1>6 DEF DomainInv

\* And when it gives it up.
LEMMA AddsLast ==
  ASSUME DomainInv, NEW p, NEW r, NEW begin, Adds(p, r, begin),
         adding[p].pc \in InLock, r.pc \notin InLock, domainLock' = None,
         host' \in Zones, domain' \in Zones, CertOf(cert'), broken' \in BOOLEAN,
         ~broken' => domain' = host' /\ Certifies(host', cert')
  PROVE  DomainInv'
<1>1. /\ adding' \in [Procs -> AdderStates] /\ adding'[p] = r /\ p \in Procs
      /\ \A q \in Procs : q # p => adding'[q] = adding[q]
      /\ DOMAIN noticed' = Procs /\ \A q \in Procs : NoticedOK(q)'
  BY OthersStay DEF Adds
<1>2. DomainTypes'
  BY <1>1 DEF DomainInv, DomainTypes, CertOf, Adds
<1>3. \A q \in Procs : q # p => adding[q].pc \notin InLock
  BY <1>1 DEF DomainInv, LockKept
<1>4. LockKept'
  BY <1>1, <1>3, DomainAssumption DEF LockKept
<1>5. \A q \in Procs : HolderOK(q)'
  BY <1>1, <1>3 DEF HolderOK
<1>6. DomainCommands!DomainsAgree'
  BY DEF DomainCommands!DomainsAgree, Certifies
<1> QED BY <1>1, <1>2, <1>4, <1>5, <1>6 DEF DomainInv

\* Where a process goes on to without anything to notice.
LEMMA GoesQuietly ==
  ASSUME NEW p \in Procs, NEW r \in AdderStates, NEW begin,
         DomainInv, adding' = [adding EXCEPT ![p] = r], dns' = dns, begin \subseteq {p},
         DomainCommands!Remember(begin),
         \/ r.pc \notin {"cert", "ingress", "host", "ready"}
         \/ r.pc = "ingress" /\ r.want \notin Domains
  PROVE  Adds(p, r, begin)
<1>1. adding'[p] = r
  BY DEF DomainInv, DomainTypes
<1> QED BY <1>1 DEF Adds, Notices

LEMMA IdleAdds == DomainCommands!Idle \in AdderStates /\ DomainCommands!Idle.pc = "idle"
BY DEF DomainCommands!Idle, AdderStates, Zones, CertOf

LEMMA DomainBegins ==
  ASSUME DomainInv, NEW p \in Procs, DomainCommands!Begin(p) PROVE DomainInv'
<1>1. adding[p].pc = "idle" /\ adding[p] \in AdderStates
  BY DEF DomainCommands!Begin, DomainCommands!At, DomainInv, DomainTypes
<1>2. PICK c \in DomainCommands!Commands :
        /\ domain' = domain \/ (domainLock = None /\ domain' = host)
        /\ adding' = [adding EXCEPT ![p].pc = IF c.wait THEN "early" ELSE "lock",
                                    ![p].want = c.want, ![p].wait = c.wait]
  BY DEF DomainCommands!Begin, DomainCommands!Refreshed
<1>3. /\ UNCHANGED <<dns, host, cert, domainLock, broken>>
      /\ DomainCommands!Remember({})
  BY DEF DomainCommands!Begin, DomainCommands!Keep
<1>4. PICK r : r = [adding[p] EXCEPT !.pc = IF c.wait THEN "early" ELSE "lock",
                                     !.want = c.want, !.wait = c.wait]
  OBVIOUS
<1>5. c.want \in Zones /\ c.wait \in BOOLEAN
  BY DEF DomainCommands!Commands, Zones
<1>6. r \in AdderStates /\ r.pc \in {"early", "lock"}
  BY <1>1, <1>4, <1>5 DEF AdderStates
<1>7. adding' = [adding EXCEPT ![p] = r]
  BY <1>2, <1>4 DEF DomainInv, DomainTypes
<1>8. Adds(p, r, {})
  BY <1>3, <1>6, <1>7, GoesQuietly
<1> QED BY <1>1, <1>2, <1>3, <1>6, <1>8, AddsOutside DEF InLock

LEMMA WaitsEarly ==
  ASSUME DomainInv, NEW p \in Procs, DomainCommands!WaitEarly(p) PROVE DomainInv'
<1>1. adding[p].pc = "early" /\ adding[p] \in AdderStates
  BY DEF DomainCommands!WaitEarly, DomainCommands!At, DomainInv, DomainTypes
<1>2. /\ UNCHANGED <<dns, host, cert, domain, domainLock, broken>>
      /\ DomainCommands!Remember({})
  BY DEF DomainCommands!WaitEarly, DomainCommands!Keep
<1>3. PICK r \in AdderStates : r.pc \in {"idle", "lock"} /\ adding' = [adding EXCEPT ![p] = r]
  <2>1. CASE adding' = [adding EXCEPT ![p].pc = "lock"]
    <3>1. PICK r : r = [adding[p] EXCEPT !.pc = "lock"]
      OBVIOUS
    <3>2. r \in AdderStates /\ r.pc = "lock"
      BY <1>1, <3>1 DEF AdderStates
    <3>3. adding' = [adding EXCEPT ![p] = r]
      BY <2>1, <3>1 DEF DomainInv, DomainTypes
    <3> QED BY <3>2, <3>3
  <2>2. CASE adding' = [adding EXCEPT ![p] = DomainCommands!Idle]
    BY <2>2, IdleAdds
  <2> QED BY <2>1, <2>2 DEF DomainCommands!WaitEarly, DomainCommands!Go, DomainCommands!End
<1>4. Adds(p, r, {})
  BY <1>2, <1>3, GoesQuietly
<1> QED BY <1>1, <1>2, <1>3, <1>4, AddsOutside DEF InLock

LEMMA TakesLock ==
  ASSUME DomainInv, NEW p \in Procs, DomainCommands!TakeLock(p) PROVE DomainInv'
<1>1. /\ adding[p].pc = "lock" /\ adding[p] \in AdderStates /\ domainLock = None
      /\ UNCHANGED <<dns, host, cert, broken>> /\ DomainCommands!Remember({p})
  BY DEF DomainCommands!TakeLock, DomainCommands!At, DomainCommands!Forget, DomainInv, DomainTypes
<1>2. CASE UNCHANGED <<domainLock, domain>> /\ adding' = [adding EXCEPT ![p] = DomainCommands!Idle]
  <2>1. Adds(p, DomainCommands!Idle, {p})
    BY <1>1, <1>2, IdleAdds, GoesQuietly
  <2> QED BY <1>1, <1>2, <2>1, IdleAdds, AddsOutside DEF InLock
<1>3. CASE /\ domainLock' = p /\ domain' = host
           /\ adding' = [adding EXCEPT ![p].was = host, ![p].cert = cert, ![p].pc =
                           IF adding[p].want = NoDomain THEN "ingress" ELSE "require"]
  <2>1. PICK r : r = [adding[p] EXCEPT !.was = host, !.cert = cert, !.pc =
                        IF adding[p].want = NoDomain THEN "ingress" ELSE "require"]
    OBVIOUS
  <2>2. adding' = [adding EXCEPT ![p] = r]
    BY <1>3, <2>1 DEF DomainInv, DomainTypes
  <2>3. /\ r \in AdderStates /\ r.was = host /\ r.cert = cert /\ r.want \in Zones
        /\ r.pc = IF r.want = NoDomain THEN "ingress" ELSE "require"
    BY <1>1, <2>1 DEF AdderStates, DomainInv, DomainTypes, CertOf
  <2>4. Adds(p, r, {p})
    BY <1>1, <2>2, <2>3, DomainAssumption, GoesQuietly
  <2>5. HolderOK(p)'
    <3>1. adding'[p] = r
      BY <2>2 DEF DomainInv, DomainTypes
    <3>2. ~broken => domain = host /\ Certifies(host, cert)
      BY <1>1 DEF DomainInv, DomainCommands!DomainsAgree, Certifies
    <3> QED BY <1>1, <1>3, <2>3, <3>1, <3>2, DomainAssumption DEF HolderOK, Certifies, Zones
  <2> QED BY <1>1, <1>3, <2>3, <2>4, <2>5, AddsInside DEF DomainInv, DomainTypes, CertOf, InLock
<1> QED BY <1>2, <1>3 DEF DomainCommands!TakeLock, DomainCommands!End

LEMMA Requires ==
  ASSUME DomainInv, NEW p \in Procs, DomainCommands!Require(p) PROVE DomainInv'
<1>1. /\ adding[p].pc = "require" /\ adding[p] \in AdderStates /\ HolderOK(p)
      /\ domainLock = p /\ UNCHANGED <<dns, host, cert, domain, broken>>
      /\ DomainCommands!Remember({})
  BY DEF DomainCommands!Require, DomainCommands!At, DomainCommands!Keep,
         DomainInv, DomainTypes, LockKept, InLock
<1>2. /\ domain = adding[p].was /\ adding[p].want \in Domains
      /\ ~broken => host = adding[p].was /\ Certifies(adding[p].was, adding[p].cert)
                    /\ Certifies(host, cert)
  BY <1>1 DEF HolderOK, InLock
<1>3. CASE adding[p].want \in dns /\ adding' = [adding EXCEPT ![p].pc = "cert"]
           /\ UNCHANGED domainLock
  <2>1. PICK r : r = [adding[p] EXCEPT !.pc = "cert"]
    OBVIOUS
  <2>2. /\ r \in AdderStates /\ r.pc = "cert" /\ r.want = adding[p].want
        /\ r.was = adding[p].was /\ r.cert = adding[p].cert
    BY <1>1, <2>1 DEF AdderStates
  <2>3. adding' = [adding EXCEPT ![p] = r] /\ adding'[p] = r
    BY <1>3, <2>1 DEF DomainInv, DomainTypes
  <2>4. Adds(p, r, {})
    BY <1>1, <1>3, <2>2, <2>3 DEF Adds, Notices
  <2>5. HolderOK(p)'
    BY <1>1, <1>2, <2>2, <2>3 DEF HolderOK, Certifies
  <2> QED BY <1>1, <1>3, <2>2, <2>4, <2>5, AddsInside DEF DomainInv, DomainTypes, CertOf, InLock
<1>4. CASE adding' = [adding EXCEPT ![p] = DomainCommands!Idle] /\ domainLock' = None
  <2>1. Adds(p, DomainCommands!Idle, {})
    BY <1>1, <1>4, IdleAdds, GoesQuietly
  <2>2. ~broken' => domain' = host' /\ Certifies(host', cert')
    BY <1>1, <1>2
  <2> QED BY <1>1, <1>4, <2>1, <2>2, IdleAdds, AddsLast DEF DomainInv, DomainTypes, CertOf, InLock
<1> QED BY <1>1, <1>3, <1>4
        DEF DomainCommands!Require, DomainCommands!LeadsHere, DomainCommands!Go,
            DomainCommands!End, DomainCommands!Release

LEMMA Named ==
  ASSUME DomainInv, NEW d \in Domains, NEW n, n = DomainCommands!Naming(d)
  PROVE  CertOf(n) /\ n # None /\ n.names = d
<1>1. CASE cert = None
  <2>1. n = [names |-> d, ready |-> FALSE, issued |-> NoDomain]
    BY <1>1 DEF DomainCommands!Naming
  <2>2. n \in [names : Domains, ready : BOOLEAN, issued : Domains \cup {NoDomain}] /\ n.names = d
    BY <2>1
  <2> QED BY <2>2, DomainAssumption
          DEF CertOf, DomainCommands!Certs, DomainCommands!Hosts
<1>2. CASE cert # None
  <2>1. n = [cert EXCEPT !.names = d] /\ cert \in DomainCommands!Certs
    BY <1>2 DEF DomainCommands!Naming, DomainInv, DomainTypes, CertOf
  <2> QED BY <2>1, DomainAssumption
          DEF CertOf, DomainCommands!Certs, DomainCommands!Hosts
<1> QED BY <1>1, <1>2

\* A step inside the lock that changes no more of its state than its place.
LEMMA PlaceOnly ==
  ASSUME DomainInv, NEW p \in Procs, NEW to \in InLock,
         adding' = [adding EXCEPT ![p].pc = to]
  PROVE  \E r \in AdderStates :
           /\ adding' = [adding EXCEPT ![p] = r] /\ adding'[p] = r /\ r.pc = to
           /\ r.want = adding[p].want /\ r.was = adding[p].was /\ r.cert = adding[p].cert
<1>1. PICK r : r = [adding[p] EXCEPT !.pc = to]
  OBVIOUS
<1>2. adding[p] \in AdderStates
  BY DEF DomainInv, DomainTypes
<1>3. /\ r \in AdderStates /\ r.pc = to /\ r.want = adding[p].want
      /\ r.was = adding[p].was /\ r.cert = adding[p].cert
  BY <1>1, <1>2 DEF AdderStates, InLock
<1>4. adding' = [adding EXCEPT ![p] = r] /\ adding'[p] = r
  BY <1>1 DEF DomainInv, DomainTypes
<1> QED BY <1>3, <1>4

LEMMA SetsCert ==
  ASSUME DomainInv, NEW p \in Procs, DomainCommands!SetCert(p) PROVE DomainInv'
<1>1. /\ adding[p].pc = "cert" /\ HolderOK(p) /\ NoticedOK(p)
      /\ domainLock = p /\ UNCHANGED <<dns, host, domain, domainLock, broken>>
      /\ DomainCommands!Remember({})
  BY DEF DomainCommands!SetCert, DomainCommands!At, DomainCommands!Keep,
         DomainInv, DomainTypes, LockKept, InLock
<1>2. /\ domain = adding[p].was /\ adding[p].want \in Domains /\ "led" \in noticed[p]
      /\ ~broken => host = adding[p].was /\ Certifies(adding[p].was, adding[p].cert)
  BY <1>1 DEF HolderOK, InLock, NoticedOK
<1>3. PICK n : n = DomainCommands!Naming(adding[p].want)
  OBVIOUS
<1>4. CertOf(n) /\ n # None /\ n.names = adding[p].want
  BY <1>2, <1>3, Named
<1>5. CASE cert' = n /\ adding' = [adding EXCEPT ![p].pc = "ingress"]
  <2>1. PICK r \in AdderStates :
          /\ adding' = [adding EXCEPT ![p] = r] /\ adding'[p] = r /\ r.pc = "ingress"
          /\ r.want = adding[p].want /\ r.was = adding[p].was /\ r.cert = adding[p].cert
    BY <1>5, PlaceOnly DEF InLock
  <2>2. Adds(p, r, {})
    BY <1>1, <1>2, <2>1 DEF Adds, Notices
  <2>3. HolderOK(p)'
    BY <1>1, <1>2, <1>4, <1>5, <2>1, DomainAssumption DEF HolderOK, Certifies
  <2> QED BY <1>1, <1>4, <1>5, <2>1, <2>2, <2>3, AddsInside DEF DomainInv, DomainTypes, InLock
<1>6. CASE cert' \in {cert, n} /\ adding' = [adding EXCEPT ![p].pc = "undo"]
  <2>1. PICK r \in AdderStates :
          /\ adding' = [adding EXCEPT ![p] = r] /\ adding'[p] = r /\ r.pc = "undo"
          /\ r.want = adding[p].want /\ r.was = adding[p].was /\ r.cert = adding[p].cert
    BY <1>6, PlaceOnly DEF InLock
  <2>2. Adds(p, r, {})
    BY <1>1, <2>1, GoesQuietly
  <2>3. HolderOK(p)'
    BY <1>1, <1>2, <2>1 DEF HolderOK, Certifies
  <2>4. CertOf(cert')
    BY <1>4, <1>6 DEF DomainInv, DomainTypes
  <2> QED BY <1>1, <2>1, <2>2, <2>3, <2>4, AddsInside DEF DomainInv, DomainTypes, InLock
<1> QED BY <1>3, <1>5, <1>6 DEF DomainCommands!SetCert, DomainCommands!Go

LEMMA SetsIngress ==
  ASSUME DomainInv, NEW p \in Procs, DomainCommands!SetIngress(p) PROVE DomainInv'
<1>1. /\ adding[p].pc = "ingress" /\ adding[p] \in AdderStates /\ HolderOK(p) /\ NoticedOK(p)
      /\ domainLock = p /\ UNCHANGED <<dns, cert, domain>>
      /\ DomainCommands!Remember({})
  BY DEF DomainCommands!SetIngress, DomainCommands!At, DomainCommands!Keep,
         DomainInv, DomainTypes, LockKept, InLock
<1>2. /\ domain = adding[p].was /\ adding[p].want \in Zones
      /\ ~broken => host = adding[p].was /\ Certifies(adding[p].was, adding[p].cert)
      /\ adding[p].want \in Domains => Certifies(adding[p].want, cert)
      /\ adding[p].want = NoDomain /\ ~broken => Certifies(host, cert)
  BY <1>1 DEF HolderOK, InLock, AdderStates
<1>3. CASE /\ host' = adding[p].want /\ UNCHANGED <<domainLock, broken>>
           /\ adding' = [adding EXCEPT ![p].pc =
                           IF adding[p].want = NoDomain THEN "uncert" ELSE "save"]
  <2>1. PICK to \in {"uncert", "save"} :
          /\ to = IF adding[p].want = NoDomain THEN "uncert" ELSE "save"
          /\ adding' = [adding EXCEPT ![p].pc = to]
    BY <1>3
  <2>2. PICK r \in AdderStates :
          /\ adding' = [adding EXCEPT ![p] = r] /\ adding'[p] = r /\ r.pc = to
          /\ r.want = adding[p].want /\ r.was = adding[p].was /\ r.cert = adding[p].cert
    <3>1. to \in InLock /\ adding' = [adding EXCEPT ![p].pc = to]
      BY <2>1 DEF InLock
    <3> QED BY <3>1, PlaceOnly
  <2>3. Adds(p, r, {})
    BY <1>1, <2>1, <2>2, GoesQuietly
  <2>4. HolderOK(p)'
    BY <1>1, <1>2, <1>3, <2>1, <2>2 DEF HolderOK, Certifies, Zones
  <2> QED BY <1>1, <1>2, <1>3, <2>1, <2>2, <2>3, <2>4, AddsInside
          DEF DomainInv, DomainTypes, InLock
<1>4. CASE /\ host' \in {host, adding[p].want} /\ broken' = (broken \/ host' # host)
           /\ IF adding[p].want = NoDomain
                THEN adding' = [adding EXCEPT ![p] = DomainCommands!Idle] /\ domainLock' = None
                ELSE adding' = [adding EXCEPT ![p].pc = "undo"] /\ UNCHANGED domainLock
  <2>0. host' \in Zones /\ broken' \in BOOLEAN
    BY <1>2, <1>4 DEF DomainInv, DomainTypes
  <2>1. CASE adding[p].want = NoDomain
    <3>1. adding' = [adding EXCEPT ![p] = DomainCommands!Idle] /\ domainLock' = None
      BY <1>4, <2>1
    <3>2. Adds(p, DomainCommands!Idle, {})
      BY <1>1, <3>1, IdleAdds, GoesQuietly
    <3>3. ~broken' => domain' = host' /\ Certifies(host', cert')
      BY <1>1, <1>2, <1>4, <2>1
    <3> QED BY <1>1, <2>0, <3>1, <3>2, <3>3, IdleAdds, AddsLast
            DEF DomainInv, DomainTypes, CertOf, InLock
  <2>2. CASE adding[p].want # NoDomain
    <3>1. PICK r \in AdderStates :
            /\ adding' = [adding EXCEPT ![p] = r] /\ adding'[p] = r /\ r.pc = "undo"
            /\ r.want = adding[p].want /\ r.was = adding[p].was /\ r.cert = adding[p].cert
      BY <1>4, <2>2, PlaceOnly DEF InLock
    <3>2. Adds(p, r, {})
      BY <1>1, <3>1, GoesQuietly
    <3>3. HolderOK(p)'
      BY <1>1, <1>2, <1>4, <2>2, <3>1 DEF HolderOK, Certifies, Zones
    <3> QED BY <1>1, <1>4, <2>0, <2>2, <3>1, <3>2, <3>3, AddsInside
            DEF DomainInv, DomainTypes, CertOf, InLock
  <2> QED BY <2>1, <2>2
<1> QED BY <1>1, <1>3, <1>4
        DEF DomainCommands!SetIngress, DomainCommands!Go, DomainCommands!End,
            DomainCommands!Release

LEMMA Undoes ==
  ASSUME DomainInv, NEW p \in Procs, DomainCommands!Undo(p) PROVE DomainInv'
<1>1. /\ adding[p].pc = "undo" /\ adding[p] \in AdderStates /\ HolderOK(p)
      /\ domainLock = p /\ UNCHANGED <<dns, host, domain>> /\ domainLock' = None
      /\ adding' = [adding EXCEPT ![p] = DomainCommands!Idle]
      /\ DomainCommands!Remember({})
  BY DEF DomainCommands!Undo, DomainCommands!At, DomainCommands!Keep, DomainCommands!End,
         DomainCommands!Release, DomainInv, DomainTypes, LockKept, InLock
<1>2. /\ domain = adding[p].was
      /\ ~broken => host = adding[p].was /\ Certifies(adding[p].was, adding[p].cert)
      /\ adding[p].cert \in DomainCommands!Certs \cup {None}
  BY <1>1 DEF HolderOK, InLock, AdderStates
<1>3. PICK c : c = IF adding[p].cert = None THEN None
                   ELSE DomainCommands!Naming(adding[p].cert.names)
  OBVIOUS
<1>4. CertOf(c) /\ (c = None <=> adding[p].cert = None)
      /\ (c # None => c.names = adding[p].cert.names)
  <2>1. CASE adding[p].cert = None
    BY <1>3, <2>1 DEF CertOf
  <2>2. CASE adding[p].cert # None
    <3>1. adding[p].cert.names \in Domains
      BY <1>2, <2>2 DEF DomainCommands!Certs
    <3> QED BY <1>3, <2>2, <3>1, Named
  <2> QED BY <2>1, <2>2
<1>5. \/ cert' = c /\ broken' = broken
      \/ cert' = cert /\ broken' = TRUE
  BY <1>3 DEF DomainCommands!Undo
<1>6. ~broken' => domain' = host' /\ Certifies(host', cert')
  BY <1>1, <1>2, <1>4, <1>5 DEF Certifies
<1>7. CertOf(cert') /\ broken' \in BOOLEAN
  BY <1>4, <1>5 DEF DomainInv, DomainTypes
<1>8. Adds(p, DomainCommands!Idle, {})
  BY <1>1, IdleAdds, GoesQuietly
<1> QED BY <1>1, <1>6, <1>7, <1>8, IdleAdds, AddsLast DEF DomainInv, DomainTypes, InLock

LEMMA ClearsCert ==
  ASSUME DomainInv, NEW p \in Procs, DomainCommands!ClearCert(p) PROVE DomainInv'
<1>1. /\ adding[p].pc = "uncert" /\ HolderOK(p) /\ domainLock = p
      /\ UNCHANGED <<dns, host, domain, domainLock>>
      /\ adding' = [adding EXCEPT ![p].pc = "save"]
      /\ DomainCommands!Remember({})
  BY DEF DomainCommands!ClearCert, DomainCommands!At, DomainCommands!Keep, DomainCommands!Go,
         DomainInv, DomainTypes, LockKept, InLock
<1>2. domain = adding[p].was /\ adding[p].want = NoDomain /\ host = NoDomain
  BY <1>1 DEF HolderOK, InLock
<1>3. /\ \/ cert' = None /\ broken' = broken
         \/ cert' = cert /\ broken' = (broken \/ cert # None)
      /\ CertOf(cert') /\ broken' \in BOOLEAN
  BY DEF DomainCommands!ClearCert, DomainInv, DomainTypes, CertOf
<1>4. PICK r \in AdderStates :
        /\ adding' = [adding EXCEPT ![p] = r] /\ adding'[p] = r /\ r.pc = "save"
        /\ r.want = adding[p].want /\ r.was = adding[p].was /\ r.cert = adding[p].cert
  BY <1>1, PlaceOnly DEF InLock
<1>5. Adds(p, r, {})
  BY <1>1, <1>4, GoesQuietly
<1>6. HolderOK(p)'
  BY <1>1, <1>2, <1>3, <1>4 DEF HolderOK, Certifies
<1> QED BY <1>1, <1>3, <1>4, <1>5, <1>6, AddsInside DEF DomainInv, DomainTypes, InLock

LEMMA SavesDomain ==
  ASSUME DomainInv, NEW p \in Procs, DomainCommands!Save(p) PROVE DomainInv'
<1>1. /\ adding[p].pc = "save" /\ adding[p] \in AdderStates /\ HolderOK(p) /\ domainLock = p
      /\ UNCHANGED <<dns, host, cert>> /\ DomainCommands!Remember({})
  BY DEF DomainCommands!Save, DomainCommands!At, DomainCommands!Keep,
         DomainInv, DomainTypes, LockKept, InLock
<1>2. /\ domain = adding[p].was /\ adding[p].want \in Zones /\ host = adding[p].want
      /\ ~broken => Certifies(adding[p].want, cert)
  BY <1>1 DEF HolderOK, InLock, AdderStates
<1>3. CASE /\ domain' = adding[p].want /\ domainLock' = None
           /\ broken' = IF DomainCommands!Right(p) THEN FALSE ELSE broken
           /\ adding' = [adding EXCEPT ![p] =
                IF adding[p].wait THEN [DomainCommands!Idle EXCEPT !.pc = "find"]
                ELSE DomainCommands!Idle]
  <2>1. PICK r \in AdderStates :
          r.pc \in {"idle", "find"} /\ adding' = [adding EXCEPT ![p] = r]
    <3>1. [DomainCommands!Idle EXCEPT !.pc = "find"] \in AdderStates
          /\ [DomainCommands!Idle EXCEPT !.pc = "find"].pc = "find"
      BY IdleAdds DEF AdderStates
    <3> QED BY <1>3, <3>1, IdleAdds
  <2>2. Adds(p, r, {})
    BY <1>1, <2>1, GoesQuietly
  <2>3. ~broken' => Certifies(adding[p].want, cert)
    BY <1>2, <1>3 DEF DomainCommands!Right, Certifies
  <2>4. broken' \in BOOLEAN
    BY <1>3 DEF DomainInv, DomainTypes
  <2> QED BY <1>1, <1>2, <1>3, <2>1, <2>2, <2>3, <2>4, AddsLast
          DEF DomainInv, DomainTypes, CertOf, InLock
<1>4. CASE UNCHANGED <<domain, domainLock, broken>> /\ adding' = [adding EXCEPT ![p].pc = "revert"]
  <2>1. PICK r \in AdderStates :
          /\ adding' = [adding EXCEPT ![p] = r] /\ adding'[p] = r /\ r.pc = "revert"
          /\ r.want = adding[p].want /\ r.was = adding[p].was /\ r.cert = adding[p].cert
    BY <1>4, PlaceOnly DEF InLock
  <2>2. Adds(p, r, {})
    BY <1>1, <2>1, GoesQuietly
  <2>3. HolderOK(p)'
    BY <1>2, <1>4, <2>1 DEF HolderOK
  <2> QED BY <1>1, <1>4, <2>1, <2>2, <2>3, AddsInside
          DEF DomainInv, DomainTypes, CertOf, InLock
<1> QED BY <1>1, <1>3, <1>4
        DEF DomainCommands!Save, DomainCommands!Go, DomainCommands!End, DomainCommands!Release

LEMMA RevertsDomain ==
  ASSUME DomainInv, NEW p \in Procs, DomainCommands!Revert(p) PROVE DomainInv'
<1>1. /\ adding[p].pc = "revert" /\ adding[p] \in AdderStates /\ HolderOK(p) /\ domainLock = p
      /\ UNCHANGED <<dns, domain>> /\ domainLock' = None
      /\ adding' = [adding EXCEPT ![p] = DomainCommands!Idle]
      /\ DomainCommands!Remember({})
  BY DEF DomainCommands!Revert, DomainCommands!At, DomainCommands!Keep, DomainCommands!End,
         DomainCommands!Release, DomainInv, DomainTypes, LockKept, InLock
<1>2. domain = adding[p].was /\ adding[p].was \in Zones
  BY <1>1 DEF HolderOK, InLock, AdderStates
<1>3. PICK c : c = IF adding[p].was = NoDomain THEN None ELSE DomainCommands!Naming(adding[p].was)
  OBVIOUS
<1>4. CertOf(c) /\ Certifies(adding[p].was, c)
  <2>1. CASE adding[p].was = NoDomain
    BY <1>3, <2>1 DEF CertOf, Certifies
  <2>2. CASE adding[p].was # NoDomain
    BY <1>2, <1>3, <2>2, Named DEF Certifies, Zones
  <2> QED BY <2>1, <2>2
<1>5. \/ host' = adding[p].was /\ cert' = c /\ broken' = FALSE
      \/ UNCHANGED <<host, cert>> /\ broken' = TRUE
  BY <1>3 DEF DomainCommands!Revert
<1>6. ~broken' => domain' = host' /\ Certifies(host', cert')
  BY <1>1, <1>2, <1>4, <1>5
<1>7. CertOf(cert') /\ host' \in Zones /\ broken' \in BOOLEAN
  BY <1>2, <1>4, <1>5 DEF DomainInv, DomainTypes
<1>8. Adds(p, DomainCommands!Idle, {})
  BY <1>1, IdleAdds, GoesQuietly
<1> QED BY <1>1, <1>6, <1>7, <1>8, IdleAdds, AddsLast DEF DomainInv, DomainTypes, InLock

LEMMA FindsDomain ==
  ASSUME DomainInv, NEW p \in Procs, DomainCommands!Find(p) PROVE DomainInv'
<1>1. /\ adding[p].pc = "find" /\ adding[p] \in AdderStates
      /\ UNCHANGED <<dns, host, cert, domainLock, broken>> /\ DomainCommands!Remember({p})
      /\ domain' = domain \/ (domainLock = None /\ domain' = host)
      /\ domain' \in Zones
  BY DEF DomainCommands!Find, DomainCommands!At, DomainCommands!Forget, DomainCommands!Refreshed,
         DomainInv, DomainTypes
<1>2. PICK r \in AdderStates : r.pc \in {"idle", "dns"} /\ adding' = [adding EXCEPT ![p] = r]
  <2>1. CASE adding' = [adding EXCEPT ![p] = DomainCommands!Idle]
    BY <2>1, IdleAdds
  <2>2. CASE adding' = [adding EXCEPT ![p].pc = "dns", ![p].sess = domain']
    <3>1. PICK r : r = [adding[p] EXCEPT !.pc = "dns", !.sess = domain']
      OBVIOUS
    <3>2. r \in AdderStates /\ r.pc = "dns"
      BY <1>1, <3>1 DEF AdderStates
    <3>3. adding' = [adding EXCEPT ![p] = r]
      BY <2>2, <3>1 DEF DomainInv, DomainTypes
    <3> QED BY <3>2, <3>3
  <2> QED BY <2>1, <2>2 DEF DomainCommands!Find, DomainCommands!End
<1>3. Adds(p, r, {p})
  BY <1>1, <1>2, GoesQuietly
<1> QED BY <1>1, <1>2, <1>3, AddsOutside DEF InLock

\* One reading: it goes on only if what it has read is so.
LEMMA ReadsOn ==
  ASSUME DomainInv, NEW p \in Procs, NEW at \in {"dns", "host", "ready"},
         NEW onto \in {"host", "ready", "over"}, NEW holds,
         DomainCommands!Reads(p, at, holds, onto),
         onto = "host" => at = "dns" /\ (holds => adding[p].sess \in dns),
         onto = "ready" => at = "host" /\ (holds => host = adding[p].sess)
  PROVE  DomainInv'
<1>1. /\ adding[p].pc = at /\ adding[p] \in AdderStates /\ NoticedOK(p)
      /\ UNCHANGED <<dns, host, cert, domain, domainLock, broken>>
      /\ IF adding'[p].pc = "dns" THEN DomainCommands!Remember({p}) ELSE DomainCommands!Remember({})
  BY DEF DomainCommands!Reads, DomainCommands!At, DomainCommands!Forget, DomainCommands!Keep,
         DomainInv, DomainTypes
<1>2. \/ adding' = [adding EXCEPT ![p] = DomainCommands!Idle]
      \/ adding' = [adding EXCEPT ![p].pc = "dns"]
      \/ onto # "over" /\ holds /\ adding' = [adding EXCEPT ![p].pc = onto]
  BY DEF DomainCommands!Reads, DomainCommands!Go, DomainCommands!End
<1>3. CASE adding' = [adding EXCEPT ![p] = DomainCommands!Idle]
  <2>1. adding'[p].pc = "idle"
    BY <1>3, IdleAdds DEF DomainInv, DomainTypes
  <2>2. Adds(p, DomainCommands!Idle, {})
    BY <1>1, <1>3, <2>1, IdleAdds, GoesQuietly
  <2> QED BY <1>1, <2>2, IdleAdds, AddsOutside DEF InLock
<1>4. ASSUME NEW to \in {"dns", "host", "ready"}, adding' = [adding EXCEPT ![p].pc = to],
             to = "dns" \/ (to = onto /\ holds)
      PROVE  DomainInv'
  <2>1. PICK r : r = [adding[p] EXCEPT !.pc = to]
    OBVIOUS
  <2>2. r \in AdderStates /\ r.pc = to /\ r.sess = adding[p].sess
    BY <1>1, <2>1 DEF AdderStates
  <2>3. adding' = [adding EXCEPT ![p] = r] /\ adding'[p] = r
    BY <1>4, <2>1 DEF DomainInv, DomainTypes
  <2>4. \E begin : Adds(p, r, begin)
    <3>1. CASE to = "dns"
      BY <1>1, <2>2, <2>3, <3>1, GoesQuietly
    <3>2. CASE to # "dns"
      <4>1. DomainCommands!Remember({}) /\ to = onto /\ holds
        BY <1>1, <1>4, <2>2, <2>3, <3>2
      <4>2. to = "ready" => "led" \in noticed[p]
        BY <1>1, <4>1 DEF NoticedOK
      <4>3. Notices(p, r, {})
        BY <1>1, <1>4, <2>2, <2>3, <4>1, <4>2 DEF Notices
      <4>4. Adds(p, r, {})
        BY <1>1, <2>2, <2>3, <4>3 DEF Adds
      <4> QED BY <4>4
    <3> QED BY <3>1, <3>2
  <2> QED BY <1>1, <2>2, <2>4, AddsOutside DEF InLock
<1> QED BY <1>2, <1>3, <1>4

LEMMA DomainRead ==
  ASSUME DomainInv, NEW p \in Procs,
         \/ DomainCommands!ReadDns(p) \/ DomainCommands!ReadIngress(p)
         \/ DomainCommands!ReadCertificate(p)
  PROVE  DomainInv'
<1>1. CASE DomainCommands!ReadDns(p)
  <2>1. PICK holds : holds = (adding[p].sess \in dns)
    OBVIOUS
  <2>2. DomainCommands!Reads(p, "dns", holds, "host")
    BY <1>1, <2>1 DEF DomainCommands!ReadDns
  <2> QED BY <2>1, <2>2, ReadsOn
<1>2. CASE DomainCommands!ReadIngress(p)
  <2>1. PICK holds : holds = (host = adding[p].sess)
    OBVIOUS
  <2>2. DomainCommands!Reads(p, "host", holds, "ready")
    BY <1>2, <2>1 DEF DomainCommands!ReadIngress
  <2> QED BY <2>1, <2>2, ReadsOn
<1>3. CASE DomainCommands!ReadCertificate(p)
  <2>1. PICK holds : holds = DomainCommands!CertificateReady(p)
    OBVIOUS
  <2>2. DomainCommands!Reads(p, "ready", holds, "over")
    BY <1>3, <2>1 DEF DomainCommands!ReadCertificate
  <2> QED BY <2>2, ReadsOn
<1> QED BY <1>1, <1>2, <1>3

\* The zone and cert-manager change no host and no name.
LEMMA OutsideMoves ==
  ASSUME DomainInv, DomainCommands!MoveDns \/ DomainCommands!Manage PROVE DomainInv'
<1>1. /\ UNCHANGED <<host, domain, domainLock, adding, broken>> /\ DomainCommands!Remember({})
      /\ dns' \subseteq Domains
  BY DEF DomainCommands!MoveDns, DomainCommands!Manage, DomainCommands!Keep,
         DomainInv, DomainTypes
<1>2. CertOf(cert') /\ \A d : Certifies(d, cert) <=> Certifies(d, cert')
  <2>1. CASE DomainCommands!MoveDns
    BY <2>1 DEF DomainCommands!MoveDns, DomainInv, DomainTypes
  <2>2. CASE DomainCommands!Manage
    <3>1. cert # None /\ cert \in DomainCommands!Certs
      BY <2>2 DEF DomainCommands!Manage, DomainInv, DomainTypes, CertOf
    <3>2. \/ cert' = [cert EXCEPT !.issued = cert.names]
          \/ cert' = [cert EXCEPT !.ready = ~cert.ready]
      BY <2>2 DEF DomainCommands!Manage
    <3>3. cert' \in DomainCommands!Certs /\ cert'.names = cert.names
      BY <3>1, <3>2 DEF DomainCommands!Certs, DomainCommands!Hosts
    <3>4. cert' # None
      BY <3>3, DomainAssumption DEF DomainCommands!Certs, DomainCommands!Hosts
    <3> QED BY <3>1, <3>3, <3>4 DEF CertOf, Certifies
  <2> QED BY <2>1, <2>2
<1>3. DomainTypes'
  BY <1>1, <1>2 DEF DomainInv, DomainTypes, CertOf, DomainCommands!Remember
<1>4. LockKept'
  BY <1>1 DEF DomainInv, LockKept
<1>5. \A p \in Procs : HolderOK(p)'
  <2> TAKE p \in Procs
  <2>1. PICK c : c = cert'
    OBVIOUS
  <2>2. \A d : Certifies(d, cert) <=> Certifies(d, c)
    BY <1>2, <2>1
  <2> QED BY <1>1, <2>1, <2>2 DEF DomainInv, HolderOK, Certifies
<1>6. \A p \in Procs : NoticedOK(p)'
  BY <1>1, NoticedStays
<1>7. DomainCommands!DomainsAgree'
  <2>1. PICK c : c = cert'
    OBVIOUS
  <2>2. \A d : Certifies(d, cert) <=> Certifies(d, c)
    BY <1>2, <2>1
  <2> QED BY <1>1, <2>1, <2>2 DEF DomainInv, DomainCommands!DomainsAgree, Certifies
<1> QED BY <1>3, <1>4, <1>5, <1>6, <1>7 DEF DomainInv

LEMMA DomainStarts == ASSUME PartsInit PROVE DomainInv
<1>1. /\ dns \subseteq Domains /\ host = NoDomain /\ domain = NoDomain /\ cert = None
      /\ domainLock = None /\ adding = [p \in Procs |-> DomainCommands!Idle]
      /\ noticed = [p \in Procs |-> {}] /\ broken = FALSE
  BY DEF PartsInit, DomainCommands!Init
<1>2. DomainTypes
  BY <1>1, IdleAdds DEF DomainTypes, CertOf, Zones
<1>3. \A p \in Procs : adding[p] = DomainCommands!Idle /\ noticed[p] = {}
  BY <1>1
<1>4. LockKept
  BY <1>1, <1>3, IdleAdds, DomainAssumption DEF LockKept, InLock
<1>5. ASSUME NEW p \in Procs PROVE HolderOK(p) /\ NoticedOK(p)
  <2>1. DomainCommands!About(adding[p]) = {}
    BY <1>3, IdleAdds DEF DomainCommands!About
  <2> QED BY <1>3, <2>1, IdleAdds DEF HolderOK, NoticedOK, InLock
<1> QED BY <1>1, <1>2, <1>4, <1>5 DEF DomainInv, DomainCommands!DomainsAgree

LEMMA DomainSteps == ASSUME DomainInv, DomainCommands!Next PROVE DomainInv'
BY DomainBegins, WaitsEarly, TakesLock, Requires, SetsCert, SetsIngress, Undoes, ClearsCert,
   SavesDomain, RevertsDomain, FindsDomain, DomainRead, OutsideMoves
   DEF DomainCommands!Next, DomainCommands!Step

LEMMA DomainStays == ASSUME DomainInv, UNCHANGED domainVars PROVE DomainInv'
<1>1. UNCHANGED <<dns, host, cert, domain, domainLock, adding, noticed, broken>>
  BY DEF domainVars
<1>2. DomainTypes' /\ LockKept'
  BY <1>1 DEF DomainInv, DomainTypes, LockKept, CertOf
<1>3. ASSUME NEW p \in Procs PROVE HolderOK(p)' /\ NoticedOK(p)'
  <2>1. HolderOK(p) /\ NoticedOK(p)
    BY DEF DomainInv
  <2> QED BY <1>1, <2>1 DEF HolderOK, NoticedOK, Certifies
<1> QED BY <1>1, <1>2, <1>3 DEF DomainInv, DomainCommands!DomainsAgree

\* Only who has the lock touches the Ingress, and with a domain of its own it has seen
\* the CNAME lead here.
LEMMA OnlyChecked ==
  ASSUME DomainInv, DomainCommands!Next PROVE DomainCommands!OnlyCheckedAttached
<1> SUFFICES ASSUME NEW p \in Procs, adding[p].pc = "ingress", host' # host, host' \in Domains
             PROVE  "led" \in noticed[p]
  BY DEF DomainCommands!OnlyCheckedAttached, DomainCommands!At
<1>1. PICK q \in Procs : DomainCommands!SetIngress(q) \/ DomainCommands!Revert(q)
  BY DEF DomainCommands!Next, DomainCommands!Step, DomainCommands!Begin,
         DomainCommands!WaitEarly, DomainCommands!TakeLock, DomainCommands!Require,
         DomainCommands!SetCert, DomainCommands!Undo, DomainCommands!ClearCert,
         DomainCommands!Save, DomainCommands!Find, DomainCommands!ReadDns,
         DomainCommands!ReadIngress, DomainCommands!ReadCertificate, DomainCommands!Reads,
         DomainCommands!MoveDns, DomainCommands!Manage
<1>2. adding[q].pc \in {"ingress", "revert"}
  BY <1>1 DEF DomainCommands!SetIngress, DomainCommands!Revert, DomainCommands!At
<1>3. p = q
  BY <1>2 DEF DomainInv, LockKept, InLock
<1>4. host' \in {host, adding[p].want}
  BY <1>1, <1>3 DEF DomainCommands!SetIngress, DomainCommands!Revert, DomainCommands!At
<1> QED BY <1>4 DEF DomainInv, NoticedOK

\* What a reader of the Certificate has seen by then, all in one round.
LEMMA ReadyWhole == ASSUME DomainInv PROVE DomainCommands!ReadyIsWhole
<1> SUFFICES ASSUME NEW p \in Procs, adding[p].pc = "ready", DomainCommands!CertificateReady(p)
             PROVE  noticed[p] = {"led", "had", "sure"}
  BY DEF DomainCommands!ReadyIsWhole, DomainCommands!At
<1>1. /\ NoticedOK(p) /\ DomainCommands!About(adding[p]) = {adding[p].sess}
  BY AboutOf DEF DomainInv
<1>2. "sure" \in DomainCommands!Facts({adding[p].sess}, dns, host, cert)
  BY FactsOfOne DEF DomainCommands!CertificateReady
<1> QED BY <1>1, <1>2 DEF NoticedOK

\* A domain is attached only if its CNAME led here since the command has the lock, is
\* reported ready only if in one round all of it was so, and is the same in the Ingress,
\* the Certificate and the record between commands: for any processes, domains, moves of
\* the zones and faults (domain.go:123-151, 300-397, 696-801).
THEOREM DomainsAreHeld == PartsSpec => DomainHolds
<1>1. PartsInit => DomainInv
  BY DomainStarts
<1>2. DomainInv /\ [PartsNext]_all
        => DomainInv' /\ [part = "domain" => DomainCommands!HoldsBy]_domainVars
  <2> SUFFICES ASSUME DomainInv, [PartsNext]_all
               PROVE  DomainInv' /\ [part = "domain" => DomainCommands!HoldsBy]_domainVars
    OBVIOUS
  <2>1. CASE DomainRuns(DomainCommands!Next)
    <3>1. DomainCommands!Next
      BY <2>1 DEF DomainRuns
    <3>2. DomainInv'
      BY <3>1, DomainSteps
    <3> QED BY <3>1, <3>2, OnlyChecked, ReadyWhole DEF DomainCommands!HoldsBy, DomainInv
  <2>2. CASE UNCHANGED domainVars
    BY <2>2, DomainStays
  <2> QED BY <2>1, <2>2
          DEF PartsNext, all, LimiterRuns, TrafficRuns, CredentialsRun, KeyRuns,
              CommandLineRuns, ConsoleRuns, LinksRun, ProjectRuns
<1> QED BY <1>1, <1>2, PTL DEF PartsSpec, DomainHolds
-----------------------------------------------------------------------------
(* The credentials.  Two commands that run are both renewals, of which the lock lets    *)
(* one work: so every step is of a command that is alone with the files.               *)

\* Where a command may be, while it does not hold the lock and while it does.
Places ==
  [refresh      |-> {"lock", "end"},
   workspace    |-> {"load", "check", "lock", "again", "read", "choose", "kube", "auth",
                     "restore", "sync", "copyKube", "copyAuth", "copyRestore", "end"},
   login        |-> {"login", "kube", "auth", "restore", "unmark", "end"},
   loginProfile |-> {"login", "namedKube", "namedAuth", "namedRestore", "pload", "pread",
                     "kube", "auth", "restore", "mark", "end"},
   save         |-> {"load", "read", "namedKube", "namedAuth", "namedRestore", "mark", "end"},
   use          |-> {"pload", "pread", "kube", "auth", "restore", "mark", "end"},
   delete       |-> {"delete", "unmarkNamed", "end"},
   logout       |-> {"clearAuth", "clearKube", "unmark", "end"}]

InRenewal ==
  {"load", "renew", "region", "kube", "auth", "restore", "sync", "copyKube", "copyAuth",
   "copyRestore", "unlock", "release"}

PlaceOK(p) ==
  IF cmd[p] = None THEN next[p] = "end" /\ lock # p
  ELSE /\ name[p] = Profile
       /\ lock = p => cmd[p] \in {"refresh", "workspace"} /\ next[p] \in InRenewal
       /\ lock # p => next[p] \in Places[cmd[p]]

\* Two commands that run are both renewals.
Overlaps ==
  \A p, q \in Procs : p # q => \/ cmd[p] = None \/ cmd[q] = None
                               \/ cmd[p] = "refresh" /\ cmd[q] = "refresh"

\* What was read is needed up to the save.
Paired == {"choose", "kube", "auth", "namedKube", "namedAuth", "sync", "copyKube", "copyAuth"}
Holding == Paired \cup {"check", "read", "pread", "renew", "region"}

CredTypes ==
  /\ Creds!TypeOK
  /\ \A p \in Procs : /\ PlaceOK(p)
                      /\ next[p] \in Holding => held[p] \in Creds!Auths
                      /\ next[p] \in Paired => config[p] \in Creds!Kubes
  /\ Overlaps

\* auth.json and kubeconfig of a directory belong together, or one is being replaced
\* and the old kubeconfig is known.
Saving == Creds!AuthSteps \cup Creds!RestoreSteps

Agree(d) == auth[d] # None /\ kube[d] # None => auth[d].gen = kube[d].gen

PairOf(p) ==
  /\ next[p] \in Paired => held[p].gen = config[p].gen
  /\ next[p] \in Creds!AuthSteps => kube[Creds!Dir(p)] = config[p]
  /\ next[p] \in Saving /\ auth[Creds!Dir(p)] # None /\ old[p] # None
       => auth[Creds!Dir(p)].gen = old[p].gen
  /\ next[p] \in {"check", "read"} => auth["active"] # None /\ held[p] = auth["active"]
  /\ next[p] = "pread" => auth[Profile] # None /\ held[p] = auth[Profile]
  /\ next[p] \in Creds!RestoreSteps => faults = 1

PairInv ==
  faults <= 1 =>
    /\ \A p \in Procs : PairOf(p)
    /\ \A d \in Creds!Dirs :
         Agree(d) \/ \E p \in Procs : next[p] \in Saving /\ Creds!Dir(p) = d

\* A token is kept by somebody, or is about to be replaced where it is spent.
Apart(t, d) == auth[d] # None => t # auth[d].token

TokenOf(p) ==
  /\ next[p] \in Holding => held[p].token <= gen /\ held[p].token \notin spent
  /\ next[p] \in Holding /\ cmd[p] \in {"refresh", "workspace"} /\ marker = None
       => Apart(held[p].token, Profile)
  /\ next[p] \in {"copyKube", "copyAuth"} => marker # None
  /\ cmd[p] = "login" /\ next[p] \in {"kube", "auth"} => Apart(held[p].token, Profile)
  /\ cmd[p] = "login" /\ next[p] = "unmark" /\ auth["active"] # None
       => Apart(auth["active"].token, Profile)
  /\ cmd[p] = "logout" /\ next[p] \in {"clearKube", "unmark"} => auth["active"] = None
  /\ cmd[p] = "loginProfile" /\ next[p] \in {"namedKube", "namedAuth"}
       => Apart(held[p].token, "active")
  /\ next[p] = "unmarkNamed" => auth[Profile] = None

Replacing(d) ==
  \E p \in Procs :
    /\ lock = p
    /\ IF d = "active" THEN next[p] \in {"region", "kube", "auth"}
       ELSE marker # None /\ next[p] \in {"region", "kube", "auth", "sync", "copyKube", "copyAuth"}

SpentInv ==
  faults = 0 =>
    /\ \A p \in Procs : TokenOf(p)
    /\ \A t \in spent : t <= gen
    /\ \A d \in Creds!Dirs :
         auth[d] # None => auth[d].token <= gen /\ (auth[d].token \in spent => Replacing(d))
    /\ marker = None /\ auth["active"] # None /\ (\A p \in Procs : next[p] # "mark")
         => Apart(auth["active"].token, Profile)

CredInv == CredTypes /\ PairInv /\ SpentInv

LEMMA AfterIs ==
  /\ Creds!After["refresh"]["load"] = "renew" /\ Creds!After["refresh"]["renew"] = "region"
  /\ Creds!After["refresh"]["region"] = "kube" /\ Creds!After["refresh"]["kube"] = "auth"
  /\ Creds!After["refresh"]["auth"] = "sync" /\ Creds!After["refresh"]["sync"] = "unlock"
  /\ Creds!After["refresh"]["copyKube"] = "copyAuth"
  /\ Creds!After["refresh"]["copyAuth"] = "unlock"
  /\ Creds!After["refresh"]["unlock"] = "end" /\ Creds!After["refresh"]["lock"] = "load"
  /\ Creds!After["refresh"]["start"] = "lock"
  /\ Creds!After["workspace"]["start"] = "load" /\ Creds!After["workspace"]["load"] = "check"
  /\ Creds!After["workspace"]["check"] = "read" /\ Creds!After["workspace"]["unlock"] = "again"
  /\ Creds!After["workspace"]["again"] = "read" /\ Creds!After["workspace"]["read"] = "choose"
  /\ Creds!After["workspace"]["choose"] = "kube" /\ Creds!After["workspace"]["kube"] = "auth"
  /\ Creds!After["workspace"]["auth"] = "sync" /\ Creds!After["workspace"]["sync"] = "end"
  /\ Creds!After["workspace"]["copyKube"] = "copyAuth"
  /\ Creds!After["workspace"]["copyAuth"] = "end"
  /\ Creds!After["login"]["start"] = "login" /\ Creds!After["login"]["login"] = "kube"
  /\ Creds!After["login"]["kube"] = "auth" /\ Creds!After["login"]["auth"] = "unmark"
  /\ Creds!After["login"]["unmark"] = "end"
  /\ Creds!After["loginProfile"]["start"] = "login"
  /\ Creds!After["loginProfile"]["login"] = "namedKube"
  /\ Creds!After["loginProfile"]["namedKube"] = "namedAuth"
  /\ Creds!After["loginProfile"]["namedAuth"] = "pload"
  /\ Creds!After["loginProfile"]["pload"] = "pread"
  /\ Creds!After["loginProfile"]["pread"] = "kube"
  /\ Creds!After["loginProfile"]["kube"] = "auth"
  /\ Creds!After["loginProfile"]["auth"] = "mark" /\ Creds!After["loginProfile"]["mark"] = "end"
  /\ Creds!After["save"]["start"] = "load" /\ Creds!After["save"]["load"] = "read"
  /\ Creds!After["save"]["read"] = "namedKube" /\ Creds!After["save"]["namedKube"] = "namedAuth"
  /\ Creds!After["save"]["namedAuth"] = "mark" /\ Creds!After["save"]["mark"] = "end"
  /\ Creds!After["use"]["start"] = "pload" /\ Creds!After["use"]["pload"] = "pread"
  /\ Creds!After["use"]["pread"] = "kube" /\ Creds!After["use"]["kube"] = "auth"
  /\ Creds!After["use"]["auth"] = "mark" /\ Creds!After["use"]["mark"] = "end"
  /\ Creds!After["delete"]["start"] = "delete" /\ Creds!After["delete"]["delete"] = "unmarkNamed"
  /\ Creds!After["delete"]["unmarkNamed"] = "end"
  /\ Creds!After["logout"]["start"] = "clearAuth"
  /\ Creds!After["logout"]["clearAuth"] = "clearKube"
  /\ Creds!After["logout"]["clearKube"] = "unmark" /\ Creds!After["logout"]["unmark"] = "end"
BY DEF Creds!After

\* What a command does after the step at hand.
Then(p) == Creds!After[Creds!Routine(p)][next[p]]

\* Commands by their places: those that do not hold the lock.
LEMMA PlacesAre ==
  /\ Places["refresh"] = {"lock", "end"}
  /\ Places["workspace"] =
       {"load", "check", "lock", "again", "read", "choose", "kube", "auth",
        "restore", "sync", "copyKube", "copyAuth", "copyRestore", "end"}
  /\ Places["login"] = {"login", "kube", "auth", "restore", "unmark", "end"}
  /\ Places["loginProfile"] =
       {"login", "namedKube", "namedAuth", "namedRestore", "pload", "pread",
        "kube", "auth", "restore", "mark", "end"}
  /\ Places["save"] = {"load", "read", "namedKube", "namedAuth", "namedRestore", "mark", "end"}
  /\ Places["use"] = {"pload", "pread", "kube", "auth", "restore", "mark", "end"}
  /\ Places["delete"] = {"delete", "unmarkNamed", "end"}
  /\ Places["logout"] = {"clearAuth", "clearKube", "unmark", "end"}
BY DEF Places

LEMMA Onward ==
  ASSUME NEW p \in Procs, cmd[p] \in CredentialCommands, PlaceOK(p)
  PROVE  /\ next[p] = "load" => \/ lock = p /\ Then(p) = "renew"
                                \/ lock # p /\ cmd[p] = "workspace" /\ Then(p) = "check"
                                \/ lock # p /\ cmd[p] = "save" /\ Then(p) = "read"
         /\ next[p] = "again" => lock # p /\ cmd[p] = "workspace" /\ Then(p) = "read"
         /\ next[p] = "check" => lock # p /\ cmd[p] = "workspace" /\ Then(p) = "read"
         /\ next[p] = "pload" => lock # p /\ cmd[p] \in {"use", "loginProfile"} /\ Then(p) = "pread"
         /\ next[p] = "pread" => lock # p /\ cmd[p] \in {"use", "loginProfile"} /\ Then(p) = "kube"
         /\ next[p] = "read" => \/ lock # p /\ cmd[p] = "workspace" /\ Then(p) = "choose"
                                \/ lock # p /\ cmd[p] = "save" /\ Then(p) = "namedKube"
         /\ next[p] = "choose" => lock # p /\ cmd[p] = "workspace" /\ Then(p) = "kube"
         /\ next[p] = "renew" => lock = p /\ Then(p) = "region"
         /\ next[p] = "region" => lock = p /\ Then(p) = "kube"
         /\ next[p] = "login" => \/ lock # p /\ cmd[p] = "login" /\ Then(p) = "kube"
                                 \/ lock # p /\ cmd[p] = "loginProfile" /\ Then(p) = "namedKube"
         /\ next[p] = "kube" => Then(p) = "auth" /\ cmd[p] \notin {"save", "delete", "logout"}
         /\ next[p] = "namedKube" =>
              lock # p /\ cmd[p] \in {"save", "loginProfile"} /\ Then(p) = "namedAuth"
         /\ next[p] = "copyKube" => cmd[p] \in {"refresh", "workspace"} /\ Then(p) = "copyAuth"
         /\ next[p] = "auth" => \/ cmd[p] \in {"refresh", "workspace"} /\ Then(p) = "sync"
                                \/ lock # p /\ cmd[p] = "login" /\ Then(p) = "unmark"
                                \/ lock # p /\ cmd[p] \in {"use", "loginProfile"} /\ Then(p) = "mark"
         /\ next[p] = "namedAuth" => \/ lock # p /\ cmd[p] = "save" /\ Then(p) = "mark"
                                     \/ lock # p /\ cmd[p] = "loginProfile" /\ Then(p) = "pload"
         /\ next[p] \in {"sync", "copyAuth"} =>
              \/ lock = p /\ Then(p) = "unlock"
              \/ lock # p /\ cmd[p] = "workspace" /\ Then(p) = "end"
         /\ next[p] \in {"copyKube", "copyRestore"} =>
              \/ lock = p /\ Creds!After[Creds!Routine(p)]["copyAuth"] = "unlock"
              \/ lock # p /\ cmd[p] = "workspace"
                 /\ Creds!After[Creds!Routine(p)]["copyAuth"] = "end"
         /\ next[p] \in {"mark", "unmark", "unmarkNamed"} => lock # p /\ Then(p) = "end"
         /\ next[p] = "mark" => cmd[p] \in {"save", "use", "loginProfile"}
         /\ next[p] = "unmark" => cmd[p] \in {"login", "logout"}
         /\ next[p] = "unmarkNamed" => cmd[p] = "delete"
         /\ next[p] = "delete" => lock # p /\ cmd[p] = "delete" /\ Then(p) = "unmarkNamed"
         /\ next[p] = "clearAuth" => lock # p /\ cmd[p] = "logout" /\ Then(p) = "clearKube"
         /\ next[p] = "clearKube" => lock # p /\ cmd[p] = "logout" /\ Then(p) = "unmark"
         /\ next[p] \in {"unlock", "release"} => lock = p /\ cmd[p] \in {"refresh", "workspace"}
         /\ next[p] = "lock" => lock # p /\ cmd[p] \in {"refresh", "workspace"}
<1>1. None \notin CredentialCommands
  BY CredentialsAssumption
<1>2. CASE lock = p
  <2>1. Creds!Routine(p) = "refresh" /\ cmd[p] \in {"refresh", "workspace"} /\ next[p] \in InRenewal
    BY <1>1, <1>2 DEF PlaceOK, Creds!Routine
  <2> QED BY <1>2, <2>1, AfterIs DEF Then, InRenewal
<1>3. CASE lock # p
  <2>1. Creds!Routine(p) = cmd[p] /\ next[p] \in Places[cmd[p]]
    BY <1>1, <1>3 DEF PlaceOK, Creds!Routine
  <2>2. CASE cmd[p] = "refresh"
    BY <1>3, <2>1, <2>2, PlacesAre
  <2>3. CASE cmd[p] = "workspace"
    BY <1>3, <2>1, <2>3, PlacesAre, AfterIs DEF Then
  <2>4. CASE cmd[p] = "login"
    BY <1>3, <2>1, <2>4, PlacesAre, AfterIs DEF Then
  <2>5. CASE cmd[p] = "loginProfile"
    BY <1>3, <2>1, <2>5, PlacesAre, AfterIs DEF Then
  <2>6. CASE cmd[p] = "save"
    BY <1>3, <2>1, <2>6, PlacesAre, AfterIs DEF Then
  <2>7. CASE cmd[p] = "use"
    BY <1>3, <2>1, <2>7, PlacesAre, AfterIs DEF Then
  <2>8. CASE cmd[p] = "delete"
    BY <1>3, <2>1, <2>8, PlacesAre, AfterIs DEF Then
  <2>9. CASE cmd[p] = "logout"
    BY <1>3, <2>1, <2>9, PlacesAre, AfterIs DEF Then
  <2> QED BY <2>2, <2>3, <2>4, <2>5, <2>6, <2>7, <2>8, <2>9 DEF CredentialCommands
<1> QED BY <1>2, <1>3

\* A place that p may go to.
Fit(p, to) == IF lock = p THEN to \in InRenewal ELSE to \in Places[cmd[p]]

LEMMA FitSteps ==
  ASSUME NEW p \in Procs, cmd[p] \in CredentialCommands, NEW to, Fit(p, to)
  PROVE  to \in Creds!Steps
<1>1. CASE lock = p
  BY <1>1 DEF Fit, InRenewal, Creds!Steps, Creds!KubeSteps, Creds!AuthSteps, Creds!RestoreSteps
<1>2. CASE lock # p
  <2>1. to \in Places[cmd[p]]
    BY <1>2 DEF Fit
  <2>2. \/ cmd[p] = "refresh" \/ cmd[p] = "workspace" \/ cmd[p] = "login"
        \/ cmd[p] = "loginProfile" \/ cmd[p] = "save" \/ cmd[p] = "use"
        \/ cmd[p] = "delete" \/ cmd[p] = "logout"
    BY DEF CredentialCommands
  <2> QED BY <2>1, <2>2, PlacesAre
          DEF Creds!Steps, Creds!KubeSteps, Creds!AuthSteps, Creds!RestoreSteps
<1> QED BY <1>1, <1>2

\* Every step leads to a place of the command.
LEMMA LeadsOn ==
  ASSUME NEW p \in Procs, cmd[p] \in CredentialCommands, PlaceOK(p)
  PROVE  /\ next[p] \notin Creds!RestoreSteps \cup {"end", "lock", "unlock", "release"}
              => Fit(p, Then(p))
         /\ Fit(p, IF lock = p THEN "release" ELSE "end")
         /\ next[p] = "auth" => Fit(p, "restore")
         /\ next[p] = "namedAuth" => Fit(p, "namedRestore")
         /\ next[p] = "copyAuth" => Fit(p, "copyRestore")
         /\ next[p] \in {"copyKube", "copyRestore"}
              => Fit(p, Creds!After[Creds!Routine(p)]["copyAuth"])
         /\ next[p] = "sync" => Fit(p, "copyKube")
         /\ next[p] = "check" => Fit(p, "lock") /\ lock # p
<1>1. None \notin CredentialCommands
  BY CredentialsAssumption
<1>2. CASE lock = p
  <2>1. Creds!Routine(p) = "refresh" /\ next[p] \in InRenewal
    BY <1>1, <1>2 DEF PlaceOK, Creds!Routine
  <2> QED BY <1>2, <2>1, AfterIs DEF Then, InRenewal, Fit, Creds!RestoreSteps
<1>3. CASE lock # p
  <2>1. Creds!Routine(p) = cmd[p] /\ next[p] \in Places[cmd[p]]
    BY <1>1, <1>3 DEF PlaceOK, Creds!Routine
  <2>2. CASE cmd[p] = "refresh"
    BY <1>3, <2>1, <2>2, PlacesAre DEF Fit
  <2>3. CASE cmd[p] = "workspace"
    BY <1>3, <2>1, <2>3, PlacesAre, AfterIs DEF Then, Fit, Creds!RestoreSteps
  <2>4. CASE cmd[p] = "login"
    BY <1>3, <2>1, <2>4, PlacesAre, AfterIs DEF Then, Fit, Creds!RestoreSteps
  <2>5. CASE cmd[p] = "loginProfile"
    BY <1>3, <2>1, <2>5, PlacesAre, AfterIs DEF Then, Fit, Creds!RestoreSteps
  <2>6. CASE cmd[p] = "save"
    BY <1>3, <2>1, <2>6, PlacesAre, AfterIs DEF Then, Fit, Creds!RestoreSteps
  <2>7. CASE cmd[p] = "use"
    BY <1>3, <2>1, <2>7, PlacesAre, AfterIs DEF Then, Fit, Creds!RestoreSteps
  <2>8. CASE cmd[p] = "delete"
    BY <1>3, <2>1, <2>8, PlacesAre, AfterIs DEF Then, Fit, Creds!RestoreSteps
  <2>9. CASE cmd[p] = "logout"
    BY <1>3, <2>1, <2>9, PlacesAre, AfterIs DEF Then, Fit, Creds!RestoreSteps
  <2> QED BY <2>2, <2>3, <2>4, <2>5, <2>6, <2>7, <2>8, <2>9 DEF CredentialCommands
<1> QED BY <1>2, <1>3

\* A step of p leaves the other processes where they are.
Only(p) ==
  \A q \in Procs \ {p} :
    /\ next'[q] = next[q] /\ cmd'[q] = cmd[q] /\ name'[q] = name[q]
    /\ held'[q] = held[q] /\ config'[q] = config[q] /\ old'[q] = old[q]
    /\ (lock' = q) = (lock = q)

\* Who is at work is so alone.
Alone(p) == \A q \in Procs \ {p} : next[q] \in {"lock", "end"} /\ lock # q

LEMMA WorksAlone ==
  ASSUME CredTypes, NEW p \in Procs, next[p] \notin {"lock", "end"}
  PROVE  Alone(p) /\ cmd[p] \in CredentialCommands /\ PlaceOK(p) /\ name[p] = Profile
<1>1. \A q \in Procs : PlaceOK(q) /\ cmd[q] \in CredentialCommands \cup {None}
  BY DEF CredTypes, Creds!TypeOK
<1>2. cmd[p] # None
  BY <1>1 DEF PlaceOK
<1>3. ASSUME NEW q \in Procs \ {p}
      PROVE  next[q] \in {"lock", "end"} /\ lock # q
  <2>1. CASE cmd[q] = None
    BY <1>1, <2>1 DEF PlaceOK
  <2>2. CASE cmd[q] # None
    <3>1. cmd[p] = "refresh" /\ cmd[q] = "refresh"
      BY <1>2, <2>2 DEF CredTypes, Overlaps
    <3>2. lock = p
      BY <1>1, <1>2, <3>1, PlacesAre DEF PlaceOK
    <3> QED BY <1>1, <2>2, <3>1, <3>2, PlacesAre DEF PlaceOK
  <2> QED BY <2>1, <2>2
<1> QED BY <1>1, <1>2, <1>3 DEF Alone, PlaceOK

\* The invariants, of the one that works.
PairsWith(p) ==
  faults <= 1 =>
    /\ PairOf(p)
    /\ \A d \in Creds!Dirs : Agree(d) \/ (next[p] \in Saving /\ Creds!Dir(p) = d)

ReplacedBy(p, d) ==
  /\ lock = p
  /\ IF d = "active" THEN next[p] \in {"region", "kube", "auth"}
     ELSE marker # None /\ next[p] \in {"region", "kube", "auth", "sync", "copyKube", "copyAuth"}

TokensWith(p) ==
  faults = 0 =>
    /\ TokenOf(p)
    /\ \A t \in spent : t <= gen
    /\ \A d \in Creds!Dirs :
         auth[d] # None => auth[d].token <= gen /\ (auth[d].token \in spent => ReplacedBy(p, d))
    /\ marker = None /\ auth["active"] # None /\ next[p] # "mark"
         => Apart(auth["active"].token, Profile)

LEMMA InvOfOne ==
  ASSUME NEW p \in Procs, Alone(p)
  PROVE  (PairInv <=> PairsWith(p)) /\ (SpentInv <=> TokensWith(p))
<1>1. \A q \in Procs \ {p} : PairOf(q) /\ next[q] \notin Saving
  BY DEF Alone, PairOf, Paired, Saving, Creds!AuthSteps, Creds!RestoreSteps
<1>2. \A q \in Procs \ {p} : TokenOf(q) /\ next[q] # "mark"
  BY DEF Alone, TokenOf, Paired, Holding
<1>3. \A d \in Creds!Dirs : Replacing(d) <=> ReplacedBy(p, d)
  BY DEF Alone, Replacing, ReplacedBy
<1>4. PairInv <=> PairsWith(p)
  BY <1>1 DEF PairInv, PairsWith
<1>5. SpentInv <=> TokensWith(p)
  BY <1>2, <1>3 DEF SpentInv, TokensWith
<1> QED BY <1>4, <1>5

LEMMA InvOfOneNext ==
  ASSUME NEW p \in Procs, Alone(p)'
  PROVE  (PairInv' <=> PairsWith(p)') /\ (SpentInv' <=> TokensWith(p)')
<1>1. \A q \in Procs \ {p} : PairOf(q)' /\ next'[q] \notin Saving
  BY DEF Alone, PairOf, Paired, Saving, Creds!AuthSteps, Creds!RestoreSteps
<1>2. \A q \in Procs \ {p} : TokenOf(q)' /\ next'[q] # "mark"
  BY DEF Alone, TokenOf, Paired, Holding
<1>3. \A d \in Creds!Dirs : Replacing(d)' <=> ReplacedBy(p, d)'
  BY DEF Alone, Replacing, ReplacedBy
<1>4. PairInv' <=> PairsWith(p)'
  BY <1>1 DEF PairInv, PairsWith
<1>5. SpentInv' <=> TokensWith(p)'
  BY <1>2, <1>3 DEF SpentInv, TokensWith
<1> QED BY <1>4, <1>5

HoldsOK(p) ==
  /\ next[p] \in Holding => held[p] \in Creds!Auths
  /\ next[p] \in Paired => config[p] \in Creds!Kubes

LEMMA TypesKept ==
  ASSUME CredTypes, NEW p \in Procs, Only(p), Creds!TypeOK', PlaceOK(p)', HoldsOK(p)',
         cmd' = cmd
  PROVE  CredTypes'
<1>1. \A q \in Procs : PlaceOK(q)'
  BY DEF CredTypes, Only, PlaceOK
<1>2. \A q \in Procs : HoldsOK(q)'
  BY DEF CredTypes, Only, HoldsOK
<1>3. Overlaps'
  BY DEF CredTypes, Overlaps
<1> QED BY <1>1, <1>2, <1>3 DEF CredTypes, HoldsOK

LEMMA Placed ==
  ASSUME CredTypes, NEW p \in Procs, next[p] \notin {"lock", "end"},
         NEW to, Fit(p, to), Creds!Goes(p, to), UNCHANGED <<cmd, lock>>,
         name'[p] = Profile
  PROVE  /\ PlaceOK(p)' /\ next'[p] = to /\ next' \in [Procs -> Creds!Steps]
         /\ \A q \in Procs \ {p} : next'[q] = next[q]
<1>1. cmd[p] \in CredentialCommands /\ PlaceOK(p)
  BY WorksAlone
<1>2. to \in Creds!Steps
  BY <1>1, FitSteps
<1>3. /\ next'[p] = to /\ next' \in [Procs -> Creds!Steps]
      /\ \A q \in Procs \ {p} : next'[q] = next[q]
  BY <1>2 DEF CredTypes, Creds!TypeOK, Creds!Goes
<1>4. PlaceOK(p)'
  BY <1>1, <1>3, CredentialsAssumption DEF PlaceOK, Fit
<1> QED BY <1>3, <1>4

LEMMA ProfileIs == Creds!Dirs = {Profile, "active"} /\ Profile # None /\ Profile # "active"
BY CredentialsAssumption DEF Creds!Dirs

LEMMA LoadTypes ==
  ASSUME CredTypes, NEW p \in Procs, NEW what \in {"load", "again", "pload"},
         NEW d \in Creds!Dirs, Creds!Load(p, what, d)
  PROVE  Only(p) /\ CredTypes'
<1>1. next[p] = what /\ next[p] \notin {"lock", "end"}
  BY DEF Creds!Load, Creds!Turn
<1>2. cmd[p] \in CredentialCommands /\ PlaceOK(p) /\ name[p] = Profile
  BY <1>1, WorksAlone
<1>3. auth[d] \in Creds!Auths \cup {None}
  BY DEF CredTypes, Creds!TypeOK
<1>4. /\ PlaceOK(p)' /\ next' \in [Procs -> Creds!Steps]
      /\ \A q \in Procs \ {p} : next'[q] = next[q]
      /\ auth[d] = None => next'[p] \in {"release", "end"}
  <2>1. CASE auth[d] = None
    BY <1>1, <1>2, <2>1, LeadsOn, Placed DEF Creds!Load, Creds!Fails
  <2>2. CASE auth[d] # None
    BY <1>1, <1>2, <2>2, LeadsOn, Placed DEF Creds!Load, Creds!GoesOn, Then, Creds!RestoreSteps
  <2> QED BY <2>1, <2>2
<1>5. Only(p)
  BY <1>4 DEF CredTypes, Creds!TypeOK, Creds!Load, Only
<1>6. Creds!TypeOK'
  BY <1>3, <1>4 DEF CredTypes, Creds!TypeOK, Creds!Load, Creds!files, Creds!region
<1>7. HoldsOK(p)'
  <2>1. CASE auth[d] = None
    BY <1>4, <2>1 DEF HoldsOK, Holding, Paired
  <2>2. CASE auth[d] # None
    <3>1. next'[p] = Then(p)
      BY <2>2 DEF CredTypes, Creds!TypeOK, Creds!Load, Creds!GoesOn, Creds!Goes, Then
    <3>2. next'[p] \notin Paired
      BY <1>1, <1>2, <3>1, Onward DEF Paired
    <3>3. held'[p] = auth[d]
      BY DEF CredTypes, Creds!TypeOK, Creds!Load
    <3> QED BY <1>3, <2>2, <3>2, <3>3 DEF HoldsOK
  <2> QED BY <2>1, <2>2
<1> QED BY <1>4, <1>5, <1>6, <1>7, TypesKept DEF Creds!Load

LEMMA ReadTypes ==
  ASSUME CredTypes, NEW p \in Procs, NEW what \in {"read", "pread"},
         NEW d \in Creds!Dirs, Creds!Read(p, what, d)
  PROVE  Only(p) /\ CredTypes'
<1>1. next[p] = what /\ next[p] \notin {"lock", "end"}
  BY DEF Creds!Read, Creds!Turn
<1>2. cmd[p] \in CredentialCommands /\ PlaceOK(p) /\ name[p] = Profile
  BY <1>1, WorksAlone
<1>3. kube[d] \in Creds!Kubes \cup {None}
  BY DEF CredTypes, Creds!TypeOK
<1>4. /\ PlaceOK(p)' /\ next' \in [Procs -> Creds!Steps]
      /\ \A q \in Procs \ {p} : next'[q] = next[q]
      /\ kube[d] = None => next'[p] \in {"release", "end"}
  <2>1. CASE kube[d] = None
    BY <1>1, <1>2, <2>1, LeadsOn, Placed DEF Creds!Read, Creds!Fails
  <2>2. CASE kube[d] # None
    BY <1>1, <1>2, <2>2, LeadsOn, Placed DEF Creds!Read, Creds!GoesOn, Then, Creds!RestoreSteps
  <2> QED BY <2>1, <2>2
<1>5. Only(p)
  BY <1>4 DEF CredTypes, Creds!TypeOK, Creds!Read, Only
<1>6. Creds!TypeOK'
  BY <1>3, <1>4 DEF CredTypes, Creds!TypeOK, Creds!Read, Creds!files, Creds!region
<1>7. HoldsOK(p)'
  <2>1. CASE kube[d] = None
    BY <1>4, <2>1 DEF HoldsOK, Holding, Paired
  <2>2. CASE kube[d] # None
    <3>1. held'[p] \in Creds!Auths
      BY <1>1 DEF CredTypes, Holding, Creds!Read
    <3>3. config'[p] = kube[d]
      BY DEF CredTypes, Creds!TypeOK, Creds!Read
    <3> QED BY <1>3, <2>2, <3>1, <3>3 DEF HoldsOK
  <2> QED BY <2>1, <2>2
<1> QED BY <1>4, <1>5, <1>6, <1>7, TypesKept DEF Creds!Read

\* The step after a save that may fail.
LEMMA SaveFailsTo ==
  ASSUME CredTypes, NEW p \in Procs, Creds!SaveFails(p), UNCHANGED <<cmd, lock, name>>,
         next[p] \in Creds!KubeSteps \cup Creds!RestoreSteps
  PROVE  /\ PlaceOK(p)' /\ next' \in [Procs -> Creds!Steps]
         /\ \A q \in Procs \ {p} : next'[q] = next[q]
         /\ next'[p] \in {"release", "end", "unlock"}
<1>1. next[p] \notin {"lock", "end"}
  BY DEF Creds!KubeSteps, Creds!RestoreSteps
<1>2. cmd[p] \in CredentialCommands /\ PlaceOK(p) /\ name'[p] = Profile
  BY <1>1, WorksAlone
<1>3. CASE next[p] \in {"copyKube", "copyRestore"}
  BY <1>1, <1>2, <1>3, LeadsOn, Onward, Placed DEF Creds!SaveFails
<1>4. CASE next[p] \notin {"copyKube", "copyRestore"}
  BY <1>1, <1>2, <1>4, LeadsOn, Placed DEF Creds!SaveFails, Creds!Fails
<1> QED BY <1>3, <1>4

LEMMA DirIs ==
  ASSUME NEW p \in Procs, name[p] = Profile
  PROVE  /\ Creds!Dir(p) \in Creds!Dirs
         /\ Creds!Dir(p) = IF next[p] \in {"kube", "auth", "restore"} THEN "active" ELSE Profile
BY ProfileIs DEF Creds!Dir

LEMMA SaveKubeTypes ==
  ASSUME CredTypes, NEW p \in Procs, Creds!SaveKube(p)
  PROVE  Only(p) /\ CredTypes'
<1>1. next[p] \in Creds!KubeSteps /\ next[p] \notin {"lock", "end"} /\ next[p] \in Paired
  BY DEF Creds!SaveKube, Creds!KubeSteps, Paired
<1>2. cmd[p] \in CredentialCommands /\ PlaceOK(p) /\ name[p] = Profile
  BY <1>1, WorksAlone
<1>3. config[p] \in Creds!Kubes /\ held[p] \in Creds!Auths
  BY <1>1 DEF CredTypes, Holding
<1>4. /\ PlaceOK(p)' /\ next' \in [Procs -> Creds!Steps]
      /\ \A q \in Procs \ {p} : next'[q] = next[q]
  <2>1. CASE Creds!SaveFails(p)
    BY <1>1, <2>1, SaveFailsTo DEF Creds!SaveKube
  <2>2. CASE Creds!GoesOn(p)
    BY <1>1, <1>2, <2>2, LeadsOn, Placed
       DEF Creds!SaveKube, Creds!GoesOn, Then, Creds!RestoreSteps, Creds!KubeSteps
  <2> QED BY <2>1, <2>2 DEF Creds!SaveKube
<1>5. Only(p)
  BY <1>4 DEF CredTypes, Creds!TypeOK, Creds!SaveKube, Only
<1>6. Creds!TypeOK'
  <2>1. kube' \in [Creds!Dirs -> Creds!Kubes \cup {None}] /\ old' \in [Procs -> Creds!Kubes \cup {None}]
    BY <1>2, <1>3, DirIs DEF CredTypes, Creds!TypeOK, Creds!SaveKube
  <2>2. faults' \in 0..MaxFaults
    BY CredentialsAssumption DEF CredTypes, Creds!TypeOK, Creds!SaveKube, Creds!Faulty
  <2> QED BY <1>4, <2>1, <2>2 DEF CredTypes, Creds!TypeOK, Creds!SaveKube, Creds!region
<1>7. HoldsOK(p)'
  BY <1>3 DEF HoldsOK, Creds!SaveKube
<1> QED BY <1>4, <1>5, <1>6, <1>7, TypesKept DEF Creds!SaveKube

LEMMA SaveAuthTypes ==
  ASSUME CredTypes, NEW p \in Procs, Creds!SaveAuth(p)
  PROVE  Only(p) /\ CredTypes'
<1>1. next[p] \in Creds!AuthSteps /\ next[p] \notin {"lock", "end"} /\ next[p] \in Paired
  BY DEF Creds!SaveAuth, Creds!AuthSteps, Paired
<1>2. cmd[p] \in CredentialCommands /\ PlaceOK(p) /\ name[p] = Profile
  BY <1>1, WorksAlone
<1>3. config[p] \in Creds!Kubes /\ held[p] \in Creds!Auths
  BY <1>1 DEF CredTypes, Holding
<1>4. /\ PlaceOK(p)' /\ next' \in [Procs -> Creds!Steps]
      /\ \A q \in Procs \ {p} : next'[q] = next[q]
  <2>1. CASE Creds!Undo(p)
    <3>1. CASE next[p] = "auth"
      BY <1>1, <1>2, <2>1, <3>1, LeadsOn, Placed DEF Creds!SaveAuth, Creds!Undo, Creds!memory
    <3>2. CASE next[p] = "namedAuth"
      BY <1>1, <1>2, <2>1, <3>2, LeadsOn, Placed DEF Creds!SaveAuth, Creds!Undo, Creds!memory
    <3>3. CASE next[p] = "copyAuth"
      BY <1>1, <1>2, <2>1, <3>3, LeadsOn, Placed DEF Creds!SaveAuth, Creds!Undo, Creds!memory
    <3> QED BY <1>1, <3>1, <3>2, <3>3 DEF Creds!AuthSteps
  <2>2. CASE Creds!GoesOn(p)
    BY <1>1, <1>2, <2>2, LeadsOn, Placed
       DEF Creds!SaveAuth, Creds!GoesOn, Then, Creds!RestoreSteps, Creds!AuthSteps, Creds!memory
  <2> QED BY <2>1, <2>2 DEF Creds!SaveAuth
<1>5. Only(p)
  BY <1>4 DEF CredTypes, Creds!TypeOK, Creds!SaveAuth, Only, Creds!memory
<1>6. Creds!TypeOK'
  <2>1. auth' \in [Creds!Dirs -> Creds!Auths \cup {None}]
    BY <1>2, <1>3, DirIs DEF CredTypes, Creds!TypeOK, Creds!SaveAuth
  <2>2. faults' \in 0..MaxFaults
    BY CredentialsAssumption DEF CredTypes, Creds!TypeOK, Creds!SaveAuth, Creds!Faulty
  <2> QED BY <1>4, <2>1, <2>2
          DEF CredTypes, Creds!TypeOK, Creds!SaveAuth, Creds!region, Creds!memory
<1>7. HoldsOK(p)'
  BY <1>3 DEF HoldsOK, Creds!SaveAuth, Creds!memory
<1> QED BY <1>4, <1>5, <1>6, <1>7, TypesKept DEF Creds!SaveAuth, Creds!memory

LEMMA RestoreTypes ==
  ASSUME CredTypes, NEW p \in Procs, Creds!RestoreKube(p)
  PROVE  Only(p) /\ CredTypes' /\ next'[p] \in {"release", "end", "unlock"}
<1>1. next[p] \in Creds!RestoreSteps /\ next[p] \notin {"lock", "end"}
  BY DEF Creds!RestoreKube, Creds!RestoreSteps
<1>2. cmd[p] \in CredentialCommands /\ PlaceOK(p) /\ name[p] = Profile
  BY <1>1, WorksAlone
<1>4. /\ PlaceOK(p)' /\ next' \in [Procs -> Creds!Steps]
      /\ \A q \in Procs \ {p} : next'[q] = next[q]
      /\ next'[p] \in {"release", "end", "unlock"}
  BY <1>1, SaveFailsTo DEF Creds!RestoreKube, Creds!memory
<1>5. Only(p)
  BY <1>4 DEF CredTypes, Creds!TypeOK, Creds!RestoreKube, Only, Creds!memory
<1>6. Creds!TypeOK'
  <2>1. kube' \in [Creds!Dirs -> Creds!Kubes \cup {None}]
    BY <1>2, DirIs DEF CredTypes, Creds!TypeOK, Creds!RestoreKube
  <2>2. faults' \in 0..MaxFaults
    BY CredentialsAssumption DEF CredTypes, Creds!TypeOK, Creds!RestoreKube, Creds!Faulty
  <2> QED BY <1>4, <2>1, <2>2
          DEF CredTypes, Creds!TypeOK, Creds!RestoreKube, Creds!region, Creds!memory
<1>7. HoldsOK(p)'
  BY <1>4 DEF HoldsOK, Holding, Paired
<1> QED BY <1>4, <1>5, <1>6, <1>7, TypesKept DEF Creds!RestoreKube, Creds!memory

LEMMA SyncTypes ==
  ASSUME CredTypes, NEW p \in Procs, Creds!Sync(p)
  PROVE  Only(p) /\ CredTypes'
<1>1. next[p] = "sync" /\ next[p] \notin {"lock", "end"} /\ next[p] \in Paired
  BY DEF Creds!Sync, Creds!Turn, Paired
<1>2. cmd[p] \in CredentialCommands /\ PlaceOK(p) /\ name[p] = Profile
  BY <1>1, WorksAlone
<1>3. config[p] \in Creds!Kubes /\ held[p] \in Creds!Auths
  BY <1>1 DEF CredTypes, Holding
<1>4. name'[p] = Profile /\ name' \in [Procs -> {Profile, None}]
      /\ \A q \in Procs \ {p} : name'[q] = name[q]
  BY <1>2 DEF CredTypes, Creds!TypeOK, Creds!Sync
<1>5. /\ PlaceOK(p)' /\ next' \in [Procs -> Creds!Steps]
      /\ \A q \in Procs \ {p} : next'[q] = next[q]
  <2>1. CASE marker = None
    BY <1>1, <1>2, <1>4, <2>1, LeadsOn, Placed DEF Creds!Sync, Creds!GoesOn, Then, Creds!RestoreSteps
  <2>2. CASE marker # None
    BY <1>1, <1>2, <1>4, <2>2, LeadsOn, Placed DEF Creds!Sync
  <2> QED BY <2>1, <2>2
<1>6. Only(p)
  BY <1>4, <1>5 DEF Creds!Sync, Only
<1>7. Creds!TypeOK'
  BY <1>4, <1>5 DEF CredTypes, Creds!TypeOK, Creds!Sync, Creds!files, Creds!region
<1>8. HoldsOK(p)'
  BY <1>3 DEF HoldsOK, Creds!Sync
<1> QED BY <1>5, <1>6, <1>7, <1>8, TypesKept DEF Creds!Sync

LEMMA MarkerTypes ==
  ASSUME CredTypes, NEW p \in Procs, NEW what \in {"mark", "unmark", "unmarkNamed"},
         NEW m \in {Profile, None}, Creds!SetMarker(p, what, m)
  PROVE  Only(p) /\ CredTypes' /\ next'[p] \in {"release", "end"}
<1>1. next[p] = what /\ next[p] \notin {"lock", "end"}
  BY DEF Creds!SetMarker, Creds!Turn
<1>2. cmd[p] \in CredentialCommands /\ PlaceOK(p) /\ name[p] = Profile
  BY <1>1, WorksAlone
<1>3. /\ PlaceOK(p)' /\ next' \in [Procs -> Creds!Steps]
      /\ \A q \in Procs \ {p} : next'[q] = next[q]
      /\ next'[p] \in {"release", "end"}
  <2>1. CASE Creds!Fails(p)
    BY <1>1, <1>2, <2>1, LeadsOn, Placed DEF Creds!SetMarker, Creds!Fails, Creds!memory
  <2>2. CASE Creds!GoesOn(p)
    BY <1>1, <1>2, <2>2, LeadsOn, Placed, Onward
       DEF Creds!SetMarker, Creds!GoesOn, Then, Creds!RestoreSteps, Creds!memory
  <2> QED BY <2>1, <2>2 DEF Creds!SetMarker
<1>4. Only(p)
  BY <1>3 DEF Creds!SetMarker, Only, Creds!memory
<1>5. Creds!TypeOK'
  <2>1. faults' \in 0..MaxFaults
    BY CredentialsAssumption DEF CredTypes, Creds!TypeOK, Creds!SetMarker, Creds!Faulty
  <2>2. marker' \in {Profile} \cup {None}
    BY DEF CredTypes, Creds!TypeOK, Creds!SetMarker
  <2> QED BY <1>3, <2>1, <2>2
          DEF CredTypes, Creds!TypeOK, Creds!SetMarker, Creds!region, Creds!memory
<1>6. HoldsOK(p)'
  BY <1>3 DEF HoldsOK, Holding, Paired
<1> QED BY <1>3, <1>4, <1>5, <1>6, TypesKept DEF Creds!SetMarker, Creds!memory

\* The steps that remove a file or several.
LEMMA RemovalTypes ==
  ASSUME CredTypes, NEW p \in Procs,
         Creds!Delete(p) \/ Creds!ClearAuth(p) \/ Creds!ClearKube(p)
  PROVE  Only(p) /\ CredTypes' /\ UNCHANGED <<marker, lock, cmd, name, held, config, old, gen, spent>>
<1>0. /\ next[p] \in {"delete", "clearAuth", "clearKube"}
      /\ Creds!Fails(p) \/ Creds!GoesOn(p)
      /\ UNCHANGED <<marker, lock, cmd, name, held, config, old, gen, spent>>
      /\ faults' = faults \/ (faults < MaxFaults /\ faults' = faults + 1)
  BY DEF Creds!Delete, Creds!ClearAuth, Creds!ClearKube, Creds!Turn, Creds!memory, Creds!region,
         Creds!Faulty
<1>1. next[p] \notin {"lock", "end"}
  BY <1>0
<1>2. cmd[p] \in CredentialCommands /\ PlaceOK(p) /\ name[p] = Profile
  BY <1>1, WorksAlone
<1>3. /\ PlaceOK(p)' /\ next' \in [Procs -> Creds!Steps]
      /\ \A q \in Procs \ {p} : next'[q] = next[q]
      /\ next'[p] \notin Holding
  <2>1. CASE Creds!Fails(p)
    BY <1>0, <1>1, <1>2, <2>1, LeadsOn, Placed DEF Creds!Fails, Holding, Paired
  <2>2. CASE Creds!GoesOn(p)
    BY <1>0, <1>1, <1>2, <2>2, LeadsOn, Placed, Onward
       DEF Creds!GoesOn, Then, Creds!RestoreSteps, Holding, Paired
  <2> QED BY <1>0, <2>1, <2>2
<1>4. Only(p)
  BY <1>0, <1>3 DEF Only
<1>5. Creds!TypeOK'
  <2>1. faults' \in 0..MaxFaults
    BY <1>0, CredentialsAssumption DEF CredTypes, Creds!TypeOK
  <2>2. /\ auth' \in [Creds!Dirs -> Creds!Auths \cup {None}]
        /\ kube' \in [Creds!Dirs -> Creds!Kubes \cup {None}]
    BY DEF CredTypes, Creds!TypeOK, Creds!Delete, Creds!ClearAuth, Creds!ClearKube
  <2> QED BY <1>0, <1>3, <2>1, <2>2 DEF CredTypes, Creds!TypeOK
<1>6. HoldsOK(p)'
  BY <1>3 DEF HoldsOK, Holding
<1> QED BY <1>0, <1>3, <1>4, <1>5, <1>6, TypesKept

LEMMA BeginTypes ==
  ASSUME CredTypes, NEW p \in Procs, Creds!Begin(p)
  PROVE  Only(p) /\ CredTypes' /\ next[p] = "end" /\ lock # p
         /\ next'[p] \in {"lock", "load", "login", "pload", "delete", "clearAuth"}
<1>1. PICK c \in CredentialCommands :
        /\ \A q \in Procs \ {p} : cmd[q] = None \/ {c, cmd[q]} \subseteq {"refresh"}
        /\ next' = [next EXCEPT ![p] = Creds!After[c].start]
        /\ cmd' = [cmd EXCEPT ![p] = c] /\ name' = [name EXCEPT ![p] = Profile]
  BY DEF Creds!Begin, Creds!Idle, Creds!Goes
<1>2. next[p] = "end" /\ lock # p
  BY DEF CredTypes, PlaceOK, Creds!Begin, Creds!Idle
<1>3. /\ Creds!After[c].start \in {"lock", "load", "login", "pload", "delete", "clearAuth"}
      /\ Creds!After[c].start \in Places[c]
  BY AfterIs, PlacesAre DEF CredentialCommands
<1>4. Creds!After[c].start \in Creds!Steps
  BY <1>3 DEF Creds!Steps
<1>5. Only(p)
  BY <1>1, <1>4 DEF CredTypes, Creds!TypeOK, Creds!Begin, Only
<1>6. /\ next'[p] = Creds!After[c].start /\ cmd'[p] = c /\ name'[p] = Profile
  BY <1>1 DEF CredTypes, Creds!TypeOK
<1>7. Creds!TypeOK'
  BY <1>1, <1>4 DEF CredTypes, Creds!TypeOK, Creds!Begin, Creds!files, Creds!region
<1>8. \A q \in Procs : PlaceOK(q)'
  <2>1. PlaceOK(p)'
    BY <1>2, <1>3, <1>6, CredentialsAssumption DEF PlaceOK, Creds!Begin
  <2> QED BY <1>5, <2>1 DEF CredTypes, PlaceOK, Only
<1>9. \A q \in Procs : HoldsOK(q)'
  <2>1. HoldsOK(p)'
    BY <1>3, <1>6 DEF HoldsOK, Holding, Paired
  <2> QED BY <1>5, <2>1 DEF CredTypes, HoldsOK, Only
<1>10. Overlaps'
  BY <1>1, <1>5, <1>6 DEF CredTypes, Overlaps, Only
<1> QED BY <1>2, <1>3, <1>5, <1>6, <1>7, <1>8, <1>9, <1>10 DEF CredTypes, HoldsOK

LEMMA EndTypes ==
  ASSUME CredTypes, NEW p \in Procs, Creds!End(p)
  PROVE  Only(p) /\ CredTypes' /\ next[p] = "end" /\ next'[p] = "end" /\ lock # p
<1>1. next[p] = "end" /\ cmd[p] # None
  BY DEF Creds!End, Creds!Turn, Creds!Idle
<1>2. lock # p
  BY <1>1 DEF CredTypes, PlaceOK, InRenewal
<1>3. Only(p) /\ cmd'[p] = None
  BY DEF CredTypes, Creds!TypeOK, Creds!End, Only
<1>4. Creds!TypeOK'
  BY DEF CredTypes, Creds!TypeOK, Creds!End, Creds!files, Creds!region
<1>5. \A q \in Procs : PlaceOK(q)'
  <2>1. PlaceOK(p)'
    BY <1>1, <1>2, <1>3 DEF PlaceOK, Creds!End
  <2> QED BY <1>3, <2>1 DEF CredTypes, PlaceOK, Only
<1>6. \A q \in Procs : HoldsOK(q)'
  <2>1. HoldsOK(p)'
    BY <1>1 DEF HoldsOK, Holding, Paired, Creds!End
  <2> QED BY <1>3, <2>1 DEF CredTypes, HoldsOK, Only
<1>7. Overlaps'
  BY <1>3 DEF CredTypes, Overlaps, Only
<1> QED BY <1>1, <1>2, <1>3, <1>4, <1>5, <1>6, <1>7 DEF CredTypes, HoldsOK, Creds!End

LEMMA LockTypes ==
  ASSUME CredTypes, NEW p \in Procs, Creds!Lock(p)
  PROVE  Only(p) /\ CredTypes' /\ next[p] = "lock" /\ next'[p] \in {"load", "end"} /\ lock # p
<1>1. next[p] = "lock" /\ cmd[p] # None
  BY DEF Creds!Lock, Creds!Turn, Creds!Idle
<1>2. PlaceOK(p) /\ cmd[p] \in CredentialCommands
  BY <1>1 DEF CredTypes, Creds!TypeOK
<1>3. lock # p /\ cmd[p] \in {"refresh", "workspace"} /\ name[p] = Profile
  BY <1>1, <1>2, Onward DEF PlaceOK
<1>4. \/ lock = None /\ lock' = p /\ next' = [next EXCEPT ![p] = "load"]
      \/ lock' = lock /\ next' = [next EXCEPT ![p] = "end"]
  BY AfterIs DEF Creds!Lock, Creds!LockFree, Creds!Goes
<1>5. None \notin Procs
  BY CredentialsAssumption
<1>6. Only(p) /\ next'[p] \in {"load", "end"} /\ (lock' = p <=> next'[p] = "load")
  BY <1>3, <1>4, <1>5 DEF CredTypes, Creds!TypeOK, Creds!Lock, Only, Creds!memory
<1>7. Creds!TypeOK'
  <2>1. "load" \in Creds!Steps /\ "end" \in Creds!Steps
    BY DEF Creds!Steps
  <2> QED BY <1>4, <2>1
      DEF CredTypes, Creds!TypeOK, Creds!Lock, Creds!files, Creds!region, Creds!memory
<1>8. PlaceOK(p)'
  BY <1>1, <1>3, <1>6, PlacesAre DEF PlaceOK, Creds!Lock, Creds!memory, InRenewal
<1>9. HoldsOK(p)'
  BY <1>6 DEF HoldsOK, Holding, Paired
<1> QED BY <1>1, <1>3, <1>6, <1>7, <1>8, <1>9, TypesKept DEF Creds!Lock, Creds!memory

LEMMA UnlockTypes ==
  ASSUME CredTypes, NEW p \in Procs, Creds!Unlock(p)
  PROVE  /\ Only(p) /\ CredTypes' /\ next[p] \in {"unlock", "release"}
         /\ next'[p] \in {"again", "end"}
<1>1. next[p] \in {"unlock", "release"} /\ next[p] \notin {"lock", "end"}
  BY DEF Creds!Unlock, Creds!Turn
<1>2. cmd[p] \in CredentialCommands /\ PlaceOK(p) /\ name[p] = Profile
  BY <1>1, WorksAlone
<1>3. lock = p /\ cmd[p] \in {"refresh", "workspace"} /\ lock' = None /\ None \notin Procs
  BY <1>1, <1>2, Onward, CredentialsAssumption DEF Creds!Unlock
<1>4. \/ next' = [next EXCEPT ![p] = "end"]
      \/ cmd[p] = "workspace" /\ next' = [next EXCEPT ![p] = "again"]
  BY <1>3, AfterIs DEF Creds!Unlock, Creds!Goes
<1>5. Only(p)
  BY <1>3, <1>4 DEF CredTypes, Creds!TypeOK, Creds!Unlock, Only, Creds!memory
<1>6. next'[p] \in {"again", "end"} /\ (next'[p] = "again" => cmd[p] = "workspace")
  BY <1>4 DEF CredTypes, Creds!TypeOK
<1>7. Creds!TypeOK'
  <2>1. "again" \in Creds!Steps /\ "end" \in Creds!Steps
    BY DEF Creds!Steps
  <2> QED BY <1>3, <1>4, <2>1
      DEF CredTypes, Creds!TypeOK, Creds!Unlock, Creds!files, Creds!region, Creds!memory
<1>8. PlaceOK(p)'
  BY <1>2, <1>3, <1>6, PlacesAre, CredentialsAssumption DEF PlaceOK, Creds!Unlock, Creds!memory
<1>9. HoldsOK(p)'
  BY <1>6 DEF HoldsOK, Holding, Paired
<1> QED BY <1>1, <1>5, <1>6, <1>7, <1>8, <1>9, TypesKept DEF Creds!Unlock, Creds!memory

LEMMA GenIs ==
  ASSUME CredTypes
  PROVE  gen \in Creds!Gens /\ (Creds!Issue => gen' \in Creds!Gens /\ gen' = gen + 1)
BY CredentialsAssumption DEF CredTypes, Creds!TypeOK, Creds!Issue, Creds!Gens

LEMMA RenewTypes ==
  ASSUME CredTypes, NEW p \in Procs, Creds!Renew(p)
  PROVE  Only(p) /\ CredTypes'
<1>1. next[p] = "renew" /\ next[p] \notin {"lock", "end"} /\ next[p] \in Holding
  BY DEF Creds!Renew, Creds!Turn, Holding
<1>2. cmd[p] \in CredentialCommands /\ PlaceOK(p) /\ name[p] = Profile
  BY <1>1, WorksAlone
<1>3. held[p] \in [gen : Creds!Gens, token : Creds!Gens, ws : Workspaces]
  BY <1>1 DEF CredTypes, Creds!Auths
<1>4. /\ PlaceOK(p)' /\ next' \in [Procs -> Creds!Steps]
      /\ \A q \in Procs \ {p} : next'[q] = next[q]
      /\ next'[p] \notin Paired
      /\ next'[p] \in Holding => Creds!GoesOn(p)
  <2>1. CASE Creds!Fails(p)
    BY <1>1, <1>2, <2>1, LeadsOn, Placed DEF Creds!Renew, Creds!Fails, Holding, Paired
  <2>2. CASE Creds!GoesOn(p)
    BY <1>1, <1>2, <2>2, LeadsOn, Placed, Onward
       DEF Creds!Renew, Creds!GoesOn, Then, Creds!RestoreSteps, Paired
  <2> QED BY <2>1, <2>2 DEF Creds!Renew
<1>5. held' \in [Procs -> Creds!Auths \cup {None}] /\ (next'[p] \in Holding => held'[p] \in Creds!Auths)
  <2>1. CASE held' = held
    BY <1>1, <2>1 DEF CredTypes, Creds!TypeOK
  <2>2. CASE Creds!Issue /\ \E t \in {gen', held[p].token} :
               held' = [held EXCEPT ![p] = [@ EXCEPT !.gen = gen', !.token = t]]
    <3>1. PICK t \in {gen', held[p].token} :
            held' = [held EXCEPT ![p] = [@ EXCEPT !.gen = gen', !.token = t]]
      BY <2>2
    <3>2. gen' \in Creds!Gens /\ t \in Creds!Gens
      BY <1>3, <2>2, GenIs
    <3>3. [held[p] EXCEPT !.gen = gen', !.token = t] \in Creds!Auths
      BY <1>3, <3>2 DEF Creds!Auths
    <3> QED BY <3>1, <3>3 DEF CredTypes, Creds!TypeOK
  <2>3. held' = held \/ (Creds!Issue /\ \E t \in {gen', held[p].token} :
               held' = [held EXCEPT ![p] = [@ EXCEPT !.gen = gen', !.token = t]])
    <3>1. [held[p] EXCEPT !.gen = gen', !.token = held[p].token] = [held[p] EXCEPT !.gen = gen']
      BY <1>3
    <3> QED BY <3>1 DEF Creds!Renew, CredTypes, Creds!TypeOK
  <2> QED BY <2>1, <2>2, <2>3
<1>6. \A q \in Procs \ {p} : held'[q] = held[q]
  BY DEF Creds!Renew, CredTypes, Creds!TypeOK
<1>7. Only(p)
  BY <1>4, <1>6 DEF Creds!Renew, Only
<1>8. Creds!TypeOK'
  <2>1. faults' \in 0..MaxFaults
    BY CredentialsAssumption DEF CredTypes, Creds!TypeOK, Creds!Renew, Creds!Faulty, Creds!region
  <2>2. gen' \in Creds!Gens
    BY GenIs DEF Creds!Renew, Creds!region
  <2>3. spent' \subseteq Creds!Gens
    <3>1. spent' \in {spent, spent \cup {held[p].token}}
      BY DEF Creds!Renew, Creds!region
    <3>2. held[p].token \in Creds!Gens /\ spent \subseteq Creds!Gens
      BY <1>3 DEF CredTypes, Creds!TypeOK
    <3> QED BY <3>1, <3>2
  <2> QED BY <1>4, <1>5, <2>1, <2>2, <2>3 DEF CredTypes, Creds!TypeOK, Creds!Renew, Creds!files
<1>9. HoldsOK(p)'
  BY <1>4, <1>5 DEF HoldsOK
<1> QED BY <1>4, <1>7, <1>8, <1>9, TypesKept DEF Creds!Renew

LEMMA RegionTypes ==
  ASSUME CredTypes, NEW p \in Procs, Creds!Region(p)
  PROVE  Only(p) /\ CredTypes'
<1>1. next[p] = "region" /\ next[p] \notin {"lock", "end"} /\ next[p] \in Holding
  BY DEF Creds!Region, Creds!Turn, Holding
<1>2. cmd[p] \in CredentialCommands /\ PlaceOK(p) /\ name[p] = Profile
  BY <1>1, WorksAlone
<1>3. held[p] \in Creds!Auths /\ [gen |-> held[p].gen, ws |-> Default] \in Creds!Kubes
  BY <1>1, CredentialsAssumption DEF CredTypes, Creds!Auths, Creds!Kubes
<1>4. /\ PlaceOK(p)' /\ next' \in [Procs -> Creds!Steps]
      /\ \A q \in Procs \ {p} : next'[q] = next[q]
      /\ next'[p] \in Paired => config'[p] \in Creds!Kubes
  <2>1. CASE Creds!Fails(p)
    BY <1>1, <1>2, <2>1, LeadsOn, Placed DEF Creds!Region, Creds!Fails, Paired
  <2>2. CASE Creds!GoesOn(p) /\ config' = [config EXCEPT ![p] = [gen |-> held[p].gen, ws |-> Default]]
    BY <1>1, <1>2, <1>3, <2>2, LeadsOn, Placed
       DEF Creds!Region, Creds!GoesOn, Then, Creds!RestoreSteps, CredTypes, Creds!TypeOK
  <2> QED BY <2>1, <2>2 DEF Creds!Region
<1>5. Only(p)
  BY <1>4 DEF CredTypes, Creds!TypeOK, Creds!Region, Only
<1>6. Creds!TypeOK'
  <2>1. faults' \in 0..MaxFaults
    BY CredentialsAssumption DEF CredTypes, Creds!TypeOK, Creds!Region, Creds!Faulty
  <2>2. config' \in [Procs -> Creds!Kubes \cup {None}]
    BY <1>3 DEF CredTypes, Creds!TypeOK, Creds!Region
  <2> QED BY <1>4, <2>1, <2>2 DEF CredTypes, Creds!TypeOK, Creds!Region, Creds!files, Creds!region
<1>7. HoldsOK(p)'
  BY <1>3, <1>4 DEF HoldsOK, Creds!Region
<1> QED BY <1>4, <1>5, <1>6, <1>7, TypesKept DEF Creds!Region

LEMMA LoginTypes ==
  ASSUME CredTypes, NEW p \in Procs, Creds!Login(p)
  PROVE  /\ Only(p) /\ CredTypes' /\ next[p] = "login" /\ gen' = gen + 1
         /\ held'[p] = [gen |-> gen', token |-> gen', ws |-> Default]
         /\ config'[p] = [gen |-> gen', ws |-> Default]
<1>1. next[p] = "login" /\ next[p] \notin {"lock", "end"}
  BY DEF Creds!Login, Creds!Turn
<1>2. cmd[p] \in CredentialCommands /\ PlaceOK(p) /\ name[p] = Profile
  BY <1>1, WorksAlone
<1>3. gen' \in Creds!Gens /\ gen' = gen + 1
  BY GenIs DEF Creds!Login
<1>4. /\ [gen |-> gen', token |-> gen', ws |-> Default] \in Creds!Auths
      /\ [gen |-> gen', ws |-> Default] \in Creds!Kubes
  BY <1>3, CredentialsAssumption DEF Creds!Auths, Creds!Kubes
<1>5. /\ held'[p] = [gen |-> gen', token |-> gen', ws |-> Default]
      /\ config'[p] = [gen |-> gen', ws |-> Default]
      /\ held' \in [Procs -> Creds!Auths \cup {None}]
      /\ config' \in [Procs -> Creds!Kubes \cup {None}]
  BY <1>4 DEF CredTypes, Creds!TypeOK, Creds!Login
<1>6. /\ PlaceOK(p)' /\ next' \in [Procs -> Creds!Steps]
      /\ \A q \in Procs \ {p} : next'[q] = next[q]
  BY <1>1, <1>2, LeadsOn, Placed DEF Creds!Login, Creds!GoesOn, Then, Creds!RestoreSteps
<1>7. Only(p)
  BY <1>6 DEF CredTypes, Creds!TypeOK, Creds!Login, Only
<1>8. Creds!TypeOK'
  BY <1>3, <1>5, <1>6 DEF CredTypes, Creds!TypeOK, Creds!Login, Creds!files
<1>9. HoldsOK(p)'
  BY <1>4, <1>5 DEF HoldsOK
<1>10. CredTypes'
  BY <1>6, <1>7, <1>8, <1>9, TypesKept DEF Creds!Login
<1> QED BY <1>1, <1>3, <1>5, <1>7, <1>10

LEMMA CheckTypes ==
  ASSUME CredTypes, NEW p \in Procs, Creds!Check(p)
  PROVE  Only(p) /\ CredTypes' /\ next[p] = "check" /\ next'[p] \in {"read", "lock"}
<1>1. next[p] = "check" /\ next[p] \notin {"lock", "end"} /\ next[p] \in Holding
  BY DEF Creds!Check, Creds!Turn, Holding
<1>2. cmd[p] \in CredentialCommands /\ PlaceOK(p) /\ name[p] = Profile
  BY <1>1, WorksAlone
<1>3. /\ PlaceOK(p)' /\ next' \in [Procs -> Creds!Steps]
      /\ \A q \in Procs \ {p} : next'[q] = next[q]
      /\ next'[p] \in {"read", "lock"}
  <2>1. CASE Creds!Goes(p, Creds!After.refresh.start)
    BY <1>1, <1>2, <2>1, LeadsOn, AfterIs, Placed DEF Creds!Check, Creds!memory
  <2>2. CASE Creds!GoesOn(p)
    BY <1>1, <1>2, <2>2, LeadsOn, Placed, Onward
       DEF Creds!Check, Creds!GoesOn, Then, Creds!RestoreSteps, Creds!memory
  <2> QED BY <2>1, <2>2 DEF Creds!Check
<1>4. Only(p)
  BY <1>3 DEF Creds!Check, Only, Creds!memory
<1>5. Creds!TypeOK'
  BY <1>3 DEF CredTypes, Creds!TypeOK, Creds!Check, Creds!files, Creds!memory, Creds!region
<1>6. HoldsOK(p)'
  BY <1>1, <1>3 DEF HoldsOK, CredTypes, Paired, Creds!Check, Creds!memory
<1> QED BY <1>1, <1>3, <1>4, <1>5, <1>6, TypesKept DEF Creds!Check, Creds!memory

LEMMA ChooseTypes ==
  ASSUME CredTypes, NEW p \in Procs, Creds!Choose(p)
  PROVE  /\ Only(p) /\ CredTypes' /\ next[p] = "choose" /\ next'[p] = "kube"
         /\ held[p] \in Creds!Auths /\ config[p] \in Creds!Kubes
         /\ held'[p].gen = held[p].gen /\ held'[p].token = held[p].token
         /\ config'[p].gen = config[p].gen
<1>1. next[p] = "choose" /\ next[p] \notin {"lock", "end"} /\ next[p] \in Paired
  BY DEF Creds!Choose, Creds!Turn, Paired
<1>2. cmd[p] \in CredentialCommands /\ PlaceOK(p) /\ name[p] = Profile
  BY <1>1, WorksAlone
<1>3. config[p] \in Creds!Kubes /\ held[p] \in Creds!Auths
  BY <1>1 DEF CredTypes, Holding
<1>4. /\ held'[p].gen = held[p].gen /\ held'[p].token = held[p].token
      /\ config'[p].gen = config[p].gen
      /\ held'[p] \in Creds!Auths /\ config'[p] \in Creds!Kubes
      /\ held' \in [Procs -> Creds!Auths \cup {None}]
      /\ config' \in [Procs -> Creds!Kubes \cup {None}]
      /\ \A q \in Procs \ {p} : held'[q] = held[q] /\ config'[q] = config[q]
  <2>1. PICK w \in Workspaces : /\ held' = [held EXCEPT ![p] = [@ EXCEPT !.ws = w]]
                                /\ config' = [config EXCEPT ![p] = [@ EXCEPT !.ws = w]]
    BY DEF Creds!Choose
  <2>2. /\ [held[p] EXCEPT !.ws = w] \in Creds!Auths
        /\ [config[p] EXCEPT !.ws = w] \in Creds!Kubes
        /\ [held[p] EXCEPT !.ws = w].gen = held[p].gen
        /\ [held[p] EXCEPT !.ws = w].token = held[p].token
        /\ [config[p] EXCEPT !.ws = w].gen = config[p].gen
    BY <1>3 DEF Creds!Auths, Creds!Kubes
  <2>3. held \in [Procs -> Creds!Auths \cup {None}] /\ config \in [Procs -> Creds!Kubes \cup {None}]
    BY DEF CredTypes, Creds!TypeOK
  <2>4. held'[p] = [held[p] EXCEPT !.ws = w] /\ config'[p] = [config[p] EXCEPT !.ws = w]
    BY <2>1, <2>3
  <2>5. held' \in [Procs -> Creds!Auths \cup {None}] /\ config' \in [Procs -> Creds!Kubes \cup {None}]
    BY <2>1, <2>2, <2>3
  <2>6. \A q \in Procs \ {p} : held'[q] = held[q] /\ config'[q] = config[q]
    BY <2>1, <2>3
  <2> QED BY <2>2, <2>4, <2>5, <2>6
<1>5. /\ PlaceOK(p)' /\ next' \in [Procs -> Creds!Steps]
      /\ \A q \in Procs \ {p} : next'[q] = next[q]
      /\ next'[p] = "kube"
  BY <1>1, <1>2, LeadsOn, Onward, Placed DEF Creds!Choose, Creds!GoesOn, Then, Creds!RestoreSteps
<1>6. Only(p)
  BY <1>4, <1>5 DEF Creds!Choose, Only
<1>7. Creds!TypeOK'
  BY <1>4, <1>5 DEF CredTypes, Creds!TypeOK, Creds!Choose, Creds!files, Creds!region
<1>8. HoldsOK(p)'
  BY <1>4 DEF HoldsOK
<1>9. CredTypes'
  BY <1>5, <1>6, <1>7, <1>8, TypesKept DEF Creds!Choose
<1> QED BY <1>1, <1>3, <1>4, <1>5, <1>6, <1>9

LEMMA NothingTypes ==
  ASSUME CredTypes, NEW p \in Procs, Creds!ChooseNothing(p)
  PROVE  Only(p) /\ CredTypes' /\ next[p] = "choose" /\ next'[p] \in {"release", "end"}
<1>1. next[p] = "choose" /\ next[p] \notin {"lock", "end"}
  BY DEF Creds!ChooseNothing, Creds!Turn
<1>2. cmd[p] \in CredentialCommands /\ PlaceOK(p) /\ name[p] = Profile
  BY <1>1, WorksAlone
<1>3. /\ PlaceOK(p)' /\ next' \in [Procs -> Creds!Steps]
      /\ \A q \in Procs \ {p} : next'[q] = next[q]
      /\ next'[p] \in {"release", "end"}
  BY <1>1, <1>2, LeadsOn, Placed DEF Creds!ChooseNothing, Creds!Fails, Creds!memory
<1>4. Only(p)
  BY <1>3 DEF Creds!ChooseNothing, Only, Creds!memory
<1>5. Creds!TypeOK'
  BY <1>3 DEF CredTypes, Creds!TypeOK, Creds!ChooseNothing, Creds!files, Creds!memory, Creds!region
<1>6. HoldsOK(p)'
  BY <1>3 DEF HoldsOK, Holding, Paired
<1> QED BY <1>1, <1>3, <1>4, <1>5, <1>6, TypesKept DEF Creds!ChooseNothing, Creds!memory

LEMMA AloneStays ==
  ASSUME NEW p \in Procs, Alone(p), Only(p)
  PROVE  Alone(p)'
BY DEF Alone, Only

LEMMA FaultsGrow ==
  ASSUME CredTypes, Creds!Faulty \/ UNCHANGED faults
  PROVE  faults \in Nat /\ faults' \in Nat /\ faults <= faults' /\ (Creds!Faulty => faults < faults')
BY CredentialsAssumption DEF CredTypes, Creds!TypeOK, Creds!Faulty

\* A step that leaves the pairs alone, with what it must see to for itself.
LEMMA PairsKept ==
  ASSUME CredTypes, PairInv, NEW p \in Procs, Only(p), UNCHANGED <<auth, kube>>,
         Creds!Faulty \/ UNCHANGED faults, next[p] \notin Saving,
         faults <= 1 /\ faults' <= 1 => PairOf(p)'
  PROVE  PairInv'
<1> SUFFICES ASSUME faults' <= 1
             PROVE  /\ \A q \in Procs : PairOf(q)'
                    /\ \A d \in Creds!Dirs :
                         Agree(d)' \/ \E q \in Procs : (next[q] \in Saving /\ Creds!Dir(q) = d)'
  BY DEF PairInv
<1>1. faults <= 1 /\ faults \in Nat /\ faults' \in Nat /\ faults <= faults'
  BY FaultsGrow
<1>2. \A q \in Procs \ {p} : /\ next'[q] = next[q] /\ held'[q] = held[q] /\ config'[q] = config[q]
                             /\ old'[q] = old[q] /\ name'[q] = name[q]
                             /\ Creds!Dir(q)' = Creds!Dir(q)
  BY DEF Only, Creds!Dir
<1>3. ASSUME NEW q \in Procs
      PROVE  PairOf(q)'
  <2>1. CASE q = p
    BY <1>1, <2>1
  <2>2. CASE q # p
    <3>1. PairOf(q)
      BY <1>1 DEF PairInv
    <3>2. next[q] \in Creds!RestoreSteps => faults' = 1
      BY <1>1, <3>1 DEF PairOf
    <3> QED BY <1>2, <2>2, <3>1, <3>2 DEF PairOf
  <2> QED BY <2>1, <2>2
<1>4. ASSUME NEW d \in Creds!Dirs
      PROVE  Agree(d)' \/ \E q \in Procs : (next[q] \in Saving /\ Creds!Dir(q) = d)'
  <2>1. CASE Agree(d)
    BY <2>1 DEF Agree
  <2>2. CASE ~Agree(d)
    <3>1. PICK q \in Procs : next[q] \in Saving /\ Creds!Dir(q) = d
      BY <1>1, <2>2 DEF PairInv
    <3>2. q # p
      BY <3>1
    <3> QED BY <1>2, <3>1, <3>2
  <2> QED BY <2>1, <2>2
<1> QED BY <1>3, <1>4

LEMMA PairsCalm ==
  ASSUME NEW p,
         next'[p] \in {"end", "lock", "load", "again", "login", "pload", "delete", "clearAuth",
                       "clearKube", "unlock", "release", "renew", "mark", "unmark", "unmarkNamed"}
  PROVE  PairOf(p)'
BY DEF PairOf, Paired, Saving, Creds!AuthSteps, Creds!RestoreSteps

\* A step that leaves the tokens of the files and those that are spent alone.
LEMMA TokensKept ==
  ASSUME CredTypes, SpentInv, NEW p \in Procs, Only(p), UNCHANGED <<auth, marker, gen, spent>>,
         Creds!Faulty \/ UNCHANGED faults,
         faults = 0 /\ faults' = 0 => /\ TokenOf(p)' /\ (next[p] = "mark" => next'[p] = "mark")
                                      /\ \A d \in Creds!Dirs : ReplacedBy(p, d) => ReplacedBy(p, d)'
  PROVE  SpentInv'
<1> SUFFICES ASSUME faults' = 0
             PROVE  SpentInv'
  BY DEF SpentInv
<1>1. faults = 0
  BY FaultsGrow
<1>2. \A q \in Procs \ {p} : /\ next'[q] = next[q] /\ held'[q] = held[q] /\ cmd'[q] = cmd[q]
                             /\ (lock' = q) = (lock = q)
  BY DEF Only
<1>3. ASSUME NEW q \in Procs
      PROVE  TokenOf(q)'
  <2>1. CASE q = p
    BY <1>1, <2>1
  <2>2. CASE q # p
    <3>1. TokenOf(q)
      BY <1>1 DEF SpentInv
    <3> QED BY <1>2, <2>2, <3>1 DEF TokenOf, Apart
  <2> QED BY <2>1, <2>2
<1>4. ASSUME NEW d \in Creds!Dirs, Replacing(d)
      PROVE  Replacing(d)'
  <2>1. PICK q \in Procs : ReplacedBy(q, d)
    BY <1>4 DEF Replacing, ReplacedBy
  <2>2. ReplacedBy(q, d)'
    <3>1. CASE q = p
      BY <1>1, <2>1, <3>1
    <3>2. CASE q # p
      BY <1>2, <2>1, <3>2 DEF ReplacedBy
    <3> QED BY <3>1, <3>2
  <2> QED BY <2>2 DEF Replacing, ReplacedBy
<1>5. (\A q \in Procs : next'[q] # "mark") => \A q \in Procs : next[q] # "mark"
  BY <1>1, <1>2
<1>6. \A t \in spent' : t <= gen'
  BY <1>1 DEF SpentInv
<1>7. \A d \in Creds!Dirs :
        auth'[d] # None => auth'[d].token <= gen' /\ (auth'[d].token \in spent' => Replacing(d)')
  BY <1>1, <1>4 DEF SpentInv
<1>8. marker' = None /\ auth'["active"] # None /\ (\A q \in Procs : next'[q] # "mark")
        => Apart(auth["active"].token, Profile)'
  BY <1>1, <1>5 DEF SpentInv, Apart
<1> QED BY <1>3, <1>6, <1>7, <1>8 DEF SpentInv

\* Steps at which a process holds no token and waits for none.
Unheld ==
  {"end", "lock", "load", "again", "login", "pload", "delete", "clearAuth", "unlock", "release"}

LEMMA TokenUnheld ==
  ASSUME NEW p, next'[p] \in Unheld
  PROVE  TokenOf(p)'
BY DEF TokenOf, Unheld, Holding, Paired

LEMMA NotReplaced ==
  ASSUME NEW p, NEW d,
         lock # p \/ next[p] \notin {"region", "kube", "auth", "sync", "copyKube", "copyAuth"}
  PROVE  ~ReplacedBy(p, d)
BY DEF ReplacedBy

\* Between two such steps.
LEMMA QuietKeeps ==
  ASSUME CredTypes, PairInv, SpentInv, NEW p \in Procs, Only(p),
         UNCHANGED <<auth, kube, marker, gen, spent, faults>>,
         next'[p] \in Unheld, next[p] \in Unheld \cup {"check", "choose"}
  PROVE  PairInv' /\ SpentInv'
<1>1. next[p] \notin Saving /\ PairOf(p)'
  BY PairsCalm DEF Unheld, Saving, Creds!AuthSteps, Creds!RestoreSteps
<1>2. PairInv'
  BY <1>1, PairsKept
<1>3. TokenOf(p)' /\ next[p] # "mark" /\ \A d \in Creds!Dirs : ~ReplacedBy(p, d)
  BY TokenUnheld, NotReplaced DEF Unheld
<1>4. SpentInv'
  BY <1>3, TokensKept
<1> QED BY <1>2, <1>4

LEMMA BeginKeeps ==
  ASSUME CredInv, NEW p \in Procs, Creds!Begin(p)
  PROVE  CredInv'
<1>1. UNCHANGED <<auth, kube, marker, gen, spent, faults>>
  BY DEF Creds!Begin, Creds!files, Creds!region
<1> QED BY <1>1, BeginTypes, QuietKeeps DEF CredInv, Unheld

LEMMA EndKeeps ==
  ASSUME CredInv, NEW p \in Procs, Creds!End(p)
  PROVE  CredInv'
<1>1. UNCHANGED <<auth, kube, marker, gen, spent, faults>>
  BY DEF Creds!End, Creds!files, Creds!region
<1> QED BY <1>1, EndTypes, QuietKeeps DEF CredInv, Unheld

LEMMA LockKeeps ==
  ASSUME CredInv, NEW p \in Procs, Creds!Lock(p)
  PROVE  CredInv'
<1>1. UNCHANGED <<auth, kube, marker, gen, spent, faults>>
  BY DEF Creds!Lock, Creds!files, Creds!region
<1> QED BY <1>1, LockTypes, QuietKeeps DEF CredInv, Unheld

LEMMA UnlockKeeps ==
  ASSUME CredInv, NEW p \in Procs, Creds!Unlock(p)
  PROVE  CredInv'
<1>1. UNCHANGED <<auth, kube, marker, gen, spent, faults>>
  BY DEF Creds!Unlock, Creds!files, Creds!region
<1> QED BY <1>1, UnlockTypes, QuietKeeps DEF CredInv, Unheld

LEMMA NothingKeeps ==
  ASSUME CredInv, NEW p \in Procs, Creds!ChooseNothing(p)
  PROVE  CredInv'
<1>1. UNCHANGED <<auth, kube, marker, gen, spent, faults>>
  BY DEF Creds!ChooseNothing, Creds!files, Creds!region
<1> QED BY <1>1, NothingTypes, QuietKeeps DEF CredInv, Unheld

\* The invariants at the step of the one that works.
LEMMA Working ==
  ASSUME CredInv, NEW p \in Procs, next[p] \notin {"lock", "end"}
  PROVE  /\ Alone(p) /\ cmd[p] \in CredentialCommands /\ PlaceOK(p) /\ name[p] = Profile
         /\ PairsWith(p) /\ TokensWith(p)
         /\ next[p] \in Holding => held[p] \in Creds!Auths
         /\ next[p] \in Paired => config[p] \in Creds!Kubes
<1>1. Alone(p) /\ cmd[p] \in CredentialCommands /\ PlaceOK(p) /\ name[p] = Profile
  BY WorksAlone DEF CredInv
<1> QED BY <1>1, InvOfOne DEF CredInv, CredTypes

LEMMA WorkingNext ==
  ASSUME NEW p \in Procs, Alone(p), Only(p), CredTypes', PairsWith(p)', TokensWith(p)'
  PROVE  CredInv'
BY AloneStays, InvOfOneNext DEF CredInv

LEMMA CheckKeeps ==
  ASSUME CredInv, NEW p \in Procs, Creds!Check(p)
  PROVE  CredInv'
<1>1. /\ UNCHANGED <<auth, kube, marker, lock, gen, spent, faults, cmd, held, config>>
      /\ Only(p) /\ CredTypes' /\ next[p] = "check" /\ next'[p] \in {"read", "lock"}
      /\ CredTypes /\ PairInv /\ SpentInv
  BY CheckTypes DEF Creds!Check, Creds!files, Creds!region, Creds!memory, CredInv
<1>2. CASE next'[p] = "lock"
  BY <1>1, <1>2, QuietKeeps DEF CredInv, Unheld
<1>3. CASE next'[p] = "read"
  <2>1. PairsWith(p) /\ TokensWith(p)
    BY <1>1, Working
  <2>2. next[p] \notin Saving /\ (faults <= 1 => PairOf(p)')
    BY <1>1, <1>3, <2>1
       DEF PairsWith, PairOf, Paired, Saving, Creds!AuthSteps, Creds!RestoreSteps
  <2>3. PairInv'
    BY <1>1, <2>2, PairsKept
  <2>4. (faults = 0 => TokenOf(p)') /\ \A d \in Creds!Dirs : ~ReplacedBy(p, d)
    BY <1>1, <1>3, <2>1, NotReplaced DEF TokensWith, TokenOf, Apart, Holding, Paired
  <2>5. SpentInv'
    BY <1>1, <2>4, TokensKept
  <2> QED BY <1>1, <2>3, <2>5 DEF CredInv
<1> QED BY <1>1, <1>2, <1>3

LEMMA ChooseKeeps ==
  ASSUME CredInv, NEW p \in Procs, Creds!Choose(p)
  PROVE  CredInv'
<1>1. /\ UNCHANGED <<auth, kube, marker, lock, gen, spent, faults, cmd>>
      /\ Only(p) /\ CredTypes' /\ next[p] = "choose" /\ next'[p] = "kube"
      /\ held'[p].gen = held[p].gen /\ held'[p].token = held[p].token
      /\ config'[p].gen = config[p].gen
      /\ CredTypes /\ PairInv /\ SpentInv
  BY ChooseTypes DEF Creds!Choose, Creds!files, Creds!region, CredInv
<1>2. /\ PairsWith(p) /\ TokensWith(p) /\ cmd[p] = "workspace"
  BY <1>1, Working, Onward
<1>3. next[p] \notin Saving /\ (faults <= 1 => PairOf(p)')
  BY <1>1, <1>2 DEF PairsWith, PairOf, Paired, Saving, Creds!AuthSteps, Creds!RestoreSteps
<1>4. PairInv'
  BY <1>1, <1>3, PairsKept
<1>5. (faults = 0 => TokenOf(p)') /\ \A d \in Creds!Dirs : ~ReplacedBy(p, d)
  BY <1>1, <1>2, NotReplaced DEF TokensWith, TokenOf, Apart, Holding, Paired
<1>6. SpentInv'
  BY <1>1, <1>5, TokensKept
<1> QED BY <1>1, <1>4, <1>6 DEF CredInv

\* The tokens in the files when nobody is at a renewal's saves.
LEMMA TokenKnown ==
  ASSUME CredTypes, NEW p \in Procs, TokensWith(p), faults = 0, NEW d \in Creds!Dirs,
         auth[d] # None, ~ReplacedBy(p, d)
  PROVE  auth[d].token <= gen /\ auth[d].token \notin spent
BY DEF TokensWith

LEMMA LoadKeeps ==
  ASSUME CredInv, NEW p \in Procs,
         NEW what \in {"load", "again", "pload"}, NEW d \in Creds!Dirs,
         d = IF what = "pload" THEN Profile ELSE "active",
         Creds!Load(p, what, d)
  PROVE  CredInv'
<1>1. /\ UNCHANGED <<auth, kube, marker, lock, gen, spent, faults, cmd, config>>
      /\ Only(p) /\ CredTypes' /\ next[p] = what /\ CredTypes /\ PairInv /\ SpentInv
      /\ held'[p] = auth[d] /\ next \in [Procs -> Creds!Steps]
  BY LoadTypes DEF Creds!Load, Creds!files, Creds!region, CredInv, Creds!Turn, CredTypes, Creds!TypeOK
<1>2. /\ PairsWith(p) /\ TokensWith(p) /\ PlaceOK(p) /\ cmd[p] \in CredentialCommands
  BY <1>1, Working
<1>3. CASE auth[d] = None
  <2>1. next'[p] \in {"release", "end"}
    BY <1>1, <1>3 DEF Creds!Load, Creds!Fails, Creds!Goes
  <2> QED BY <1>1, <2>1, QuietKeeps DEF CredInv, Unheld
<1>4. CASE auth[d] # None
  <2>1. next'[p] = Then(p)
    BY <1>1, <1>4 DEF Creds!Load, Creds!GoesOn, Creds!Goes, Then
  <2>2. \/ d = "active" /\ next'[p] \in {"renew", "check", "read"}
        \/ d = Profile /\ next'[p] = "pread" /\ cmd[p] \in {"use", "loginProfile"}
    BY <1>1, <1>2, <2>1, Onward
  <2>3. next[p] \notin Saving /\ (faults <= 1 => PairOf(p)')
    BY <1>1, <1>4, <2>2 DEF PairOf, Paired, Saving, Creds!AuthSteps, Creds!RestoreSteps
  <2>4. PairInv'
    BY <1>1, <2>3, PairsKept
  <2>5. \A e \in Creds!Dirs : ~ReplacedBy(p, e)
    BY <1>1, NotReplaced
  <2>6. ASSUME faults = 0
        PROVE  TokenOf(p)'
    <3>1. held'[p].token <= gen' /\ held'[p].token \notin spent'
      BY <1>1, <1>2, <1>4, <2>5, <2>6, TokenKnown
    <3>2. d = "active" /\ marker' = None => Apart(held[p].token, Profile)'
      BY <1>1, <1>2, <1>4, <2>6 DEF TokensWith, Apart
    <3> QED BY <1>1, <2>2, <3>1, <3>2 DEF TokenOf
  <2>7. SpentInv'
    BY <1>1, <2>5, <2>6, TokensKept
  <2> QED BY <1>1, <2>4, <2>7 DEF CredInv
<1> QED BY <1>3, <1>4

LEMMA ReadKeeps ==
  ASSUME CredInv, NEW p \in Procs,
         NEW what \in {"read", "pread"}, NEW d \in Creds!Dirs,
         d = IF what = "pread" THEN Profile ELSE "active",
         Creds!Read(p, what, d)
  PROVE  CredInv'
<1>1. /\ UNCHANGED <<auth, kube, marker, lock, gen, spent, faults, cmd, held>>
      /\ Only(p) /\ CredTypes' /\ next[p] = what /\ CredTypes /\ PairInv /\ SpentInv
      /\ config'[p] = kube[d] /\ next \in [Procs -> Creds!Steps]
  BY ReadTypes DEF Creds!Read, Creds!files, Creds!region, CredInv, Creds!Turn, CredTypes, Creds!TypeOK
<1>2. /\ PairsWith(p) /\ TokensWith(p) /\ PlaceOK(p) /\ cmd[p] \in CredentialCommands
      /\ held[p] \in Creds!Auths
  BY <1>1, Working DEF Holding
<1>3. next[p] \notin Saving
  BY <1>1 DEF Saving, Creds!AuthSteps, Creds!RestoreSteps
<1>4. \A e \in Creds!Dirs : ~ReplacedBy(p, e)
  BY <1>1, NotReplaced
<1>5. CASE kube[d] = None
  <2>1. next'[p] \in {"release", "end"}
    BY <1>1, <1>5 DEF Creds!Read, Creds!Fails, Creds!Goes
  <2>2. PairInv'
    BY <1>1, <1>3, <2>1, PairsCalm, PairsKept
  <2>3. SpentInv'
    BY <1>1, <1>4, <2>1, TokenUnheld, TokensKept DEF Unheld
  <2> QED BY <1>1, <2>2, <2>3 DEF CredInv
<1>6. CASE kube[d] # None
  <2>1. next'[p] = Then(p)
    BY <1>1, <1>6 DEF Creds!Read, Creds!GoesOn, Creds!Goes, Then
  <2>2. \/ next[p] = "read" /\ next'[p] = "choose" /\ cmd[p] = "workspace"
        \/ next[p] = "read" /\ next'[p] = "namedKube" /\ cmd[p] = "save"
        \/ next[p] = "pread" /\ next'[p] = "kube" /\ cmd[p] \in {"use", "loginProfile"}
    BY <1>1, <1>2, <2>1, Onward
  <2>3. ASSUME faults <= 1
        PROVE  PairOf(p)'
    <3>1. held[p] = auth[d] /\ auth[d] # None
      BY <1>1, <1>2, <2>3 DEF PairsWith, PairOf
    <3>2. Agree(d)
      BY <1>2, <1>3, <2>3 DEF PairsWith
    <3>3. held'[p].gen = config'[p].gen
      BY <1>1, <1>6, <3>1, <3>2 DEF Agree
    <3> QED BY <2>2, <3>3 DEF PairOf, Saving, Creds!AuthSteps, Creds!RestoreSteps
  <2>4. PairInv'
    BY <1>1, <1>3, <2>3, PairsKept
  <2>5. faults = 0 => TokenOf(p)'
    BY <1>1, <1>2, <2>2 DEF TokensWith, TokenOf, Apart, Holding, Paired
  <2>6. SpentInv'
    BY <1>1, <1>4, <2>5, TokensKept
  <2> QED BY <1>1, <2>4, <2>6 DEF CredInv
<1> QED BY <1>5, <1>6

LEMMA RegionKeeps ==
  ASSUME CredInv, NEW p \in Procs, Creds!Region(p)
  PROVE  CredInv'
<1>1. /\ UNCHANGED <<auth, kube, marker, lock, gen, spent, cmd, held>>
      /\ Only(p) /\ CredTypes' /\ next[p] = "region" /\ CredTypes /\ PairInv /\ SpentInv
      /\ next \in [Procs -> Creds!Steps] /\ (Creds!Faulty \/ UNCHANGED faults)
  BY RegionTypes DEF Creds!Region, Creds!files, Creds!region, CredInv, Creds!Turn, CredTypes, Creds!TypeOK
<1>2. /\ PairsWith(p) /\ TokensWith(p) /\ PlaceOK(p) /\ cmd[p] \in CredentialCommands
  BY <1>1, Working
<1>3. next[p] \notin Saving /\ cmd[p] \in {"refresh", "workspace"} /\ lock = p /\ Then(p) = "kube"
  BY <1>1, <1>2, Onward, CredentialsAssumption DEF Saving, Creds!AuthSteps, Creds!RestoreSteps, PlaceOK
<1>4. CASE Creds!Fails(p) /\ Creds!Faulty
  <2>1. next'[p] \in {"release", "end"}
    BY <1>1, <1>4 DEF Creds!Fails, Creds!Goes
  <2>2. PairInv'
    BY <1>1, <1>3, <2>1, PairsCalm, PairsKept
  <2>3. SpentInv'
    BY <1>1, <1>4, FaultsGrow DEF SpentInv
  <2> QED BY <1>1, <2>2, <2>3 DEF CredInv
<1>5. CASE Creds!GoesOn(p) /\ config' = [config EXCEPT ![p] = [gen |-> held[p].gen, ws |-> Default]]
  <2>1. next'[p] = "kube"
    BY <1>1, <1>3, <1>5 DEF Creds!GoesOn, Creds!Goes, Then
  <2>2. config'[p].gen = held'[p].gen
    BY <1>1, <1>5 DEF CredTypes, Creds!TypeOK
  <2>3. PairOf(p)'
    BY <2>1, <2>2 DEF PairOf, Saving, Creds!AuthSteps, Creds!RestoreSteps
  <2>4. PairInv'
    BY <1>1, <1>3, <2>3, PairsKept
  <2>5. faults = 0 => TokenOf(p)'
    BY <1>1, <1>2, <1>3, <2>1 DEF TokensWith, TokenOf, Apart, Holding, Paired
  <2>6. \A d \in Creds!Dirs : ReplacedBy(p, d)  => ReplacedBy(p, d)'
    BY <1>1, <1>3, <2>1 DEF ReplacedBy
  <2>7. SpentInv'
    BY <1>1, <2>5, <2>6, TokensKept
  <2> QED BY <1>1, <2>4, <2>7 DEF CredInv
<1> QED BY <1>4, <1>5 DEF Creds!Region

LEMMA SyncKeeps ==
  ASSUME CredInv, NEW p \in Procs, Creds!Sync(p)
  PROVE  CredInv'
<1>1. /\ UNCHANGED <<auth, kube, marker, lock, gen, spent, cmd, held, config, faults>>
      /\ Only(p) /\ CredTypes' /\ next[p] = "sync" /\ CredTypes /\ PairInv /\ SpentInv
      /\ next \in [Procs -> Creds!Steps]
  BY SyncTypes DEF Creds!Sync, Creds!files, Creds!region, CredInv, Creds!Turn, CredTypes, Creds!TypeOK
<1>2. /\ PairsWith(p) /\ TokensWith(p) /\ PlaceOK(p) /\ cmd[p] \in CredentialCommands
  BY <1>1, Working
<1>3. next[p] \notin Saving /\ cmd[p] \in {"refresh", "workspace"} /\ Then(p) \in {"unlock", "end"}
  BY <1>1, <1>2, Onward, CredentialsAssumption DEF Saving, Creds!AuthSteps, Creds!RestoreSteps, PlaceOK
<1>4. CASE marker = None
  <2>1. next'[p] \in {"unlock", "end"}
    BY <1>1, <1>3, <1>4 DEF Creds!Sync, Creds!GoesOn, Creds!Goes, Then
  <2>2. PairInv'
    BY <1>1, <1>3, <2>1, PairsCalm, PairsKept
  <2>3. \A d \in Creds!Dirs : ~ReplacedBy(p, d)
    BY <1>1, <1>4 DEF ReplacedBy
  <2>4. SpentInv'
    BY <1>1, <2>1, <2>3, TokenUnheld, TokensKept DEF Unheld
  <2> QED BY <1>1, <2>2, <2>4 DEF CredInv
<1>5. CASE marker # None
  <2>1. next'[p] = "copyKube"
    BY <1>1, <1>5 DEF Creds!Sync, Creds!Goes
  <2>2. faults <= 1 => PairOf(p)'
    BY <1>1, <1>2, <2>1
       DEF PairsWith, PairOf, Paired, Saving, Creds!AuthSteps, Creds!RestoreSteps
  <2>3. PairInv'
    BY <1>1, <1>3, <2>2, PairsKept
  <2>4. faults = 0 => TokenOf(p)'
    BY <1>1, <1>2, <1>3, <1>5, <2>1 DEF TokensWith, TokenOf, Apart, Holding, Paired
  <2>5. \A d \in Creds!Dirs : ReplacedBy(p, d)  => ReplacedBy(p, d)'
    BY <1>1, <2>1 DEF ReplacedBy
  <2>6. SpentInv'
    BY <1>1, <2>4, <2>5, TokensKept
  <2> QED BY <1>1, <2>3, <2>6 DEF CredInv
<1> QED BY <1>4, <1>5

LEMMA TokenTypes ==
  ASSUME CredTypes
  PROVE  /\ gen \in Nat
         /\ \A d \in Creds!Dirs : auth[d] # None => auth[d] \in Creds!Auths
         /\ \A a \in Creds!Auths : a.token \in Nat
         /\ \A t \in spent : t \in Nat
BY CredentialsAssumption DEF CredTypes, Creds!TypeOK, Creds!Auths, Creds!Gens

\* The next answer of the token endpoint is nowhere yet.
LEMMA NewToken ==
  ASSUME CredTypes, NEW p \in Procs, TokensWith(p), faults = 0
  PROVE  /\ gen + 1 \notin spent
         /\ \A d \in Creds!Dirs : Apart(gen + 1, d)
<1>1. gen \in Nat /\ \A t \in spent : t \in Nat /\ t <= gen
  BY TokenTypes DEF TokensWith, CredTypes, Creds!TypeOK, Creds!Gens
<1>2. \A d \in Creds!Dirs : auth[d] # None => auth[d].token \in Nat /\ auth[d].token <= gen
  BY TokenTypes DEF TokensWith
<1>3. gen + 1 \notin spent
  BY <1>1
<1>4. \A d \in Creds!Dirs : Apart(gen + 1, d)
  BY <1>1, <1>2 DEF Apart
<1> QED BY <1>3, <1>4

LEMMA LoginKeeps ==
  ASSUME CredInv, NEW p \in Procs, Creds!Login(p)
  PROVE  CredInv'
<1>1. /\ UNCHANGED <<auth, kube, marker, lock, spent, cmd, faults>>
      /\ Only(p) /\ CredTypes' /\ next[p] = "login" /\ CredTypes /\ PairInv /\ SpentInv
      /\ next \in [Procs -> Creds!Steps] /\ gen' = gen + 1
      /\ held'[p] = [gen |-> gen', token |-> gen', ws |-> Default]
      /\ config'[p] = [gen |-> gen', ws |-> Default]
  BY LoginTypes DEF Creds!Login, Creds!files, CredInv, CredTypes, Creds!TypeOK
<1>2. /\ PairsWith(p) /\ TokensWith(p) /\ PlaceOK(p) /\ cmd[p] \in CredentialCommands /\ Alone(p)
  BY <1>1, Working
<1>3. /\ next[p] \notin Saving /\ lock # p
      /\ \/ cmd[p] = "login" /\ Then(p) = "kube"
         \/ cmd[p] = "loginProfile" /\ Then(p) = "namedKube"
  BY <1>1, <1>2, Onward DEF Saving, Creds!AuthSteps, Creds!RestoreSteps
<1>4. next'[p] = Then(p)
  BY <1>1 DEF Creds!Login, Creds!GoesOn, Creds!Goes, Then
<1>5. held'[p].gen = config'[p].gen /\ held'[p].token = gen + 1
  BY <1>1
<1>6. PairOf(p)'
  BY <1>3, <1>4, <1>5 DEF PairOf, Saving, Creds!AuthSteps, Creds!RestoreSteps
<1>7. PairInv'
  BY <1>1, <1>3, <1>6, PairsKept
<1>8. ASSUME faults = 0
      PROVE  TokensWith(p)'
  <2>1. gen \in Nat /\ gen + 1 \notin spent /\ Apart(gen + 1, Profile) /\ Apart(gen + 1, "active")
    BY <1>1, <1>2, <1>8, NewToken, ProfileIs DEF CredTypes, Creds!TypeOK, Creds!Gens
  <2>2. held'[p].token <= gen' /\ held'[p].token \notin spent'
    BY <1>1, <1>5, <2>1
  <2>3. Apart(held[p].token, Profile)' /\ Apart(held[p].token, "active")'
    BY <1>1, <1>5, <2>1 DEF Apart
  <2>4. TokenOf(p)'
    BY <1>1, <1>3, <1>4, <2>2, <2>3 DEF TokenOf
  <2>5. \A t \in spent' : t <= gen'
    BY <1>1, <1>2, <1>8, <2>1, TokenTypes DEF TokensWith
  <2>6. \A d \in Creds!Dirs : ~ReplacedBy(p, d)
    BY <1>1, NotReplaced
  <2>7. \A d \in Creds!Dirs :
          auth'[d] # None => auth'[d].token <= gen' /\ auth'[d].token \notin spent'
    <3>1. \A d \in Creds!Dirs : auth[d] # None => auth[d].token \in Nat /\ auth[d].token <= gen
                                                    /\ auth[d].token \notin spent
      BY <1>1, <1>2, <1>8, <2>6, TokenTypes DEF TokensWith
    <3> QED BY <1>1, <2>1, <3>1
  <2>8. marker' = None /\ auth'["active"] # None => Apart(auth["active"].token, Profile)'
    BY <1>1, <1>2, <1>8 DEF TokensWith, Apart
  <2> QED BY <2>4, <2>5, <2>7, <2>8 DEF TokensWith
<1>9. SpentInv'
  BY <1>1, <1>2, <1>8, AloneStays, InvOfOneNext DEF TokensWith
<1> QED BY <1>1, <1>7, <1>9 DEF CredInv

LEMMA RenewKeeps ==
  ASSUME CredInv, NEW p \in Procs, Creds!Renew(p)
  PROVE  CredInv'
<1>1. /\ UNCHANGED <<auth, kube, marker, lock, cmd, config>>
      /\ Only(p) /\ CredTypes' /\ next[p] = "renew" /\ CredTypes /\ PairInv /\ SpentInv
      /\ next \in [Procs -> Creds!Steps] /\ (Creds!Faulty \/ UNCHANGED faults)
  BY RenewTypes DEF Creds!Renew, Creds!files, Creds!region, CredInv, Creds!Turn, CredTypes, Creds!TypeOK
<1>2. /\ PairsWith(p) /\ TokensWith(p) /\ PlaceOK(p) /\ cmd[p] \in CredentialCommands /\ Alone(p)
      /\ held[p] \in Creds!Auths
  BY <1>1, Working DEF Holding
<1>3. /\ next[p] \notin Saving /\ cmd[p] \in {"refresh", "workspace"} /\ lock = p
      /\ Then(p) = "region"
  BY <1>1, <1>2, Onward, CredentialsAssumption DEF Saving, Creds!AuthSteps, Creds!RestoreSteps, PlaceOK
<1>4. next'[p] \in {"release", "end", "region"}
  BY <1>1, <1>3 DEF Creds!Renew, Creds!GoesOn, Creds!Fails, Creds!Goes, Then
<1>5. PairOf(p)'
  BY <1>4 DEF PairOf, Paired, Saving, Creds!AuthSteps, Creds!RestoreSteps
<1>6. PairInv'
  BY <1>1, <1>3, <1>5, PairsKept
<1>7. \A d \in Creds!Dirs : ~ReplacedBy(p, d)
  BY <1>1, NotReplaced
<1>8. ASSUME Creds!Faulty
      PROVE  SpentInv'
  BY <1>8, <1>1, FaultsGrow DEF SpentInv
<1>9. ASSUME Creds!Fails(p), UNCHANGED <<held, gen, spent, faults>>
      PROVE  SpentInv'
  <2>1. next'[p] \in Unheld
    BY <1>1, <1>9 DEF Creds!Fails, Creds!Goes, Unheld
  <2> QED BY <1>1, <1>7, <1>9, <2>1, TokenUnheld, TokensKept
<1>10. ASSUME Creds!GoesOn(p), UNCHANGED faults, Creds!Issue,
               \/ /\ held' = [held EXCEPT ![p].gen = gen', ![p].token = gen']
                  /\ spent' = spent \cup {held[p].token}
               \/ held' = [held EXCEPT ![p].gen = gen'] /\ UNCHANGED spent
       PROVE  SpentInv'
  <2>1. next'[p] = "region" /\ gen' = gen + 1
    BY <1>1, <1>3, <1>10 DEF Creds!GoesOn, Creds!Goes, Then, Creds!Issue
  <2>2. \/ held'[p].token = gen + 1 /\ spent' = spent \cup {held[p].token}
        \/ held'[p].token = held[p].token /\ spent' = spent
    BY <1>1, <1>2, <1>10, <2>1 DEF Creds!Auths, CredTypes, Creds!TypeOK
  <2>3. ASSUME faults = 0
        PROVE  TokensWith(p)'
    <3>1. gen \in Nat /\ gen + 1 \notin spent /\ Apart(gen + 1, Profile)
      BY <1>1, <1>2, <2>3, NewToken, ProfileIs DEF CredTypes, Creds!TypeOK, Creds!Gens
    <3>2. held[p].token \in Nat /\ held[p].token <= gen /\ held[p].token \notin spent
      BY <1>1, <1>2, <2>3, TokenTypes DEF TokensWith, TokenOf, Holding
    <3>3. marker = None => Apart(held[p].token, Profile)
      BY <1>1, <1>2, <1>3, <2>3 DEF TokensWith, TokenOf, Holding
    <3>4. held'[p].token <= gen' /\ held'[p].token \notin spent'
      BY <2>1, <2>2, <3>1, <3>2
    <3>5. marker' = None => Apart(held[p].token, Profile)'
      BY <1>1, <2>2, <3>1, <3>3 DEF Apart
    <3>6. TokenOf(p)'
      BY <1>1, <1>3, <2>1, <3>4, <3>5 DEF TokenOf
    <3>7. \A t \in spent' : t <= gen'
      <4>1. \A t \in spent : t \in Nat /\ t <= gen
        BY <1>1, <1>2, <2>3, TokenTypes DEF TokensWith
      <4> QED BY <2>1, <2>2, <3>1, <3>2, <4>1
    <3>8. ASSUME NEW d \in Creds!Dirs, auth[d] # None
          PROVE  auth'[d].token <= gen' /\ (auth'[d].token \in spent' => ReplacedBy(p, d)')
      <4>1. auth[d].token \in Nat /\ auth[d].token <= gen /\ auth[d].token \notin spent
        BY <1>1, <1>2, <1>7, <2>3, <3>8, TokenTypes DEF TokensWith
      <4>2. auth'[d].token <= gen'
        BY <1>1, <2>1, <3>1, <4>1
      <4>3. CASE d = "active" \/ marker # None
        BY <1>1, <1>3, <2>1, <4>2, <4>3 DEF ReplacedBy
      <4>4. CASE d = Profile /\ marker = None
        BY <1>1, <2>2, <3>3, <3>8, <4>1, <4>2, <4>4 DEF Apart
      <4> QED BY <4>3, <4>4, ProfileIs
    <3>9. marker' = None /\ auth'["active"] # None => Apart(auth["active"].token, Profile)'
      BY <1>1, <1>2, <2>3 DEF TokensWith, Apart
    <3> QED BY <1>1, <3>6, <3>7, <3>8, <3>9 DEF TokensWith
  <2> QED BY <1>1, <1>2, <1>10, <2>3, AloneStays, InvOfOneNext DEF TokensWith
<1>11. SpentInv'
  BY <1>8, <1>9, <1>10 DEF Creds!Renew, Creds!region
<1> QED BY <1>1, <1>6, <1>11 DEF CredInv

LEMMA SaveKubeKeeps ==
  ASSUME CredInv, NEW p \in Procs, Creds!SaveKube(p)
  PROVE  CredInv'
<1>1. /\ UNCHANGED <<auth, marker, lock, cmd, name, held, config, gen, spent>>
      /\ Only(p) /\ CredTypes' /\ next[p] \in Creds!KubeSteps /\ CredTypes /\ PairInv /\ SpentInv
      /\ next \in [Procs -> Creds!Steps] /\ (Creds!Faulty \/ UNCHANGED faults)
      /\ next[p] \notin {"lock", "end"} /\ next[p] \in Paired
  BY SaveKubeTypes DEF Creds!SaveKube, Creds!region, CredInv, CredTypes, Creds!TypeOK,
                       Creds!KubeSteps, Paired
<1>2. /\ PairsWith(p) /\ TokensWith(p) /\ PlaceOK(p) /\ cmd[p] \in CredentialCommands /\ Alone(p)
      /\ name[p] = Profile /\ held[p] \in Creds!Auths /\ config[p] \in Creds!Kubes
  BY <1>1, Working DEF Holding
<1>3. next[p] \notin Saving
  BY <1>1 DEF Saving, Creds!AuthSteps, Creds!RestoreSteps, Creds!KubeSteps
<1>4. CASE Creds!Faulty /\ Creds!SaveFails(p) /\ UNCHANGED <<kube, old>>
  <2>1. next'[p] \in {"release", "end", "unlock"}
    BY <1>1, <1>4, SaveFailsTo
  <2>2. PairInv'
    BY <1>1, <1>3, <1>4, <2>1, PairsCalm, PairsKept
  <2>3. SpentInv'
    BY <1>1, <1>4, FaultsGrow DEF SpentInv
  <2> QED BY <1>1, <2>2, <2>3 DEF CredInv
<1>5. CASE /\ kube' = [kube EXCEPT ![Creds!Dir(p)] = config[p]]
           /\ old' = [old EXCEPT ![p] = kube[Creds!Dir(p)]]
           /\ Creds!GoesOn(p) /\ UNCHANGED faults
  <2>1. next'[p] = Then(p)
    BY <1>1, <1>5 DEF Creds!GoesOn, Creds!Goes, Then
  <2>2. \/ next[p] = "kube" /\ next'[p] = "auth"
        \/ next[p] = "namedKube" /\ next'[p] = "namedAuth"
        \/ next[p] = "copyKube" /\ next'[p] = "copyAuth"
    BY <1>1, <1>2, <2>1, Onward DEF Creds!KubeSteps
  <2>3. Creds!Dir(p)' = Creds!Dir(p) /\ Creds!Dir(p) \in Creds!Dirs /\ next'[p] \in Saving
    BY <1>1, <1>2, <2>2, DirIs, ProfileIs DEF Creds!Dir, Saving, Creds!AuthSteps
  <2>4. ASSUME faults <= 1
        PROVE  PairsWith(p)'
    <3>1. kube'[Creds!Dir(p)] = config[p] /\ old'[p] = kube[Creds!Dir(p)]
      BY <1>1, <1>5, <2>3 DEF CredTypes, Creds!TypeOK
    <3>2. held[p].gen = config[p].gen /\ \A d \in Creds!Dirs : Agree(d)
      BY <1>1, <1>2, <1>3, <2>4 DEF PairsWith, PairOf
    <3>3. PairOf(p)'
      BY <1>1, <2>2, <2>3, <3>1, <3>2 DEF PairOf, Agree, Creds!RestoreSteps
    <3>4. \A d \in Creds!Dirs : d # Creds!Dir(p) => Agree(d)'
      BY <1>1, <1>5, <3>2 DEF Agree, CredTypes, Creds!TypeOK
    <3> QED BY <2>3, <3>3, <3>4 DEF PairsWith
  <2>5. PairInv'
    BY <1>1, <1>2, <1>5, <2>4, AloneStays, InvOfOneNext DEF PairsWith
  <2>6. faults = 0 => TokenOf(p)'
    BY <1>1, <1>2, <2>2 DEF TokensWith, TokenOf, Apart, Holding, Paired
  <2>7. \A d \in Creds!Dirs : ReplacedBy(p, d) => ReplacedBy(p, d)'
    BY <1>1, <2>2 DEF ReplacedBy
  <2>8. SpentInv'
    BY <1>1, <1>5, <2>2, <2>6, <2>7, TokensKept
  <2> QED BY <1>1, <2>5, <2>8 DEF CredInv
<1> QED BY <1>4, <1>5 DEF Creds!SaveKube

LEMMA RestoreKeeps ==
  ASSUME CredInv, NEW p \in Procs, Creds!RestoreKube(p)
  PROVE  CredInv'
<1>1. /\ UNCHANGED <<auth, marker, lock, cmd, name, held, config, old, gen, spent>>
      /\ Only(p) /\ CredTypes' /\ next[p] \in Creds!RestoreSteps /\ CredTypes /\ PairInv /\ SpentInv
      /\ next \in [Procs -> Creds!Steps] /\ (Creds!Faulty \/ UNCHANGED faults)
      /\ next[p] \notin {"lock", "end"} /\ next'[p] \in {"release", "end", "unlock"}
      /\ next[p] \in Saving
  BY RestoreTypes DEF Creds!RestoreKube, Creds!region, Creds!memory, CredInv, CredTypes,
                      Creds!TypeOK, Creds!RestoreSteps, Saving
<1>2. /\ PairsWith(p) /\ TokensWith(p) /\ Alone(p) /\ name[p] = Profile
  BY <1>1, Working
<1>3. faults <= faults' /\ faults \in Nat /\ faults' \in Nat /\ (Creds!Faulty => faults < faults')
  BY <1>1, FaultsGrow
<1>4. faults <= 1 => faults = 1
  BY <1>1, <1>2 DEF PairsWith, PairOf
<1>5. SpentInv'
  BY <1>3, <1>4 DEF SpentInv
<1>6. ASSUME faults' <= 1
      PROVE  PairsWith(p)'
  <2>1. faults = 1 /\ kube' = [kube EXCEPT ![Creds!Dir(p)] = old[p]] /\ UNCHANGED faults
    BY <1>3, <1>4, <1>6 DEF Creds!RestoreKube
  <2>2. Creds!Dir(p) \in Creds!Dirs
    BY <1>2, DirIs
  <2>3. auth[Creds!Dir(p)] # None /\ old[p] # None => auth[Creds!Dir(p)].gen = old[p].gen
    BY <1>1, <1>2, <2>1 DEF PairsWith, PairOf
  <2>4. \A d \in Creds!Dirs : d # Creds!Dir(p) => Agree(d)
    BY <1>2, <2>1 DEF PairsWith
  <2>5. \A d \in Creds!Dirs : Agree(d)'
    BY <1>1, <2>1, <2>2, <2>3, <2>4 DEF Agree, CredTypes, Creds!TypeOK
  <2>6. PairOf(p)'
    BY <1>1, PairsCalm
  <2> QED BY <2>5, <2>6 DEF PairsWith
<1>7. PairInv'
  BY <1>1, <1>2, <1>6, AloneStays, InvOfOneNext DEF PairsWith
<1> QED BY <1>1, <1>5, <1>7 DEF CredInv

LEMMA SaveAuthKeeps ==
  ASSUME CredInv, NEW p \in Procs, Creds!SaveAuth(p)
  PROVE  CredInv'
<1>1. /\ UNCHANGED <<kube, marker, lock, cmd, name, held, config, old, gen, spent>>
      /\ Only(p) /\ CredTypes' /\ next[p] \in Creds!AuthSteps /\ CredTypes /\ PairInv /\ SpentInv
      /\ next \in [Procs -> Creds!Steps] /\ (Creds!Faulty \/ UNCHANGED faults)
      /\ next[p] \notin {"lock", "end"} /\ next[p] \in Paired
  BY SaveAuthTypes DEF Creds!SaveAuth, Creds!region, Creds!memory, CredInv, CredTypes,
                       Creds!TypeOK, Creds!AuthSteps, Paired
<1>2. /\ PairsWith(p) /\ TokensWith(p) /\ PlaceOK(p) /\ cmd[p] \in CredentialCommands /\ Alone(p)
      /\ name[p] = Profile /\ held[p] \in Creds!Auths /\ config[p] \in Creds!Kubes
  BY <1>1, Working DEF Holding
<1>3. Creds!Dir(p) \in Creds!Dirs /\ next[p] \in Saving
  BY <1>1, <1>2, DirIs DEF Saving
<1>4. faults <= faults' /\ faults \in Nat /\ faults' \in Nat /\ (Creds!Faulty => faults < faults')
  BY <1>1, FaultsGrow
<1>5. CASE Creds!Faulty /\ Creds!Undo(p) /\ UNCHANGED auth
  <2>1. \/ next[p] = "auth" /\ next'[p] = "restore"
        \/ next[p] = "namedAuth" /\ next'[p] = "namedRestore"
        \/ next[p] = "copyAuth" /\ next'[p] = "copyRestore"
    <3>1. CASE next[p] = "auth"
      BY <1>1, <1>5, <3>1 DEF Creds!Undo, Creds!Goes
    <3>2. CASE next[p] = "namedAuth"
      BY <1>1, <1>5, <3>2 DEF Creds!Undo, Creds!Goes
    <3>3. CASE next[p] = "copyAuth"
      BY <1>1, <1>5, <3>3 DEF Creds!Undo, Creds!Goes
    <3> QED BY <1>1, <3>1, <3>2, <3>3 DEF Creds!AuthSteps
  <2>2. Creds!Dir(p)' = Creds!Dir(p) /\ next'[p] \in Saving
    BY <1>1, <2>1 DEF Creds!Dir, Saving, Creds!RestoreSteps
  <2>3. ASSUME faults' <= 1
        PROVE  PairsWith(p)'
    <3>1. faults <= 1 /\ faults' = 1
      BY <1>4, <1>5, <2>3 DEF Creds!Faulty
    <3>2. PairOf(p)'
      BY <1>1, <1>2, <1>3, <1>5, <2>1, <2>2, <3>1 DEF PairsWith, PairOf, Paired, Creds!AuthSteps
    <3>3. \A d \in Creds!Dirs : Agree(d) => Agree(d)'
      BY <1>1, <1>5 DEF Agree
    <3> QED BY <1>2, <1>3, <2>2, <3>1, <3>2, <3>3 DEF PairsWith
  <2>4. PairInv'
    BY <1>1, <1>2, <2>3, AloneStays, InvOfOneNext DEF PairsWith
  <2>5. SpentInv'
    BY <1>4, <1>5 DEF SpentInv
  <2> QED BY <1>1, <2>4, <2>5 DEF CredInv
<1>6. CASE /\ auth' = [auth EXCEPT ![Creds!Dir(p)] = held[p]]
           /\ Creds!GoesOn(p) /\ UNCHANGED faults
  <2>1. next'[p] = Then(p)
    BY <1>1, <1>6 DEF Creds!GoesOn, Creds!Goes, Then
  <2>2. \/ /\ next[p] = "auth" /\ cmd[p] \in {"refresh", "workspace"} /\ next'[p] = "sync"
        \/ /\ next[p] = "auth" /\ cmd[p] = "login" /\ next'[p] = "unmark" /\ lock # p
        \/ /\ next[p] = "auth" /\ cmd[p] \in {"use", "loginProfile"} /\ next'[p] = "mark"
           /\ lock # p
        \/ /\ next[p] = "namedAuth" /\ cmd[p] = "save" /\ next'[p] = "mark" /\ lock # p
        \/ /\ next[p] = "namedAuth" /\ cmd[p] = "loginProfile" /\ next'[p] = "pload" /\ lock # p
        \/ /\ next[p] = "copyAuth" /\ cmd[p] \in {"refresh", "workspace"}
           /\ next'[p] \in {"unlock", "end"}
    BY <1>1, <1>2, <2>1, Onward, CredentialsAssumption DEF Creds!AuthSteps, PlaceOK
  <2>3. /\ auth'[Creds!Dir(p)] = held[p]
        /\ \A d \in Creds!Dirs : d # Creds!Dir(p) => auth'[d] = auth[d]
    BY <1>1, <1>3, <1>6 DEF CredTypes, Creds!TypeOK
  <2>4. ASSUME faults <= 1
        PROVE  PairsWith(p)'
    <3>1. held[p].gen = config[p].gen /\ kube[Creds!Dir(p)] = config[p]
      BY <1>1, <1>2, <2>4 DEF PairsWith, PairOf
    <3>2. \A d \in Creds!Dirs : d # Creds!Dir(p) => Agree(d)
      BY <1>2, <2>4 DEF PairsWith
    <3>3. \A d \in Creds!Dirs : Agree(d)'
      BY <1>1, <2>3, <3>1, <3>2 DEF Agree
    <3>4. PairOf(p)'
      BY <1>1, <2>2, <3>1 DEF PairOf, Saving, Creds!AuthSteps, Creds!RestoreSteps, Paired
    <3> QED BY <3>3, <3>4 DEF PairsWith
  <2>5. PairInv'
    BY <1>1, <1>2, <1>6, <2>4, AloneStays, InvOfOneNext DEF PairsWith
  <2>6. ASSUME faults = 0
        PROVE  TokensWith(p)'
    <3>1. held[p].token <= gen /\ held[p].token \notin spent
      BY <1>1, <1>2, <2>6 DEF TokensWith, TokenOf, Holding
    <3>2. \A d \in Creds!Dirs :
            auth[d] # None => auth[d].token <= gen /\ (auth[d].token \in spent => ReplacedBy(p, d))
      BY <1>2, <2>6 DEF TokensWith
    <3>3. \A d \in Creds!Dirs : ReplacedBy(p, d) => d = Creds!Dir(p) \/ ReplacedBy(p, d)'
      BY <1>1, <1>2, <2>2, DirIs, ProfileIs DEF ReplacedBy
    <3>4. \A d \in Creds!Dirs :
            auth'[d] # None =>
              auth'[d].token <= gen' /\ (auth'[d].token \in spent' => ReplacedBy(p, d)')
      BY <1>1, <2>3, <3>1, <3>2, <3>3
    <3>5. \A t \in spent' : t <= gen'
      BY <1>1, <1>2, <2>6 DEF TokensWith
    <3>6. CASE next[p] = "auth"
      <4>1. auth'["active"] = held[p] /\ auth'[Profile] = auth[Profile]
        BY <1>2, <2>3, <3>6, DirIs, ProfileIs
      <4>2. cmd[p] = "login" \/ (cmd[p] \in {"refresh", "workspace"} /\ marker = None)
              => Apart(held[p].token, Profile)
        BY <1>1, <1>2, <2>6, <3>6 DEF TokensWith, TokenOf, Holding
      <4>3. TokenOf(p)'
        BY <1>1, <2>2, <3>1, <3>6, <4>1, <4>2 DEF TokenOf, Apart, Holding, Paired
      <4>4. marker' = None /\ next'[p] # "mark" => Apart(auth["active"].token, Profile)'
        BY <1>1, <2>2, <3>6, <4>1, <4>2 DEF Apart
      <4> QED BY <3>4, <3>5, <4>3, <4>4 DEF TokensWith
    <3>7. CASE next[p] = "namedAuth"
      <4>1. auth'["active"] = auth["active"] /\ auth'[Profile] = held[p]
        BY <1>2, <2>3, <3>7, DirIs, ProfileIs
      <4>2. TokenOf(p)'
        BY <2>2, <3>7 DEF TokenOf, Holding, Paired
      <4>3. next'[p] # "mark" => cmd[p] = "loginProfile"
        BY <2>2, <3>7
      <4>4. cmd[p] = "loginProfile" => Apart(held[p].token, "active")
        BY <1>2, <2>6, <3>7 DEF TokensWith, TokenOf
      <4>5. auth'["active"] # None /\ next'[p] # "mark" => Apart(auth["active"].token, Profile)'
        BY <4>1, <4>3, <4>4 DEF Apart
      <4> QED BY <3>4, <3>5, <4>2, <4>5 DEF TokensWith
    <3>8. CASE next[p] = "copyAuth"
      <4>1. marker' # None
        BY <1>1, <1>2, <2>6, <3>8 DEF TokensWith, TokenOf
      <4>2. TokenOf(p)'
        BY <2>2, <3>8 DEF TokenOf, Holding, Paired
      <4> QED BY <3>4, <3>5, <4>1, <4>2 DEF TokensWith
    <3> QED BY <1>1, <3>6, <3>7, <3>8 DEF Creds!AuthSteps
  <2>7. SpentInv'
    BY <1>1, <1>2, <1>6, <2>6, AloneStays, InvOfOneNext DEF TokensWith
  <2> QED BY <1>1, <2>5, <2>7 DEF CredInv
<1> QED BY <1>5, <1>6 DEF Creds!SaveAuth

\* The marker goes only where the token of the profile differs from the active one.
LEMMA MarkerKeeps ==
  ASSUME CredInv, NEW p \in Procs, Creds!Mark(p) \/ Creds!Unmark(p) \/ Creds!UnmarkNamed(p)
  PROVE  CredInv'
<1>1. PICK what \in {"mark", "unmark", "unmarkNamed"}, m \in {Profile, None} :
        /\ Creds!SetMarker(p, what, m)
        /\ \/ what = "mark" /\ m = Profile
           \/ what = "unmark" /\ m = None
           \/ what = "unmarkNamed" /\ m \in {None, marker}
  <2>1. next[p] \in {"mark", "unmark", "unmarkNamed"}
    BY DEF Creds!Mark, Creds!Unmark, Creds!UnmarkNamed, Creds!SetMarker, Creds!Turn
  <2>2. name[p] = Profile /\ marker \in {Profile, None}
    BY <2>1, Working DEF CredInv, CredTypes, Creds!TypeOK
  <2> QED BY <2>2 DEF Creds!Mark, Creds!Unmark, Creds!UnmarkNamed
<1>2. /\ UNCHANGED <<auth, kube, lock, cmd, name, held, config, old, gen, spent>>
      /\ Only(p) /\ CredTypes' /\ next[p] = what /\ CredTypes /\ PairInv /\ SpentInv
      /\ (Creds!Faulty \/ (UNCHANGED faults /\ marker' = m))
      /\ next'[p] \in {"release", "end"}
  BY <1>1, MarkerTypes DEF Creds!SetMarker, Creds!region, Creds!memory, CredInv, Creds!Turn
<1>3. /\ PairsWith(p) /\ TokensWith(p) /\ PlaceOK(p) /\ cmd[p] \in CredentialCommands /\ Alone(p)
  BY <1>2, Working
<1>4. next[p] \notin Saving /\ (Creds!Faulty \/ UNCHANGED faults)
  BY <1>2 DEF Saving, Creds!AuthSteps, Creds!RestoreSteps
<1>5. PairInv'
  BY <1>2, <1>4, PairsCalm, PairsKept
<1>6. ASSUME faults' = 0
      PROVE  TokensWith(p)'
  <2>1. faults = 0 /\ marker' = m
    BY <1>2, <1>6, FaultsGrow
  <2>2. \A d \in Creds!Dirs : ~ReplacedBy(p, d)
    BY <1>2, NotReplaced
  <2>3. marker' = None /\ auth'["active"] # None => Apart(auth["active"].token, Profile)'
    <3>1. CASE what = "mark"
      BY <1>1, <2>1, <3>1, ProfileIs
    <3>2. CASE what = "unmark"
      <4>1. cmd[p] \in {"login", "logout"}
        BY <1>2, <1>3, <3>2, Onward
      <4>2. cmd[p] = "logout" => auth["active"] = None
        BY <1>2, <1>3, <2>1, <3>2 DEF TokensWith, TokenOf
      <4>3. cmd[p] = "login" /\ auth["active"] # None => Apart(auth["active"].token, Profile)
        BY <1>2, <1>3, <2>1, <3>2 DEF TokensWith, TokenOf
      <4> QED BY <1>2, <4>1, <4>2, <4>3 DEF Apart
    <3>3. CASE what = "unmarkNamed"
      BY <1>2, <1>3, <2>1, <3>3 DEF TokensWith, TokenOf, Apart
    <3> QED BY <3>1, <3>2, <3>3
  <2>4. TokenOf(p)'
    BY <1>2, TokenUnheld DEF Unheld
  <2> QED BY <1>2, <1>3, <2>1, <2>2, <2>3, <2>4 DEF TokensWith
<1>7. SpentInv'
  BY <1>2, <1>3, <1>6, AloneStays, InvOfOneNext DEF TokensWith
<1> QED BY <1>2, <1>5, <1>7 DEF CredInv

LEMMA RemovalKeeps ==
  ASSUME CredInv, NEW p \in Procs,
         Creds!Delete(p) \/ Creds!ClearAuth(p) \/ Creds!ClearKube(p)
  PROVE  CredInv'
<1>1. /\ UNCHANGED <<marker, lock, cmd, name, held, config, old, gen, spent>>
      /\ Only(p) /\ CredTypes' /\ next[p] \in {"delete", "clearAuth", "clearKube"}
      /\ CredTypes /\ PairInv /\ SpentInv
      /\ next \in [Procs -> Creds!Steps]
      /\ Creds!Faulty \/ UNCHANGED faults
  BY RemovalTypes DEF Creds!Delete, Creds!ClearAuth, Creds!ClearKube, Creds!Turn, CredInv,
                      CredTypes, Creds!TypeOK
<1>2. /\ PairsWith(p) /\ TokensWith(p) /\ PlaceOK(p) /\ cmd[p] \in CredentialCommands /\ Alone(p)
      /\ name[p] = Profile
  BY <1>1, Working
<1>3. /\ next[p] = "delete" => cmd[p] = "delete" /\ Then(p) = "unmarkNamed"
      /\ next[p] = "clearAuth" => cmd[p] = "logout" /\ Then(p) = "clearKube"
      /\ next[p] = "clearKube" => cmd[p] = "logout" /\ Then(p) = "unmark"
  BY <1>1, <1>2, Onward
<1>4. next'[p] \in {"release", "end", "unmarkNamed", "clearKube", "unmark"}
  BY <1>1, <1>3 DEF Creds!Delete, Creds!ClearAuth, Creds!ClearKube, Creds!GoesOn, Creds!Fails,
                    Creds!Goes, Then
<1>5. \A d \in Creds!Dirs : auth'[d] \in {None, auth[d]} /\ kube'[d] \in {None, kube[d]}
  BY <1>1, <1>2, ProfileIs DEF Creds!Delete, Creds!ClearAuth, Creds!ClearKube, CredTypes, Creds!TypeOK
<1>6. ASSUME faults' <= 1
      PROVE  PairsWith(p)'
  <2>1. faults <= 1
    BY <1>1, <1>6, FaultsGrow
  <2>2. next[p] \notin Saving
    BY <1>1 DEF Saving, Creds!AuthSteps, Creds!RestoreSteps
  <2>3. \A d \in Creds!Dirs : Agree(d)'
    BY <1>2, <1>5, <2>1, <2>2 DEF PairsWith, Agree
  <2>4. PairOf(p)'
    BY <1>4, PairsCalm
  <2> QED BY <2>3, <2>4 DEF PairsWith
<1>7. PairInv'
  BY <1>1, <1>2, <1>6, AloneStays, InvOfOneNext DEF PairsWith
<1>8. ASSUME faults' = 0
      PROVE  TokensWith(p)'
  <2>1. faults = 0 /\ ~Creds!Faulty
    BY <1>1, <1>8, FaultsGrow
  <2>2. /\ next[p] = "delete" => /\ cmd'[p] = "delete" /\ next'[p] = "unmarkNamed"
                                 /\ auth'[Profile] = None
        /\ next[p] = "clearAuth" => /\ cmd'[p] = "logout" /\ next'[p] = "clearKube"
                                    /\ auth'["active"] = None
        /\ next[p] = "clearKube" => /\ cmd'[p] = "logout" /\ next'[p] = "unmark" /\ auth' = auth
    BY <1>1, <1>2, <1>3, <2>1, ProfileIs
       DEF Creds!Delete, Creds!ClearAuth, Creds!ClearKube, Creds!Turn, Creds!GoesOn, Creds!Goes,
           Then, CredTypes, Creds!TypeOK
  <2>3. next[p] = "clearKube" => auth'["active"] = None
    BY <1>2, <1>3, <2>1, <2>2 DEF TokensWith, TokenOf
  <2>4. TokenOf(p)'
    BY <1>1, <2>2, <2>3 DEF TokenOf, Holding, Paired
  <2>5. \A d \in Creds!Dirs : ~ReplacedBy(p, d)
    BY <1>1, NotReplaced
  <2>6. \A d \in Creds!Dirs :
          auth'[d] # None => auth'[d].token <= gen' /\ auth'[d].token \notin spent'
    BY <1>1, <1>2, <1>5, <2>1, <2>5 DEF TokensWith
  <2>7. auth'["active"] # None => Apart(auth["active"].token, Profile)'
    BY <1>1, <2>2, <2>3 DEF Apart
  <2> QED BY <1>1, <1>2, <2>1, <2>4, <2>6, <2>7 DEF TokensWith
<1>9. SpentInv'
  BY <1>1, <1>2, <1>8, AloneStays, InvOfOneNext DEF TokensWith
<1> QED BY <1>1, <1>7, <1>9 DEF CredInv

LEMMA CredBegins ==
  ASSUME Creds!Init
  PROVE  CredInv
<1>1. CredTypes
  <2>1. Creds!TypeOK
    BY CredentialsAssumption DEF Creds!Init, Creds!TypeOK, Creds!Gens, Creds!Steps
  <2>2. \A p \in Procs : PlaceOK(p) /\ next[p] \notin Holding
    BY CredentialsAssumption DEF Creds!Init, PlaceOK, Holding, Paired
  <2> QED BY <2>1, <2>2 DEF CredTypes, Overlaps, Holding, Creds!Init
<1>2. PairInv
  BY DEF Creds!Init, PairInv, PairOf, Agree, Paired, Saving, Creds!AuthSteps, Creds!RestoreSteps
<1>3. SpentInv
  BY ProfileIs DEF Creds!Init, SpentInv, TokenOf, Holding, Paired
<1> QED BY <1>1, <1>2, <1>3 DEF CredInv

LEMMA CredKeeps ==
  ASSUME CredInv, Creds!Next
  PROVE  CredInv'
<1>1. PICK p \in Procs : Creds!Process(p)
  BY DEF Creds!Next
<1>2. CASE Creds!Begin(p)
  BY <1>2, BeginKeeps
<1>3. CASE Creds!End(p)
  BY <1>3, EndKeeps
<1>4. CASE Creds!Load(p, "load", "active")
  BY <1>4, LoadKeeps, ProfileIs
<1>5. CASE Creds!Load(p, "again", "active")
  BY <1>5, LoadKeeps, ProfileIs
<1>6. CASE Creds!Load(p, "pload", name[p])
  <2>1. name[p] = Profile
    BY <1>6, Working DEF Creds!Load, Creds!Turn
  <2> QED BY <1>6, <2>1, LoadKeeps, ProfileIs
<1>7. CASE Creds!Read(p, "read", "active")
  BY <1>7, ReadKeeps, ProfileIs
<1>8. CASE Creds!Read(p, "pread", name[p])
  <2>1. name[p] = Profile
    BY <1>8, Working DEF Creds!Read, Creds!Turn
  <2> QED BY <1>8, <2>1, ReadKeeps, ProfileIs
<1>9. CASE Creds!SaveKube(p)
  BY <1>9, SaveKubeKeeps
<1>10. CASE Creds!SaveAuth(p)
  BY <1>10, SaveAuthKeeps
<1>11. CASE Creds!RestoreKube(p)
  BY <1>11, RestoreKeeps
<1>12. CASE Creds!Sync(p)
  BY <1>12, SyncKeeps
<1>13. CASE Creds!Mark(p) \/ Creds!Unmark(p) \/ Creds!UnmarkNamed(p)
  BY <1>13, MarkerKeeps
<1>14. CASE Creds!Delete(p) \/ Creds!ClearAuth(p) \/ Creds!ClearKube(p)
  BY <1>14, RemovalKeeps
<1>15. CASE Creds!Lock(p)
  BY <1>15, LockKeeps
<1>16. CASE Creds!Unlock(p)
  BY <1>16, UnlockKeeps
<1>17. CASE Creds!Renew(p)
  BY <1>17, RenewKeeps
<1>18. CASE Creds!Region(p)
  BY <1>18, RegionKeeps
<1>19. CASE Creds!Login(p)
  BY <1>19, LoginKeeps
<1>20. CASE Creds!Check(p)
  BY <1>20, CheckKeeps
<1>21. CASE Creds!Choose(p)
  BY <1>21, ChooseKeeps
<1>22. CASE Creds!ChooseNothing(p)
  BY <1>22, NothingKeeps
<1> QED BY <1>1, <1>2, <1>3, <1>4, <1>5, <1>6, <1>7, <1>8, <1>9, <1>10, <1>11, <1>12, <1>13,
           <1>14, <1>15, <1>16, <1>17, <1>18, <1>19, <1>20, <1>21, <1>22 DEF Creds!Process

LEMMA CredStays ==
  ASSUME CredInv, UNCHANGED credentialVars
  PROVE  CredInv'
<1>1. CredTypes'
  BY DEF CredInv, CredTypes, credentialVars, Creds!TypeOK, PlaceOK, Overlaps
<1>2. PairInv'
  BY DEF CredInv, PairInv, credentialVars, PairOf, Agree, Creds!Dir
<1>3. SpentInv'
  BY DEF CredInv, SpentInv, credentialVars, TokenOf, Apart, Replacing
<1> QED BY <1>1, <1>2, <1>3 DEF CredInv

\* Between commands nothing is being saved, so nothing is left to be replaced.
LEMMA CredUsable ==
  ASSUME CredInv
  PROVE  Creds!CredentialsUsable
<1>1. ASSUME Creds!Quiet
      PROVE  \A p \in Procs : next[p] = "end"
  BY <1>1 DEF CredInv, CredTypes, PlaceOK, Creds!Quiet, Creds!Idle
<1>2. Creds!PairAgrees
  <2> SUFFICES ASSUME Creds!Quiet, faults <= 1, NEW d \in Creds!Dirs
               PROVE  Agree(d)
    BY DEF Creds!PairAgrees, Agree
  <2>1. \A p \in Procs : next[p] \notin Saving
    BY <1>1 DEF Saving, Creds!AuthSteps, Creds!RestoreSteps
  <2> QED BY <2>1 DEF CredInv, PairInv
<1>3. Creds!NoneSpent
  <2> SUFFICES ASSUME faults = 0
               PROVE  /\ \A p \in Procs : Creds!Turn(p, "renew") => held[p].token \notin spent
                      /\ Creds!Quiet =>
                           \A d \in Creds!Dirs : auth[d] # None => auth[d].token \notin spent
    BY DEF Creds!NoneSpent
  <2>1. \A p \in Procs : Creds!Turn(p, "renew") => held[p].token \notin spent
    BY DEF CredInv, SpentInv, TokenOf, Holding, Creds!Turn
  <2>2. ASSUME Creds!Quiet, NEW d \in Creds!Dirs, auth[d] # None
        PROVE  auth[d].token \notin spent
    <3>1. ~Replacing(d)
      BY <1>1, <2>2 DEF Replacing
    <3> QED BY <2>2, <3>1 DEF CredInv, SpentInv
  <2> QED BY <2>1, <2>2
<1> QED BY <1>2, <1>3 DEF Creds!CredentialsUsable

LEMMA CredSteps ==
  ASSUME [PartsNext]_all
  PROVE  Creds!Next \/ UNCHANGED credentialVars
BY DEF PartsNext, all, credentialVars, LimiterRuns, TrafficRuns, CredentialsRun, KeyRuns,
       CommandLineRuns, ConsoleRuns, LinksRun, DomainRuns, ProjectRuns

\* The invariant of the credentials: where each command is and what it holds (CredTypes),
\* which kubeconfig can be put back (PairInv), and who is about to replace a token that
\* is spent (SpentInv).
THEOREM CredInvariance == PartsSpec => []CredInv
<1>1. PartsInit => CredInv
  BY CredBegins DEF PartsInit
<1>2. CredInv /\ [PartsNext]_all => CredInv'
  BY CredKeeps, CredStays, CredSteps
<1> QED BY <1>1, <1>2, PTL DEF PartsSpec

\* After any one failure auth.json and kubeconfig belong together, and without failures no
\* command keeps or presents a spent refresh token, however many renewals meet at the lock
\* (auth_refresh.go:97-161, config.go:238-271).
THEOREM CredentialsHold == PartsSpec => []CredentialsUsable
<1>1. CredInv => CredentialsUsable
  BY CredUsable DEF CredentialsUsable
<1> QED BY <1>1, CredInvariance, PTL
=============================================================================
