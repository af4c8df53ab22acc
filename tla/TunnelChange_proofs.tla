------------------------- MODULE TunnelChange_proofs -------------------------
(***************************************************************************)
(* Theorems of TunnelChange, for any tunnels, processes, commands and      *)
(* faults.  A step of a process changes only tunnels whose locks it holds, *)
(* before or after (Mine): Frame reduces the invariant to that process.    *)
(***************************************************************************)
EXTENDS TunnelChange, SequenceTheorems, FiniteSetTheorems, WellFoundedInduction, TLAPS

\* The inductive invariant of the proofs.  Where a process is, and what it has
\* with it: the items and entries are about tunnels that its command wants.
Undoing == {"restore", "restored", "resave", "remove", "forget"}
AboutThis(p) ==
  \/ run[p].pc \in {"lock", "find", "sync", "ensure", "clear", "ready", "save", "revert"}
  \/ At(p, "await") /\ ~Is(p, "apply")

PlaceOK(p) ==
  LET r == run[p] IN
  /\ r.pc = "idle" => r = Idle
  /\ r.pc \in {"lock", "find"} => r.sess = None
  /\ r.pc \notin {"idle", "over"} =>
       /\ r.cmd \in Commands
       /\ \A i \in DOMAIN r.todo : r.todo[i].tunnel \in Wants(p)
       /\ \A i \in DOMAIN r.done : r.done[i].tunnel \in Wants(p)
       /\ \A i \in DOMAIN r.undo : r.undo[i].tunnel \in Wants(p)
       /\ AboutThis(p) => r.todo # <<>>
       /\ Is(p, "apply") =>
            \A i \in DOMAIN r.todo : r.todo[i].policy # None /\ r.todo[i].domain # None
       /\ Is(p, "domain") => r.todo[1].policy = None /\ r.todo[1].domain # None
       /\ r.pc \in {"clear", "daemon"} \cup Undoing => Is(p, "apply")
       /\ r.pc = "revert" => Is(p, "domain")
       /\ r.pc \in {"ensure", "clear", "ready", "save"} => r.key \in Secrets
       /\ r.pc \in {"ensure", "ready", "save", "await", "revert"} /\ ~Is(p, "apply")
            => r.sess # None
       /\ r.pc \in Undoing =>
            /\ r.undo # <<>>
            /\ r.pc \in {"remove", "forget"} <=> Entry(p).previous = None

\* Who holds which locks; those that wait hold what comes before what they wait for.
LocksOK(p) ==
  /\ run[p].pc \in {"idle", "over"} => Holds(p) = {}
  /\ At(p, "lock") =>
       /\ Holds(p) \subseteq Wants(p)
       /\ \A t \in Holds(p), u \in Wants(p) \ Holds(p) : t < u
  /\ run[p].pc \notin {"idle", "over", "lock"} => Holds(p) = Wants(p)

\* How far record and cluster of a tunnel are apart while a command is at work on it.
Changed(p) == remote[This(p)] # None /\ Same(Asked(p), remote[This(p)])
Copied(p) == record[This(p)] # None /\ Same(record[This(p)], run[p].sess)

\* The tunnel it is changing, or those it has still to undo.
UnderChange(p) ==
  IF run[p].pc \in {"ensure", "clear", "ready", "save", "revert"} THEN {This(p)}
  ELSE IF run[p].pc \in Undoing
    THEN {run[p].undo[i].tunnel : i \in DOMAIN run[p].undo} ELSE {}

RestOK(p) == \A t \in Holds(p) \ UnderChange(p) : Sound(t)

BeforeOK(p) ==
  LET r == run[p] IN
  /\ r.pc = "sync" => record[This(p)] # None
  /\ r.pc = "ensure" =>
       /\ Sound(This(p))
       /\ r.sess = None => record[This(p)] = None
       /\ r.sess # None =>
            /\ Copied(p)
            /\ remote[This(p)] # None => Same(r.sess, remote[This(p)])
            /\ Is(p, "domain") => r.key = r.sess.secret

AfterOK(p) ==
  LET r == run[p] IN
  /\ r.pc \in {"clear", "save"} \/ (r.pc = "ready" /\ Is(p, "apply")) => Changed(p)
  /\ r.pc = "save" /\ Is(p, "domain") => Copied(p) /\ r.key = r.sess.secret
  /\ r.pc = "ready" /\ ~Is(p, "apply") => Sound(This(p))
  /\ r.pc = "revert" =>
       /\ flaws[This(p)] # {} /\ Copied(p)
       /\ remote[This(p)] # None
       /\ remote[This(p)].secret = r.sess.secret /\ remote[This(p)].policy = r.sess.policy

\* The cluster has what the entry that is being undone says.
PutBack(p) ==
  remote[Entry(p).tunnel] # None /\ Same(Entry(p).previous, remote[Entry(p).tunnel])

UndoOK(p) ==
  LET t == Entry(p).tunnel IN
  /\ At(p, "forget") => remote[t] = None \/ "undo" \in flaws[t]
  /\ At(p, "restored") => PutBack(p)
  /\ At(p, "resave") => PutBack(p) \/ "undo" \in flaws[t]

AtWork(p) == RestOK(p) /\ BeforeOK(p) /\ AfterOK(p) /\ UndoOK(p)

\* The lists of an apply: each tunnel of the file is still to do or done, once, and
\* those still to be undone come first in the list of those that are done.
ListsOK(p) ==
  LET r == run[p] IN
  r.pc \notin {"idle", "over"} =>
    /\ r.pc = "lock" => r.done = <<>>
    /\ ~Is(p, "apply") /\ AboutThis(p) => Wants(p) = {This(p)}
    /\ \A i, j \in DOMAIN r.done : i # j => r.done[i].tunnel # r.done[j].tunnel
    /\ r.pc \notin Undoing =>
         /\ NamesDiffer(r.todo)
         /\ \A i \in DOMAIN r.done, j \in DOMAIN r.todo : r.done[i].tunnel # r.todo[j].tunnel
         /\ \A t \in Wants(p) : \/ \E i \in DOMAIN r.done : t = r.done[i].tunnel
                               \/ \E i \in DOMAIN r.todo : t = r.todo[i].tunnel
    /\ r.pc \in {"daemon", "await"} /\ Is(p, "apply") => r.todo = <<>>
    /\ r.pc \in Undoing =>
         \A i \in DOMAIN r.undo : i \in DOMAIN r.done /\ r.undo[i] = r.done[i]

\* What was undone is as it was before the apply, unless that failed.
AsBefore(t, r) ==
  IF r = None THEN record[t] = None /\ remote[t] = None
  ELSE record[t] # None /\ Same(record[t], r) /\ Same(remote[t], r)

Back(e) == "undo" \in flaws[e.tunnel] \/ AsBefore(e.tunnel, e.previous)
UndoneOK(p) ==
  run[p].pc \in Undoing =>
    \A i \in DOMAIN run[p].done \ DOMAIN run[p].undo : Back(run[p].done[i])

\* What was done is served: the cluster has what the record says, a server was started
\* for it, and the record says connected only if the daemon has said so since.
Started(t) == pod[t] # None /\ pod[t].of = remote[t].digest
Served(t) ==
  /\ record[t] # None /\ remote[t] # None /\ Same(record[t], remote[t])
  /\ remote[t].up /\ Started(t)
News(t) == record[t].state = "connected" => record[t].fresh

ServedOK(p) ==
  LET r == run[p] IN
  /\ r.pc \in {"clear", "ready"} \/ (r.pc = "save" /\ ~Is(p, "domain")) => remote[This(p)].up
  /\ r.pc = "save" /\ Is(p, "apply") => Started(This(p))
  /\ r.pc = "ready" /\ ~Is(p, "apply") => Agree(This(p))
  /\ r.pc = "await" /\ ~Is(p, "apply") => Served(This(p))
  /\ r.pc \notin {"idle", "over"} \cup Undoing /\ Is(p, "apply") =>
       \A i \in DOMAIN r.done : Served(r.done[i].tunnel) /\ News(r.done[i].tunnel)

\* The records that a process keeps, to write them back, confirm nothing.
CopiesOK(p) ==
  LET r == run[p] IN
  /\ r.pc \notin {"idle", "over", "sync"} \cup Undoing /\ r.sess # None => ~r.sess.fresh
  /\ r.pc \notin {"idle", "over"} =>
       /\ \A i \in DOMAIN r.done : r.done[i].previous # None => ~r.done[i].previous.fresh
       /\ \A i \in DOMAIN r.undo : r.undo[i].previous # None => ~r.undo[i].previous.fresh

\* Who only dials has not said that it is connected.
DialOK(t) ==
  worker[t] # None /\ worker[t].phase = "dial" /\ record[t] # None
    /\ record[t].state = "connected" => ~record[t].fresh

\* Where Secret and Deployment never differed, a server has what it was started for.
AlignedOK(t) ==
  \/ t \in skewed
  \/ /\ remote[t] # None => remote[t].digest = Config(remote[t])
     /\ pod[t] # None => pod[t].runs = pod[t].of

AInv == \A t \in Tunnels : AlignedOK(t)
UInv == \A p \in Procs : ListsOK(p) /\ UndoneOK(p)
VInv == (\A p \in Procs : ServedOK(p) /\ CopiesOK(p)) /\ (\A t \in Tunnels : DialOK(t))

IInv ==
  /\ TypeOK /\ RecordAgrees
  /\ \A p \in Procs : PlaceOK(p) /\ LocksOK(p) /\ AtWork(p)
-----------------------------------------------------------------------------
(* Numbers, and the order of the locks. *)

\* A set of numbers that is not empty has a least one: {0..n : n \in S} has a
\* least set, strict inclusion of finite sets being well-founded.
LEMMA Smallest ==
  ASSUME NEW S, S \subseteq Nat, S # {}
  PROVE  \E n \in S : \A m \in S : n <= m
<1> DEFINE F == {0..n : n \in S}
<1>1. F \subseteq FiniteSubsetsOf(Nat)
  <2> SUFFICES ASSUME NEW n \in S PROVE 0..n \in FiniteSubsetsOf(Nat)
    OBVIOUS
  <2> QED BY FS_Interval DEF FiniteSubsetsOf
<1>2. F # {}
  OBVIOUS
<1> HIDE DEF F
<1>3. PICK X \in F : \A Y \in F : <<Y, X>> \notin StrictSubsetOrdering(Nat)
  BY <1>1, <1>2, FS_StrictSubsetOrderingWellFounded, WFMin
<1>4. PICK n \in S : X = 0..n
  BY DEF F
<1>5. ASSUME NEW m \in S, m < n PROVE FALSE
  <2>1. 0..m \in F
    BY DEF F
  <2>2. 0..m \subseteq 0..n /\ n \in 0..n /\ n \notin 0..m /\ 0..n \subseteq Nat
    BY <1>5
  <2>3. <<0..m, 0..n>> \in StrictSubsetOrdering(Nat)
    BY <2>2, Zenon DEF StrictSubsetOrdering
  <2> QED BY <1>3, <1>4, <2>1, <2>3
<1> QED BY <1>5

LEMMA LowestLeast ==
  ASSUME NEW S, S \subseteq Nat, S # {}
  PROVE  Lowest(S) \in S /\ \A m \in S : Lowest(S) <= m
BY Smallest DEF Lowest

\* The tunnels of a command are tunnels, and the next lock is the first it lacks.
LEMMA WantsTunnels ==
  ASSUME NEW p \in Procs, run[p].cmd \in Commands
  PROVE  Wants(p) \subseteq Tunnels
<1> DEFINE items == run[p].cmd.items
<1>1. items \in Seq(Items)
  BY CommandsAssumption
<1>2. \A i \in DOMAIN items : items[i] \in Items
  BY <1>1
<1> QED BY <1>2 DEF Wants, Items

LEMMA NextLockFirst ==
  ASSUME NEW p \in Procs, run[p].cmd \in Commands,
         Holds(p) \subseteq Wants(p), Wants(p) # Holds(p)
  PROVE  /\ NextLock(p) \in Wants(p) \ Holds(p) /\ NextLock(p) \in Tunnels
         /\ \A u \in Wants(p) \ Holds(p) : NextLock(p) <= u
<1>1. Wants(p) \ Holds(p) \subseteq Nat /\ Wants(p) \ Holds(p) # {}
  BY WantsTunnels, TunnelsAssumption
<1>2. NextLock(p) \in Wants(p) \ Holds(p)
  BY <1>1, LowestLeast DEF NextLock
<1>3. \A u \in Wants(p) \ Holds(p) : NextLock(p) <= u
  BY <1>1, LowestLeast DEF NextLock
<1> QED BY <1>2, <1>3, WantsTunnels

\* A function from a finite set to the numbers has a greatest value.
LEMMA Greatest ==
  ASSUME NEW S, S # {}, IsFiniteSet(S), NEW f \in [S -> Nat]
  PROVE  \E x \in S : \A y \in S : f[y] <= f[x]
<1> DEFINE F == {{y \in S : f[x] < f[y]} : x \in S}
<1>1. F \subseteq FiniteSubsetsOf(S)
  <2> SUFFICES ASSUME NEW x \in S PROVE {y \in S : f[x] < f[y]} \in FiniteSubsetsOf(S)
    OBVIOUS
  <2> QED BY FS_Subset DEF FiniteSubsetsOf
<1>2. F # {}
  <2>1. PICK x : x \in S
    OBVIOUS
  <2>2. {y \in S : f[x] < f[y]} \in F
    BY <2>1
  <2> QED BY <2>2
<1> HIDE DEF F
<1>3. PICK X \in F : \A Y \in F : <<Y, X>> \notin StrictSubsetOrdering(S)
  BY <1>1, <1>2, FS_StrictSubsetOrderingWellFounded, WFMin
<1>4. PICK x \in S : X = {y \in S : f[x] < f[y]}
  BY DEF F
<1>5. ASSUME NEW z \in S, f[x] < f[z] PROVE FALSE
  <2> DEFINE Z == {y \in S : f[z] < f[y]}
  <2>1. Z \in F
    BY DEF F
  <2>2. f[x] \in Nat /\ f[z] \in Nat /\ \A y \in S : f[y] \in Nat
    BY <1>4, <1>5
  <2>3. Z \subseteq X /\ z \in X /\ z \notin Z /\ X \subseteq S
    BY <1>4, <1>5, <2>2
  <2> HIDE DEF Z
  <2>4. <<Z, X>> \in StrictSubsetOrdering(S)
    BY <2>3, Zenon DEF StrictSubsetOrdering
  <2> QED BY <1>3, <2>1, <2>4
<1> QED
  <2>1. \A y \in S : ~(f[x] < f[y])
    BY <1>5
  <2> QED BY <2>1

\* NoWaitCycle from the order of the locks: of those that wait, one waits for the
\* greatest lock, and who holds that waits for none greater.
LEMMA Ordered == IInv => NoWaitCycle
<1> SUFFICES ASSUME IInv, NEW D \in (SUBSET Procs) \ {{}},
                    \A p \in D : Waits(p) /\ lock[NextLock(p)] \in D
             PROVE  FALSE
  BY DEF NoWaitCycle
<1> DEFINE next == [p \in D |-> NextLock(p)]
<1>1. ASSUME NEW p \in D
      PROVE  /\ LocksOK(p) /\ NextLock(p) \in Wants(p) \ Holds(p)
             /\ NextLock(p) \in Tunnels /\ NextLock(p) \in Nat
  <2>1. p \in Procs /\ LocksOK(p) /\ run[p].cmd \in Commands /\ Waits(p)
    BY DEF IInv, PlaceOK, At, Waits
  <2> QED BY <2>1, NextLockFirst, TunnelsAssumption DEF LocksOK, Waits
<1>2. IsFiniteSet(D) /\ D # {} /\ next \in [D -> Nat]
  <2>1. IsFiniteSet(D)
    BY ProcsAssumption, FS_Subset
  <2>2. next \in [D -> Nat]
    BY <1>1
  <2>3. D # {}
    OBVIOUS
  <2> HIDE DEF next
  <2> QED BY <2>1, <2>2, <2>3
<1>3. PICK p \in D : \A q \in D : next[q] <= next[p]
  BY <1>2, Greatest
<1>4. PICK q \in D : lock[NextLock(p)] = q
  OBVIOUS
<1>5. NextLock(p) < NextLock(q)
  BY <1>1, <1>4 DEF LocksOK, Holds, Waits
<1>6. NextLock(q) <= NextLock(p) /\ NextLock(p) \in Nat /\ NextLock(q) \in Nat
  BY <1>1, <1>3
<1> QED BY <1>5, <1>6
-----------------------------------------------------------------------------
(* What a step of one process leaves as it is. *)

\* p changes nothing but tunnels that it holds.
Mine(p) ==
  \A t \in Tunnels \ Holds(p) :
    record'[t] = record[t] /\ remote'[t] = remote[t] /\ flaws'[t] = flaws[t]

\* Where a process works, the tunnels it speaks of are tunnels, and are its own.
LEMMA Own ==
  ASSUME TypeOK, NEW p \in Procs, PlaceOK(p), LocksOK(p),
         run[p].pc \notin {"idle", "over", "lock"}
  PROVE  /\ Holds(p) = Wants(p) /\ Holds(p) \subseteq Tunnels
         /\ AboutThis(p) =>
              /\ run[p].todo # <<>> /\ Item(p) = run[p].todo[1] /\ Item(p) \in Items
              /\ This(p) \in Holds(p)
         /\ run[p].pc \in Undoing =>
              /\ run[p].undo # <<>> /\ Len(run[p].undo) \in DOMAIN run[p].undo
              /\ Entry(p) \in Entries /\ Entry(p).tunnel \in Holds(p)
<1> DEFINE r == run[p]
<1>1. r \in Runs
  BY DEF TypeOK
<1>2. Holds(p) = Wants(p)
  BY DEF LocksOK
<1>3. ASSUME AboutThis(p)
      PROVE  /\ r.todo # <<>> /\ Item(p) = r.todo[1] /\ Item(p) \in Items
             /\ This(p) \in Holds(p)
  <2>1. r.todo # <<>> /\ r.todo \in Seq(Items)
    BY <1>1, <1>3 DEF PlaceOK, Runs
  <2>2. 1 \in DOMAIN r.todo /\ Item(p) = r.todo[1]
    BY <2>1 DEF Item
  <2> QED BY <1>2, <2>1, <2>2 DEF PlaceOK, This
<1>4. ASSUME r.pc \in Undoing
      PROVE  /\ r.undo # <<>> /\ Len(r.undo) \in DOMAIN r.undo
             /\ Entry(p) \in Entries /\ Entry(p).tunnel \in Holds(p)
  <2>1. r.undo # <<>> /\ r.undo \in Seq(Entries)
    BY <1>1, <1>4 DEF PlaceOK, Runs
  <2>2. Len(r.undo) \in DOMAIN r.undo
    BY <2>1
  <2> QED BY <1>2, <2>1, <2>2 DEF PlaceOK, Entry
<1> QED BY <1>2, <1>3, <1>4 DEF Holds

\* Who is not touched stays where he may be.
LEMMA Others ==
  ASSUME TypeOK, NEW q \in Procs, PlaceOK(q), LocksOK(q), AtWork(q),
         run'[q] = run[q], Holds(q)' = Holds(q),
         \A t \in Holds(q) :
           record'[t] = record[t] /\ remote'[t] = remote[t] /\ flaws'[t] = flaws[t]
  PROVE  PlaceOK(q)' /\ LocksOK(q)' /\ AtWork(q)'
<1> USE DEF At, Is
<1>1. /\ Wants(q)' = Wants(q) /\ Item(q)' = Item(q) /\ This(q)' = This(q)
      /\ Asked(q)' = Asked(q) /\ Entry(q)' = Entry(q) /\ AboutThis(q)' = AboutThis(q)
  BY DEF Wants, Item, This, Asked, Entry, AboutThis
<1>2. PlaceOK(q)'
  BY <1>1 DEF PlaceOK
<1>3. LocksOK(q)'
  BY <1>1 DEF LocksOK
<1>4. \A t \in Holds(q) : Sound(t)' <=> Sound(t)
  BY DEF Sound, Agree
<1>5. RestOK(q)'
  <2>1. UnderChange(q)' = UnderChange(q)
    BY <1>1 DEF UnderChange
  <2> QED BY <1>4, <2>1 DEF AtWork, RestOK
<1>6. BeforeOK(q)' /\ AfterOK(q)'
  <2>1. CASE run[q].pc \in {"sync", "ensure", "clear", "ready", "save", "revert"}
    <3>1. This(q) \in Holds(q)
      BY <2>1, Own DEF AboutThis
    <3>2. Changed(q)' = Changed(q) /\ Copied(q)' = Copied(q)
      BY <1>1, <3>1 DEF Changed, Copied
    <3> QED BY <1>1, <1>4, <3>1, <3>2 DEF AtWork, BeforeOK, AfterOK
  <2>2. CASE run[q].pc \notin {"sync", "ensure", "clear", "ready", "save", "revert"}
    BY <2>2 DEF BeforeOK, AfterOK
  <2> QED BY <2>1, <2>2
<1>7. UndoOK(q)'
  <2>1. CASE run[q].pc \in Undoing
    <3>1. Entry(q).tunnel \in Holds(q)
      BY <2>1, Own DEF Undoing
    <3> QED BY <1>1, <3>1 DEF AtWork, UndoOK, PutBack
  <2>2. CASE run[q].pc \notin Undoing
    BY <2>2 DEF UndoOK, Undoing
  <2> QED BY <2>1, <2>2
<1> QED BY <1>2, <1>3, <1>5, <1>6, <1>7 DEF AtWork

\* Everything but the processes and their locks.
WorldOK ==
  /\ record \in [Tunnels -> Records \cup {None}]
  /\ remote \in [Tunnels -> Remotes \cup {None}]
  /\ pod \in [Tunnels -> Pods \cup {None}]
  /\ skewed \subseteq Tunnels
  /\ worker \in [Tunnels -> Workers \cup {None}]
  /\ faults \in 0..MaxFaults
  /\ flaws \in [Tunnels -> SUBSET {"partial", "lost", "save", "undo", "crash"}]

LEMMA IdleRuns == Idle \in Runs
<1>1. << >> \in Seq(Items) /\ << >> \in Seq(Entries)
  OBVIOUS
<1>2. "idle" \in Places
  BY DEF Places
<1> QED BY <1>1, <1>2 DEF Idle, Runs

\* A step of p keeps the invariant if it does at p.
LEMMA Frame ==
  ASSUME IInv, NEW p \in Procs, TypeOK', Mine(p),
         \A q \in Procs \ {p} : run'[q] = run[q],
         \A t \in Tunnels :
           \/ lock'[t] = lock[t]
           \/ lock[t] = p /\ lock'[t] = None /\ Sound(t)'
           \/ lock[t] = None /\ lock'[t] = p,
         PlaceOK(p)', LocksOK(p)', AtWork(p)'
  PROVE  IInv'
<1>1. p # None
  BY SentinelAssumption
<1>2. RecordAgrees'
  <2> SUFFICES ASSUME NEW t \in Tunnels, lock'[t] = None PROVE Sound(t)'
    BY DEF RecordAgrees
  <2>1. CASE lock[t] = None
    <3>1. t \notin Holds(p)
      BY <1>1, <2>1 DEF Holds
    <3> QED BY <2>1, <3>1 DEF IInv, RecordAgrees, Mine, Sound, Agree
  <2>2. CASE lock[t] # None
    BY <1>1, <2>2
  <2> QED BY <2>1, <2>2
<1>3. ASSUME NEW q \in Procs, q # p
      PROVE  PlaceOK(q)' /\ LocksOK(q)' /\ AtWork(q)'
  <2>1. q # None
    BY SentinelAssumption
  <2>2. Holds(q)' = Holds(q)
    BY <1>1, <1>3, <2>1 DEF Holds
  <2>3. \A t \in Holds(q) : t \in Tunnels \ Holds(p)
    BY <1>3 DEF Holds
  <2> QED BY <1>3, <2>2, <2>3, Others DEF IInv, Mine
<1> QED BY <1>2, <1>3 DEF IInv

\* p goes on.
LEMMA GoesOn ==
  ASSUME IInv, NEW p \in Procs, WorldOK', NEW r \in Runs, Become(p, r), Mine(p),
         Holds(p) = Wants(p), r.cmd = run[p].cmd, r.pc \notin {"idle", "over", "lock"},
         PlaceOK(p)', AtWork(p)'
  PROVE  IInv'
<1>1. run' = [run EXCEPT ![p] = r] /\ lock' = lock /\ result' = result
  BY DEF Become
<1>2. TypeOK /\ TypeOK'
  BY <1>1 DEF IInv, TypeOK, WorldOK
<1>3. run'[p] = r /\ \A q \in Procs \ {p} : run'[q] = run[q]
  BY <1>1, <1>2 DEF TypeOK
<1>4. Holds(p)' = Holds(p) /\ Wants(p)' = Wants(p)
  BY <1>1, <1>3 DEF Holds, Wants
<1>5. LocksOK(p)'
  BY <1>3, <1>4 DEF LocksOK, At
<1> QED BY <1>1, <1>2, <1>3, <1>5, Frame

\* p ends, and gives back tunnels that are in order.
LEMMA GivesUp ==
  ASSUME IInv, NEW p \in Procs, WorldOK', NEW res \in {"none", "ok", "error", "committed"},
         End(p, res), Mine(p), \A t \in Holds(p) : Sound(t)'
  PROVE  IInv'
<1>1. /\ run' = [run EXCEPT ![p] = [Idle EXCEPT !.pc = "over"]]
      /\ lock' = [t \in Tunnels |-> IF lock[t] = p THEN None ELSE lock[t]] /\ result' = res
  BY DEF End
<1>2. [Idle EXCEPT !.pc = "over"] \in Runs
  <2>1. Idle \in Runs
    BY IdleRuns
  <2> QED BY <2>1 DEF Runs, Places
<1>3. TypeOK /\ TypeOK'
  BY <1>1, <1>2 DEF IInv, TypeOK, WorldOK
<1>4. run'[p].pc = "over" /\ \A q \in Procs \ {p} : run'[q] = run[q]
  BY <1>1, <1>3 DEF TypeOK, Idle
<1>5. p # None
  BY SentinelAssumption
<1>6. Holds(p)' = {}
  BY <1>1, <1>5 DEF Holds
<1>7. PlaceOK(p)' /\ LocksOK(p)' /\ AtWork(p)'
  BY <1>4, <1>6
  DEF PlaceOK, LocksOK, AtWork, RestOK, BeforeOK, AfterOK, UndoOK, At
<1>8. \A t \in Tunnels :
        \/ lock'[t] = lock[t]
        \/ lock[t] = p /\ lock'[t] = None /\ Sound(t)'
  BY <1>1 DEF Holds
<1> QED BY <1>3, <1>4, <1>7, <1>8, Frame

\* An apply begins to undo these tunnels; the others are in order.
LEMMA Undoes ==
  ASSUME IInv, NEW p \in Procs, WorldOK', NEW entries \in Seq(Entries),
         Undone(p, entries), run[p].pc \notin {"idle", "over"},
         Is(p, "apply"), Holds(p) = Wants(p), Mine(p),
         \A i \in DOMAIN entries : entries[i].tunnel \in Wants(p),
         \A t \in Holds(p) : t \in {entries[i].tunnel : i \in DOMAIN entries} \/ Sound(t)'
  PROVE  IInv'
<1>1. CASE entries = <<>>
  BY <1>1, GivesUp DEF Undone
<1>2. CASE entries # <<>>
  <2> DEFINE last == entries[Len(entries)]
             r == [run[p] EXCEPT !.done = entries, !.undo = entries,
                     !.pc = IF last.previous = None THEN "remove" ELSE "restore"]
  <2>1. Become(p, r)
    BY <1>2 DEF Undone
  <2>2. TypeOK /\ run[p] \in Runs
    BY DEF IInv, TypeOK
  <2>3. r \in Runs
    BY <2>2 DEF Runs, Places
  <2>4. run'[p] = r
    BY <2>1, <2>2 DEF Become, TypeOK
  <2>5. /\ run'[p].cmd = run[p].cmd /\ run'[p].todo = run[p].todo
        /\ run'[p].done = entries /\ run'[p].undo = entries
        /\ run'[p].pc = IF last.previous = None THEN "remove" ELSE "restore"
    BY <2>2, <2>4 DEF Runs
  <2>6. Wants(p)' = Wants(p) /\ Is(p, "apply")' /\ Entry(p)' = last
    BY <2>5 DEF Wants, Is, Entry
  <2>7. PlaceOK(p)'
    <3>1. PlaceOK(p)
      BY DEF IInv
    <3>2. ~AboutThis(p)'
      BY <2>5 DEF AboutThis, At
    <3>3. ~Is(p, "domain")' /\ ~Is(p, "domain")
      BY <2>6 DEF Is
    <3> QED BY <1>2, <2>5, <2>6, <3>1, <3>2, <3>3 DEF PlaceOK, Undoing, Is
  <2>8. AtWork(p)'
    <3>1. UnderChange(p)' = {entries[i].tunnel : i \in DOMAIN entries}
      BY <2>5 DEF UnderChange, Undoing
    <3>2. Holds(p)' = Holds(p)
      BY <2>1 DEF Become, Holds
    <3>3. RestOK(p)'
      BY <3>1, <3>2 DEF RestOK
    <3>4. BeforeOK(p)' /\ AfterOK(p)' /\ UndoOK(p)'
      BY <2>5 DEF BeforeOK, AfterOK, UndoOK, At
    <3> QED BY <3>3, <3>4 DEF AtWork
  <2>9. r.cmd = run[p].cmd /\ r.pc \notin {"idle", "over", "lock"}
    BY <2>4, <2>5
  <2> HIDE DEF r
  <2> QED BY <2>1, <2>3, <2>7, <2>8, <2>9, GoesOn
<1> QED BY <1>1, <1>2

-----------------------------------------------------------------------------
(* The steps of a process. *)

LEMMA ObjectsTyped ==
  ASSUME NEW c \in Configs, NEW d \in Domains \cup {NoDomain}
  PROVE  /\ Objects(c, d) \in Remotes /\ Objects(c, d).up = TRUE /\ Objects(c, d).domain = d
         /\ Objects(c, d).secret = c.secret /\ Objects(c, d).policy = c.policy
         /\ Objects(c, d).digest = c
<1>1. c.secret \in Secrets /\ c.policy \in Policies /\ TRUE \in BOOLEAN
  BY DEF Configs
<1> QED BY <1>1 DEF Objects, Remotes

LEMMA ConfigTyped ==
  ASSUME NEW r, r \in Records \/ r \in Remotes
  PROVE  Config(r) \in Configs /\ Config(r).secret = r.secret /\ Config(r).policy = r.policy
BY DEF Config, Configs, Records, Remotes

\* A tunnel at the start.
LEMMA InitObjects ==
  ASSUME NEW r \in Records, NEW up \in BOOLEAN
  PROVE  LET m == [Objects(Config(r), r.domain) EXCEPT !.up = up] IN
         m \in Remotes /\ m # None /\ Same(r, m) /\ m.up = up /\ m.digest = Config(r)
                      /\ Config(m) = Config(r)
<1> DEFINE o == Objects(Config(r), r.domain)
           m == [o EXCEPT !.up = up]
<1>1. Config(r) \in Configs /\ Config(r).secret = r.secret /\ Config(r).policy = r.policy
  BY ConfigTyped
<1>2. r.domain \in Domains \cup {NoDomain}
  BY DEF Records
<1>3. /\ o \in Remotes /\ o.secret = r.secret /\ o.policy = r.policy /\ o.domain = r.domain
      /\ o.digest = Config(r)
  BY <1>1, <1>2, ObjectsTyped
<1> HIDE DEF o
<1>4. /\ m \in Remotes /\ m.secret = r.secret /\ m.policy = r.policy /\ m.domain = r.domain
      /\ m.digest = Config(r) /\ m.up = up
  BY <1>3 DEF Remotes
<1> HIDE DEF m
<1>5. m # None /\ Same(r, m) /\ Config(m) = Config(r)
  BY <1>4, SentinelAssumption DEF Same, Config
<1> QED BY <1>4, <1>5 DEF m, o

LEMMA InitInv == Init => IInv
<1> SUFFICES ASSUME Init PROVE IInv
  OBVIOUS
<1>1. record \in [Tunnels -> Records \cup {None}]
  <2>1. [secret : Secrets, policy : Policies, domain : {NoDomain},
         state : {"connected", "stopped"}, fresh : {FALSE}] \subseteq Records
    BY DEF Records, States
  <2> QED BY <2>1 DEF Init
<1>2. \A t \in Tunnels : record[t] = None \/ record[t] \in Records
  BY <1>1
<1> DEFINE Up(t) == record[t].state = "connected"
<1>3. remote \in [Tunnels -> Remotes \cup {None}]
  <2>1. ASSUME NEW t \in Tunnels, record[t] # None
        PROVE  [Objects(Config(record[t]), record[t].domain) EXCEPT !.up = Up(t)] \in Remotes
    <3>1. record[t] \in Records /\ Up(t) \in BOOLEAN
      BY <1>2, <2>1
    <3> QED BY <3>1, InitObjects
  <2> QED BY <2>1 DEF Init
<1>4. pod \in [Tunnels -> Pods \cup {None}] /\ skewed \subseteq Tunnels
  <2>1. ASSUME NEW t \in Tunnels, record[t] # None
        PROVE  [of |-> Config(record[t]), runs |-> Config(record[t])] \in Pods
    <3>1. Config(record[t]) \in Configs
      BY <1>2, <2>1, ConfigTyped
    <3> QED BY <3>1 DEF Pods
  <2> QED BY <2>1 DEF Init
<1>5. worker \in [Tunnels -> Workers \cup {None}]
  <2>1. ASSUME NEW q \in Pods
        PROVE  [print |-> q.runs, key |-> q.runs.secret, phase |-> "serve", live |-> TRUE]
                 \in Workers
    <3>1. q.runs \in Configs /\ q.runs.secret \in Secrets /\ TRUE \in BOOLEAN
      BY DEF Pods, Configs
    <3> QED BY <3>1 DEF Workers
  <2>2. \A t \in Tunnels : pod[t] = None \/ pod[t] \in Pods
    BY <1>4
  <2> QED BY <2>1, <2>2 DEF Init
<1>6. TypeOK
  BY <1>1, <1>3, <1>4, <1>5, IdleRuns, BoundAssumption DEF Init, TypeOK
<1>7. RecordAgrees
  <2> SUFFICES ASSUME NEW t \in Tunnels PROVE Agree(t)
    BY DEF RecordAgrees, Sound
  <2>1. CASE record[t] = None
    BY <2>1 DEF Init, Agree
  <2>2. CASE record[t] # None
    <3>1. remote[t] = [Objects(Config(record[t]), record[t].domain) EXCEPT !.up = Up(t)]
      BY <2>2 DEF Init
    <3>2. record[t] \in Records /\ Up(t) \in BOOLEAN
      BY <1>2, <2>2
    <3> QED BY <2>2, <3>1, <3>2, InitObjects DEF Agree
  <2> QED BY <2>1, <2>2
<1>8. ASSUME NEW p \in Procs PROVE PlaceOK(p) /\ LocksOK(p) /\ AtWork(p)
  <2>1. run[p] = Idle /\ run[p].pc = "idle"
    BY DEF Init, Idle
  <2>2. Holds(p) = {}
    BY SentinelAssumption DEF Init, Holds
  <2> QED BY <2>1, <2>2
    DEF PlaceOK, LocksOK, AtWork, RestOK, BeforeOK, AfterOK, UndoOK, At
<1> QED BY <1>6, <1>7, <1>8 DEF IInv

LEMMA BeginKeeps ==
  ASSUME IInv, NEW p \in Procs, NEW c \in Commands, Begin(p, c)
  PROVE  IInv'
<1> DEFINE r == [run[p] EXCEPT !.pc = "lock", !.cmd = c, !.todo = c.items]
<1>1. TypeOK /\ run[p] \in Runs /\ run[p].pc = "idle" /\ LocksOK(p)
  BY DEF IInv, TypeOK, Begin, At
<1>2. c.items \in Seq(Items) /\ c.items # <<>>
  BY CommandsAssumption
<1>3. r \in Runs
  BY <1>1, <1>2 DEF Runs, Places
<1>4. run' = [run EXCEPT ![p] = r]
  <2>1. run' = [run EXCEPT ![p].pc = "lock", ![p].cmd = c, ![p].todo = c.items]
    BY DEF Begin
  <2> QED BY <1>1, <2>1 DEF TypeOK
<1>5. /\ record' = record /\ remote' = remote /\ pod' = pod /\ skewed' = skewed
      /\ worker' = worker
      /\ lock' = lock /\ faults' = faults /\ flaws' = flaws /\ result' = "none"
  BY DEF Begin, cluster, trouble
<1>6. TypeOK'
  BY <1>1, <1>3, <1>4, <1>5 DEF TypeOK
<1>7. run'[p] = r /\ \A q \in Procs \ {p} : run'[q] = run[q]
  BY <1>1, <1>4 DEF TypeOK
<1>8. /\ run'[p].pc = "lock" /\ run'[p].cmd = c /\ run'[p].todo = c.items
      /\ run'[p].done = run[p].done /\ run'[p].undo = run[p].undo
  BY <1>1, <1>7 DEF Runs
<1>9. Holds(p)' = {}
  BY <1>1, <1>5 DEF Holds, LocksOK
<1>10. LocksOK(p)'
  BY <1>8, <1>9 DEF LocksOK, At
<1>11. AtWork(p)'
  BY <1>8, <1>9 DEF AtWork, RestOK, BeforeOK, AfterOK, UndoOK, At
<1>12. PlaceOK(p)'
  <2>1. \A i \in DOMAIN c.items : c.items[i].tunnel \in Wants(p)'
    BY <1>8 DEF Wants
  <2>2. run[p] = Idle
    BY <1>1 DEF IInv, PlaceOK
  <2>3. run'[p].done = <<>> /\ run'[p].undo = <<>> /\ run'[p].sess = None
    BY <1>7, <2>2 DEF Idle
  <2> QED BY <1>2, <1>8, <2>1, <2>3, CommandsAssumption DEF PlaceOK, Is, Undoing
<1>13. Mine(p)
  BY <1>5 DEF Mine
<1> QED BY <1>5, <1>6, <1>7, <1>10, <1>11, <1>12, <1>13, Frame

LEMMA TakeLockKeeps ==
  ASSUME IInv, NEW p \in Procs, TakeLock(p)
  PROVE  IInv'
<1> DEFINE n == NextLock(p)
<1>1. TypeOK /\ PlaceOK(p) /\ LocksOK(p) /\ AtWork(p) /\ RecordAgrees
  BY DEF IInv
<1>2. /\ run[p].pc = "lock" /\ Wants(p) # Holds(p)
      /\ lock[n] = None /\ lock' = [lock EXCEPT ![n] = p]
      /\ record' = record /\ remote' = remote /\ pod' = pod /\ skewed' = skewed
      /\ worker' = worker
      /\ run' = run /\ faults' = faults /\ flaws' = flaws /\ result' = result
  BY DEF TakeLock, Waits, At, cluster, trouble
<1>3. Holds(p) \subseteq Wants(p) /\ run[p].cmd \in Commands
  BY <1>1, <1>2 DEF LocksOK, PlaceOK, At
<1>4. /\ n \in Wants(p) \ Holds(p) /\ n \in Tunnels
      /\ \A u \in Wants(p) \ Holds(p) : n <= u
  BY <1>2, <1>3, NextLockFirst
<1> HIDE DEF n
<1>5. TypeOK'
  BY <1>1, <1>2 DEF TypeOK
<1>6. /\ \A t \in Tunnels : lock'[t] = IF t = n THEN p ELSE lock[t]
      /\ Holds(p)' = Holds(p) \cup {n} /\ Wants(p)' = Wants(p)
  <2>1. \A t \in Tunnels : lock'[t] = IF t = n THEN p ELSE lock[t]
    BY <1>1, <1>2 DEF TypeOK
  <2> QED BY <1>2, <1>4, <2>1 DEF Holds, Wants
<1>7. LocksOK(p)'
  <2>1. \A t \in Wants(p) : t \in Nat
    BY <1>3, WantsTunnels, TunnelsAssumption
  <2>2. ASSUME NEW t \in Holds(p) \cup {n}, NEW u \in Wants(p) \ (Holds(p) \cup {n})
        PROVE  t < u
    <3>1. n <= u /\ n # u
      BY <1>4, <2>2
    <3>2. n \in Nat /\ u \in Nat
      BY <1>4, <2>1, <2>2
    <3>3. n < u
      BY <3>1, <3>2
    <3> QED BY <1>1, <1>2, <2>2, <3>3 DEF LocksOK, At
  <2> QED BY <1>2, <1>3, <1>4, <1>6, <2>2 DEF LocksOK, At
<1>8. PlaceOK(p)'
  BY <1>1, <1>2, <1>6
  DEF PlaceOK, Undoing, Is, AboutThis, At
<1>9. AtWork(p)'
  <2>1. ASSUME NEW t \in Holds(p) \cup {n} PROVE Sound(t)'
    <3>1. Sound(t)
      BY <1>1, <1>2, <1>4, <2>1
      DEF AtWork, RestOK, UnderChange, Undoing, RecordAgrees
    <3> QED BY <1>2, <3>1 DEF Sound, Agree
  <2> QED BY <1>2, <1>6, <2>1 DEF AtWork, RestOK, BeforeOK, AfterOK, UndoOK, At
<1>10. Mine(p)
  BY <1>2 DEF Mine
<1> QED BY <1>2, <1>5, <1>6, <1>7, <1>8, <1>9, <1>10, Frame

LEMMA LockTimeoutKeeps ==
  ASSUME IInv, NEW p \in Procs, LockTimeout(p)
  PROVE  IInv'
<1>1. TypeOK /\ AtWork(p)
  BY DEF IInv
<1>2. /\ run[p].pc = "lock" /\ End(p, "error")
      /\ record' = record /\ remote' = remote /\ pod' = pod /\ skewed' = skewed
      /\ worker' = worker
      /\ faults' = faults /\ flaws' = flaws
  BY DEF LockTimeout, Waits, At, cluster, trouble
<1>3. WorldOK' /\ Mine(p)
  BY <1>1, <1>2 DEF TypeOK, WorldOK, Mine
<1>4. ASSUME NEW t \in Holds(p) PROVE Sound(t)'
  <2>1. Sound(t)
    BY <1>1, <1>2, <1>4 DEF AtWork, RestOK, UnderChange, Undoing
  <2> QED BY <1>2, <2>1 DEF Sound, Agree
<1> QED BY <1>2, <1>3, <1>4, GivesUp

\* What is known of a process that holds its locks and works on one tunnel.
LEMMA AtThis ==
  ASSUME IInv, NEW p \in Procs, AboutThis(p), At(p, "lock") => Wants(p) = Holds(p)
  PROVE  /\ TypeOK /\ WorldOK /\ PlaceOK(p) /\ AtWork(p)
         /\ run[p] \in Runs /\ run[p].cmd \in Commands
         /\ run[p].pc \notin {"idle", "over"} \cup Undoing
         /\ Holds(p) = Wants(p) /\ Holds(p) \subseteq Tunnels
         /\ run[p].todo # <<>> /\ Item(p) = run[p].todo[1] /\ Item(p) \in Items
         /\ This(p) \in Holds(p) /\ This(p) \in Tunnels
<1>1. TypeOK /\ PlaceOK(p) /\ LocksOK(p) /\ AtWork(p) /\ run[p] \in Runs
  BY DEF IInv, TypeOK
<1>2. WorldOK
  BY <1>1 DEF TypeOK, WorldOK
<1>3. run[p].pc \notin {"idle", "over"} \cup Undoing
  BY DEF AboutThis, At, Undoing
<1>4. Holds(p) = Wants(p) /\ Holds(p) \subseteq Tunnels
  BY <1>1, <1>3 DEF LocksOK, At, Holds
<1>5. run[p].cmd \in Commands
  BY <1>1, <1>3 DEF PlaceOK
<1>6. run[p].todo # <<>> /\ run[p].todo \in Seq(Items)
  BY <1>1, <1>3 DEF PlaceOK, Runs
<1>7. 1 \in DOMAIN run[p].todo /\ Item(p) = run[p].todo[1]
  BY <1>6 DEF Item
<1>8. This(p) \in Wants(p)
  BY <1>1, <1>3, <1>7 DEF PlaceOK, This
<1> QED BY <1>1, <1>2, <1>3, <1>4, <1>5, <1>6, <1>7, <1>8

LEMMA Becomes ==
  ASSUME TypeOK, NEW p \in Procs, NEW r, Become(p, r), r.cmd = run[p].cmd
  PROVE  /\ run'[p] = r /\ Holds(p)' = Holds(p) /\ Wants(p)' = Wants(p)
         /\ \A c : Is(p, c)' = Is(p, c)
<1>1. run'[p] = r /\ lock' = lock
  BY DEF Become, TypeOK
<1> QED BY <1>1 DEF Holds, Wants, Is

\* It fails, and all that it holds is in order, or will be undone.
LEMMA FailKeeps ==
  ASSUME IInv, NEW p \in Procs, AboutThis(p), At(p, "lock") => Wants(p) = Holds(p),
         Fail(p), WorldOK', Mine(p), \A t \in Holds(p) : Sound(t)'
  PROVE  IInv'
<1>1. /\ PlaceOK(p) /\ run[p] \in Runs /\ Holds(p) = Wants(p)
      /\ run[p].pc \notin {"idle", "over"}
  BY AtThis
<1>2. CASE Is(p, "apply")
  <2>1. run[p].done \in Seq(Entries) /\ Undone(p, run[p].done)
    BY <1>1, <1>2 DEF Runs, Fail
  <2>2. \A i \in DOMAIN run[p].done : run[p].done[i].tunnel \in Wants(p)
    BY <1>1 DEF PlaceOK
  <2> QED BY <1>1, <1>2, <2>1, <2>2, Undoes
<1>3. CASE ~Is(p, "apply")
  BY <1>3, GivesUp DEF Fail
<1> QED BY <1>2, <1>3

LEMMA UndoneWithThis ==
  ASSUME IInv, NEW p \in Procs, AboutThis(p), At(p, "lock") => Wants(p) = Holds(p),
         Is(p, "apply"), Undone(p, WithThis(p)), WorldOK', Mine(p),
         \A t \in Holds(p) \ {This(p)} : Sound(t)'
  PROVE  IInv'
<1>1. /\ PlaceOK(p) /\ run[p] \in Runs /\ Holds(p) = Wants(p)
      /\ run[p].pc \notin {"idle", "over"} /\ This(p) \in Holds(p) /\ This(p) \in Tunnels
  BY AtThis
<1> DEFINE done == run[p].done
           e == [tunnel |-> This(p), previous |-> run[p].sess]
           all == WithThis(p)
<1>2. done \in Seq(Entries) /\ e \in Entries
  BY <1>1 DEF Runs, Entries
<1>3. /\ all \in Seq(Entries) /\ Len(all) = Len(done) + 1
      /\ \A i \in 1..Len(done) : all[i] = done[i]
      /\ all[Len(done) + 1] = e
  BY <1>2, AppendProperties DEF WithThis
<1>4. DOMAIN all = 1..(Len(done) + 1) /\ Len(done) \in Nat /\ DOMAIN done = 1..Len(done)
  BY <1>2, <1>3
<1>5. all[Len(done) + 1].tunnel = This(p) /\ Len(done) + 1 \in DOMAIN all
  BY <1>3, <1>4
<1> HIDE DEF all
<1>6. \A i \in DOMAIN all : all[i].tunnel \in Wants(p)
  <2>1. \A i \in DOMAIN done : done[i].tunnel \in Wants(p)
    BY <1>1 DEF PlaceOK
  <2> SUFFICES ASSUME NEW i \in DOMAIN all
               PROVE  all[i].tunnel \in Wants(p)
    OBVIOUS
  <2>2. i \in 1..Len(done) \/ i = Len(done) + 1
    BY <1>4
  <2>3. CASE i \in 1..Len(done)
    BY <1>3, <1>4, <2>1, <2>3
  <2>4. CASE i = Len(done) + 1
    BY <1>1, <1>5, <2>4
  <2> QED BY <2>2, <2>3, <2>4
<1>7. \A t \in Holds(p) : t \in {all[i].tunnel : i \in DOMAIN all} \/ Sound(t)'
  BY <1>5
<1> QED BY <1>1, <1>3, <1>6, <1>7, Undoes DEF all

LEMMA FindKeeps ==
  ASSUME IInv, NEW p \in Procs, Find(p)
  PROVE  IInv'
<1>1. AboutThis(p) /\ (At(p, "lock") => Wants(p) = Holds(p)) /\ run[p].pc \in {"lock", "find"}
  BY DEF Find, At, AboutThis
<1>2. /\ TypeOK /\ PlaceOK(p) /\ AtWork(p) /\ run[p] \in Runs /\ Holds(p) = Wants(p)
      /\ This(p) \in Tunnels
  BY <1>1, AtThis
<1>3. /\ record' = record /\ remote' = remote /\ pod' = pod /\ skewed' = skewed
      /\ worker' = worker
      /\ faults' = faults /\ flaws' = flaws
  BY DEF Find, cluster, trouble
<1>4. WorldOK' /\ Mine(p)
  BY <1>2, <1>3 DEF TypeOK, WorldOK, Mine
<1>5. \A t \in Holds(p) : Sound(t) /\ Sound(t)'
  <2>1. \A t \in Holds(p) : Sound(t)
    BY <1>1, <1>2 DEF AtWork, RestOK, UnderChange, Undoing
  <2> QED BY <1>3, <2>1 DEF Sound, Agree
<1>6. CASE record[This(p)] # None
  <2> DEFINE r == [run[p] EXCEPT !.pc = "sync", !.sess = record[This(p)]]
  <2>1. Become(p, r)
    BY <1>6 DEF Find
  <2>2. r \in Runs
    BY <1>2 DEF Runs, TypeOK, Places
  <2>3. /\ r.pc = "sync" /\ r.cmd = run[p].cmd /\ r.todo = run[p].todo /\ r.done = run[p].done
        /\ r.undo = run[p].undo
    BY <1>2 DEF Runs
  <2> HIDE DEF r
  <2>4. run'[p] = r /\ Holds(p)' = Holds(p) /\ Wants(p)' = Wants(p) /\ \A c : Is(p, c)' = Is(p, c)
    BY <1>2, <2>1, <2>3, Becomes
  <2>5. PlaceOK(p)'
    BY <1>1, <1>2, <2>3, <2>4 DEF PlaceOK, Undoing, AboutThis, At
  <2>6. AtWork(p)'
    <3>1. RestOK(p)'
      BY <1>5, <2>4 DEF RestOK
    <3>2. This(p)' = This(p)
      BY <2>3, <2>4 DEF This, Item
    <3> QED BY <1>3, <1>6, <2>3, <2>4, <3>1, <3>2
      DEF AtWork, BeforeOK, AfterOK, UndoOK, At
  <2> QED BY <1>2, <1>4, <2>1, <2>2, <2>3, <2>5, <2>6, GoesOn
<1>7. CASE record[This(p)] = None /\ Is(p, "apply")
  <2>1. PICK s \in Secrets : Become(p, [run[p] EXCEPT !.pc = "ensure", !.key = s])
    BY <1>7 DEF Find
  <2> DEFINE r == [run[p] EXCEPT !.pc = "ensure", !.key = s]
  <2>2. r \in Runs
    BY <1>2 DEF Runs, Places
  <2>3. /\ r.pc = "ensure" /\ r.cmd = run[p].cmd /\ r.todo = run[p].todo /\ r.done = run[p].done
        /\ r.undo = run[p].undo /\ r.key = s /\ r.sess = None
    BY <1>1, <1>2 DEF Runs, PlaceOK
  <2>b. Become(p, r)
    BY <2>1
  <2> HIDE DEF r
  <2>4. run'[p] = r /\ Holds(p)' = Holds(p) /\ Wants(p)' = Wants(p) /\ \A c : Is(p, c)' = Is(p, c)
    BY <1>2, <2>b, <2>3, Becomes
  <2>5. PlaceOK(p)'
    BY <1>1, <1>2, <1>7, <2>3, <2>4 DEF PlaceOK, Undoing, AboutThis, At
  <2>6. AtWork(p)'
    <3>1. RestOK(p)'
      BY <1>5, <2>4 DEF RestOK
    <3>2. This(p)' = This(p) /\ This(p) \in Holds(p)
      BY <1>1, <2>3, <2>4, AtThis DEF This, Item
    <3> QED BY <1>3, <1>5, <1>7, <2>3, <2>4, <3>1, <3>2
      DEF AtWork, BeforeOK, AfterOK, UndoOK, At
  <2> QED BY <1>2, <1>4, <2>b, <2>2, <2>3, <2>5, <2>6, GoesOn
<1>8. CASE record[This(p)] = None /\ ~Is(p, "apply")
  <2>1. End(p, "error")
    BY <1>8 DEF Find
  <2> QED BY <1>4, <1>5, <2>1, GivesUp
<1> QED BY <1>6, <1>7, <1>8

LEMMA FaultTyped ==
  ASSUME faults \in 0..MaxFaults, Fault
  PROVE  faults' \in 0..MaxFaults /\ flaws' = flaws
BY BoundAssumption DEF Fault

LEMMA FlawTyped ==
  ASSUME faults \in 0..MaxFaults,
         flaws \in [Tunnels -> SUBSET {"partial", "lost", "save", "undo", "crash"}],
         NEW t \in Tunnels, NEW f \in {"partial", "lost", "save", "undo", "crash"}, Flaw(t, f)
  PROVE  /\ faults' \in 0..MaxFaults
         /\ flaws' \in [Tunnels -> SUBSET {"partial", "lost", "save", "undo", "crash"}]
         /\ f \in flaws'[t] /\ \A u \in Tunnels \ {t} : flaws'[u] = flaws[u]
BY BoundAssumption DEF Flaw

LEMMA MergeTyped ==
  ASSUME NEW r \in Records, NEW m \in Remotes \cup {None}
  PROVE  /\ Merge(r, m) \in Records
         /\ m # None => Same(Merge(r, m), m)
<1>1. CASE m = None
  BY <1>1 DEF Merge, Records
<1>2. CASE m # None
  BY <1>2 DEF Merge, Records, Remotes, Same
<1> QED BY <1>1, <1>2

LEMMA SyncKeeps ==
  ASSUME IInv, NEW p \in Procs, Sync(p)
  PROVE  IInv'
<1> DEFINE t == This(p)
           m == Merge(record[This(p)], remote[This(p)])
<1>1. AboutThis(p) /\ (At(p, "lock") => Wants(p) = Holds(p)) /\ run[p].pc = "sync"
  BY DEF Sync, At, AboutThis
<1>2. /\ TypeOK /\ PlaceOK(p) /\ AtWork(p) /\ run[p] \in Runs /\ Holds(p) = Wants(p)
      /\ t \in Tunnels /\ t \in Holds(p)
  BY <1>1, AtThis
<1>3. /\ remote' = remote /\ pod' = pod /\ skewed' = skewed
      /\ worker' = worker
  BY DEF Sync, cluster
<1>4. \A u \in Holds(p) : Sound(u)
  BY <1>1, <1>2 DEF AtWork, RestOK, UnderChange, Undoing
<1>5. record[t] # None /\ record[t] \in Records /\ remote[t] \in Remotes \cup {None}
  BY <1>1, <1>2 DEF AtWork, BeforeOK, TypeOK
<1>6. m \in Records /\ m # None /\ (remote[t] # None => Same(m, remote[t]))
  BY <1>5, MergeTyped, SentinelAssumption
<1> HIDE DEF m
<1>7. CASE /\ record' = [record EXCEPT ![t] = m]
           /\ IF remote[t] = None THEN NoFault ELSE InOrder(t)
           /\ IF m.state = "stopped" /\ (Is(p, "rotate") \/ Is(p, "policy"))
                THEN End(p, "error")
                ELSE \E s \in Secrets :
                       /\ IF Is(p, "rotate") THEN Unused(s) ELSE s = m.secret
                       /\ Become(p, [run[p] EXCEPT !.pc = "ensure", !.sess = m, !.key = s])
  <2>1. /\ flaws' \in [Tunnels -> SUBSET {"partial", "lost", "save", "undo", "crash"}]
        /\ faults' = faults
        /\ flaws' = IF remote[t] = None THEN flaws ELSE [flaws EXCEPT ![t] = {}]
    BY <1>2, <1>7 DEF TypeOK, NoFault, InOrder, trouble
  <2>2. WorldOK' /\ Mine(p)
    BY <1>2, <1>3, <1>6, <1>7, <2>1 DEF TypeOK, WorldOK, Mine
  <2>3. record'[t] = m /\ \A u \in Tunnels \ {t} : record'[u] = record[u] /\ flaws'[u] = flaws[u]
    BY <1>2, <1>7, <2>1 DEF TypeOK
  <2>4. ASSUME NEW u \in Holds(p) PROVE Sound(u)'
    <3>1. CASE u = t /\ remote[t] = None
      <4>1. flaws'[t] # {}
        BY <1>2, <1>4, <1>5, <2>1, <3>1 DEF Sound, Agree
      <4> QED BY <3>1, <4>1 DEF Sound
    <3>2. CASE u = t /\ remote[t] # None
      BY <1>3, <1>6, <2>3, <3>2 DEF Sound, Agree
    <3>3. CASE u # t
      <4>1. u \in Tunnels \ {t}
        BY <2>4, <3>3 DEF Holds
      <4> QED BY <1>3, <1>4, <2>3, <2>4, <4>1 DEF Sound, Agree
    <3> QED BY <3>1, <3>2, <3>3
  <2>5. CASE m.state = "stopped" /\ (Is(p, "rotate") \/ Is(p, "policy"))
    BY <1>7, <2>2, <2>4, <2>5, GivesUp
  <2>6. CASE ~(m.state = "stopped" /\ (Is(p, "rotate") \/ Is(p, "policy")))
    <3>1. PICK s \in Secrets :
            /\ IF Is(p, "rotate") THEN Unused(s) ELSE s = m.secret
            /\ Become(p, [run[p] EXCEPT !.pc = "ensure", !.sess = m, !.key = s])
      BY <1>7, <2>6
    <3> DEFINE r == [run[p] EXCEPT !.pc = "ensure", !.sess = m, !.key = s]
    <3>2. r \in Runs
      BY <1>2, <1>6 DEF Runs, Places
    <3>3. /\ r.pc = "ensure" /\ r.cmd = run[p].cmd /\ r.todo = run[p].todo
          /\ r.done = run[p].done /\ r.undo = run[p].undo /\ r.key = s /\ r.sess = m
      BY <1>2 DEF Runs
    <3>b. Become(p, r)
      BY <3>1
    <3> HIDE DEF r
    <3>4. /\ run'[p] = r /\ Holds(p)' = Holds(p) /\ Wants(p)' = Wants(p)
          /\ \A c : Is(p, c)' = Is(p, c)
      BY <1>2, <3>b, <3>3, Becomes
    <3>5. PlaceOK(p)'
      BY <1>1, <1>2, <1>6, <3>3, <3>4 DEF PlaceOK, Undoing, AboutThis, At
    <3>6. AtWork(p)'
      <4>1. RestOK(p)'
        BY <2>4, <3>4 DEF RestOK
      <4>2. This(p)' = This(p)
        BY <3>3, <3>4 DEF This, Item
      <4>3. Is(p, "domain") => ~Is(p, "rotate")
        BY DEF Is
      <4>4. Copied(p)'
        BY <1>6, <2>3, <3>3, <3>4, <4>2 DEF Copied, Same
      <4>5. BeforeOK(p)'
        BY <1>2, <1>3, <1>6, <2>4, <3>1, <3>3, <3>4, <4>2, <4>3, <4>4 DEF BeforeOK
      <4> QED BY <3>3, <3>4, <4>1, <4>5 DEF AtWork, AfterOK, UndoOK, At
    <3> QED BY <1>2, <2>2, <3>b, <3>2, <3>3, <3>5, <3>6, GoesOn
  <2> QED BY <2>5, <2>6
<1>8. CASE UNCHANGED record /\ Fault /\ Fail(p)
  <2>1. WorldOK' /\ Mine(p)
    <3>1. faults' \in 0..MaxFaults /\ flaws' = flaws
      BY <1>2, <1>8, FaultTyped DEF TypeOK
    <3> QED BY <1>2, <1>3, <1>8, <3>1 DEF TypeOK, WorldOK, Mine
  <2>2. \A u \in Holds(p) : Sound(u)'
    BY <1>3, <1>4, <1>8 DEF Sound, Agree, Fault
  <2> QED BY <1>1, <1>8, <2>1, <2>2, FailKeeps
<1> QED
  <2>1. m = Synced(p)
    BY DEF m, Synced
  <2> QED BY <1>7, <1>8, <2>1 DEF Sync

LEMMA GoTo ==
  ASSUME TypeOK, NEW p \in Procs, NEW place \in Places, Go(p, place)
  PROVE  /\ [run[p] EXCEPT !.pc = place] \in Runs
         /\ run'[p] = [run[p] EXCEPT !.pc = place] /\ run'[p].pc = place
         /\ run'[p].cmd = run[p].cmd /\ run'[p].todo = run[p].todo
         /\ run'[p].sess = run[p].sess /\ run'[p].key = run[p].key
         /\ run'[p].done = run[p].done /\ run'[p].undo = run[p].undo
         /\ Holds(p)' = Holds(p) /\ Wants(p)' = Wants(p) /\ (\A c : Is(p, c)' = Is(p, c))
         /\ Item(p)' = Item(p) /\ This(p)' = This(p) /\ Asked(p)' = Asked(p)
         /\ Entry(p)' = Entry(p)
<1> DEFINE r == [run[p] EXCEPT !.pc = place]
<1>1. run[p] \in Runs
  BY DEF TypeOK
<1>2. /\ r \in Runs /\ r.pc = place /\ r.cmd = run[p].cmd /\ r.todo = run[p].todo
      /\ r.sess = run[p].sess /\ r.key = run[p].key /\ r.done = run[p].done
      /\ r.undo = run[p].undo
  BY <1>1 DEF Runs
<1>3. Become(p, r)
  BY DEF Go
<1> HIDE DEF r
<1>4. run'[p] = r /\ Holds(p)' = Holds(p) /\ Wants(p)' = Wants(p) /\ \A c : Is(p, c)' = Is(p, c)
  BY <1>2, <1>3, Becomes
<1>5. Item(p)' = Item(p) /\ This(p)' = This(p) /\ Entry(p)' = Entry(p)
  BY <1>2, <1>4 DEF Item, This, Entry
<1>6. Asked(p)' = Asked(p)
  BY <1>2, <1>4, <1>5 DEF Asked
<1> QED BY <1>2, <1>4, <1>5, <1>6 DEF r

LEMMA GoKeeps ==
  ASSUME IInv, NEW p \in Procs, NEW place \in Places \ {"idle", "over", "lock"},
         Go(p, place), WorldOK', Mine(p), Holds(p) = Wants(p), PlaceOK(p)', AtWork(p)'
  PROVE  IInv'
<1> DEFINE r == [run[p] EXCEPT !.pc = place]
<1>1. TypeOK
  BY DEF IInv
<1>2. r \in Runs /\ r.cmd = run[p].cmd /\ r.pc = place
  BY <1>1, GoTo
<1>3. Become(p, r)
  BY DEF Go
<1> HIDE DEF r
<1> QED BY <1>2, <1>3, GoesOn

LEMMA AskedTyped ==
  ASSUME TypeOK, NEW p \in Procs, PlaceOK(p), Item(p) \in Items,
         run[p].todo # <<>>, Item(p) = run[p].todo[1],
         run[p].pc \in {"ensure", "clear", "ready", "save"}
  PROVE  /\ Asked(p) \in Remotes
         /\ run[p].key \in Secrets /\ Asked(p).secret = run[p].key
         /\ Asked(p).policy \in Policies /\ Asked(p).domain \in Domains \cup {NoDomain}
<1>1. run[p] \in Runs /\ run[p].key \in Secrets
  BY DEF TypeOK, PlaceOK
<1>2. run[p].sess = None => Item(p).policy # None /\ Item(p).domain # None
  <2> SUFFICES ASSUME run[p].sess = None PROVE Item(p).policy # None /\ Item(p).domain # None
    OBVIOUS
  <2>1. CASE Is(p, "apply")
    <3>1. 1 \in DOMAIN run[p].todo
      BY <1>1 DEF Runs
    <3> QED BY <2>1, <3>1 DEF PlaceOK
  <2>2. CASE ~Is(p, "apply")
    BY <2>2 DEF PlaceOK, Undoing
  <2> QED BY <2>1, <2>2
<1>3. /\ run[p].sess # None =>
           run[p].sess.policy \in Policies /\ run[p].sess.domain \in Domains \cup {NoDomain}
      /\ Item(p).policy \in Policies \cup {None}
      /\ Item(p).domain \in Domains \cup {NoDomain, None}
  BY <1>1 DEF Runs, Records, Items
<1> DEFINE c == [secret |-> run[p].key,
                  policy |-> IF Item(p).policy = None THEN run[p].sess.policy ELSE Item(p).policy]
           d == IF Item(p).domain = None THEN run[p].sess.domain ELSE Item(p).domain
<1>4. c \in Configs /\ c.secret = run[p].key /\ d \in Domains \cup {NoDomain}
  BY <1>1, <1>2, <1>3 DEF Configs
<1>5. Asked(p) = Objects(c, d)
  BY DEF Asked
<1> HIDE DEF c, d
<1>6. /\ Asked(p) \in Remotes /\ Asked(p).secret = c.secret /\ Asked(p).policy = c.policy
      /\ Asked(p).domain = d /\ Asked(p).digest = c
  <2>1. /\ Objects(c, d) \in Remotes /\ Objects(c, d).domain = d
        /\ Objects(c, d).secret = c.secret /\ Objects(c, d).policy = c.policy
        /\ Objects(c, d).digest = c
    BY <1>4, ObjectsTyped, Zenon
  <2> QED BY <1>5, <2>1, Zenon
<1>7. Asked(p).policy \in Policies
  BY <1>6 DEF Remotes
<1> QED BY <1>1, <1>4, <1>6, <1>7

LEMMA EnsureFailsKeeps ==
  ASSUME IInv, NEW p \in Procs, AboutThis(p), At(p, "lock") => Wants(p) = Holds(p),
         EnsureFails(p), WorldOK', Mine(p), \A t \in Holds(p) \ {This(p)} : Sound(t)',
         (Is(p, "apply") /\ run[p].sess # None) \/ \A t \in Holds(p) : Sound(t)'
  PROVE  IInv'
<1>1. CASE Is(p, "apply") /\ run[p].sess # None
  <2>1. Undone(p, WithThis(p))
    BY <1>1 DEF EnsureFails
  <2> QED BY <1>1, <2>1, UndoneWithThis
<1>2. CASE ~(Is(p, "apply") /\ run[p].sess # None)
  <2>1. Fail(p) /\ \A t \in Holds(p) : Sound(t)'
    BY <1>2 DEF EnsureFails
  <2> QED BY <2>1, FailKeeps
<1> QED BY <1>1, <1>2

LEMMA HalfwayTyped ==
  ASSUME NEW m \in Remotes \cup {None}, NEW a \in Remotes, NEW h \in Halfway(m, a)
  PROVE  h \in Remotes \cup {None}
<1>1. CASE m = None
  BY <1>1 DEF Halfway
<1>2. CASE m # None
  <2>1. m \in Remotes
    BY <1>2
  <2>2. PICK d \in {m.domain, a.domain} :
          h \in {m, [m EXCEPT !.up = TRUE, !.digest = a.digest, !.domain = d]}
    BY <1>2 DEF Halfway
  <2>3. d \in Domains \cup {NoDomain} /\ a.digest \in Configs
    BY <2>1, <2>2 DEF Remotes
  <2> QED BY <2>1, <2>2, <2>3 DEF Remotes
<1> QED BY <1>1, <1>2

LEMMA UnrolledTyped ==
  ASSUME NEW m \in Remotes \cup {None}, NEW a \in Remotes, NEW h \in Unrolled(m, a)
  PROVE  h \in Remotes \cup {None}
<1>1. CASE h = a
  BY <1>1
<1>2. CASE h # a
  <2>1. m \in Remotes /\ h \in {[a EXCEPT !.domain = m.domain],
                               [m EXCEPT !.secret = a.secret, !.policy = a.policy]}
    BY <1>2 DEF Unrolled
  <2> QED BY <2>1 DEF Remotes
<1> QED BY <1>1, <1>2

LEMMA EnsureKeeps ==
  ASSUME IInv, NEW p \in Procs, Ensure(p)
  PROVE  IInv'
<1> DEFINE t == This(p)
<1>1. /\ AboutThis(p) /\ (At(p, "lock") => Wants(p) = Holds(p)) /\ run[p].pc = "ensure"
      /\ ~Is(p, "domain")
  BY DEF Ensure, At, AboutThis
<1>2. /\ TypeOK /\ WorldOK /\ PlaceOK(p) /\ AtWork(p) /\ run[p] \in Runs /\ Holds(p) = Wants(p)
      /\ t \in Tunnels /\ t \in Holds(p) /\ Holds(p) \subseteq Tunnels
      /\ run[p].todo # <<>> /\ Item(p) = run[p].todo[1] /\ Item(p) \in Items
  BY <1>1, AtThis
<1>3. record' = record /\ pod' = pod /\ worker' = worker /\ skewed' \subseteq Tunnels
  BY <1>2 DEF Ensure, Put, KeepRemote, WorldOK
<1>4. \A u \in Holds(p) : Sound(u)
  BY <1>1, <1>2 DEF AtWork, RestOK, UnderChange, BeforeOK
<1>5. /\ Asked(p) \in Remotes /\ Asked(p) # None
      /\ remote \in [Tunnels -> Remotes \cup {None}] /\ faults \in 0..MaxFaults
      /\ flaws \in [Tunnels -> SUBSET {"partial", "lost", "save", "undo", "crash"}]
  BY <1>1, <1>2, AskedTyped, SentinelAssumption DEF WorldOK
\* It fails, with m in the cluster.
<1>6. ASSUME NEW m \in Remotes \cup {None}, Put(t, m), EnsureFails(p),
             \/ m = remote[t] /\ Fault
             \/ \E f \in {"partial", "lost"} : Mishap(p, f)
      PROVE  IInv'
  <2>1. \A u \in Tunnels \ {t} : remote'[u] = remote[u]
    BY <1>5, <1>6 DEF Put
  <2>2. remote' \in [Tunnels -> Remotes \cup {None}]
    BY <1>2, <1>5, <1>6 DEF Put
  <2>3. /\ faults' \in 0..MaxFaults
        /\ flaws' \in [Tunnels -> SUBSET {"partial", "lost", "save", "undo", "crash"}]
        /\ \A u \in Tunnels \ {t} : flaws'[u] = flaws[u]
        /\ \/ Is(p, "apply") /\ run[p].sess # None
           \/ flaws'[t] # {}
           \/ m = remote[t] /\ flaws' = flaws
    BY <1>2, <1>5, <1>6, FaultTyped, FlawTyped DEF Mishap
  <2>4. WorldOK' /\ Mine(p)
    BY <1>2, <1>3, <2>1, <2>2, <2>3 DEF WorldOK, Mine
  <2>5. \A u \in Holds(p) \ {t} : Sound(u)'
    BY <1>2, <1>3, <1>4, <2>1, <2>3 DEF Sound, Agree
  <2>6. (Is(p, "apply") /\ run[p].sess # None) \/ \A u \in Holds(p) : Sound(u)'
    <3>1. CASE flaws'[t] # {}
      BY <2>5, <3>1 DEF Sound
    <3>2. CASE m = remote[t] /\ flaws' = flaws
      <4>1. remote'[t] = remote[t]
        BY <1>2, <1>5, <1>6, <3>2 DEF Put
      <4>2. \A u \in Holds(p) : record'[u] = record[u] /\ remote'[u] = remote[u]
        BY <1>2, <1>3, <2>1, <4>1
      <4> QED BY <1>4, <3>2, <4>2 DEF Sound, Agree
    <3> QED BY <2>3, <3>1, <3>2
  <2> QED BY <1>1, <1>6, <2>4, <2>5, <2>6, EnsureFailsKeeps
<1>7. CASE Put(t, Asked(p)) /\ NoFault /\ Go(p, AfterEnsure(p))
  <2> DEFINE place == AfterEnsure(p)
  <2>1. /\ place \in {"save", "clear", "ready"} /\ place \in Places \ {"idle", "over", "lock"}
        /\ place \in {"clear", "ready"} => Is(p, "apply")
    BY DEF AfterEnsure, Places
  <2>2. Go(p, place)
    BY <1>7
  <2> HIDE DEF place
  <2>3. flaws' = flaws /\ faults' = faults
    BY <1>7 DEF NoFault, trouble
  <2>4. remote'[t] = Asked(p) /\ \A u \in Tunnels \ {t} : remote'[u] = remote[u]
    BY <1>2, <1>5, <1>7 DEF Put
  <2>5. remote' \in [Tunnels -> Remotes \cup {None}]
    BY <1>2, <1>5, <1>7 DEF Put
  <2>6. WorldOK' /\ Mine(p)
    BY <1>2, <1>3, <2>3, <2>4, <2>5 DEF WorldOK, Mine
  <2>7. PlaceOK(p)'
    <3>1. /\ run'[p].pc = place /\ run'[p].cmd = run[p].cmd /\ run'[p].todo = run[p].todo
          /\ run'[p].sess = run[p].sess /\ run'[p].key = run[p].key
          /\ run'[p].done = run[p].done /\ run'[p].undo = run[p].undo
          /\ Wants(p)' = Wants(p) /\ (\A c : Is(p, c)' = Is(p, c))
      BY <1>2, <2>1, <2>2, GoTo
    <3> QED BY <1>1, <1>2, <2>1, <3>1 DEF PlaceOK, AboutThis, At, Undoing
  <2>8. AtWork(p)'
    <3>1. UnderChange(p)' = {t} /\ Holds(p)' = Holds(p)
      BY <1>2, <2>1, <2>2, GoTo DEF UnderChange
    <3>2. RestOK(p)'
      BY <1>2, <1>3, <1>4, <2>3, <2>4, <3>1 DEF RestOK, Sound, Agree
    <3>3. Changed(p)'
      BY <1>2, <1>5, <2>1, <2>2, <2>4, GoTo DEF Changed, Same
    <3>4. AfterOK(p)'
      BY <1>1, <1>2, <2>1, <2>2, <3>3, GoTo DEF AfterOK
    <3>5. BeforeOK(p)' /\ UndoOK(p)'
      BY <1>2, <2>1, <2>2, GoTo DEF BeforeOK, UndoOK, At
    <3> QED BY <3>2, <3>4, <3>5 DEF AtWork
  <2> QED BY <1>2, <2>1, <2>2, <2>6, <2>7, <2>8, GoKeeps
<1>8. ASSUME NEW m \in Halfway(remote[t], Asked(p)), Put(t, m),
             IF m = remote[t] THEN Fault ELSE Mishap(p, "partial"), EnsureFails(p)
      PROVE  IInv'
  <2>1. m \in Remotes \cup {None}
    BY <1>2, <1>5, <1>8, HalfwayTyped
  <2> QED BY <1>6, <1>8, <2>1
<1>9. ASSUME NEW m \in Unrolled(remote[t], Asked(p)), Put(t, m), Mishap(p, "lost"),
             EnsureFails(p)
      PROVE  IInv'
  <2>1. m \in Remotes \cup {None}
    BY <1>2, <1>5, <1>9, UnrolledTyped
  <2> QED BY <1>6, <1>9, <2>1
<1> QED BY <1>7, <1>8, <1>9 DEF Ensure

\* A process that only goes to another place has with it what that place needs.
LEMMA GoPlace ==
  ASSUME TypeOK, NEW p \in Procs, PlaceOK(p), run[p].pc \notin {"idle", "over"},
         NEW place \in Places \ {"idle", "over", "lock", "find"}, Go(p, place),
         \/ place \notin {"sync", "ensure", "clear", "ready", "save", "revert"}
              /\ (place = "await" => Is(p, "apply"))
         \/ run[p].todo # <<>>,
         place \in {"clear", "daemon"} \cup Undoing => Is(p, "apply"),
         place = "revert" => Is(p, "domain"),
         place \in {"ensure", "clear", "ready", "save"} => run[p].key \in Secrets,
         Is(p, "apply") \/ run[p].sess # None,
         place \in Undoing =>
           run[p].undo # <<>> /\ (place \in {"remove", "forget"} <=> Entry(p).previous = None)
  PROVE  PlaceOK(p)'
<1>1. /\ run'[p].pc = place /\ run'[p].cmd = run[p].cmd /\ run'[p].todo = run[p].todo
      /\ run'[p].sess = run[p].sess /\ run'[p].key = run[p].key
      /\ run'[p].done = run[p].done /\ run'[p].undo = run[p].undo
      /\ Wants(p)' = Wants(p) /\ (\A c : Is(p, c)' = Is(p, c)) /\ Entry(p)' = Entry(p)
  BY GoTo
<1>2. AboutThis(p)' => run'[p].todo # <<>>
  BY <1>1 DEF AboutThis, At
<1> QED BY <1>1, <1>2 DEF PlaceOK

LEMMA UnverifiedKeeps ==
  ASSUME IInv, NEW p \in Procs, Unverified(p)
  PROVE  IInv'
<1>1. /\ AboutThis(p) /\ (At(p, "lock") => Wants(p) = Holds(p)) /\ run[p].pc = "ensure"
      /\ Is(p, "apply") /\ Fault
  BY DEF Unverified, At, AboutThis
<1>2. /\ TypeOK /\ WorldOK /\ PlaceOK(p) /\ AtWork(p) /\ run[p] \in Runs /\ Holds(p) = Wants(p)
      /\ This(p) \in Tunnels /\ This(p) \in Holds(p)
      /\ run[p].todo # <<>> /\ Item(p) = run[p].todo[1] /\ Item(p) \in Items
  BY <1>1, AtThis
<1>3. /\ record' = record /\ remote' = remote /\ pod' = pod /\ skewed' = skewed
      /\ worker' = worker
      /\ faults' \in 0..MaxFaults /\ flaws' = flaws
  BY <1>1, <1>2, FaultTyped DEF Unverified, cluster, WorldOK
<1>4. WorldOK' /\ Mine(p)
  BY <1>2, <1>3 DEF WorldOK, Mine
<1>5. \A u \in Holds(p) : Sound(u) /\ Sound(u)'
  <2>1. \A u \in Holds(p) : Sound(u)
    BY <1>1, <1>2 DEF AtWork, RestOK, UnderChange, BeforeOK
  <2> QED BY <1>3, <2>1 DEF Sound, Agree
<1>6. CASE run[p].sess # None
  BY <1>1, <1>4, <1>5, <1>6, FailKeeps DEF Unverified
<1>7. CASE run[p].sess = None
  <2> DEFINE todo == run[p].todo
             item == [todo[1] EXCEPT !.domain = NoDomain]
             r == [run[p] EXCEPT !.todo[1].domain = NoDomain]
  <2>1. Become(p, r)
    BY <1>7 DEF Unverified
  <2>2. todo \in Seq(Items) /\ 1 \in DOMAIN todo
    BY <1>2 DEF Runs
  <2>3. item \in Items /\ item.tunnel = todo[1].tunnel /\ item.policy = todo[1].policy
        /\ item.domain = NoDomain
    BY <1>2, <2>2 DEF Items
  <2>4. r = [run[p] EXCEPT !.todo = [todo EXCEPT ![1] = item]]
    BY <1>2, <2>2 DEF Runs
  <2> HIDE DEF item
  <2>5. /\ [todo EXCEPT ![1] = item] \in Seq(Items)
        /\ DOMAIN [todo EXCEPT ![1] = item] = DOMAIN todo
        /\ \A i \in DOMAIN todo : [todo EXCEPT ![1] = item][i] = IF i = 1 THEN item ELSE todo[i]
    BY <2>2, <2>3, ExceptSeq
  <2>6. r \in Runs
    BY <1>2, <2>4, <2>5 DEF Runs
  <2>7. /\ r.pc = "ensure" /\ r.cmd = run[p].cmd /\ r.done = run[p].done
        /\ r.todo = [todo EXCEPT ![1] = item]
        /\ r.undo = run[p].undo /\ r.key = run[p].key /\ r.sess = None
    BY <1>1, <1>2, <1>7, <2>4 DEF Runs
  <2> HIDE DEF r
  <2>8. run'[p] = r /\ Holds(p)' = Holds(p) /\ Wants(p)' = Wants(p) /\ \A c : Is(p, c)' = Is(p, c)
    BY <1>2, <2>1, <2>7, Becomes
  <2>9. r.todo # <<>> /\ DOMAIN r.todo = DOMAIN todo /\ r.todo[1] = item
    BY <2>2, <2>5, <2>7
  <2>10. \A i \in DOMAIN r.todo :
           /\ r.todo[i].tunnel = todo[i].tunnel /\ r.todo[i].policy = todo[i].policy
           /\ todo[i].domain # None => r.todo[i].domain # None
    BY <2>3, <2>5, <2>7, SentinelAssumption
  <2>11. ~Is(p, "domain")
    BY <1>1 DEF Is
  <2>12. PlaceOK(p)'
    BY <1>1, <1>2, <2>7, <2>8, <2>9, <2>10, <2>11 DEF PlaceOK, Undoing, AboutThis, At
  <2>13. AtWork(p)'
    <3>1. RestOK(p)'
      BY <1>5, <2>8 DEF RestOK
    <3>2. This(p)' = This(p)
      BY <1>2, <2>3, <2>6, <2>7, <2>8, <2>9 DEF This, Item, Runs
    <3>3. record[This(p)] = None
      BY <1>1, <1>2, <1>7 DEF AtWork, BeforeOK
    <3> QED BY <1>2, <1>3, <1>5, <2>7, <2>8, <3>1, <3>2, <3>3
      DEF AtWork, BeforeOK, AfterOK, UndoOK, At
  <2> QED BY <1>2, <1>4, <2>1, <2>6, <2>7, <2>12, <2>13, GoesOn
<1> QED BY <1>6, <1>7

LEMMA SetDomainKeeps ==
  ASSUME IInv, NEW p \in Procs, SetDomain(p)
  PROVE  IInv'
<1> DEFINE t == This(p)
           m == [remote[t] EXCEPT !.domain = Item(p).domain]
<1>1. /\ AboutThis(p) /\ (At(p, "lock") => Wants(p) = Holds(p)) /\ run[p].pc = "ensure"
      /\ Is(p, "domain") /\ ~Is(p, "apply")
  BY DEF SetDomain, At, AboutThis, Is
<1>2. /\ TypeOK /\ WorldOK /\ PlaceOK(p) /\ AtWork(p) /\ run[p] \in Runs /\ Holds(p) = Wants(p)
      /\ t \in Tunnels /\ t \in Holds(p)
      /\ run[p].todo # <<>> /\ Item(p) = run[p].todo[1] /\ Item(p) \in Items
  BY <1>1, AtThis
<1>3. record' = record /\ pod' = pod /\ worker' = worker /\ skewed' \subseteq Tunnels
  BY <1>2 DEF SetDomain, Put, KeepRemote, WorldOK
<1>4. \A u \in Holds(p) : Sound(u)
  BY <1>1, <1>2 DEF AtWork, RestOK, UnderChange, BeforeOK
<1>5. /\ remote \in [Tunnels -> Remotes \cup {None}] /\ faults \in 0..MaxFaults
      /\ flaws \in [Tunnels -> SUBSET {"partial", "lost", "save", "undo", "crash"}]
  BY <1>2 DEF WorldOK
<1>6. /\ run[p].sess # None /\ Copied(p) /\ run[p].key = run[p].sess.secret
      /\ remote[t] # None => Same(run[p].sess, remote[t])
      /\ Item(p).policy = None /\ Item(p).domain # None
  BY <1>1, <1>2 DEF AtWork, BeforeOK, PlaceOK, Undoing
<1>7. ASSUME remote[t] # None, Put(t, m)
      PROVE  /\ remote' \in [Tunnels -> Remotes \cup {None}] /\ remote'[t] # None
             /\ Same(Asked(p), remote'[t])
             /\ \A u \in Tunnels \ {t} : remote'[u] = remote[u]
  <2>1. remote[t] \in Remotes /\ Item(p).domain \in Domains \cup {NoDomain}
    BY <1>2, <1>5, <1>6, <1>7 DEF Items
  <2>2. m \in Remotes /\ m.secret = remote[t].secret /\ m.policy = remote[t].policy
        /\ m.domain = Item(p).domain
    BY <2>1 DEF Remotes
  <2> HIDE DEF m
  <2>3. remote'[t] = m /\ \A u \in Tunnels \ {t} : remote'[u] = remote[u]
    BY <1>2, <1>5, <1>7 DEF Put
  <2>4. remote' \in [Tunnels -> Remotes \cup {None}]
    BY <1>5, <1>7, <2>2 DEF Put
  <2>5. Same(Asked(p), m)
    BY <1>6, <1>7, <2>2 DEF Same, Asked, Objects
  <2> QED BY <2>2, <2>3, <2>4, <2>5, SentinelAssumption
<1>8. CASE remote[t] # None /\ Put(t, m) /\ NoFault /\ Go(p, "save")
  <2>1. flaws' = flaws /\ faults' = faults
    BY <1>8 DEF NoFault, trouble
  <2>2. WorldOK' /\ Mine(p)
    BY <1>2, <1>3, <1>7, <1>8, <2>1 DEF WorldOK, Mine
  <2>3. "save" \in Places \ {"idle", "over", "lock"} /\ "save" \notin Undoing
    BY DEF Places, Undoing
  <2>4. PlaceOK(p)'
    <3>1. run[p].key \in Secrets
      BY <1>1, <1>2 DEF PlaceOK
    <3> QED BY <1>1, <1>2, <1>6, <1>8, <2>3, <3>1, GoPlace
  <2>5. AtWork(p)'
    <3>1. /\ run'[p].pc = "save" /\ run'[p].sess = run[p].sess /\ run'[p].key = run[p].key
          /\ Holds(p)' = Holds(p) /\ This(p)' = t /\ Asked(p)' = Asked(p)
      BY <1>2, <1>8, <2>3, GoTo
    <3>2. RestOK(p)'
      BY <1>2, <1>3, <1>4, <1>7, <1>8, <2>1, <3>1 DEF RestOK, UnderChange, Sound, Agree, Holds
    <3>3. Changed(p)' /\ Copied(p)'
      BY <1>3, <1>6, <1>7, <1>8, <3>1 DEF Changed, Copied
    <3> QED BY <1>6, <3>1, <3>2, <3>3 DEF AtWork, BeforeOK, AfterOK, UndoOK, At
  <2> QED BY <1>2, <1>8, <2>2, <2>3, <2>4, <2>5, GoKeeps
<1>9. CASE remote[t] # None /\ Put(t, m) /\ Flaw(t, "lost") /\ End(p, "error")
  <2>1. /\ faults' \in 0..MaxFaults
        /\ flaws' \in [Tunnels -> SUBSET {"partial", "lost", "save", "undo", "crash"}]
        /\ flaws'[t] # {} /\ \A u \in Tunnels \ {t} : flaws'[u] = flaws[u]
    BY <1>2, <1>5, <1>9, FlawTyped
  <2>2. WorldOK' /\ Mine(p)
    BY <1>2, <1>3, <1>7, <1>9, <2>1 DEF WorldOK, Mine
  <2>3. \A u \in Holds(p) : Sound(u)'
    BY <1>2, <1>3, <1>4, <1>7, <1>9, <2>1 DEF Sound, Agree, Holds
  <2> QED BY <1>9, <2>2, <2>3, GivesUp
<1>10. CASE /\ IF remote[t] = None THEN NoFault ELSE Fault
            /\ KeepRemote /\ End(p, "error")
  <2>1. faults' \in 0..MaxFaults /\ flaws' = flaws /\ remote' = remote
    BY <1>5, <1>10, FaultTyped DEF NoFault, trouble, KeepRemote
  <2>2. WorldOK' /\ Mine(p)
    BY <1>2, <1>3, <2>1 DEF WorldOK, Mine
  <2>3. \A u \in Holds(p) : Sound(u)'
    BY <1>3, <1>4, <2>1 DEF Sound, Agree
  <2> QED BY <1>10, <2>2, <2>3, GivesUp
<1> QED BY <1>8, <1>9, <1>10 DEF SetDomain

LEMMA ClearKeeps ==
  ASSUME IInv, NEW p \in Procs, Clear(p)
  PROVE  IInv'
<1> DEFINE t == This(p)
<1>1. /\ AboutThis(p) /\ (At(p, "lock") => Wants(p) = Holds(p)) /\ run[p].pc = "clear"
  BY DEF Clear, At, AboutThis
<1>2. /\ TypeOK /\ WorldOK /\ PlaceOK(p) /\ AtWork(p) /\ run[p] \in Runs /\ Holds(p) = Wants(p)
      /\ t \in Tunnels /\ t \in Holds(p) /\ run[p].todo # <<>>
  BY <1>1, AtThis
<1>3. Is(p, "apply") /\ run[p].key \in Secrets
  BY <1>1, <1>2 DEF PlaceOK
<1>4. /\ record' = record /\ remote' = remote /\ pod' = pod /\ skewed' = skewed
      /\ worker' = worker
      /\ faults' \in 0..MaxFaults /\ flaws' = flaws
  BY <1>2, FaultTyped DEF Clear, cluster, WorldOK, NoFault, trouble
<1>5. WorldOK' /\ Mine(p)
  BY <1>2, <1>4 DEF WorldOK, Mine
<1>6. \A u \in Holds(p) \ {t} : Sound(u)'
  <2>1. \A u \in Holds(p) \ {t} : Sound(u)
    BY <1>1, <1>2 DEF AtWork, RestOK, UnderChange
  <2> QED BY <1>4, <2>1 DEF Sound, Agree
<1>7. CASE Go(p, "ready")
  <2>1. "ready" \in Places \ {"idle", "over", "lock", "find"} /\ "ready" \notin Undoing
    BY DEF Places, Undoing
  <2>2. PlaceOK(p)'
    BY <1>1, <1>2, <1>3, <1>7, <2>1, GoPlace
  <2>3. /\ run'[p].pc = "ready" /\ Holds(p)' = Holds(p) /\ This(p)' = t /\ Asked(p)' = Asked(p)
        /\ Is(p, "apply")'
    BY <1>2, <1>3, <1>7, <2>1, GoTo
  <2>4. RestOK(p)'
    BY <1>6, <2>3 DEF RestOK, UnderChange
  <2>5. Changed(p)'
    BY <1>1, <1>2, <1>4, <2>3 DEF AtWork, AfterOK, Changed
  <2>6. AtWork(p)'
    BY <2>3, <2>4, <2>5 DEF AtWork, BeforeOK, AfterOK, UndoOK, At
  <2> QED BY <1>2, <1>5, <1>7, <2>1, <2>2, <2>6, GoKeeps
<1>8. CASE Undone(p, WithThis(p))
  BY <1>1, <1>3, <1>5, <1>6, <1>8, UndoneWithThis
<1> QED BY <1>7, <1>8 DEF Clear

LEMMA ReadyKeeps ==
  ASSUME IInv, NEW p \in Procs, Ready(p)
  PROVE  IInv'
<1> DEFINE t == This(p)
<1>1. /\ AboutThis(p) /\ (At(p, "lock") => Wants(p) = Holds(p)) /\ run[p].pc = "ready"
  BY DEF Ready, At, AboutThis
<1>2. /\ TypeOK /\ WorldOK /\ PlaceOK(p) /\ AtWork(p) /\ run[p] \in Runs /\ Holds(p) = Wants(p)
      /\ t \in Tunnels /\ t \in Holds(p) /\ run[p].todo # <<>>
  BY <1>1, AtThis
<1>3. run[p].key \in Secrets /\ (Is(p, "apply") \/ run[p].sess # None)
  BY <1>1, <1>2 DEF PlaceOK
<1>4. /\ record' = record /\ remote' = remote /\ pod' = pod /\ skewed' = skewed
      /\ worker' = worker
      /\ faults' \in 0..MaxFaults /\ flaws' = flaws
  BY <1>2, FaultTyped DEF Ready, cluster, WorldOK, NoFault, trouble
<1>5. WorldOK' /\ Mine(p)
  BY <1>2, <1>4 DEF WorldOK, Mine
<1>6. \A u \in Holds(p) \ {t} : Sound(u)'
  <2>1. \A u \in Holds(p) \ {t} : Sound(u)
    BY <1>1, <1>2 DEF AtWork, RestOK, UnderChange
  <2> QED BY <1>4, <2>1 DEF Sound, Agree
<1>7. ~Is(p, "apply") => \A u \in Holds(p) : Sound(u)'
  <2>1. ~Is(p, "apply") => Sound(t)
    BY <1>1, <1>2 DEF AtWork, AfterOK
  <2> QED BY <1>4, <1>6, <2>1 DEF Sound, Agree
<1>8. CASE Is(p, "apply") /\ Go(p, "save")
  <2>1. "save" \in Places \ {"idle", "over", "lock", "find"} /\ "save" \notin Undoing
    BY DEF Places, Undoing
  <2>2. PlaceOK(p)'
    BY <1>1, <1>2, <1>3, <1>8, <2>1, GoPlace
  <2>3. /\ run'[p].pc = "save" /\ Holds(p)' = Holds(p) /\ This(p)' = t /\ Asked(p)' = Asked(p)
        /\ ~Is(p, "domain")'
    <3>1. ~Is(p, "domain")
      BY <1>8 DEF Is
    <3> QED BY <1>2, <1>8, <2>1, <3>1, GoTo
  <2>4. RestOK(p)'
    BY <1>6, <2>3 DEF RestOK, UnderChange
  <2>5. Changed(p)'
    BY <1>1, <1>2, <1>4, <1>8, <2>3 DEF AtWork, AfterOK, Changed
  <2>6. AtWork(p)'
    BY <2>3, <2>4, <2>5 DEF AtWork, BeforeOK, AfterOK, UndoOK, At
  <2> QED BY <1>2, <1>5, <1>8, <2>1, <2>2, <2>6, GoKeeps
<1>9. CASE ~Is(p, "apply") /\ Go(p, "await")
  <2>1. "await" \in Places \ {"idle", "over", "lock", "find"} /\ "await" \notin Undoing
    BY DEF Places, Undoing
  <2>2. PlaceOK(p)'
    BY <1>1, <1>2, <1>3, <1>9, <2>1, GoPlace
  <2>3. run'[p].pc = "await" /\ Holds(p)' = Holds(p)
    BY <1>2, <1>9, <2>1, GoTo
  <2>4. RestOK(p)'
    BY <1>7, <1>9, <2>3 DEF RestOK
  <2>5. AtWork(p)'
    BY <2>3, <2>4 DEF AtWork, BeforeOK, AfterOK, UndoOK, At
  <2> QED BY <1>2, <1>5, <1>9, <2>1, <2>2, <2>5, GoKeeps
<1>10. CASE Is(p, "apply") /\ Undone(p, WithThis(p))
  BY <1>1, <1>5, <1>6, <1>10, UndoneWithThis
<1>11. CASE ~Is(p, "apply") /\ End(p, "committed")
  BY <1>5, <1>7, <1>11, GivesUp
<1> QED BY <1>8, <1>9, <1>10, <1>11 DEF Ready

\* The record that is written is what the cluster has.
LEMMA WrittenAgrees ==
  ASSUME IInv, NEW p \in Procs, At(p, "save"), NEW st \in States,
         record' = [record EXCEPT ![This(p)] =
           [secret |-> run[p].key, policy |-> Asked(p).policy,
            domain |-> Asked(p).domain, state |-> st, fresh |-> FALSE]],
         remote' = remote
  PROVE  /\ record' \in [Tunnels -> Records \cup {None}]
         /\ \A u \in Tunnels \ {This(p)} : record'[u] = record[u]
         /\ \A u \in Holds(p) : u = This(p) => Agree(u)'
<1> DEFINE t == This(p)
           new == [secret |-> run[p].key, policy |-> Asked(p).policy,
                   domain |-> Asked(p).domain, state |-> st, fresh |-> FALSE]
<1>1. AboutThis(p) /\ (At(p, "lock") => Wants(p) = Holds(p)) /\ run[p].pc = "save"
  BY DEF At, AboutThis
<1>2. /\ TypeOK /\ PlaceOK(p) /\ AtWork(p) /\ t \in Tunnels
      /\ run[p].todo # <<>> /\ Item(p) = run[p].todo[1] /\ Item(p) \in Items
  BY <1>1, AtThis
<1>3. /\ run[p].key \in Secrets /\ Asked(p).secret = run[p].key
      /\ Asked(p).policy \in Policies /\ Asked(p).domain \in Domains \cup {NoDomain}
  BY <1>1, <1>2, AskedTyped
<1>4. new \in Records /\ new # None
  <2>1. FALSE \in BOOLEAN
    OBVIOUS
  <2>2. new \in Records
    BY <1>3, <2>1 DEF Records
  <2> QED BY <2>2, SentinelAssumption
<1>5. Same(new, Asked(p))
  BY <1>3 DEF Same
<1>6. Changed(p)
  BY <1>1, <1>2 DEF AtWork, AfterOK
<1> HIDE DEF new
<1>7. record' = [record EXCEPT ![t] = new]
  BY DEF new
<1>8. record'[t] = new /\ \A u \in Tunnels \ {t} : record'[u] = record[u]
  BY <1>2, <1>7 DEF TypeOK
<1>9. record' \in [Tunnels -> Records \cup {None}]
  BY <1>2, <1>4, <1>7 DEF TypeOK
<1>10. \A u \in Holds(p) : u = t => Agree(u)'
  BY <1>4, <1>5, <1>6, <1>8 DEF Agree, Changed, Same
<1> QED BY <1>8, <1>9, <1>10

LEMMA SaveKeeps ==
  ASSUME IInv, NEW p \in Procs, Save(p)
  PROVE  IInv'
<1> DEFINE t == This(p)
<1>1. /\ AboutThis(p) /\ (At(p, "lock") => Wants(p) = Holds(p)) /\ run[p].pc = "save"
      /\ At(p, "save") /\ ~Is(p, "apply")
  BY DEF Save, At, AboutThis
<1>2. /\ TypeOK /\ WorldOK /\ PlaceOK(p) /\ AtWork(p) /\ run[p] \in Runs /\ Holds(p) = Wants(p)
      /\ t \in Tunnels /\ t \in Holds(p) /\ run[p].todo # <<>>
      /\ Item(p) = run[p].todo[1] /\ Holds(p) \subseteq Tunnels
  BY <1>1, AtThis
<1>3. run[p].key \in Secrets /\ run[p].sess # None
  BY <1>1, <1>2 DEF PlaceOK
<1>4. /\ remote' = remote /\ pod' = pod /\ skewed' = skewed
      /\ worker' = worker
      /\ faults \in 0..MaxFaults
      /\ flaws \in [Tunnels -> SUBSET {"partial", "lost", "save", "undo", "crash"}]
  BY <1>2 DEF Save, cluster, WorldOK
<1>5. \A u \in Holds(p) \ {t} : Sound(u)
  BY <1>1, <1>2 DEF AtWork, RestOK, UnderChange
<1>6. CASE /\ record' = [record EXCEPT ![t] =
                [secret |-> run[p].key, policy |-> Asked(p).policy,
                 domain |-> Asked(p).domain, state |-> run[p].sess.state, fresh |-> FALSE]]
           /\ NoFault
           /\ \/ ~Is(p, "domain") /\ Go(p, "ready")
              \/ Is(p, "domain") /\ End(p, "ok")
              \/ Is(p, "domain") /\ Item(p).domain = NoDomain /\ End(p, "committed")
  <2>1. run[p].sess.state \in States
    BY <1>2, <1>3 DEF Runs, Records
  <2>2. /\ record' \in [Tunnels -> Records \cup {None}]
        /\ \A u \in Tunnels \ {t} : record'[u] = record[u]
        /\ \A u \in Holds(p) : u = t => Agree(u)'
    BY <1>1, <1>4, <1>6, <2>1, WrittenAgrees
  <2>3. flaws' = flaws /\ faults' = faults
    BY <1>6 DEF NoFault, trouble
  <2>4. WorldOK' /\ Mine(p)
    BY <1>2, <1>4, <2>2, <2>3 DEF WorldOK, Mine
  <2>5. \A u \in Holds(p) : Sound(u)'
    BY <1>2, <1>4, <1>5, <2>2, <2>3 DEF Sound, Agree
  <2>6. CASE ~Is(p, "domain") /\ Go(p, "ready")
    <3>1. "ready" \in Places \ {"idle", "over", "lock", "find"} /\ "ready" \notin Undoing
      BY DEF Places, Undoing
    <3>2. PlaceOK(p)'
      BY <1>1, <1>2, <1>3, <2>6, <3>1, GoPlace
    <3>3. /\ run'[p].pc = "ready" /\ Holds(p)' = Holds(p) /\ This(p)' = t /\ ~Is(p, "apply")'
      BY <1>1, <1>2, <2>6, <3>1, GoTo
    <3>4. RestOK(p)'
      BY <2>5, <3>3 DEF RestOK
    <3>5. AfterOK(p)'
      BY <1>2, <2>5, <3>3 DEF AfterOK
    <3>6. AtWork(p)'
      BY <3>3, <3>4, <3>5 DEF AtWork, BeforeOK, UndoOK, At
    <3> QED BY <1>2, <2>4, <2>6, <3>1, <3>2, <3>6, GoKeeps
  <2>7. CASE End(p, "ok") \/ End(p, "committed")
    BY <2>4, <2>5, <2>7, GivesUp
  <2> QED BY <1>6, <2>6, <2>7
<1>7. CASE /\ UNCHANGED record /\ Flaw(t, "save")
           /\ IF Is(p, "domain") THEN Go(p, "revert") ELSE End(p, "committed")
  <2>1. /\ faults' \in 0..MaxFaults
        /\ flaws' \in [Tunnels -> SUBSET {"partial", "lost", "save", "undo", "crash"}]
        /\ flaws'[t] # {} /\ \A u \in Tunnels \ {t} : flaws'[u] = flaws[u]
    BY <1>2, <1>4, <1>7, FlawTyped
  <2>2. WorldOK' /\ Mine(p)
    BY <1>2, <1>4, <1>7, <2>1 DEF WorldOK, Mine
  <2>3. \A u \in Holds(p) : Sound(u)'
    BY <1>2, <1>4, <1>5, <1>7, <2>1 DEF Sound, Agree
  <2>4. CASE Is(p, "domain") /\ Go(p, "revert")
    <3>1. "revert" \in Places \ {"idle", "over", "lock", "find"} /\ "revert" \notin Undoing
      BY DEF Places, Undoing
    <3>2. PlaceOK(p)'
      BY <1>1, <1>2, <1>3, <2>4, <3>1, GoPlace
    <3>3. /\ run'[p].pc = "revert" /\ Holds(p)' = Holds(p) /\ This(p)' = t
          /\ run'[p].sess = run[p].sess
      BY <1>2, <2>4, <3>1, GoTo
    <3>4. RestOK(p)'
      BY <2>3, <3>3 DEF RestOK
    <3>5. Copied(p)'
      BY <1>1, <1>2, <1>7, <2>4, <3>3 DEF AtWork, AfterOK, Copied
    <3>6. /\ remote[t] # None
          /\ remote[t].secret = run[p].sess.secret /\ remote[t].policy = run[p].sess.policy
      <4>1. Changed(p) /\ run[p].key = run[p].sess.secret
        BY <1>1, <1>2, <2>4 DEF AtWork, AfterOK
      <4>2. Item(p).policy = None
        BY <1>1, <1>2, <2>4 DEF PlaceOK
      <4> QED BY <4>1, <4>2 DEF Changed, Same, Asked, Objects
    <3>7. AtWork(p)'
      BY <1>4, <2>1, <3>3, <3>4, <3>5, <3>6 DEF AtWork, BeforeOK, AfterOK, UndoOK, At
    <3> QED BY <1>2, <2>2, <2>4, <3>1, <3>2, <3>7, GoKeeps
  <2>5. CASE ~Is(p, "domain") /\ End(p, "committed")
    BY <2>2, <2>3, <2>5, GivesUp
  <2> QED BY <1>7, <2>4, <2>5
<1> QED BY <1>6, <1>7 DEF Save

LEMMA RevertKeeps ==
  ASSUME IInv, NEW p \in Procs, Revert(p)
  PROVE  IInv'
<1> DEFINE t == This(p)
           m == [remote[t] EXCEPT !.domain = run[p].sess.domain]
<1>1. /\ AboutThis(p) /\ (At(p, "lock") => Wants(p) = Holds(p)) /\ run[p].pc = "revert"
      /\ End(p, "error")
  BY DEF Revert, At, AboutThis
<1>2. /\ TypeOK /\ WorldOK /\ PlaceOK(p) /\ AtWork(p) /\ run[p] \in Runs
      /\ t \in Tunnels /\ t \in Holds(p) /\ Holds(p) \subseteq Tunnels
  BY <1>1, AtThis
<1>3. record' = record /\ pod' = pod /\ worker' = worker /\ skewed' \subseteq Tunnels
  BY <1>2 DEF Revert, Put, KeepRemote, WorldOK
<1>4. \A u \in Holds(p) \ {t} : Sound(u)
  BY <1>1, <1>2 DEF AtWork, RestOK, UnderChange
<1>5. /\ flaws[t] # {} /\ Copied(p) /\ remote[t] # None
      /\ remote[t].secret = run[p].sess.secret /\ remote[t].policy = run[p].sess.policy
  BY <1>1, <1>2 DEF AtWork, AfterOK
<1>6. /\ remote \in [Tunnels -> Remotes \cup {None}] /\ faults \in 0..MaxFaults
      /\ flaws \in [Tunnels -> SUBSET {"partial", "lost", "save", "undo", "crash"}]
  BY <1>2 DEF WorldOK
<1>7. CASE /\ Put(t, m)
           /\ flaws' = [flaws EXCEPT ![t] = @ \ {"save"}] /\ UNCHANGED faults
  <2>1. run[p].sess \in Records
    <3>1. Is(p, "domain")
      BY <1>1, <1>2 DEF PlaceOK
    <3>2. ~Is(p, "apply")
      BY <3>1 DEF Is
    <3> QED BY <1>1, <1>2, <3>2 DEF PlaceOK, Runs
  <2>2. /\ m \in Remotes /\ m.secret = run[p].sess.secret /\ m.policy = run[p].sess.policy
        /\ m.domain = run[p].sess.domain
    BY <1>2, <1>5, <1>6, <2>1 DEF Remotes, Records
  <2> HIDE DEF m
  <2>3. remote'[t] = m /\ \A u \in Tunnels \ {t} : remote'[u] = remote[u] /\ flaws'[u] = flaws[u]
    BY <1>2, <1>6, <1>7 DEF Put
  <2>4. /\ remote' \in [Tunnels -> Remotes \cup {None}] /\ faults' \in 0..MaxFaults
        /\ flaws' \in [Tunnels -> SUBSET {"partial", "lost", "save", "undo", "crash"}]
    BY <1>6, <1>7, <2>2 DEF Put
  <2>5. WorldOK' /\ Mine(p)
    BY <1>2, <1>3, <2>3, <2>4 DEF WorldOK, Mine
  <2>6. \A u \in Holds(p) : u = t => Sound(u)'
    BY <1>3, <1>5, <2>2, <2>3, SentinelAssumption DEF Sound, Agree, Copied, Same
  <2>7. \A u \in Holds(p) : Sound(u)'
    BY <1>2, <1>3, <1>4, <2>3, <2>6 DEF Sound, Agree
  <2> QED BY <1>1, <2>5, <2>7, GivesUp
<1>8. CASE KeepRemote /\ UNCHANGED trouble
  <2>1. remote' = remote /\ faults' = faults /\ flaws' = flaws
    BY <1>8 DEF trouble, KeepRemote
  <2>2. WorldOK' /\ Mine(p)
    BY <1>2, <1>3, <2>1 DEF WorldOK, Mine
  <2>3. \A u \in Holds(p) : Sound(u)'
    BY <1>3, <1>4, <1>5, <2>1 DEF Sound, Agree
  <2> QED BY <1>1, <2>2, <2>3, GivesUp
<1> QED BY <1>7, <1>8 DEF Revert

LEMMA SaveAppliedKeeps ==
  ASSUME IInv, NEW p \in Procs, SaveApplied(p)
  PROVE  IInv'
<1> DEFINE t == This(p)
<1>1. /\ AboutThis(p) /\ (At(p, "lock") => Wants(p) = Holds(p)) /\ run[p].pc = "save"
      /\ At(p, "save") /\ Is(p, "apply") /\ ~Is(p, "domain")
  BY DEF SaveApplied, At, AboutThis, Is
<1>2. /\ TypeOK /\ WorldOK /\ PlaceOK(p) /\ AtWork(p) /\ run[p] \in Runs /\ Holds(p) = Wants(p)
      /\ t \in Tunnels /\ t \in Holds(p) /\ run[p].todo # <<>> /\ Holds(p) \subseteq Tunnels
      /\ Item(p) = run[p].todo[1] /\ Item(p) \in Items
  BY <1>1, AtThis
<1>3. /\ remote' = remote /\ pod' = pod /\ skewed' = skewed
      /\ worker' = worker /\ faults \in 0..MaxFaults
      /\ flaws \in [Tunnels -> SUBSET {"partial", "lost", "save", "undo", "crash"}]
  BY <1>2 DEF SaveApplied, cluster, WorldOK
<1>4. \A u \in Holds(p) \ {t} : Sound(u)
  BY <1>1, <1>2 DEF AtWork, RestOK, UnderChange
<1>5. CASE /\ record' = [record EXCEPT ![t] =
                [secret |-> run[p].key, policy |-> Asked(p).policy,
                 domain |-> Asked(p).domain, state |-> "pending", fresh |-> FALSE]]
           /\ InOrder(t)
           /\ Become(p, [run[p] EXCEPT
                !.done = WithThis(p), !.todo = Tail(@), !.sess = None, !.key = None,
                !.pc = IF Len(run[p].todo) = 1 THEN "daemon" ELSE "find"])
  <2> DEFINE r == [run[p] EXCEPT
                !.done = WithThis(p), !.todo = Tail(@), !.sess = None, !.key = None,
                !.pc = IF Len(run[p].todo) = 1 THEN "daemon" ELSE "find"]
             todo == run[p].todo
             done == run[p].done
             e == [tunnel |-> This(p), previous |-> run[p].sess]
             place == IF Len(todo) = 1 THEN "daemon" ELSE "find"
  <2>1. Become(p, r)
    BY <1>5
  <2>2. /\ record' \in [Tunnels -> Records \cup {None}]
        /\ \A u \in Tunnels \ {t} : record'[u] = record[u]
        /\ \A u \in Holds(p) : u = t => Agree(u)'
    BY <1>1, <1>3, <1>5, WrittenAgrees DEF States
  <2>3. /\ flaws' \in [Tunnels -> SUBSET {"partial", "lost", "save", "undo", "crash"}]
        /\ faults' = faults /\ \A u \in Tunnels \ {t} : flaws'[u] = flaws[u]
    BY <1>2, <1>3, <1>5 DEF InOrder
  <2>4. WorldOK' /\ Mine(p)
    BY <1>2, <1>3, <2>2, <2>3 DEF WorldOK, Mine
  <2>5. \A u \in Holds(p) : Sound(u)'
    BY <1>2, <1>3, <1>4, <2>2, <2>3 DEF Sound, Agree
  <2>6. todo \in Seq(Items) /\ done \in Seq(Entries) /\ e \in Entries
    BY <1>2 DEF Runs, Entries
  <2>7. /\ Tail(todo) \in Seq(Items) /\ Len(todo) \in Nat /\ Len(todo) # 0
        /\ DOMAIN Tail(todo) = 1..(Len(todo) - 1)
        /\ \A i \in DOMAIN Tail(todo) : i + 1 \in DOMAIN todo /\ Tail(todo)[i] = todo[i + 1]
    BY <1>2, <2>6, HeadTailProperties
  <2>8. /\ WithThis(p) \in Seq(Entries) /\ DOMAIN WithThis(p) = 1..(Len(done) + 1)
        /\ Len(done) \in Nat /\ DOMAIN done = 1..Len(done)
        /\ \A i \in 1..Len(done) : WithThis(p)[i] = done[i]
        /\ WithThis(p)[Len(done) + 1].tunnel = t
    BY <2>6, AppendProperties DEF WithThis
  <2>9. /\ r.pc = place /\ r.cmd = run[p].cmd /\ r.todo = Tail(todo) /\ r.done = WithThis(p)
        /\ r.undo = run[p].undo /\ r.sess = None /\ r.key = None
    BY <1>2 DEF Runs
  <2>10. r \in Runs
    BY <1>2, <2>7, <2>8 DEF Runs, Places
  <2> HIDE DEF r
  <2>11. /\ run'[p] = r /\ Holds(p)' = Holds(p) /\ Wants(p)' = Wants(p)
         /\ \A c : Is(p, c)' = Is(p, c)
    BY <1>2, <2>1, <2>9, Becomes
  <2>12. place = "find" => Tail(todo) # <<>>
    <3> SUFFICES ASSUME Len(todo) # 1 PROVE Tail(todo) # <<>>
      OBVIOUS
    <3> DEFINE n == Len(todo)
    <3>1. n \in Nat /\ n # 0 /\ n # 1
      BY <2>7
    <3> HIDE DEF n
    <3>2. 1 \in 1..(n - 1)
      BY <3>1
    <3>3. 1 \in DOMAIN Tail(todo)
      BY <2>7, <3>2 DEF n
    <3>4. DOMAIN << >> = {}
      OBVIOUS
    <3> QED BY <3>3, <3>4, Zenon
  <2>13. place \in {"daemon", "find"}
    OBVIOUS
  <2> HIDE DEF place
  <2>14. PlaceOK(p)'
    <3>1. \A i \in DOMAIN Tail(todo) :
            /\ Tail(todo)[i].tunnel \in Wants(p)
            /\ Tail(todo)[i].policy # None /\ Tail(todo)[i].domain # None
      BY <1>1, <1>2, <2>7 DEF PlaceOK
    <3>2. \A i \in DOMAIN WithThis(p) : WithThis(p)[i].tunnel \in Wants(p)
      <4>1. \A i \in DOMAIN done : done[i].tunnel \in Wants(p)
        BY <1>1, <1>2 DEF PlaceOK
      <4>2. \A i \in 1..(Len(done) + 1) : i \in 1..Len(done) \/ i = Len(done) + 1
        BY <2>8
      <4> QED BY <1>2, <2>8, <4>1, <4>2
    <3>3. AboutThis(p)' => place = "find"
      BY <1>1, <2>9, <2>11, <2>13 DEF AboutThis, At
    <3>4. run[p].cmd \in Commands /\ \A i \in DOMAIN run[p].undo : run[p].undo[i].tunnel \in Wants(p)
      BY <1>1, <1>2 DEF PlaceOK
    <3> QED BY <1>1, <2>9, <2>11, <2>12, <2>13, <3>1, <3>2, <3>3, <3>4 DEF PlaceOK, Undoing
  <2>15. AtWork(p)'
    <3>1. RestOK(p)'
      BY <2>5, <2>11 DEF RestOK
    <3> QED BY <2>9, <2>11, <2>13, <3>1 DEF AtWork, BeforeOK, AfterOK, UndoOK, At
  <2>16. r.pc \notin {"idle", "over", "lock"}
    BY <2>9, <2>13
  <2> QED BY <1>2, <2>1, <2>4, <2>9, <2>10, <2>14, <2>15, <2>16, GoesOn
<1>6. CASE UNCHANGED record /\ Fault /\ Undone(p, WithThis(p))
  <2>1. faults' \in 0..MaxFaults /\ flaws' = flaws
    BY <1>3, <1>6, FaultTyped
  <2>2. WorldOK' /\ Mine(p)
    BY <1>2, <1>3, <1>6, <2>1 DEF WorldOK, Mine
  <2>3. \A u \in Holds(p) \ {t} : Sound(u)'
    BY <1>3, <1>4, <1>6, <2>1 DEF Sound, Agree
  <2> QED BY <1>1, <1>6, <2>2, <2>3, UndoneWithThis
<1> QED BY <1>5, <1>6 DEF SaveApplied

\* What is known of a process that is past its tunnels.
LEMMA Inside ==
  ASSUME IInv, NEW p \in Procs, run[p].pc \notin {"idle", "over", "lock"}
  PROVE  /\ TypeOK /\ WorldOK /\ PlaceOK(p) /\ AtWork(p) /\ run[p] \in Runs
         /\ Holds(p) = Wants(p) /\ Holds(p) \subseteq Tunnels
         /\ \A i \in DOMAIN run[p].done : run[p].done[i].tunnel \in Wants(p)
<1>1. TypeOK /\ PlaceOK(p) /\ LocksOK(p) /\ AtWork(p) /\ run[p] \in Runs
  BY DEF IInv, TypeOK
<1> QED BY <1>1 DEF TypeOK, WorldOK, LocksOK, Holds, PlaceOK

LEMMA StartDaemonKeeps ==
  ASSUME IInv, NEW p \in Procs, StartDaemon(p)
  PROVE  IInv'
<1>1. run[p].pc = "daemon"
  BY DEF StartDaemon, At
<1>2. /\ TypeOK /\ WorldOK /\ PlaceOK(p) /\ AtWork(p) /\ run[p] \in Runs
      /\ Holds(p) = Wants(p) /\ \A i \in DOMAIN run[p].done : run[p].done[i].tunnel \in Wants(p)
  BY <1>1, Inside
<1>3. Is(p, "apply")
  BY <1>1, <1>2 DEF PlaceOK
<1>4. /\ record' = record /\ remote' = remote /\ pod' = pod /\ skewed' = skewed
      /\ worker' = worker
      /\ faults' \in 0..MaxFaults /\ flaws' = flaws
  BY <1>2, FaultTyped DEF StartDaemon, cluster, WorldOK, NoFault, trouble
<1>5. WorldOK' /\ Mine(p)
  BY <1>2, <1>4 DEF WorldOK, Mine
<1>6. \A u \in Holds(p) : Sound(u)'
  <2>1. \A u \in Holds(p) : Sound(u)
    BY <1>1, <1>2 DEF AtWork, RestOK, UnderChange, Undoing
  <2> QED BY <1>4, <2>1 DEF Sound, Agree
<1>7. CASE Go(p, "await")
  <2>1. "await" \in Places \ {"idle", "over", "lock", "find"} /\ "await" \notin Undoing
    BY DEF Places, Undoing
  <2>2. PlaceOK(p)'
    BY <1>1, <1>2, <1>3, <1>7, <2>1, GoPlace
  <2>3. run'[p].pc = "await" /\ Holds(p)' = Holds(p)
    BY <1>2, <1>7, <2>1, GoTo
  <2>4. RestOK(p)'
    BY <1>6, <2>3 DEF RestOK
  <2>5. AtWork(p)'
    BY <2>3, <2>4 DEF AtWork, BeforeOK, AfterOK, UndoOK, At
  <2> QED BY <1>2, <1>5, <1>7, <2>1, <2>2, <2>5, GoKeeps
<1>8. CASE Undone(p, run[p].done)
  <2>1. run[p].done \in Seq(Entries)
    BY <1>2 DEF Runs
  <2> QED BY <1>1, <1>2, <1>3, <1>5, <1>6, <1>8, <2>1, Undoes
<1> QED BY <1>7, <1>8 DEF StartDaemon

LEMMA AwaitKeeps ==
  ASSUME IInv, NEW p \in Procs, Await(p)
  PROVE  IInv'
<1>1. run[p].pc = "await"
  BY DEF Await, At
<1>2. /\ TypeOK /\ WorldOK /\ AtWork(p) /\ run[p] \in Runs
      /\ Holds(p) = Wants(p) /\ \A i \in DOMAIN run[p].done : run[p].done[i].tunnel \in Wants(p)
  BY <1>1, Inside
<1>3. /\ record' = record /\ remote' = remote /\ pod' = pod /\ skewed' = skewed
      /\ worker' = worker
      /\ faults' \in 0..MaxFaults /\ flaws' = flaws
  <2>1. NoFault \/ Fault
    BY DEF Await
  <2> QED BY <1>2, <2>1, FaultTyped DEF Await, cluster, WorldOK, NoFault, trouble
<1>4. WorldOK' /\ Mine(p)
  BY <1>2, <1>3 DEF WorldOK, Mine
<1>5. \A u \in Holds(p) : Sound(u)'
  <2>1. \A u \in Holds(p) : Sound(u)
    BY <1>1, <1>2 DEF AtWork, RestOK, UnderChange, Undoing
  <2> QED BY <1>3, <2>1 DEF Sound, Agree
<1>6. CASE End(p, "ok") \/ End(p, "committed")
  BY <1>4, <1>5, <1>6, GivesUp
<1>7. CASE Is(p, "apply") /\ Undone(p, run[p].done)
  <2>1. run[p].done \in Seq(Entries)
    BY <1>2 DEF Runs
  <2> QED BY <1>1, <1>2, <1>4, <1>5, <1>7, <2>1, Undoes
<1> QED BY <1>6, <1>7 DEF Await

\* One entry is undone: its tunnel is in order, and the next one's turn comes.
LEMMA UndoNextKeeps ==
  ASSUME IInv, NEW p \in Procs, run[p].pc \in Undoing, UndoNext(p), WorldOK', Mine(p),
         \A t \in Holds(p) : t = Entry(p).tunnel \/ t \notin UnderChange(p) => Sound(t)'
  PROVE  IInv'
<1> DEFINE undo == run[p].undo
           n == Len(run[p].undo)
           rest == SubSeq(run[p].undo, 1, n - 1)
<1>1. run[p].pc \notin {"idle", "over", "lock"}
  BY DEF Undoing
<1>2. /\ TypeOK /\ PlaceOK(p) /\ AtWork(p) /\ run[p] \in Runs
      /\ Holds(p) = Wants(p) /\ Holds(p) \subseteq Tunnels
  BY <1>1, Inside
<1>3. /\ undo \in Seq(Entries) /\ undo # <<>> /\ Is(p, "apply")
      /\ \A i \in DOMAIN undo : undo[i].tunnel \in Wants(p)
  BY <1>1, <1>2 DEF PlaceOK, Runs
<1>4. n \in Nat /\ n # 0 /\ DOMAIN undo = 1..n /\ Entry(p) = undo[n]
  BY <1>3 DEF Entry
<1>5. /\ rest \in Seq(Entries) /\ DOMAIN rest = 1..(n - 1)
      /\ \A i \in 1..(n - 1) : rest[i] = undo[i]
  <2>1. n - 1 <= n /\ 1 \in 1..(n + 1) /\ n - 1 \in 0..n
    BY <1>4
  <2>2. \A i \in 1..(n - 1) : undo[i] \in Entries
    BY <1>3, <1>4
  <2>3. rest = [i \in 1..(n - 1) |-> undo[i]]
    BY <1>3, <1>4
  <2> QED BY <1>4, <2>2, <2>3
<1> HIDE DEF rest
<1>6. \A i \in 1..n : i \in 1..(n - 1) \/ i = n
  BY <1>4
<1>7. ASSUME NEW t \in Holds(p), t \notin {rest[i].tunnel : i \in DOMAIN rest}
      PROVE  Sound(t)'
  <2>1. UnderChange(p) = {undo[i].tunnel : i \in DOMAIN undo}
    BY DEF UnderChange, Undoing
  <2>2. t = Entry(p).tunnel \/ t \notin UnderChange(p)
    BY <1>4, <1>5, <1>6, <1>7, <2>1
  <2> QED BY <2>2
<1>8. CASE rest = <<>>
  <2>1. DOMAIN rest = {}
    BY <1>8
  <2>2. \A t \in Holds(p) : Sound(t)'
    BY <1>7, <2>1
  <2>3. End(p, "error")
    BY <1>8 DEF UndoNext, rest
  <2> QED BY <2>2, <2>3, GivesUp
<1>9. CASE rest # <<>>
  <2> DEFINE last == rest[Len(rest)]
             place == IF last.previous = None THEN "remove" ELSE "restore"
             r == [run[p] EXCEPT !.undo = rest, !.pc = place]
  <2>1. Become(p, r)
    BY <1>9 DEF UndoNext, rest
  <2>2. place \in {"remove", "restore"} /\ place \in Places
        /\ (place \in {"remove", "forget"} <=> last.previous = None)
    BY DEF Places
  <2> HIDE DEF place
  <2>3. /\ r \in Runs /\ r.pc = place /\ r.cmd = run[p].cmd /\ r.todo = run[p].todo
        /\ r.done = run[p].done /\ r.undo = rest
    BY <1>2, <1>5, <2>2 DEF Runs
  <2> HIDE DEF r
  <2>4. /\ run'[p] = r /\ Holds(p)' = Holds(p) /\ Wants(p)' = Wants(p)
        /\ \A c : Is(p, c)' = Is(p, c)
    BY <1>2, <2>1, <2>3, Becomes
  <2>5. Entry(p)' = last /\ UnderChange(p)' = {rest[i].tunnel : i \in DOMAIN rest}
    BY <2>2, <2>3, <2>4 DEF Entry, UnderChange, Undoing
  <2>6. PlaceOK(p)'
    <3>1. ~AboutThis(p)' /\ ~Is(p, "domain")'
      BY <1>3, <2>2, <2>3, <2>4 DEF AboutThis, At, Is
    <3>2. \A i \in DOMAIN rest : rest[i].tunnel \in Wants(p)
      BY <1>3, <1>4, <1>5, <1>6
    <3> QED BY <1>1, <1>2, <1>3, <1>9, <2>2, <2>3, <2>4, <2>5, <3>1, <3>2
      DEF PlaceOK, Undoing
  <2>7. AtWork(p)'
    <3>1. RestOK(p)'
      BY <1>7, <2>4, <2>5 DEF RestOK
    <3> QED BY <2>2, <2>3, <2>4, <3>1 DEF AtWork, BeforeOK, AfterOK, UndoOK, At
  <2>8. r.pc \notin {"idle", "over", "lock"}
    BY <2>2, <2>3
  <2> QED BY <1>2, <2>1, <2>3, <2>6, <2>7, <2>8, GoesOn
<1> QED BY <1>8, <1>9

\* A step within the undoing of one entry.
LEMMA GoesOnUndoing ==
  ASSUME IInv, NEW p \in Procs, run[p].pc \in Undoing, NEW place \in Undoing,
         place \in {"remove", "forget"} <=> run[p].pc \in {"remove", "forget"},
         Go(p, place), WorldOK', Mine(p), record' = record,
         \A u \in Holds(p) \ {Entry(p).tunnel} : remote'[u] = remote[u] /\ flaws'[u] = flaws[u],
         UndoOK(p)'
  PROVE  IInv'
<1>1. run[p].pc \notin {"idle", "over", "lock"} /\ place \in Places \ {"idle", "over", "lock", "find"}
  BY DEF Undoing, Places
<1>2. /\ TypeOK /\ PlaceOK(p) /\ AtWork(p) /\ run[p] \in Runs
      /\ Holds(p) = Wants(p) /\ Holds(p) \subseteq Tunnels
  BY <1>1, Inside
<1>3. /\ Is(p, "apply") /\ run[p].undo # <<>> /\ run[p].undo \in Seq(Entries)
      /\ (run[p].pc \in {"remove", "forget"} <=> Entry(p).previous = None)
  BY <1>1, <1>2 DEF PlaceOK, Runs
<1>4. PlaceOK(p)'
  <2>1. place \notin {"sync", "ensure", "clear", "ready", "save", "revert", "await"}
    BY DEF Undoing
  <2> QED BY <1>1, <1>2, <1>3, <2>1, GoPlace
<1>5. /\ run'[p].pc = place /\ run'[p].undo = run[p].undo /\ Holds(p)' = Holds(p)
  BY <1>1, <1>2, GoTo
<1>6. Entry(p).tunnel \in UnderChange(p)
  <2>1. Len(run[p].undo) \in DOMAIN run[p].undo
    BY <1>3
  <2> QED BY <2>1 DEF UnderChange, Entry, Undoing
<1>7. UnderChange(p)' = UnderChange(p)
  BY <1>5 DEF UnderChange, Undoing
<1>8. RestOK(p)'
  BY <1>2, <1>5, <1>6, <1>7 DEF AtWork, RestOK, Sound, Agree
<1>9. BeforeOK(p)' /\ AfterOK(p)'
  BY <1>5 DEF BeforeOK, AfterOK, Undoing
<1> QED BY <1>1, <1>2, <1>4, <1>8, <1>9, GoKeeps DEF AtWork

\* What is known where an entry is undone.
LEMMA AtEntry ==
  ASSUME IInv, NEW p \in Procs, run[p].pc \in Undoing
  PROVE  /\ TypeOK /\ WorldOK /\ PlaceOK(p) /\ AtWork(p) /\ run[p] \in Runs
         /\ Entry(p) \in Entries /\ Entry(p).tunnel \in Tunnels
         /\ Entry(p).tunnel \in Holds(p) /\ Holds(p) \subseteq Tunnels
         /\ remote \in [Tunnels -> Remotes \cup {None}] /\ faults \in 0..MaxFaults
         /\ record \in [Tunnels -> Records \cup {None}]
         /\ flaws \in [Tunnels -> SUBSET {"partial", "lost", "save", "undo", "crash"}]
         /\ run[p].pc \notin {"remove", "forget"} => Entry(p).previous \in Records
<1>1. run[p].pc \notin {"idle", "over", "lock"}
  BY DEF Undoing
<1>2. /\ TypeOK /\ WorldOK /\ PlaceOK(p) /\ AtWork(p) /\ run[p] \in Runs
      /\ Holds(p) = Wants(p) /\ Holds(p) \subseteq Tunnels
  BY <1>1, Inside
<1>3. Entry(p) \in Entries /\ Entry(p).tunnel \in Holds(p)
  BY <1>1, <1>2, Own DEF IInv
<1>4. run[p].pc \notin {"remove", "forget"} => Entry(p).previous \in Records
  BY <1>1, <1>2, <1>3 DEF PlaceOK, Entries
<1> QED BY <1>2, <1>3, <1>4 DEF WorldOK

LEMMA RemoveKeeps ==
  ASSUME IInv, NEW p \in Procs, Remove(p)
  PROVE  IInv'
<1> DEFINE t == Entry(p).tunnel
<1>1. run[p].pc = "remove" /\ run[p].pc \in Undoing /\ Go(p, "forget")
  BY DEF Remove, At, Undoing
<1>2. /\ TypeOK /\ WorldOK /\ t \in Tunnels /\ t \in Holds(p) /\ Holds(p) \subseteq Tunnels
      /\ remote \in [Tunnels -> Remotes \cup {None}] /\ faults \in 0..MaxFaults
      /\ flaws \in [Tunnels -> SUBSET {"partial", "lost", "save", "undo", "crash"}]
  BY <1>1, AtEntry
<1>3. record' = record /\ pod' = pod /\ worker' = worker /\ skewed' \subseteq Tunnels
  BY <1>2 DEF Remove, Put, KeepRemote, WorldOK
<1>4. /\ remote' \in [Tunnels -> Remotes \cup {None}] /\ faults' \in 0..MaxFaults
      /\ flaws' \in [Tunnels -> SUBSET {"partial", "lost", "save", "undo", "crash"}]
      /\ \A u \in Tunnels \ {t} : remote'[u] = remote[u] /\ flaws'[u] = flaws[u]
      /\ remote'[t] = None \/ "undo" \in flaws'[t]
  <2>1. CASE Put(t, None) /\ NoFault
    BY <1>2, <2>1 DEF Put, NoFault, trouble
  <2>2. CASE KeepRemote /\ Flaw(t, "undo")
    BY <1>2, <2>2, FlawTyped DEF KeepRemote
  <2> QED BY <2>1, <2>2 DEF Remove
<1>5. WorldOK' /\ Mine(p)
  BY <1>2, <1>3, <1>4 DEF WorldOK, Mine
<1>6. UndoOK(p)'
  <2>1. run'[p].pc = "forget" /\ Entry(p)' = Entry(p)
    BY <1>1, <1>2, GoTo DEF Places
  <2> QED BY <1>4, <2>1 DEF UndoOK, At
<1>7. "forget" \in Undoing
  BY DEF Undoing
<1> QED BY <1>1, <1>2, <1>3, <1>4, <1>5, <1>6, <1>7, GoesOnUndoing

LEMMA ForgetKeeps ==
  ASSUME IInv, NEW p \in Procs, Forget(p)
  PROVE  IInv'
<1> DEFINE t == Entry(p).tunnel
<1>1. run[p].pc = "forget" /\ run[p].pc \in Undoing /\ UndoNext(p)
  BY DEF Forget, At, Undoing
<1>2. /\ WorldOK /\ AtWork(p) /\ t \in Tunnels /\ t \in Holds(p) /\ Holds(p) \subseteq Tunnels
      /\ record \in [Tunnels -> Records \cup {None}] /\ faults \in 0..MaxFaults
      /\ flaws \in [Tunnels -> SUBSET {"partial", "lost", "save", "undo", "crash"}]
  BY <1>1, AtEntry
<1>3. remote' = remote /\ pod' = pod /\ skewed' = skewed
      /\ worker' = worker
  BY DEF Forget, cluster
<1>4. /\ record' \in [Tunnels -> Records \cup {None}] /\ faults' \in 0..MaxFaults
      /\ flaws' \in [Tunnels -> SUBSET {"partial", "lost", "save", "undo", "crash"}]
      /\ \A u \in Tunnels \ {t} : record'[u] = record[u] /\ flaws'[u] = flaws[u]
      /\ (record'[t] = None /\ flaws' = flaws) \/ flaws'[t] # {}
  <2>1. CASE record' = [record EXCEPT ![t] = None] /\ NoFault
    BY <1>2, <2>1 DEF NoFault, trouble
  <2>2. CASE UNCHANGED record /\ Flaw(t, "undo")
    BY <1>2, <2>2, FlawTyped
  <2> QED BY <2>1, <2>2 DEF Forget
<1>5. WorldOK' /\ Mine(p)
  BY <1>2, <1>3, <1>4 DEF WorldOK, Mine
<1>6. remote[t] = None \/ flaws[t] # {}
  BY <1>1, <1>2 DEF AtWork, UndoOK, At
<1>7. ASSUME NEW u \in Holds(p), u = t \/ u \notin UnderChange(p)
      PROVE  Sound(u)'
  <2>1. CASE u = t
    BY <1>3, <1>4, <1>6, <2>1 DEF Sound, Agree
  <2>2. CASE u # t
    BY <1>2, <1>3, <1>4, <1>7, <2>2 DEF AtWork, RestOK, Sound, Agree
  <2> QED BY <2>1, <2>2
<1> QED BY <1>1, <1>5, <1>7, UndoNextKeeps

LEMMA RestoreKeeps ==
  ASSUME IInv, NEW p \in Procs, Restore(p)
  PROVE  IInv'
<1> DEFINE t == Entry(p).tunnel
           r == Entry(p).previous
           m == Objects(Config(r), r.domain)
<1>1. run[p].pc = "restore" /\ run[p].pc \in Undoing
  BY DEF Restore, At, Undoing
<1>2. /\ TypeOK /\ WorldOK /\ t \in Tunnels /\ t \in Holds(p) /\ Holds(p) \subseteq Tunnels
      /\ remote \in [Tunnels -> Remotes \cup {None}] /\ faults \in 0..MaxFaults
      /\ flaws \in [Tunnels -> SUBSET {"partial", "lost", "save", "undo", "crash"}]
      /\ r \in Records
  BY <1>1, AtEntry
<1>3. record' = record /\ pod' = pod /\ worker' = worker /\ skewed' \subseteq Tunnels
  BY <1>2 DEF Restore, Put, KeepRemote, WorldOK
<1>4. "restored" \in Undoing /\ "resave" \in Undoing
      /\ "restored" \in Places /\ "resave" \in Places
  BY DEF Undoing, Places
<1>5. CASE Put(t, m) /\ NoFault /\ Go(p, "restored")
  <2>1. m \in Remotes /\ Same(r, m)
    <3>1. Config(r) \in Configs /\ Config(r).secret = r.secret /\ Config(r).policy = r.policy
      BY <1>2, ConfigTyped
    <3>2. r.domain \in Domains \cup {NoDomain}
      BY <1>2 DEF Records
    <3> QED BY <3>1, <3>2, ObjectsTyped DEF Same
  <2> HIDE DEF m
  <2>2. /\ remote' \in [Tunnels -> Remotes \cup {None}] /\ remote'[t] = m
        /\ \A u \in Tunnels \ {t} : remote'[u] = remote[u]
        /\ flaws' = flaws /\ faults' = faults
    BY <1>2, <1>5, <2>1 DEF Put, NoFault, trouble
  <2>3. WorldOK' /\ Mine(p)
    BY <1>2, <1>3, <2>2 DEF WorldOK, Mine
  <2>4. run'[p].pc = "restored" /\ Entry(p)' = Entry(p)
    BY <1>2, <1>4, <1>5, GoTo
  <2>5. PutBack(p)'
    BY <2>1, <2>2, <2>4, SentinelAssumption DEF PutBack, Same
  <2>6. UndoOK(p)'
    BY <2>4, <2>5 DEF UndoOK, At
  <2> QED BY <1>1, <1>2, <1>3, <1>4, <1>5, <2>2, <2>3, <2>6, GoesOnUndoing
<1>6. ASSUME NEW h \in Halfway(remote[t], m), Put(t, h), Flaw(t, "undo"), Go(p, "resave")
      PROVE  IInv'
  <2>0. h \in Remotes \cup {None}
    <3>1. Config(r) \in Configs /\ r.domain \in Domains \cup {NoDomain}
      BY <1>2, ConfigTyped DEF Records
    <3>2. m \in Remotes
      BY <3>1, ObjectsTyped
    <3>3. remote[t] \in Remotes \cup {None}
      BY <1>2
    <3> HIDE DEF m
    <3> QED BY <1>6, <3>2, <3>3, HalfwayTyped
  <2> HIDE DEF m
  <2>9. /\ remote' \in [Tunnels -> Remotes \cup {None}]
        /\ \A u \in Tunnels \ {t} : remote'[u] = remote[u]
    BY <1>2, <1>6, <2>0 DEF Put
  <2>1. /\ faults' \in 0..MaxFaults /\ "undo" \in flaws'[t]
        /\ flaws' \in [Tunnels -> SUBSET {"partial", "lost", "save", "undo", "crash"}]
        /\ \A u \in Tunnels \ {t} : flaws'[u] = flaws[u]
    BY <1>2, <1>6, FlawTyped
  <2>2. WorldOK' /\ Mine(p)
    BY <1>2, <1>3, <2>1, <2>9 DEF WorldOK, Mine
  <2>3. run'[p].pc = "resave" /\ Entry(p)' = Entry(p)
    BY <1>2, <1>4, <1>6, GoTo
  <2>4. UndoOK(p)'
    BY <2>1, <2>3 DEF UndoOK, At
  <2>5. \A u \in Holds(p) \ {t} : remote'[u] = remote[u] /\ flaws'[u] = flaws[u]
    BY <1>2, <2>1, <2>9
  <2> QED BY <1>1, <1>2, <1>3, <1>4, <1>6, <2>2, <2>4, <2>5, GoesOnUndoing
<1> QED BY <1>5, <1>6 DEF Restore

LEMMA RestoredKeeps ==
  ASSUME IInv, NEW p \in Procs, Restored(p)
  PROVE  IInv'
<1>1. /\ run[p].pc = "restored" /\ run[p].pc \in Undoing /\ Go(p, "resave")
      /\ "resave" \in Undoing /\ "resave" \in Places
  BY DEF Restored, At, Undoing, Places
<1>2. /\ TypeOK /\ WorldOK /\ AtWork(p) /\ faults \in 0..MaxFaults
  BY <1>1, AtEntry
<1>3. /\ record' = record /\ remote' = remote /\ pod' = pod /\ skewed' = skewed
      /\ worker' = worker
      /\ faults' \in 0..MaxFaults /\ flaws' = flaws
  BY <1>2, FaultTyped DEF Restored, cluster, NoFault, trouble
<1>4. WorldOK' /\ Mine(p)
  BY <1>2, <1>3 DEF WorldOK, Mine
<1>5. UndoOK(p)'
  <2>1. run'[p].pc = "resave" /\ Entry(p)' = Entry(p)
    BY <1>1, <1>2, GoTo
  <2>2. PutBack(p)
    BY <1>1, <1>2 DEF AtWork, UndoOK, At
  <2>3. PutBack(p)'
    BY <1>3, <2>1, <2>2 DEF PutBack
  <2> QED BY <2>1, <2>3 DEF UndoOK, At
<1> QED BY <1>1, <1>3, <1>4, <1>5, GoesOnUndoing

LEMMA ResaveKeeps ==
  ASSUME IInv, NEW p \in Procs, Resave(p)
  PROVE  IInv'
<1> DEFINE t == Entry(p).tunnel
           r == Entry(p).previous
<1>1. run[p].pc = "resave" /\ run[p].pc \in Undoing /\ UndoNext(p)
  BY DEF Resave, At, Undoing
<1>2. /\ WorldOK /\ AtWork(p) /\ t \in Tunnels /\ t \in Holds(p) /\ Holds(p) \subseteq Tunnels
      /\ record \in [Tunnels -> Records \cup {None}] /\ faults \in 0..MaxFaults
      /\ flaws \in [Tunnels -> SUBSET {"partial", "lost", "save", "undo", "crash"}]
      /\ r \in Records
  BY <1>1, AtEntry
<1>3. remote' = remote /\ pod' = pod /\ skewed' = skewed
      /\ worker' = worker
  BY DEF Resave, cluster
<1>4. /\ record' \in [Tunnels -> Records \cup {None}] /\ faults' \in 0..MaxFaults
      /\ flaws' \in [Tunnels -> SUBSET {"partial", "lost", "save", "undo", "crash"}]
      /\ \A u \in Tunnels \ {t} : record'[u] = record[u] /\ flaws'[u] = flaws[u]
      /\ (record'[t] = r /\ flaws' = flaws) \/ flaws'[t] # {}
  <2>1. CASE record' = [record EXCEPT ![t] = r] /\ NoFault
    BY <1>2, <2>1 DEF NoFault, trouble
  <2>2. CASE UNCHANGED record /\ Flaw(t, "undo")
    BY <1>2, <2>2, FlawTyped
  <2> QED BY <2>1, <2>2 DEF Resave
<1>5. WorldOK' /\ Mine(p)
  BY <1>2, <1>3, <1>4 DEF WorldOK, Mine
<1>6. PutBack(p) \/ flaws[t] # {}
  BY <1>1, <1>2 DEF AtWork, UndoOK, At
<1>7. ASSUME NEW u \in Holds(p), u = t \/ u \notin UnderChange(p)
      PROVE  Sound(u)'
  <2>1. CASE u = t
    <3>1. r # None
      BY <1>2, SentinelAssumption
    <3> QED BY <1>3, <1>4, <1>6, <2>1, <3>1 DEF Sound, Agree, PutBack
  <2>2. CASE u # t
    BY <1>2, <1>3, <1>4, <1>7, <2>2 DEF AtWork, RestOK, Sound, Agree
  <2> QED BY <2>1, <2>2
<1> QED BY <1>1, <1>5, <1>7, UndoNextKeeps

LEMMA CrashKeeps ==
  ASSUME IInv, NEW p \in Procs, Crash(p)
  PROVE  IInv'
<1>1. TypeOK /\ AtWork(p) /\ WorldOK
  BY DEF IInv, TypeOK, WorldOK
<1>2. /\ End(p, "none") /\ record' = record /\ remote' = remote /\ pod' = pod /\ skewed' = skewed
      /\ worker' = worker
      /\ faults' \in 0..MaxFaults
  <2>1. faults < MaxFaults /\ faults' = faults + 1 /\ faults \in 0..MaxFaults
    BY <1>1 DEF Crash, WorldOK
  <2>2. faults' \in 0..MaxFaults
    BY <2>1, BoundAssumption
  <2> QED BY <2>2 DEF Crash, cluster
<1>3. /\ flaws' \in [Tunnels -> SUBSET {"partial", "lost", "save", "undo", "crash"}]
      /\ \A t \in Tunnels \ Holds(p) : flaws'[t] = flaws[t]
      /\ \A t \in Holds(p) : flaws'[t] # {}
  BY <1>1 DEF Crash, WorldOK, Holds
<1>4. WorldOK' /\ Mine(p)
  BY <1>1, <1>2, <1>3 DEF WorldOK, Mine
<1>5. \A t \in Holds(p) : Sound(t)'
  BY <1>3 DEF Sound
<1> QED BY <1>2, <1>4, <1>5, GivesUp

-----------------------------------------------------------------------------
(* The daemon and the pod say of a tunnel how it is connected, no more. *)

LEMMA Observed ==
  ASSUME IInv, record' \in [Tunnels -> Records \cup {None}],
         pod' \in [Tunnels -> Pods \cup {None}], skewed' \subseteq Tunnels,
         worker' \in [Tunnels -> Workers \cup {None}],
         UNCHANGED <<remote, lock, run, result, faults, flaws>>,
         \A t \in Tunnels :
           /\ record'[t] = None <=> record[t] = None
           /\ record[t] # None =>
                /\ record'[t].secret = record[t].secret /\ record'[t].policy = record[t].policy
                /\ record'[t].domain = record[t].domain
  PROVE  IInv'
<1>1. TypeOK'
  BY DEF IInv, TypeOK
<1>2. \A t \in Tunnels : Sound(t)' <=> Sound(t)
  BY DEF Sound, Agree, Same
<1>3. RecordAgrees'
  BY <1>2 DEF IInv, RecordAgrees
<1>4. ASSUME NEW q \in Procs
      PROVE  PlaceOK(q)' /\ LocksOK(q)' /\ AtWork(q)'
  <2>1. /\ TypeOK /\ PlaceOK(q) /\ LocksOK(q) /\ AtWork(q)
        /\ run' = run /\ lock' = lock /\ remote' = remote /\ flaws' = flaws
    BY DEF IInv
  <2>2. /\ Wants(q)' = Wants(q) /\ Item(q)' = Item(q) /\ This(q)' = This(q)
        /\ Asked(q)' = Asked(q) /\ Entry(q)' = Entry(q) /\ AboutThis(q)' = AboutThis(q)
        /\ Holds(q)' = Holds(q) /\ UnderChange(q)' = UnderChange(q)
    BY <2>1 DEF Wants, Item, This, Asked, Entry, AboutThis, Holds, UnderChange, At, Is
  <2>3. PlaceOK(q)' /\ LocksOK(q)'
    BY <2>1, <2>2 DEF PlaceOK, LocksOK, At, Is
  <2>4. RestOK(q)'
    BY <1>2, <2>1, <2>2 DEF AtWork, RestOK, Holds
  <2>5. BeforeOK(q)' /\ AfterOK(q)'
    <3>1. CASE run[q].pc \in {"sync", "ensure", "clear", "ready", "save", "revert"}
      <4>1. This(q) \in Tunnels
        BY <2>1, <3>1, Own DEF AboutThis, At
      <4>2. Changed(q)' = Changed(q) /\ (Copied(q) => Copied(q)')
        BY <2>1, <2>2, <4>1 DEF Changed, Copied, Same
      <4> QED BY <1>2, <2>1, <2>2, <4>1, <4>2 DEF AtWork, BeforeOK, AfterOK, Is
    <3>2. CASE run[q].pc \notin {"sync", "ensure", "clear", "ready", "save", "revert"}
      BY <2>1, <3>2 DEF BeforeOK, AfterOK
    <3> QED BY <3>1, <3>2
  <2>6. UndoOK(q)'
    BY <2>1, <2>2 DEF AtWork, UndoOK, PutBack, At
  <2> QED BY <2>3, <2>4, <2>5, <2>6 DEF AtWork
<1> QED BY <1>1, <1>3, <1>4 DEF IInv

LEMMA Reported ==
  ASSUME TypeOK, NEW t \in Tunnels, NEW s \in States, Report(t, s)
  PROVE  /\ record' \in [Tunnels -> Records \cup {None}]
         /\ \A u \in Tunnels :
              /\ record'[u] = None <=> record[u] = None
              /\ record[u] # None =>
                   /\ record'[u].secret = record[u].secret /\ record'[u].policy = record[u].policy
                   /\ record'[u].domain = record[u].domain
<1>1. CASE Desired(t)
  <2> DEFINE new == [record[t] EXCEPT !.state = s, !.fresh = record[t].fresh \/ s = "connected"]
  <2>1. record[t] \in Records
    BY <1>1 DEF Desired, TypeOK
  <2>2. (record[t].fresh \/ s = "connected") \in BOOLEAN
    OBVIOUS
  <2>3. /\ new \in Records /\ new.secret = record[t].secret /\ new.policy = record[t].policy
        /\ new.domain = record[t].domain
    BY <2>1, <2>2 DEF Records
  <2>4. record' = [record EXCEPT ![t] = new]
    BY <1>1 DEF Report, TypeOK
  <2> HIDE DEF new
  <2>5. record' \in [Tunnels -> Records \cup {None}]
    BY <2>3, <2>4 DEF TypeOK
  <2>6. \A u \in Tunnels : record'[u] = IF u = t THEN new ELSE record[u]
    BY <2>4 DEF TypeOK
  <2>7. new # None /\ record[t] # None
    BY <2>1, <2>3, SentinelAssumption
  <2> QED BY <2>3, <2>5, <2>6, <2>7
<1>2. CASE ~Desired(t)
  BY <1>2 DEF Report, TypeOK
<1> QED BY <1>1, <1>2

LEMMA Phased ==
  ASSUME TypeOK, NEW t \in Tunnels, worker[t] # None, NEW ph \in {"get", "dial", "serve"},
         Phase(t, ph)
  PROVE  worker' \in [Tunnels -> Workers \cup {None}]
<1> DEFINE new == [worker[t] EXCEPT !.phase = ph, !.live = (ph = "serve"),
                     !.key = IF ph = "get" THEN None ELSE worker[t].key]
<1>1. worker[t] \in Workers /\ (ph = "serve") \in BOOLEAN
  BY DEF TypeOK
<1>2. new \in Workers
  BY <1>1 DEF Workers
<1>3. worker' = [worker EXCEPT ![t] = new]
  BY DEF Phase, TypeOK
<1> HIDE DEF new
<1> QED BY <1>2, <1>3 DEF TypeOK

LEMMA DaemonKeeps ==
  ASSUME IInv, NEW t \in Tunnels, Daemon(t)
  PROVE  IInv'
<1>1. /\ TypeOK /\ remote' = remote /\ pod' = pod /\ skewed' = skewed
      /\ lock' = lock /\ run' = run
      /\ result' = result /\ faults' = faults /\ flaws' = flaws
  BY DEF IInv, Daemon, cluster, trouble
<1>2. /\ pod' \in [Tunnels -> Pods \cup {None}] /\ skewed' \subseteq Tunnels
      /\ record \in [Tunnels -> Records \cup {None}]
      /\ worker \in [Tunnels -> Workers \cup {None}]
  BY <1>1 DEF TypeOK
<1>3. {"connecting", "connected", "error"} \subseteq States
  BY DEF States
<1>4. CASE record' = record /\ worker' \in [Tunnels -> Workers \cup {None}]
  BY <1>1, <1>2, <1>4, Observed
<1>5. CASE /\ \E s \in States : Report(t, s)
           /\ worker' \in [Tunnels -> Workers \cup {None}]
  BY <1>1, <1>2, <1>5, Observed, Reported
<1>6. CASE Adopt(t)
  <2>1. Config(record[t]) \in Configs
    BY <1>2, <1>6 DEF Adopt, Desired, Config, Configs, Records
  <2>2. [print |-> Config(record[t]), key |-> None, phase |-> "get", live |-> FALSE] \in Workers
    <3>1. FALSE \in BOOLEAN
      OBVIOUS
    <3> QED BY <2>1, <3>1 DEF Workers
  <2>3. worker' \in [Tunnels -> Workers \cup {None}] /\ record' = record
    BY <1>2, <1>6, <2>2 DEF Adopt
  <2> QED BY <1>4, <2>3
<1>7. CASE Retire(t)
  BY <1>2, <1>4, <1>7 DEF Retire
<1>8. CASE Mark(t)
  <2> DEFINE new == [worker[t] EXCEPT !.phase = "dial", !.key = record[t].secret]
  <2>1. worker[t] \in Workers /\ record[t].secret \in Secrets
    BY <1>2, <1>8 DEF Mark, Desired, Records
  <2>2. new \in Workers
    BY <2>1 DEF Workers
  <2>3. worker' = [worker EXCEPT ![t] = new]
    BY <1>2, <1>8 DEF Mark
  <2> HIDE DEF new
  <2>4. worker' \in [Tunnels -> Workers \cup {None}]
    BY <1>2, <2>2, <2>3
  <2> QED BY <1>3, <1>5, <1>8, <2>4 DEF Mark
<1>9. CASE Connect(t)
  BY <1>1, <1>3, <1>5, <1>9, Phased DEF Connect
<1>10. CASE DialFails(t)
  BY <1>1, <1>3, <1>5, <1>10, Phased DEF DialFails
<1>11. CASE Dropped(t)
  BY <1>1, <1>3, <1>5, <1>11, Phased DEF Dropped
<1> QED BY <1>6, <1>7, <1>8, <1>9, <1>10, <1>11 DEF Daemon

\* What the end of a server does to the worker.
LEMMA SeveredWorker ==
  ASSUME TypeOK, NEW t \in Tunnels, Severed(t)
  PROVE  /\ worker' \in [Tunnels -> Workers \cup {None}]
         /\ \A u \in Tunnels : /\ worker'[u] = None <=> worker[u] = None
                               /\ worker[u] # None => worker'[u].phase = worker[u].phase
<1>1. CASE worker[t] = None
  BY <1>1 DEF Severed, TypeOK
<1>2. CASE worker[t] # None
  <2> DEFINE new == [worker[t] EXCEPT !.live = FALSE]
  <2>1. worker[t] \in Workers /\ FALSE \in BOOLEAN
    BY <1>2 DEF TypeOK
  <2>2. new \in Workers /\ new.phase = worker[t].phase
    BY <2>1 DEF Workers
  <2>3. worker' = [worker EXCEPT ![t] = new]
    BY <1>2 DEF Severed, TypeOK
  <2> HIDE DEF new
  <2>4. worker' \in [Tunnels -> Workers \cup {None}]
    BY <2>2, <2>3 DEF TypeOK
  <2>5. \A u \in Tunnels : worker'[u] = IF u = t THEN new ELSE worker[u]
    BY <2>3 DEF TypeOK
  <2> QED BY <1>2, <2>2, <2>4, <2>5, SentinelAssumption
<1> QED BY <1>1, <1>2

LEMMA FoundTyped ==
  ASSUME IInv, NEW t \in Tunnels, remote[t] # None
  PROVE  Found(t) \subseteq Configs
<1>1. TypeOK /\ remote[t] \in Remotes
  BY DEF IInv, TypeOK
<1>2. ASSUME NEW p \in Procs, At(p, "ensure") PROVE Config(Asked(p)) \in Configs
  <2>1. AboutThis(p) /\ run[p].pc = "ensure"
    BY <1>2 DEF At, AboutThis
  <2>2. PlaceOK(p) /\ run[p].todo # <<>> /\ Item(p) = run[p].todo[1] /\ Item(p) \in Items
    BY <2>1, AtThis DEF At
  <2> QED BY <1>1, <2>1, <2>2, AskedTyped, ConfigTyped
<1> QED BY <1>1, <1>2, ConfigTyped DEF Found

LEMMA RolloutKeeps ==
  ASSUME IInv, NEW t \in Tunnels, Rollout(t)
  PROVE  IInv'
<1>1. /\ TypeOK /\ record' = record /\ remote' = remote /\ lock' = lock /\ run' = run
      /\ result' = result /\ faults' = faults /\ flaws' = flaws
  BY DEF IInv, Rollout, trouble
<1>2. PICK want \in Pods \cup {None} : pod' = [pod EXCEPT ![t] = want]
  <2>1. CASE pod' = [pod EXCEPT ![t] = None]
    BY <2>1
  <2>2. ASSUME remote[t] # None, NEW c \in Found(t) \cup {remote[t].digest},
               pod' = [pod EXCEPT ![t] = [of |-> remote[t].digest, runs |-> c]]
        PROVE  \E want \in Pods \cup {None} : pod' = [pod EXCEPT ![t] = want]
    <3>1. remote[t] \in Remotes
      BY <1>1, <2>2 DEF TypeOK
    <3>2. remote[t].digest \in Configs /\ c \in Configs
      BY <2>2, <3>1, FoundTyped DEF Remotes
    <3>3. [of |-> remote[t].digest, runs |-> c] \in Pods
      BY <3>2 DEF Pods
    <3> QED BY <2>2, <3>3
  <2> QED BY <2>1, <2>2 DEF Rollout
<1>3. pod' \in [Tunnels -> Pods \cup {None}] /\ skewed' \subseteq Tunnels
  <2>1. skewed' \in {skewed, skewed \ {t}, skewed \cup {t}}
    BY DEF Rollout
  <2> QED BY <1>1, <1>2, <2>1 DEF TypeOK
<1>4. worker' \in [Tunnels -> Workers \cup {None}]
  BY <1>1, SeveredWorker DEF Rollout
<1>5. record' \in [Tunnels -> Records \cup {None}]
  BY <1>1 DEF TypeOK
<1> QED BY <1>1, <1>3, <1>4, <1>5, Observed

\* What a restart makes of a server.
LEMMA Restarted ==
  ASSUME IInv, NEW t \in Tunnels, Restart(t)
  PROVE  \E new \in Pods : new.of = pod[t].of /\ pod' = [pod EXCEPT ![t] = new]
<1>1. pod \in [Tunnels -> Pods \cup {None}] /\ pod[t] \in Pods
  BY DEF Restart, IInv, TypeOK
<1>2. PICK c \in Found(t) : pod' = [pod EXCEPT ![t].runs = c]
  BY DEF Restart
<1>3. c \in Configs
  BY <1>2, FoundTyped DEF Restart
<1> DEFINE new == [pod[t] EXCEPT !.runs = c]
<1>4. new \in Pods /\ new.of = pod[t].of
  BY <1>1, <1>3 DEF Pods
<1>5. pod' = [pod EXCEPT ![t] = new]
  BY <1>2
<1> HIDE DEF new
<1> QED BY <1>4, <1>5

LEMMA RestartKeeps ==
  ASSUME IInv, NEW t \in Tunnels, Restart(t)
  PROVE  IInv'
<1>1. /\ TypeOK /\ record' = record /\ remote' = remote /\ lock' = lock /\ run' = run
      /\ result' = result /\ faults' = faults /\ flaws' = flaws
  BY DEF IInv, Restart, trouble
<1>2. pod' \in [Tunnels -> Pods \cup {None}] /\ skewed' \subseteq Tunnels
  <2>1. PICK new \in Pods : pod' = [pod EXCEPT ![t] = new]
    BY Restarted
  <2>2. skewed' = skewed \cup {t}
    BY DEF Restart
  <2> QED BY <1>1, <2>1, <2>2 DEF TypeOK
<1>3. worker' \in [Tunnels -> Workers \cup {None}]
  BY <1>1, SeveredWorker DEF Restart
<1>4. record' \in [Tunnels -> Records \cup {None}]
  BY <1>1 DEF TypeOK
<1> QED BY <1>1, <1>2, <1>3, <1>4, Observed
-----------------------------------------------------------------------------
(* What a step of a process moves. *)

\* The tunnel that a step changes.
Touched(p) == IF run[p].pc \in Undoing THEN Entry(p).tunnel ELSE This(p)

LEMMA StepTouches ==
  ASSUME IInv, NEW p \in Procs, Step(p)
  PROVE  /\ pod' = pod /\ worker' = worker /\ Mine(p)
         /\ \A u \in Tunnels \ {Touched(p)} :
              record'[u] = record[u] /\ remote'[u] = remote[u] /\ flaws'[u] = flaws[u]
         /\ run[p].pc \notin {"idle", "over"}
<1>1. TypeOK
  BY DEF IInv
<1>2. /\ record \in [Tunnels -> Records \cup {None}]
      /\ remote \in [Tunnels -> Remotes \cup {None}]
      /\ flaws \in [Tunnels -> SUBSET {"partial", "lost", "save", "undo", "crash"}]
  BY <1>1 DEF TypeOK
\* Steps that change nothing but the process.
<1>3. CASE \/ TakeLock(p) \/ LockTimeout(p) \/ Find(p) \/ Unverified(p) \/ Clear(p) \/ Ready(p)
           \/ StartDaemon(p) \/ Await(p) \/ Restored(p)
  <2>1. /\ record' = record /\ remote' = remote /\ flaws' = flaws /\ pod' = pod
        /\ worker' = worker
    BY <1>3
    DEF TakeLock, LockTimeout, Find, Unverified, Clear, Ready, StartDaemon, Await, Restored,
        cluster, trouble, NoFault, Fault
  <2>2. run[p].pc \notin {"idle", "over"}
    BY <1>3
    DEF TakeLock, LockTimeout, Find, Unverified, Clear, Ready, StartDaemon, Await, Restored,
        At, Waits
  <2> QED BY <2>1, <2>2 DEF Mine
\* Steps that change the tunnel they are about.
<1>4. CASE Sync(p) \/ Ensure(p) \/ SetDomain(p) \/ Save(p) \/ Revert(p) \/ SaveApplied(p)
  <2>1. /\ run[p].pc \in {"sync", "ensure", "save", "revert"} /\ run[p].pc # "lock"
    BY <1>4 DEF Sync, Ensure, SetDomain, Save, Revert, SaveApplied, At
  <2>2. Touched(p) = This(p) /\ This(p) \in Holds(p)
    BY <2>1, AtThis DEF Touched, Undoing, AboutThis, At
  <2>3. pod' = pod /\ worker' = worker
    BY <1>4 DEF Sync, Ensure, SetDomain, Save, Revert, SaveApplied, cluster
  <2>4. \A u \in Tunnels \ {This(p)} :
          record'[u] = record[u] /\ remote'[u] = remote[u] /\ flaws'[u] = flaws[u]
    <3>1. CASE Sync(p)
      BY <1>2, <3>1 DEF Sync, cluster, trouble, NoFault, InOrder, Fault
    <3>2. CASE Ensure(p)
      BY <1>2, <3>2 DEF Ensure, Put, trouble, NoFault, Fault, Flaw, Mishap
    <3>3. CASE SetDomain(p)
      BY <1>2, <3>3 DEF SetDomain, Put, KeepRemote, trouble, NoFault, Fault, Flaw
    <3>4. CASE Save(p)
      BY <1>2, <3>4 DEF Save, cluster, trouble, NoFault, Flaw
    <3>5. CASE Revert(p)
      BY <1>2, <3>5 DEF Revert, Put, KeepRemote, trouble
    <3>6. CASE SaveApplied(p)
      BY <1>2, <3>6 DEF SaveApplied, cluster, InOrder, Fault
    <3> QED BY <1>4, <3>1, <3>2, <3>3, <3>4, <3>5, <3>6
  <2> QED BY <2>1, <2>2, <2>3, <2>4 DEF Mine
\* Steps that undo an entry.
<1>5. CASE Remove(p) \/ Forget(p) \/ Restore(p) \/ Resave(p)
  <2>1. run[p].pc \in Undoing /\ run[p].pc \notin {"idle", "over"}
    BY <1>5 DEF Remove, Forget, Restore, Resave, At, Undoing
  <2>2. Touched(p) = Entry(p).tunnel /\ Entry(p).tunnel \in Holds(p)
    BY <2>1, AtEntry DEF Touched
  <2>3. pod' = pod /\ worker' = worker
    BY <1>5 DEF Remove, Forget, Restore, Resave, cluster
  <2>4. \A u \in Tunnels \ {Entry(p).tunnel} :
          record'[u] = record[u] /\ remote'[u] = remote[u] /\ flaws'[u] = flaws[u]
    BY <1>2, <1>5
    DEF Remove, Forget, Restore, Resave, Put, KeepRemote, cluster, trouble, NoFault, Flaw
  <2> QED BY <2>1, <2>2, <2>3, <2>4 DEF Mine
<1> QED BY <1>3, <1>4, <1>5 DEF Step

\* It changes its own process only.
LEMMA StepAlone ==
  ASSUME TypeOK, NEW p \in Procs, Step(p) \/ Crash(p) \/ \E c \in Commands : Begin(p, c),
         NEW q \in Procs \ {p}
  PROVE  run'[q] = run[q]
<1>1. \A r : Become(p, r) => run'[q] = run[q]
  BY DEF Become, TypeOK
<1>2. \A res : End(p, res) => run'[q] = run[q]
  BY DEF End, TypeOK
<1>3. \A place : Go(p, place) => run'[q] = run[q]
  BY <1>1 DEF Go
<1>4. \A entries : Undone(p, entries) => run'[q] = run[q]
  BY <1>1, <1>2 DEF Undone
<1>5. Fail(p) \/ EnsureFails(p) => run'[q] = run[q]
  BY <1>2, <1>4 DEF Fail, EnsureFails
<1>6. UndoNext(p) => run'[q] = run[q]
  BY <1>1, <1>2 DEF UndoNext
<1>7. CASE \E c \in Commands : Begin(p, c)
  BY <1>7 DEF Begin, TypeOK
<1>8. CASE Crash(p)
  BY <1>2, <1>8 DEF Crash
<1>9. CASE TakeLock(p)
  BY <1>9 DEF TakeLock
<1>10. CASE LockTimeout(p) \/ Find(p)
  BY <1>1, <1>2, <1>10 DEF LockTimeout, Find
<1>11. CASE Sync(p) \/ Unverified(p)
  BY <1>1, <1>2, <1>5, <1>11 DEF Sync, Unverified
<1>12. CASE Ensure(p) \/ SetDomain(p) \/ Clear(p) \/ Ready(p)
  BY <1>2, <1>3, <1>4, <1>5, <1>12 DEF Ensure, SetDomain, Clear, Ready
<1>13. CASE Save(p) \/ Revert(p) \/ SaveApplied(p)
  BY <1>1, <1>2, <1>3, <1>4, <1>13 DEF Save, Revert, SaveApplied
<1>14. CASE StartDaemon(p) \/ Await(p)
  BY <1>2, <1>3, <1>4, <1>14 DEF StartDaemon, Await
<1>15. CASE Remove(p) \/ Forget(p) \/ Restore(p) \/ Restored(p) \/ Resave(p)
  BY <1>3, <1>6, <1>15 DEF Remove, Forget, Restore, Restored, Resave
<1> QED BY <1>7, <1>8, <1>9, <1>10, <1>11, <1>12, <1>13, <1>14, <1>15 DEF Step

\* A process ends by a step of its own.
LEMMA EndsItself ==
  ASSUME TypeOK, [Next]_vars, NEW p \in Procs, Ends(p)
  PROVE  Step(p) \/ Crash(p)
<1>1. run'[p] # run[p]
  BY DEF Ends, At
<1>2. ~ UNCHANGED run
  BY <1>1
<1>3. PICK q \in Procs : Step(q) \/ Crash(q) \/ \E c \in Commands : Begin(q, c)
  BY <1>2 DEF Next, Finished, Daemon, Rollout, Restart, vars
<1>4. q = p
  BY <1>1, <1>3, StepAlone
<1>5. ~ \E c \in Commands : Begin(p, c)
  <2> SUFFICES ASSUME NEW c \in Commands, Begin(p, c) PROVE FALSE
    OBVIOUS
  <2>1. run'[p].pc = "lock"
    BY DEF Begin, TypeOK, Runs
  <2> QED BY <2>1 DEF Ends
<1> QED BY <1>3, <1>4, <1>5
-----------------------------------------------------------------------------
(* A command that fails before it commits. *)

Unchanged(p) ==
  LET t == This(p)
      r == run[p].sess
  IN  /\ record'[t] # None => Config(record'[t]) = Config(r)
      /\ remote'[t] # None /\ "lost" \notin flaws'[t] => Config(remote'[t]) = Config(r)
      /\ remote'[t] # None /\ flaws'[t] = {} => remote'[t].domain = r.domain

LEMMA EnsureUncommitted ==
  ASSUME IInv, NEW p \in Procs, Ensure(p) \/ SetDomain(p), Ends(p), ~Is(p, "apply")
  PROVE  Unchanged(p)
<1> DEFINE t == This(p)
           s == run[p].sess
<1>1. AboutThis(p) /\ (At(p, "lock") => Wants(p) = Holds(p)) /\ run[p].pc = "ensure"
  BY DEF Ensure, SetDomain, At, AboutThis
<1>2. /\ TypeOK /\ WorldOK /\ PlaceOK(p) /\ AtWork(p) /\ t \in Tunnels
      /\ remote \in [Tunnels -> Remotes \cup {None}] /\ faults \in 0..MaxFaults
      /\ flaws \in [Tunnels -> SUBSET {"partial", "lost", "save", "undo", "crash"}]
  BY <1>1, AtThis DEF WorldOK
<1>3. /\ s # None /\ record[t] # None /\ Same(record[t], s)
      /\ remote[t] # None => Same(s, remote[t])
  BY <1>1, <1>2 DEF PlaceOK, AtWork, BeforeOK, Copied
<1>4. record' = record /\ Config(record[t]) = Config(s)
  BY <1>3 DEF Ensure, SetDomain, Same, Config
<1>5. CASE remote' = remote
  BY <1>3, <1>4, <1>5 DEF Unchanged, Same, Config
<1>6. ASSUME NEW place \in Places, Go(p, place), place # "over" PROVE FALSE
  BY <1>2, <1>6, GoTo DEF Ends
<1>7. CASE Ensure(p)
  <2>1. ~(Go(p, AfterEnsure(p)))
    BY <1>6 DEF AfterEnsure, Places
  <2>2. CASE Mishap(p, "lost")
    <3>1. "lost" \in flaws'[t]
      BY <1>2, <2>2, FlawTyped DEF Mishap
    <3> QED BY <1>4, <3>1 DEF Unchanged
  <2>3. ASSUME NEW m \in Halfway(remote[t], Asked(p)), Put(t, m), m # remote[t],
               Mishap(p, "partial")
        PROVE  Unchanged(p)
    <3>1. flaws'[t] # {}
      BY <1>2, <2>3, FlawTyped DEF Mishap
    <3>2. remote[t] # None /\ remote[t] \in Remotes
      BY <1>2, <2>3 DEF Halfway
    <3>3. m.secret = remote[t].secret /\ m.policy = remote[t].policy
      BY <2>3, <3>2 DEF Halfway, Remotes
    <3>4. remote'[t] = m
      BY <1>2, <2>3 DEF Put
    <3>5. Config(remote'[t]) = Config(s)
      BY <1>3, <3>2, <3>3, <3>4 DEF Config, Same
    <3> QED BY <1>4, <3>1, <3>5 DEF Unchanged
  <2>4. ASSUME NEW m \in Halfway(remote[t], Asked(p)), Put(t, m), m = remote[t]
        PROVE  remote' = remote
    BY <1>2, <2>4 DEF Put
  <2> QED BY <1>5, <1>7, <2>1, <2>2, <2>3, <2>4 DEF Ensure
<1>8. CASE SetDomain(p)
  <2>1. ~Go(p, "save")
    BY <1>6 DEF Places
  <2>2. CASE Flaw(t, "lost")
    <3>1. "lost" \in flaws'[t]
      BY <1>2, <2>2, FlawTyped
    <3> QED BY <1>4, <3>1 DEF Unchanged
  <2> QED BY <1>5, <1>8, <2>1, <2>2 DEF SetDomain, KeepRemote
<1> QED BY <1>7, <1>8

LEMMA RevertUncommitted ==
  ASSUME IInv, NEW p \in Procs, Revert(p)
  PROVE  Unchanged(p)
<1> DEFINE t == This(p)
           s == run[p].sess
           m == [remote[t] EXCEPT !.domain = s.domain]
<1>1. AboutThis(p) /\ (At(p, "lock") => Wants(p) = Holds(p)) /\ run[p].pc = "revert"
  BY DEF Revert, At, AboutThis
<1>2. /\ TypeOK /\ WorldOK /\ AtWork(p) /\ t \in Tunnels
      /\ remote \in [Tunnels -> Remotes \cup {None}]
  BY <1>1, AtThis DEF WorldOK
<1>3. /\ flaws[t] # {} /\ Copied(p) /\ remote[t] # None /\ remote[t] \in Remotes
      /\ remote[t].secret = s.secret /\ remote[t].policy = s.policy
  BY <1>1, <1>2 DEF AtWork, AfterOK
<1>4. record' = record /\ Config(record[t]) = Config(s) /\ Config(remote[t]) = Config(s)
  BY <1>3 DEF Revert, Same, Config, Copied
<1>5. CASE Put(t, m)
  <2>1. m.secret = s.secret /\ m.policy = s.policy /\ m.domain = s.domain
    BY <1>3 DEF Remotes
  <2>2. remote'[t] = m
    BY <1>2, <1>5 DEF Put
  <2> HIDE DEF m
  <2>3. Config(remote'[t]) = Config(s) /\ remote'[t].domain = s.domain
    BY <2>1, <2>2 DEF Config
  <2> QED BY <1>4, <2>3 DEF Unchanged
<1>6. CASE KeepRemote /\ UNCHANGED trouble
  BY <1>3, <1>4, <1>6 DEF Unchanged, trouble, KeepRemote
<1> QED BY <1>5, <1>6 DEF Revert

LEMMA StepUncommitted ==
  ASSUME IInv, [Next]_vars, NEW p \in Procs, Ends(p), result' = "error",
         At(p, "ensure") \/ At(p, "revert"), ~Is(p, "apply")
  PROVE  Unchanged(p)
<1>1. Step(p)
  <2>1. ~Crash(p)
    BY DEF Crash, End
  <2> QED BY <2>1, EndsItself DEF IInv
<1>2. CASE At(p, "ensure")
  <2>1. Ensure(p) \/ SetDomain(p)
    BY <1>1, <1>2
    DEF Step, TakeLock, LockTimeout, Find, Sync, Unverified, Clear, Ready, Save, Revert,
        SaveApplied, StartDaemon, Await, Remove, Forget, Restore, Restored, Resave, At, Waits
  <2> QED BY <2>1, EnsureUncommitted
<1>3. CASE At(p, "revert")
  <2>1. Revert(p)
    BY <1>1, <1>3
    DEF Step, TakeLock, LockTimeout, Find, Sync, Unverified, Ensure, SetDomain, Clear, Ready,
        Save, SaveApplied, StartDaemon, Await, Remove, Forget, Restore, Restored, Resave, At, Waits
  <2> QED BY <2>1, RevertUncommitted
<1> QED BY <1>2, <1>3
-----------------------------------------------------------------------------
(* What an apply that fails has undone. *)

\* Who is not touched keeps his lists, and what he has undone.
LEMMA ListsOthers ==
  ASSUME IInv, NEW q \in Procs, ListsOK(q), UndoneOK(q), run'[q] = run[q],
         \A t \in Holds(q) :
           record'[t] = record[t] /\ remote'[t] = remote[t] /\ flaws'[t] = flaws[t]
  PROVE  ListsOK(q)' /\ UndoneOK(q)'
<1>1. /\ Wants(q)' = Wants(q) /\ This(q)' = This(q) /\ AboutThis(q)' = AboutThis(q)
      /\ Is(q, "apply")' = Is(q, "apply")
  BY DEF Wants, This, Item, AboutThis, Is, At
<1>2. ListsOK(q)'
  BY <1>1 DEF ListsOK
<1>3. UndoneOK(q)'
  <2> SUFFICES ASSUME run[q].pc \in Undoing, NEW i \in DOMAIN run[q].done \ DOMAIN run[q].undo,
                      NEW e, e = run[q].done[i]
               PROVE  Back(e)'
    BY DEF UndoneOK
  <2>1. e.tunnel \in Holds(q)
    BY Inside DEF Undoing
  <2>2. Back(e)
    BY DEF UndoneOK
  <2> QED BY <2>1, <2>2 DEF Back, AsBefore
<1> QED BY <1>2, <1>3

\* The lists stay as they are.
LEMMA ListsStay ==
  ASSUME NEW p \in Procs, PlaceOK(p), ListsOK(p), run[p].pc \notin {"idle", "over"},
         run'[p].cmd = run[p].cmd, run'[p].todo = run[p].todo, run'[p].done = run[p].done,
         run'[p].undo = run[p].undo,
         run'[p].pc \notin {"idle", "over", "lock"},
         run'[p].pc \in Undoing <=> run[p].pc \in Undoing,
         Is(p, "apply") \/ AboutThis(p),
         run'[p].pc \in {"daemon", "await"} /\ Is(p, "apply") => run[p].todo = <<>>
  PROVE  ListsOK(p)'
<1>1. Wants(p)' = Wants(p) /\ This(p)' = This(p) /\ Is(p, "apply")' = Is(p, "apply")
  BY DEF Wants, This, Item, Is
<1> QED BY <1>1 DEF ListsOK

\* It goes to another place, not of the undoing.
LEMMA ListsGo ==
  ASSUME IInv, NEW p \in Procs, ListsOK(p), run[p].pc \notin {"idle", "over"} \cup Undoing,
         NEW place \in Places \ ({"idle", "over", "lock"} \cup Undoing), Go(p, place),
         Is(p, "apply") \/ AboutThis(p),
         place \in {"daemon", "await"} /\ Is(p, "apply") => run[p].todo = <<>>
  PROVE  ListsOK(p)' /\ UndoneOK(p)'
<1>1. TypeOK /\ PlaceOK(p)
  BY DEF IInv
<1>2. /\ run'[p].pc = place /\ run'[p].cmd = run[p].cmd /\ run'[p].todo = run[p].todo
      /\ run'[p].done = run[p].done /\ run'[p].undo = run[p].undo
  BY <1>1, GoTo
<1>3. ListsOK(p)'
  BY <1>1, <1>2, ListsStay
<1>4. UndoneOK(p)'
  BY <1>2 DEF UndoneOK
<1> QED BY <1>3, <1>4

LEMMA ListsEnd ==
  ASSUME TypeOK, NEW p \in Procs, NEW res, End(p, res)
  PROVE  ListsOK(p)' /\ UndoneOK(p)'
<1>1. run'[p].pc = "over"
  BY DEF End, TypeOK, Idle
<1> QED BY <1>1 DEF ListsOK, UndoneOK, Undoing

\* An apply begins to undo.
LEMMA ListsUndone ==
  ASSUME TypeOK, NEW p \in Procs, NEW entries \in Seq(Entries), Undone(p, entries),
         Is(p, "apply"),
         \A i, j \in DOMAIN entries : i # j => entries[i].tunnel # entries[j].tunnel
  PROVE  ListsOK(p)' /\ UndoneOK(p)'
<1>1. CASE entries = <<>>
  BY <1>1, ListsEnd DEF Undone
<1>2. CASE entries # <<>>
  <2> DEFINE place == IF entries[Len(entries)].previous = None THEN "remove" ELSE "restore"
             r == [run[p] EXCEPT !.done = entries, !.undo = entries, !.pc = place]
  <2>1. Become(p, r)
    BY <1>2 DEF Undone
  <2>2. place \in Undoing
    BY DEF Undoing
  <2> HIDE DEF place
  <2>3. r.pc = place /\ r.cmd = run[p].cmd /\ r.done = entries /\ r.undo = entries
    BY DEF TypeOK, Runs
  <2> HIDE DEF r
  <2>4. run'[p] = r /\ Is(p, "apply")'
    BY <2>1, <2>3, Becomes
  <2>5. place # "lock" /\ ~(place \in {"daemon", "await"})
    BY <2>2 DEF Undoing
  <2> QED BY <2>2, <2>3, <2>4, <2>5 DEF ListsOK, UndoneOK
<1> QED BY <1>1, <1>2

\* The tunnel at work comes after those that are done.
LEMMA DoneWithThis ==
  ASSUME IInv, NEW p \in Procs, ListsOK(p), AboutThis(p), run[p].pc # "lock"
  PROVE  /\ WithThis(p) \in Seq(Entries)
         /\ DOMAIN WithThis(p) = 1..(Len(run[p].done) + 1) /\ Len(run[p].done) \in Nat
         /\ DOMAIN run[p].done = 1..Len(run[p].done)
         /\ \A i \in DOMAIN run[p].done : WithThis(p)[i] = run[p].done[i]
         /\ WithThis(p)[Len(run[p].done) + 1] =
              [tunnel |-> This(p), previous |-> run[p].sess]
         /\ \A i, j \in DOMAIN WithThis(p) :
              i # j => WithThis(p)[i].tunnel # WithThis(p)[j].tunnel
<1> DEFINE done == run[p].done
           e == [tunnel |-> This(p), previous |-> run[p].sess]
           all == WithThis(p)
<1>1. /\ run[p] \in Runs /\ This(p) \in Tunnels /\ run[p].todo # <<>>
      /\ run[p].pc \notin {"idle", "over"} \cup Undoing /\ Item(p) = run[p].todo[1]
  BY AtThis DEF At
<1>2. done \in Seq(Entries) /\ e \in Entries /\ run[p].todo \in Seq(Items)
  BY <1>1 DEF Runs, Entries
<1>3. /\ all \in Seq(Entries) /\ Len(all) = Len(done) + 1 /\ Len(done) \in Nat
      /\ \A i \in 1..Len(done) : all[i] = done[i]
      /\ all[Len(done) + 1] = e
  BY <1>2, AppendProperties DEF WithThis
<1>4. DOMAIN all = 1..(Len(done) + 1) /\ DOMAIN done = 1..Len(done)
  BY <1>2, <1>3
<1>5. \A i \in DOMAIN done : done[i].tunnel # This(p)
  <2>1. 1 \in DOMAIN run[p].todo
    BY <1>1, <1>2
  <2> QED BY <1>1, <2>1 DEF ListsOK, This
<1>6. \A i, j \in DOMAIN done : i # j => done[i].tunnel # done[j].tunnel
  BY <1>1 DEF ListsOK
<1>7. e.tunnel = This(p)
  OBVIOUS
<1> HIDE DEF all, e
<1>8. \A i \in DOMAIN all : i \in DOMAIN done \/ i = Len(done) + 1
  BY <1>3, <1>4
<1>9. \A i, j \in DOMAIN all : i # j => all[i].tunnel # all[j].tunnel
  BY <1>3, <1>4, <1>5, <1>6, <1>7, <1>8
<1> QED BY <1>3, <1>4, <1>9 DEF all, e

LEMMA ListsFail ==
  ASSUME IInv, NEW p \in Procs, ListsOK(p), run[p].pc \notin {"idle", "over"},
         Fail(p) \/ (AboutThis(p) /\ run[p].pc # "lock" /\ EnsureFails(p))
  PROVE  ListsOK(p)' /\ UndoneOK(p)'
<1>1. TypeOK /\ run[p].done \in Seq(Entries)
  BY DEF IInv, TypeOK, Runs
<1>2. \A i, j \in DOMAIN run[p].done : i # j => run[p].done[i].tunnel # run[p].done[j].tunnel
  BY DEF ListsOK
<1>3. CASE Fail(p)
  BY <1>1, <1>2, <1>3, ListsEnd, ListsUndone DEF Fail
<1>4. CASE AboutThis(p) /\ run[p].pc # "lock" /\ EnsureFails(p)
  BY <1>1, <1>3, <1>4, DoneWithThis, ListsUndone DEF EnsureFails
<1> QED BY <1>3, <1>4

\* The next entry.
LEMMA ListsUndoNext ==
  ASSUME IInv, NEW p \in Procs, ListsOK(p), UndoneOK(p), run[p].pc \in Undoing, UndoNext(p),
         \A u \in Tunnels \ {Entry(p).tunnel} :
           record'[u] = record[u] /\ remote'[u] = remote[u] /\ flaws'[u] = flaws[u],
         \A e \in Entries : e = Entry(p) => Back(e)'
  PROVE  /\ ListsOK(p)' /\ UndoneOK(p)'
         /\ Ends(p) => \A i \in DOMAIN run[p].done :
                         \A e \in Entries : e = run[p].done[i] => Back(e)'
<1> DEFINE undo == run[p].undo
           done == run[p].done
           n == Len(undo)
           rest == SubSeq(undo, 1, n - 1)
<1>1. /\ TypeOK /\ run[p] \in Runs /\ PlaceOK(p) /\ run[p].pc \notin {"idle", "over", "lock"}
      /\ undo \in Seq(Entries) /\ done \in Seq(Entries) /\ undo # <<>>
      /\ \A i \in DOMAIN done : done[i].tunnel \in Tunnels
  <2>1. run[p] \in Runs /\ TypeOK /\ PlaceOK(p)
    BY DEF IInv, TypeOK
  <2>2. run[p].pc \notin {"idle", "over", "lock"}
    BY DEF Undoing
  <2>3. undo \in Seq(Entries) /\ done \in Seq(Entries) /\ undo # <<>>
    BY <2>1, <2>2 DEF Runs, PlaceOK
  <2>4. \A i \in DOMAIN done : done[i] \in Entries
    BY <2>3
  <2>5. \A i \in DOMAIN done : done[i].tunnel \in Tunnels
    BY <2>4 DEF Entries
  <2> QED BY <2>1, <2>2, <2>3, <2>5
<1>2. /\ n \in Nat /\ n # 0 /\ DOMAIN undo = 1..n /\ n \in DOMAIN undo /\ Entry(p) = undo[n]
  BY <1>1 DEF Entry
<1>3. /\ DOMAIN rest = 1..(n - 1) /\ \A i \in DOMAIN rest : rest[i] = undo[i]
  <2>1. rest = [i \in 1..(n - 1) |-> undo[i]]
    BY <1>1, <1>2
  <2> QED BY <2>1
<1> HIDE DEF rest
<1>4. /\ \A i \in DOMAIN undo : i \in DOMAIN done /\ undo[i] = done[i]
      /\ \A i, j \in DOMAIN done : i # j => done[i].tunnel # done[j].tunnel
      /\ Is(p, "apply")
  BY <1>1 DEF ListsOK, PlaceOK
<1>5. ASSUME NEW i \in DOMAIN done \ DOMAIN rest, NEW e \in Entries, e = done[i]
      PROVE  Back(e)'
  <2>1. CASE i \in DOMAIN undo
    <3>1. i = n
      BY <1>2, <1>3, <1>5, <2>1
    <3> QED BY <1>2, <1>4, <1>5, <3>1
  <2>2. CASE i \notin DOMAIN undo
    <3>1. Back(e)
      BY <1>5, <2>2 DEF UndoneOK
    <3>2. e.tunnel \in Tunnels \ {Entry(p).tunnel}
      BY <1>1, <1>2, <1>4, <1>5, <2>2
    <3> QED BY <3>1, <3>2 DEF Back, AsBefore
  <2> QED BY <2>1, <2>2
<1>6. CASE rest = <<>>
  <2>1. DOMAIN rest = {}
    BY <1>6
  <2>2. End(p, "error")
    BY <1>6 DEF UndoNext, rest
  <2> QED BY <1>1, <1>5, <2>1, <2>2, ListsEnd
<1>7. CASE rest # <<>>
  <2> DEFINE place == IF rest[Len(rest)].previous = None THEN "remove" ELSE "restore"
             r == [run[p] EXCEPT !.undo = rest, !.pc = place]
  <2>1. Become(p, r)
    BY <1>7 DEF UndoNext, rest
  <2>2. place \in Undoing
    BY DEF Undoing
  <2> HIDE DEF place
  <2>3. r.pc = place /\ r.cmd = run[p].cmd /\ r.done = done /\ r.undo = rest
    BY <1>1 DEF Runs
  <2> HIDE DEF r
  <2>4. run'[p] = r /\ Is(p, "apply")'
    BY <1>1, <1>4, <2>1, <2>3, Becomes
  <2>5. place # "lock" /\ place # "over" /\ ~(place \in {"daemon", "await"})
    BY <2>2 DEF Undoing
  <2>6. \A i \in DOMAIN rest : i \in DOMAIN done /\ rest[i] = done[i]
    BY <1>2, <1>3, <1>4
  <2>7. ListsOK(p)'
    BY <1>4, <2>2, <2>3, <2>4, <2>5, <2>6 DEF ListsOK
  <2>8. UndoneOK(p)'
    <3>1. \A i \in DOMAIN done : done[i] \in Entries
      BY <1>1
    <3> QED BY <1>5, <2>3, <2>4, <3>1 DEF UndoneOK
  <2>9. ~Ends(p)
    BY <2>3, <2>4, <2>5 DEF Ends
  <2> QED BY <2>7, <2>8, <2>9
<1> QED BY <1>6, <1>7

LEMMA ListsFind ==
  ASSUME IInv, NEW p \in Procs, ListsOK(p), Find(p)
  PROVE  ListsOK(p)' /\ UndoneOK(p)'
<1>1. run[p].pc \in {"lock", "find"} /\ run[p].pc \notin {"idle", "over"} \cup Undoing
      /\ AboutThis(p) /\ (At(p, "lock") => Wants(p) = Holds(p))
  BY DEF Find, At, AboutThis, Undoing
<1>2. TypeOK /\ PlaceOK(p) /\ run[p] \in Runs
  BY <1>1, AtThis
<1>3. ASSUME NEW r, Become(p, r), r.cmd = run[p].cmd, r.todo = run[p].todo,
             r.done = run[p].done, r.undo = run[p].undo, r.pc \in {"sync", "ensure"}
      PROVE  ListsOK(p)' /\ UndoneOK(p)'
  <2>1. run'[p] = r
    BY <1>2, <1>3, Becomes
  <2>2. run'[p].pc \notin {"idle", "over", "lock", "daemon", "await"} \cup Undoing
    BY <1>3, <2>1 DEF Undoing
  <2>3. ListsOK(p)'
    BY <1>1, <1>2, <1>3, <2>1, <2>2, ListsStay
  <2> QED BY <2>2, <2>3 DEF UndoneOK
<1>4. CASE record[This(p)] # None
  <2> DEFINE r == [run[p] EXCEPT !.pc = "sync", !.sess = record[This(p)]]
  <2>1. Become(p, r)
    BY <1>4 DEF Find
  <2>2. /\ r.cmd = run[p].cmd /\ r.todo = run[p].todo
        /\ r.done = run[p].done /\ r.undo = run[p].undo /\ r.pc = "sync"
    BY <1>2 DEF Runs
  <2> HIDE DEF r
  <2> QED BY <1>3, <2>1, <2>2
<1>5. CASE record[This(p)] = None /\ Is(p, "apply")
  <2>1. PICK s \in Secrets : Become(p, [run[p] EXCEPT !.pc = "ensure", !.key = s])
    BY <1>5 DEF Find
  <2> DEFINE r == [run[p] EXCEPT !.pc = "ensure", !.key = s]
  <2>2. /\ r.cmd = run[p].cmd /\ r.todo = run[p].todo
        /\ r.done = run[p].done /\ r.undo = run[p].undo /\ r.pc = "ensure"
    BY <1>2 DEF Runs
  <2>3. Become(p, r)
    BY <2>1
  <2> HIDE DEF r
  <2> QED BY <1>3, <2>2, <2>3
<1>6. CASE record[This(p)] = None /\ ~Is(p, "apply")
  BY <1>2, <1>6, ListsEnd DEF Find
<1> QED BY <1>4, <1>5, <1>6

LEMMA ListsSync ==
  ASSUME IInv, NEW p \in Procs, ListsOK(p), Sync(p)
  PROVE  ListsOK(p)' /\ UndoneOK(p)'
<1>1. run[p].pc = "sync" /\ run[p].pc \notin {"idle", "over"} \cup Undoing
      /\ AboutThis(p) /\ ~At(p, "lock")
  BY DEF Sync, At, AboutThis, Undoing
<1>2. TypeOK /\ PlaceOK(p) /\ run[p] \in Runs
  BY <1>1, AtThis
<1>3. CASE \E res : End(p, res)
  BY <1>2, <1>3, ListsEnd
<1>4. CASE Fail(p)
  BY <1>1, <1>4, ListsFail
<1>5. ASSUME NEW s \in Secrets,
             Become(p, [run[p] EXCEPT !.pc = "ensure", !.sess = Synced(p), !.key = s])
      PROVE  ListsOK(p)' /\ UndoneOK(p)'
  <2> DEFINE r == [run[p] EXCEPT !.pc = "ensure", !.sess = Synced(p), !.key = s]
  <2>1. Become(p, r)
    BY <1>5
  <2>2. /\ r.cmd = run[p].cmd /\ r.todo = run[p].todo
        /\ r.done = run[p].done /\ r.undo = run[p].undo /\ r.pc = "ensure"
    BY <1>2 DEF Runs
  <2> HIDE DEF r
  <2>3. run'[p] = r
    BY <1>2, <2>1, <2>2, Becomes
  <2>4. run'[p].pc \notin {"idle", "over", "lock", "daemon", "await"} \cup Undoing
    BY <2>2, <2>3 DEF Undoing
  <2>5. ListsOK(p)'
    BY <1>1, <1>2, <2>2, <2>3, <2>4, ListsStay
  <2> QED BY <2>4, <2>5 DEF UndoneOK
<1> QED BY <1>3, <1>4, <1>5 DEF Sync

LEMMA ListsUnverified ==
  ASSUME IInv, NEW p \in Procs, ListsOK(p), Unverified(p)
  PROVE  ListsOK(p)' /\ UndoneOK(p)'
<1>1. run[p].pc = "ensure" /\ run[p].pc \notin {"idle", "over"} \cup Undoing
      /\ AboutThis(p) /\ ~At(p, "lock") /\ Is(p, "apply")
  BY DEF Unverified, At, AboutThis, Undoing
<1>2. TypeOK /\ PlaceOK(p) /\ run[p] \in Runs /\ run[p].todo # <<>>
  BY <1>1, AtThis
<1>3. CASE Fail(p)
  BY <1>1, <1>3, ListsFail
<1>4. CASE Become(p, [run[p] EXCEPT !.todo[1].domain = NoDomain])
  <2> DEFINE todo == run[p].todo
             r == [run[p] EXCEPT !.todo[1].domain = NoDomain]
  <2>1. todo \in Seq(Items) /\ 1 \in DOMAIN todo /\ \A i \in DOMAIN todo : todo[i] \in Items
    BY <1>2 DEF Runs
  <2>2. /\ r.cmd = run[p].cmd /\ r.done = run[p].done /\ r.undo = run[p].undo /\ r.pc = "ensure"
        /\ r.todo = [todo EXCEPT ![1] = [todo[1] EXCEPT !.domain = NoDomain]]
    BY <1>1, <1>2, <2>1 DEF Runs
  <2>3. /\ DOMAIN r.todo = DOMAIN todo
        /\ \A i \in DOMAIN todo : r.todo[i].tunnel = todo[i].tunnel
    BY <2>1, <2>2 DEF Items
  <2>4. Become(p, r)
    BY <1>4
  <2> HIDE DEF r
  <2>5. run'[p] = r /\ Wants(p)' = Wants(p) /\ Is(p, "apply")'
    BY <1>1, <1>2, <2>2, <2>4, Becomes
  <2>6. run'[p].pc \notin {"idle", "over", "lock", "daemon", "await"} \cup Undoing
    BY <2>2, <2>5 DEF Undoing
  <2>7. ListsOK(p)'
    <3>1. NamesDiffer(r.todo)
      BY <1>1, <2>3 DEF ListsOK, NamesDiffer
    <3>2. \A i \in DOMAIN r.done, j \in DOMAIN r.todo : r.done[i].tunnel # r.todo[j].tunnel
      BY <1>1, <2>2, <2>3 DEF ListsOK
    <3>3. \A t \in Wants(p) : \/ \E i \in DOMAIN r.done : t = r.done[i].tunnel
                              \/ \E i \in DOMAIN r.todo : t = r.todo[i].tunnel
      BY <1>1, <2>2, <2>3 DEF ListsOK
    <3>4. \A i, j \in DOMAIN r.done : i # j => r.done[i].tunnel # r.done[j].tunnel
      BY <1>1, <2>2 DEF ListsOK
    <3> QED BY <2>5, <2>6, <3>1, <3>2, <3>3, <3>4 DEF ListsOK
  <2> QED BY <2>6, <2>7 DEF UndoneOK
<1> QED BY <1>3, <1>4 DEF Unverified

LEMMA ListsSaveApplied ==
  ASSUME IInv, NEW p \in Procs, ListsOK(p), SaveApplied(p)
  PROVE  ListsOK(p)' /\ UndoneOK(p)'
<1>1. run[p].pc = "save" /\ run[p].pc \notin {"idle", "over"} \cup Undoing
      /\ AboutThis(p) /\ ~At(p, "lock") /\ Is(p, "apply") /\ run[p].pc # "lock"
  BY DEF SaveApplied, At, AboutThis, Undoing
<1>2. TypeOK /\ PlaceOK(p) /\ run[p] \in Runs /\ run[p].todo # <<>> /\ Item(p) = run[p].todo[1]
  BY <1>1, AtThis
<1>3. CASE Undone(p, WithThis(p))
  BY <1>1, <1>2, <1>3, DoneWithThis, ListsUndone
<1>4. CASE Become(p, [run[p] EXCEPT
             !.done = WithThis(p), !.todo = Tail(@), !.sess = None, !.key = None,
             !.pc = IF Len(run[p].todo) = 1 THEN "daemon" ELSE "find"])
  <2> DEFINE todo == run[p].todo
             done == run[p].done
             all == WithThis(p)
             place == IF Len(run[p].todo) = 1 THEN "daemon" ELSE "find"
             r == [run[p] EXCEPT !.done = WithThis(p), !.todo = Tail(@), !.sess = None,
                                 !.key = None, !.pc = place]
  <2>1. todo \in Seq(Items) /\ 1 \in DOMAIN todo
    BY <1>2 DEF Runs
  <2>2. /\ Tail(todo) \in Seq(Items) /\ Len(todo) \in Nat /\ DOMAIN todo = 1..Len(todo)
        /\ DOMAIN Tail(todo) = 1..(Len(todo) - 1)
        /\ \A i \in DOMAIN Tail(todo) : i + 1 \in DOMAIN todo /\ Tail(todo)[i] = todo[i + 1]
    BY <1>2, <2>1, HeadTailProperties
  <2>3. /\ DOMAIN all = 1..(Len(done) + 1) /\ Len(done) \in Nat /\ DOMAIN done = 1..Len(done)
        /\ \A i \in DOMAIN done : all[i] = done[i]
        /\ all[Len(done) + 1] = [tunnel |-> This(p), previous |-> run[p].sess]
        /\ \A i, j \in DOMAIN all : i # j => all[i].tunnel # all[j].tunnel
    BY <1>1, DoneWithThis
  <2>4. all[Len(done) + 1].tunnel = This(p)
    BY <2>3
  <2> HIDE DEF all
  <2>5. /\ r.cmd = run[p].cmd /\ r.done = all /\ r.todo = Tail(todo) /\ r.pc = place
    BY <1>2 DEF Runs, all
  <2>6. Become(p, r)
    BY <1>4
  <2> HIDE DEF r
  <2>7. run'[p] = r /\ Wants(p)' = Wants(p) /\ Is(p, "apply")'
    BY <1>1, <1>2, <2>5, <2>6, Becomes
  <2>8. place \in {"find", "daemon"} /\ place \notin {"idle", "over", "lock"} \cup Undoing
    BY DEF Undoing
  <2>9. place = "daemon" => Tail(todo) = <<>>
    <3> SUFFICES ASSUME Len(todo) = 1 PROVE Tail(todo) = <<>>
      OBVIOUS
    <3>1. DOMAIN Tail(todo) = {}
      BY <2>2
    <3> QED BY <2>2, <3>1
  <2> HIDE DEF place
  <2>10. NamesDiffer(Tail(todo))
    <3>1. NamesDiffer(todo)
      BY <1>1 DEF ListsOK
    <3>2. \A i, j \in DOMAIN Tail(todo) : i # j => i + 1 # j + 1
      BY <2>2
    <3> QED BY <2>2, <3>1, <3>2 DEF NamesDiffer
  <2>11. ASSUME NEW i \in DOMAIN all, NEW j \in DOMAIN Tail(todo)
         PROVE  all[i].tunnel # Tail(todo)[j].tunnel
    <3>1. CASE i \in DOMAIN done
      BY <1>1, <2>2, <2>3, <3>1 DEF ListsOK
    <3>2. CASE i = Len(done) + 1
      <4>1. j + 1 \in DOMAIN todo /\ j + 1 # 1 /\ Tail(todo)[j] = todo[j + 1]
        BY <2>2
      <4>2. NamesDiffer(todo)
        BY <1>1 DEF ListsOK
      <4>3. todo[1].tunnel # todo[j + 1].tunnel
        BY <2>1, <4>1, <4>2 DEF NamesDiffer
      <4> QED BY <1>2, <2>4, <3>2, <4>1, <4>3 DEF This
    <3> QED BY <2>3, <3>1, <3>2
  <2>12. ASSUME NEW t \in Wants(p)
         PROVE  \/ \E i \in DOMAIN all : t = all[i].tunnel
                \/ \E i \in DOMAIN Tail(todo) : t = Tail(todo)[i].tunnel
    <3>1. CASE \E i \in DOMAIN done : t = done[i].tunnel
      BY <2>3, <3>1
    <3>2. ASSUME NEW i \in DOMAIN todo, t = todo[i].tunnel
          PROVE  \/ \E j \in DOMAIN all : t = all[j].tunnel
                 \/ \E j \in DOMAIN Tail(todo) : t = Tail(todo)[j].tunnel
      <4>1. CASE i = 1
        <5>1. Len(done) + 1 \in DOMAIN all
          BY <2>3
        <5> QED BY <1>2, <2>4, <3>2, <4>1, <5>1 DEF This
      <4>2. CASE i # 1
        <5>1. i - 1 \in DOMAIN Tail(todo) /\ (i - 1) + 1 = i
          BY <2>2, <4>2
        <5> QED BY <2>2, <3>2, <5>1
      <4> QED BY <4>1, <4>2
    <3> QED BY <1>1, <3>1, <3>2 DEF ListsOK
  <2>13. ListsOK(p)'
    <3>1. /\ run'[p].todo = Tail(todo) /\ run'[p].done = all /\ run'[p].pc = place
      BY <2>5, <2>7
    <3>2. run'[p].pc \notin Undoing /\ run'[p].pc # "lock"
          /\ (run'[p].pc \in {"daemon", "await"} => run'[p].todo = <<>>)
      BY <2>8, <2>9, <3>1
    <3>3. \A t \in Wants(p)' : \/ \E i \in DOMAIN run'[p].done : t = run'[p].done[i].tunnel
                               \/ \E i \in DOMAIN run'[p].todo : t = run'[p].todo[i].tunnel
      BY <2>7, <2>12, <3>1
    <3>4. NamesDiffer(run'[p].todo)
          /\ \A i \in DOMAIN run'[p].done, j \in DOMAIN run'[p].todo :
               run'[p].done[i].tunnel # run'[p].todo[j].tunnel
      BY <2>10, <2>11, <3>1
    <3>5. \A i, j \in DOMAIN run'[p].done :
            i # j => run'[p].done[i].tunnel # run'[p].done[j].tunnel
      BY <2>3, <3>1
    <3> QED BY <2>7, <3>2, <3>3, <3>4, <3>5 DEF ListsOK
  <2>14. UndoneOK(p)'
    BY <2>5, <2>7, <2>8 DEF UndoneOK
  <2> QED BY <2>13, <2>14
<1> QED BY <1>3, <1>4 DEF SaveApplied
LEMMA ListsBegin ==
  ASSUME IInv, NEW p \in Procs, NEW c \in Commands, Begin(p, c)
  PROVE  ListsOK(p)' /\ UndoneOK(p)'
<1> DEFINE items == c.items
<1>1. TypeOK /\ run[p] = Idle
  BY DEF Begin, At, IInv, PlaceOK
<1>2. run'[p] = [Idle EXCEPT !.pc = "lock", !.cmd = c, !.todo = items]
  BY <1>1 DEF Begin, TypeOK
<1>3. run'[p].pc = "lock" /\ run'[p].cmd = c /\ run'[p].todo = items /\ run'[p].done = <<>>
  BY <1>2 DEF Idle
<1>4. items \in Seq(Items) /\ items # <<>> /\ NamesDiffer(items)
      /\ (c.name # "apply" => Len(items) = 1)
  BY CommandsAssumption
<1> HIDE DEF items
<1>5. Wants(p)' = {items[i].tunnel : i \in DOMAIN items} /\ This(p)' = items[1].tunnel
      /\ Is(p, "apply")' = (c.name = "apply")
  BY <1>3, <1>4 DEF Wants, This, Item, Is, items
<1>6. c.name # "apply" => Wants(p)' = {This(p)'}
  <2> SUFFICES ASSUME c.name # "apply" PROVE Wants(p)' = {This(p)'}
    OBVIOUS
  <2>1. DOMAIN items = {1}
    BY <1>4
  <2> QED BY <1>5, <2>1
<1>7. \A t \in Wants(p)' : \E i \in DOMAIN run'[p].todo : t = run'[p].todo[i].tunnel
  BY <1>3, <1>5
<1>8. DOMAIN run'[p].done = {} /\ run'[p].pc \notin Undoing
  BY <1>3 DEF Undoing
<1>9. ListsOK(p)'
  BY <1>3, <1>4, <1>5, <1>6, <1>7, <1>8 DEF ListsOK
<1> QED BY <1>8, <1>9 DEF UndoneOK

LEMMA ListsTakeLock ==
  ASSUME IInv, NEW p \in Procs, ListsOK(p), UndoneOK(p), TakeLock(p)
  PROVE  ListsOK(p)' /\ UndoneOK(p)'
<1>1. run' = run /\ run[p].pc \notin Undoing
  BY DEF TakeLock, Waits, At, Undoing
<1>2. Wants(p)' = Wants(p) /\ This(p)' = This(p) /\ AboutThis(p)' = AboutThis(p)
      /\ Is(p, "apply")' = Is(p, "apply")
  BY <1>1 DEF Wants, This, Item, AboutThis, Is, At
<1> QED BY <1>1, <1>2 DEF ListsOK, UndoneOK

\* The tunnel that is being undone is not one of those that are.
LEMMA ListsUndoing ==
  ASSUME IInv, NEW p \in Procs, ListsOK(p), UndoneOK(p), run[p].pc \in Undoing,
         NEW place \in Undoing, Go(p, place),
         \A u \in Tunnels \ {Entry(p).tunnel} :
           record'[u] = record[u] /\ remote'[u] = remote[u] /\ flaws'[u] = flaws[u]
  PROVE  ListsOK(p)' /\ UndoneOK(p)'
<1> DEFINE undo == run[p].undo
           done == run[p].done
           n == Len(undo)
<1>1. /\ TypeOK /\ run[p] \in Runs /\ PlaceOK(p) /\ run[p].pc \notin {"idle", "over", "lock"}
      /\ place \in Places /\ place \notin {"idle", "over", "lock", "daemon", "await"}
  BY AtEntry DEF Undoing, Places
<1>2. /\ run'[p].pc = place /\ run'[p].cmd = run[p].cmd /\ run'[p].todo = run[p].todo
      /\ run'[p].done = done /\ run'[p].undo = undo
  BY <1>1, GoTo
<1>3. Is(p, "apply") /\ undo \in Seq(Entries) /\ done \in Seq(Entries) /\ undo # <<>>
  BY <1>1 DEF PlaceOK, Runs
<1>4. n \in DOMAIN undo /\ Entry(p) = undo[n]
  BY <1>3 DEF Entry
<1>5. ListsOK(p)'
  BY <1>1, <1>2, <1>3, ListsStay
<1>6. UndoneOK(p)'
  <2> SUFFICES ASSUME NEW i \in DOMAIN done \ DOMAIN undo, NEW e, e = done[i]
               PROVE  Back(e)'
    BY <1>2 DEF UndoneOK
  <2>1. Back(e)
    BY DEF UndoneOK
  <2>2. e.tunnel # Entry(p).tunnel
    BY <1>1, <1>4 DEF ListsOK
  <2>3. e.tunnel \in Tunnels
    <3>1. e \in Entries
      BY <1>3
    <3> QED BY <3>1 DEF Entries
  <2> QED BY <2>1, <2>2, <2>3 DEF Back, AsBefore
<1> QED BY <1>5, <1>6

\* What a roll-back leaves of a tunnel, unless it fails.
LEMMA ForgetBack ==
  ASSUME IInv, NEW p \in Procs, Forget(p), NEW e \in Entries, e = Entry(p)
  PROVE  Back(e)'
<1>1. At(p, "forget") /\ remote' = remote
  BY DEF Forget, cluster
<1>2. PlaceOK(p) /\ AtWork(p) /\ e.tunnel \in Tunnels
      /\ record \in [Tunnels -> Records \cup {None}]
      /\ flaws \in [Tunnels -> SUBSET {"partial", "lost", "save", "undo", "crash"}]
  BY <1>1, AtEntry DEF At, Undoing
<1>3. e.previous = None
  BY <1>1, <1>2 DEF PlaceOK, At, Undoing
<1>4. remote[e.tunnel] = None \/ "undo" \in flaws[e.tunnel]
  BY <1>1, <1>2 DEF AtWork, UndoOK
<1>5. CASE record' = [record EXCEPT ![e.tunnel] = None] /\ NoFault
  <2>1. record'[e.tunnel] = None /\ flaws' = flaws
    BY <1>2, <1>5 DEF NoFault, trouble
  <2> QED BY <1>1, <1>3, <1>4, <2>1 DEF Back, AsBefore
<1>6. CASE Flaw(e.tunnel, "undo")
  BY <1>2, <1>6 DEF Flaw, Back
<1> QED BY <1>5, <1>6 DEF Forget

LEMMA ResaveBack ==
  ASSUME IInv, NEW p \in Procs, Resave(p), NEW e \in Entries, e = Entry(p)
  PROVE  Back(e)'
<1>1. At(p, "resave") /\ remote' = remote
  BY DEF Resave, cluster
<1>2. AtWork(p) /\ e.tunnel \in Tunnels
      /\ record \in [Tunnels -> Records \cup {None}]
      /\ flaws \in [Tunnels -> SUBSET {"partial", "lost", "save", "undo", "crash"}]
      /\ e.previous \in Records
  BY <1>1, AtEntry DEF At, Undoing
<1>3. e.previous # None
  BY <1>2, SentinelAssumption
<1>4. PutBack(p) \/ "undo" \in flaws[e.tunnel]
  BY <1>1, <1>2 DEF AtWork, UndoOK
<1>5. CASE record' = [record EXCEPT ![e.tunnel] = e.previous] /\ NoFault
  <2>1. record'[e.tunnel] = e.previous /\ flaws' = flaws
    BY <1>2, <1>5 DEF NoFault, trouble
  <2> QED BY <1>1, <1>3, <1>4, <2>1 DEF Back, AsBefore, PutBack, Same
<1>6. CASE Flaw(e.tunnel, "undo")
  BY <1>2, <1>6 DEF Flaw, Back
<1> QED BY <1>5, <1>6 DEF Resave

\* Every step of a process keeps its lists.
LEMMA ListsStep ==
  ASSUME IInv, NEW p \in Procs, ListsOK(p), UndoneOK(p), Step(p)
  PROVE  ListsOK(p)' /\ UndoneOK(p)'
<1>1. /\ TypeOK /\ PlaceOK(p) /\ run[p].pc \notin {"idle", "over"}
      /\ \A u \in Tunnels \ {Touched(p)} :
           record'[u] = record[u] /\ remote'[u] = remote[u] /\ flaws'[u] = flaws[u]
  BY StepTouches DEF IInv
<1>2. CASE TakeLock(p) \/ LockTimeout(p)
  BY <1>1, <1>2, ListsTakeLock, ListsEnd DEF LockTimeout
<1>3. CASE Find(p) \/ Sync(p) \/ Unverified(p) \/ SaveApplied(p)
  BY <1>3, ListsFind, ListsSync, ListsUnverified, ListsSaveApplied
<1>4. CASE Ensure(p)
  <2>1. run[p].pc = "ensure" /\ AboutThis(p) /\ run[p].pc \notin {"idle", "over", "lock"} \cup Undoing
    BY <1>4 DEF Ensure, At, AboutThis, Undoing
  <2>2. CASE Go(p, AfterEnsure(p))
    <3>1. AfterEnsure(p) \in Places \ ({"idle", "over", "lock", "daemon", "await"} \cup Undoing)
      BY DEF AfterEnsure, Places, Undoing
    <3> QED BY <2>1, <2>2, <3>1, ListsGo
  <2>3. CASE EnsureFails(p)
    BY <1>1, <2>1, <2>3, ListsFail
  <2> QED BY <1>4, <2>2, <2>3 DEF Ensure
<1>5. CASE SetDomain(p)
  <2>1. run[p].pc = "ensure" /\ AboutThis(p) /\ run[p].pc \notin {"idle", "over", "lock"} \cup Undoing
    BY <1>5 DEF SetDomain, At, AboutThis, Undoing
  <2>2. CASE Go(p, "save")
    <3>1. "save" \in Places \ ({"idle", "over", "lock", "daemon", "await"} \cup Undoing)
      BY DEF Places, Undoing
    <3> QED BY <2>1, <2>2, <3>1, ListsGo
  <2>3. CASE End(p, "error")
    BY <1>1, <2>3, ListsEnd
  <2> QED BY <1>5, <2>2, <2>3 DEF SetDomain
<1>6. CASE Clear(p)
  <2>1. run[p].pc = "clear" /\ AboutThis(p) /\ run[p].pc \notin {"idle", "over", "lock"} \cup Undoing
    BY <1>6 DEF Clear, At, AboutThis, Undoing
  <2>2. CASE Go(p, "ready")
    <3>1. "ready" \in Places \ ({"idle", "over", "lock", "daemon", "await"} \cup Undoing)
      BY DEF Places, Undoing
    <3> QED BY <2>1, <2>2, <3>1, ListsGo
  <2>3. CASE Undone(p, WithThis(p))
    <3>1. Is(p, "apply")
      BY <1>1, <2>1 DEF PlaceOK
    <3> QED BY <1>1, <2>1, <2>3, <3>1, DoneWithThis, ListsUndone
  <2> QED BY <1>6, <2>2, <2>3 DEF Clear
<1>7. CASE Ready(p)
  <2>1. run[p].pc = "ready" /\ AboutThis(p) /\ run[p].pc \notin {"idle", "over", "lock"} \cup Undoing
    BY <1>7 DEF Ready, At, AboutThis, Undoing
  <2>2. CASE Go(p, IF Is(p, "apply") THEN "save" ELSE "await")
    <3> DEFINE place == IF Is(p, "apply") THEN "save" ELSE "await"
    <3>1. place \in Places \ ({"idle", "over", "lock", "daemon"} \cup Undoing)
          /\ (place = "await" => ~Is(p, "apply"))
      BY DEF Places, Undoing
    <3>2. Go(p, place)
      BY <2>2
    <3> HIDE DEF place
    <3> QED BY <2>1, <3>1, <3>2, ListsGo
  <2>3. CASE Is(p, "apply") /\ Undone(p, WithThis(p))
    BY <1>1, <2>1, <2>3, DoneWithThis, ListsUndone
  <2>4. CASE End(p, "committed")
    BY <1>1, <2>4, ListsEnd
  <2> QED BY <1>7, <2>2, <2>3, <2>4 DEF Ready
<1>8. CASE Save(p)
  <2>1. run[p].pc = "save" /\ AboutThis(p) /\ run[p].pc \notin {"idle", "over", "lock"} \cup Undoing
    BY <1>8 DEF Save, At, AboutThis, Undoing
  <2>2. CASE Go(p, "ready") \/ Go(p, "revert")
    <3>1. {"ready", "revert"} \subseteq
            Places \ ({"idle", "over", "lock", "daemon", "await"} \cup Undoing)
      BY DEF Places, Undoing
    <3> QED BY <2>1, <2>2, <3>1, ListsGo
  <2>3. CASE \E res : End(p, res)
    BY <1>1, <2>3, ListsEnd
  <2> QED BY <1>8, <2>2, <2>3 DEF Save
<1>9. CASE Revert(p)
  BY <1>1, <1>9, ListsEnd DEF Revert
<1>10. CASE StartDaemon(p)
  <2>1. run[p].pc = "daemon" /\ run[p].pc \notin {"idle", "over", "lock"} \cup Undoing
    BY <1>10 DEF StartDaemon, At, Undoing
  <2>2. Is(p, "apply") /\ run[p].todo = <<>>
    BY <1>1, <2>1 DEF PlaceOK, ListsOK
  <2>3. CASE Go(p, "await")
    <3>1. "await" \in Places \ ({"idle", "over", "lock"} \cup Undoing)
      BY DEF Places, Undoing
    <3> QED BY <2>1, <2>2, <2>3, <3>1, ListsGo
  <2>4. CASE Undone(p, run[p].done)
    BY <1>1, <2>2, <2>4, ListsFail DEF Fail
  <2> QED BY <1>10, <2>3, <2>4 DEF StartDaemon
<1>11. CASE Await(p)
  <2>1. CASE \E res : End(p, res)
    BY <1>1, <2>1, ListsEnd
  <2>2. CASE Is(p, "apply") /\ Undone(p, run[p].done)
    BY <1>1, <2>2, ListsFail DEF Fail
  <2> QED BY <1>11, <2>1, <2>2 DEF Await
<1>12. CASE Remove(p) \/ Restore(p) \/ Restored(p)
  <2>1. run[p].pc \in Undoing
        /\ (Go(p, "forget") \/ Go(p, "restored") \/ Go(p, "resave"))
    BY <1>12 DEF Remove, Restore, Restored, At, Undoing
  <2>2. {"forget", "restored", "resave"} \subseteq Undoing /\ Touched(p) = Entry(p).tunnel
    BY <2>1 DEF Undoing, Touched
  <2> QED BY <1>1, <2>1, <2>2, ListsUndoing
<1>13. CASE Forget(p) \/ Resave(p)
  <2>1. run[p].pc \in Undoing /\ UndoNext(p)
    BY <1>13 DEF Forget, Resave, At, Undoing
  <2>2. Touched(p) = Entry(p).tunnel
    BY <2>1 DEF Touched
  <2>3. \A e \in Entries : e = Entry(p) => Back(e)'
    BY <1>13, ForgetBack, ResaveBack
  <2> QED BY <1>1, <2>1, <2>2, <2>3, ListsUndoNext
<1> QED BY <1>2, <1>3, <1>4, <1>5, <1>6, <1>7, <1>8, <1>9, <1>10, <1>11, <1>12, <1>13 DEF Step

\* What the daemon and the pod do is nothing to the lists.
LEMMA ListsObserved ==
  ASSUME TypeOK, NEW q \in Procs, ListsOK(q), UndoneOK(q), run' = run,
         remote' = remote, flaws' = flaws,
         \A i \in DOMAIN run[q].done : run[q].done[i].tunnel \in Tunnels,
         \A t \in Tunnels :
           /\ record'[t] = None <=> record[t] = None
           /\ record[t] # None =>
                /\ record'[t].secret = record[t].secret /\ record'[t].policy = record[t].policy
                /\ record'[t].domain = record[t].domain
  PROVE  ListsOK(q)' /\ UndoneOK(q)'
<1>1. Wants(q)' = Wants(q) /\ This(q)' = This(q) /\ AboutThis(q)' = AboutThis(q)
      /\ Is(q, "apply")' = Is(q, "apply")
  BY DEF Wants, This, Item, AboutThis, Is, At
<1>2. ListsOK(q)'
  BY <1>1 DEF ListsOK
<1>3. ASSUME NEW t \in Tunnels, NEW r, AsBefore(t, r)
      PROVE  AsBefore(t, r)'
  BY <1>3 DEF AsBefore, Same
<1>4. UndoneOK(q)'
  BY <1>3 DEF UndoneOK, Back
<1> QED BY <1>2, <1>4
LEMMA NextLists == IInv /\ UInv /\ [Next]_vars => UInv'
<1> SUFFICES ASSUME IInv, UInv, [Next]_vars, NEW q \in Procs
             PROVE  ListsOK(q)' /\ UndoneOK(q)'
  BY DEF UInv
<1>1. TypeOK /\ ListsOK(q) /\ UndoneOK(q) /\ q # None
  BY SentinelAssumption DEF IInv, UInv
<1>2. \A i \in DOMAIN run[q].done : run[q].done[i].tunnel \in Tunnels
  <2>1. run[q].done \in Seq(Entries)
    BY <1>1 DEF TypeOK, Runs
  <2>2. \A i \in DOMAIN run[q].done : run[q].done[i] \in Entries
    BY <2>1
  <2> QED BY <2>2 DEF Entries
<1>3. CASE UNCHANGED vars
  BY <1>1, <1>2, <1>3, ListsObserved DEF vars
<1>4. CASE Finished
  BY <1>3, <1>4 DEF Finished
<1>5. ASSUME NEW t \in Tunnels, Daemon(t)
      PROVE  ListsOK(q)' /\ UndoneOK(q)'
  <2>1. run' = run /\ remote' = remote /\ flaws' = flaws
    BY <1>5 DEF Daemon, cluster, trouble
  <2>2. record' = record \/ \E s \in {"connecting", "connected", "error"} : Report(t, s)
    BY <1>5 DEF Daemon, Adopt, Retire, Mark, Connect, DialFails, Dropped
  <2>3. {"connecting", "connected", "error"} \subseteq States
    BY DEF States
  <2> QED BY <1>1, <1>2, <2>1, <2>2, <2>3, Reported, ListsObserved
<1>6. ASSUME NEW t \in Tunnels, Rollout(t) \/ Restart(t)
      PROVE  ListsOK(q)' /\ UndoneOK(q)'
  BY <1>1, <1>2, <1>6, ListsObserved DEF Rollout, Restart, trouble
<1>7. ASSUME NEW p \in Procs, Step(p) \/ Crash(p) \/ \E c \in Commands : Begin(p, c)
      PROVE  ListsOK(q)' /\ UndoneOK(q)'
  <2>1. CASE p = q
    <3>1. CASE Step(p)
      BY <1>1, <2>1, <3>1, ListsStep
    <3>2. CASE Crash(p)
      BY <1>1, <2>1, <3>2, ListsEnd DEF Crash
    <3>3. CASE \E c \in Commands : Begin(p, c)
      BY <2>1, <3>3, ListsBegin
    <3> QED BY <1>7, <3>1, <3>2, <3>3
  <2>2. CASE p # q
    <3>1. run'[q] = run[q]
      BY <1>1, <1>7, <2>2, StepAlone
    <3>2. \A t \in Holds(q) : t \in Tunnels \ Holds(p)
      BY <2>2 DEF Holds
    <3>3. CASE Step(p)
      BY <1>1, <3>1, <3>2, <3>3, StepTouches, ListsOthers DEF Mine
    <3>4. CASE Crash(p)
      <4>1. \A t \in Holds(q) :
              record'[t] = record[t] /\ remote'[t] = remote[t] /\ flaws'[t] = flaws[t]
        BY <2>2, <3>4 DEF Crash, cluster, Holds
      <4> QED BY <1>1, <3>1, <4>1, ListsOthers
    <3>5. CASE \E c \in Commands : Begin(p, c)
      BY <1>1, <3>1, <3>5, ListsOthers DEF Begin, cluster, trouble
    <3> QED BY <1>7, <3>3, <3>4, <3>5
  <2> QED BY <2>1, <2>2
<1> QED BY <1>3, <1>4, <1>5, <1>6, <1>7 DEF Next

LEMMA InitLists == Init => UInv
BY DEF Init, UInv, ListsOK, UndoneOK, Idle, Undoing

\* An apply that ends with an error has nothing left to undo.
LEMMA StepUndone ==
  ASSUME IInv, NEW p \in Procs, ListsOK(p), UndoneOK(p), Step(p), Ends(p),
         result' = "error", Is(p, "apply"), NEW i \in DOMAIN run[p].done
  PROVE  \A e \in Entries : e = run[p].done[i] => Back(e)'
<1>1. /\ TypeOK /\ PlaceOK(p) /\ run[p] \in Runs /\ run[p].pc \notin {"idle", "over"}
      /\ \A u \in Tunnels \ {Touched(p)} :
           record'[u] = record[u] /\ remote'[u] = remote[u] /\ flaws'[u] = flaws[u]
  BY StepTouches DEF IInv, TypeOK
<1>2. \A r : Become(p, r) => r.pc = "over"
  BY <1>1 DEF Become, TypeOK, Ends
<1>3. \A place : Go(p, place) => place = "over"
  <2> SUFFICES ASSUME NEW place, Go(p, place) PROVE place = "over"
    OBVIOUS
  <2>1. [run[p] EXCEPT !.pc = place].pc = "over"
    BY <1>2 DEF Go
  <2> QED BY <1>1, <2>1 DEF Runs
<1>4. \A res : End(p, res) => res = "error"
  BY DEF End
<1>5. \A entries : Undone(p, entries) => entries = <<>>
  <2> SUFFICES ASSUME NEW entries, Undone(p, entries), entries # <<>> PROVE FALSE
    OBVIOUS
  <2> DEFINE place == IF entries[Len(entries)].previous = None THEN "remove" ELSE "restore"
             r == [run[p] EXCEPT !.done = entries, !.undo = entries, !.pc = place]
  <2>1. r.pc = "over"
    BY <1>2 DEF Undone
  <2>2. r.pc = place
    BY <1>1 DEF Runs
  <2>3. place # "over"
    OBVIOUS
  <2> QED BY <2>1, <2>2, <2>3
<1>6. run[p].done # <<>>
  OBVIOUS
<1>7. AboutThis(p) /\ run[p].pc # "lock" => ~Undone(p, WithThis(p))
  <2> SUFFICES ASSUME AboutThis(p), run[p].pc # "lock", WithThis(p) = <<>> PROVE FALSE
    BY <1>5
  <2>1. 1 \in 1..(Len(run[p].done) + 1) /\ DOMAIN WithThis(p) = 1..(Len(run[p].done) + 1)
    <3>1. /\ DOMAIN WithThis(p) = 1..(Len(run[p].done) + 1)
          /\ Len(run[p].done) \in Nat
      BY DoneWithThis
    <3> QED BY <3>1
  <2> QED BY <2>1
<1>8. ~Undone(p, run[p].done) /\ ~Fail(p)
      /\ (AboutThis(p) /\ run[p].pc # "lock" => ~EnsureFails(p))
  BY <1>5, <1>6, <1>7 DEF Fail, EnsureFails
<1>9. ~TakeLock(p) /\ ~LockTimeout(p)
  <2>1. ~TakeLock(p)
    BY <1>1 DEF TakeLock, Ends, Waits, At
  <2>2. ~LockTimeout(p)
    BY <1>1, <1>6 DEF LockTimeout, Waits, At, ListsOK
  <2> QED BY <2>1, <2>2
<1>10. ~Find(p)
  <2>1. \A rec : [run[p] EXCEPT !.pc = "sync", !.sess = rec].pc = "sync"
    BY <1>1 DEF Runs
  <2>2. \A s : [run[p] EXCEPT !.pc = "ensure", !.key = s].pc = "ensure"
    BY <1>1 DEF Runs
  <2> QED BY <1>2, <2>1, <2>2 DEF Find
<1>11. ~Sync(p)
  <2>1. \A rec, s : [run[p] EXCEPT !.pc = "ensure", !.sess = rec, !.key = s].pc = "ensure"
    BY <1>1 DEF Runs
  <2>2. ~Is(p, "rotate") /\ ~Is(p, "policy")
    BY DEF Is
  <2> QED BY <1>2, <1>8, <2>1, <2>2 DEF Sync
<1>12. ~Unverified(p)
  <2> SUFFICES ASSUME Unverified(p) PROVE FALSE
    OBVIOUS
  <2> DEFINE r == [run[p] EXCEPT !.todo[1].domain = NoDomain]
  <2>1. run[p].pc = "ensure" /\ Become(p, r)
    BY <1>8 DEF Unverified, At
  <2>2. r.pc = "ensure"
    BY <1>1, <2>1 DEF Runs
  <2> QED BY <1>2, <2>1, <2>2
<1>13. ~Ensure(p) /\ ~SetDomain(p)
  <2>1. ~Ensure(p)
    <3>1. AfterEnsure(p) # "over"
      BY DEF AfterEnsure
    <3> QED BY <1>3, <1>8, <3>1 DEF Ensure, At, AboutThis
  <2>2. ~SetDomain(p)
    BY DEF SetDomain, Is
  <2> QED BY <2>1, <2>2
<1>14. ~Clear(p) /\ ~Ready(p)
  <2>1. ~Clear(p)
    BY <1>3, <1>7 DEF Clear, At, AboutThis
  <2>2. ~Ready(p)
    BY <1>3, <1>7 DEF Ready, At, AboutThis
  <2> QED BY <2>1, <2>2
<1>15. ~Save(p) /\ ~Revert(p)
  BY <1>1 DEF Save, Revert, PlaceOK, At, Is
<1>16. ~SaveApplied(p)
  <2> SUFFICES ASSUME SaveApplied(p) PROVE FALSE
    OBVIOUS
  <2> DEFINE place == IF Len(run[p].todo) = 1 THEN "daemon" ELSE "find"
             r == [run[p] EXCEPT !.done = WithThis(p), !.todo = Tail(@), !.sess = None,
                                 !.key = None, !.pc = place]
  <2>1. Become(p, r)
    BY <1>7 DEF SaveApplied, At, AboutThis
  <2>2. r.pc = place
    BY <1>1 DEF Runs
  <2>3. place # "over"
    OBVIOUS
  <2> QED BY <1>2, <2>1, <2>2, <2>3
<1>17. ~StartDaemon(p) /\ ~Await(p)
  BY <1>3, <1>4, <1>8 DEF StartDaemon, Await
<1>18. ~Remove(p) /\ ~Restore(p) /\ ~Restored(p)
  BY <1>3 DEF Remove, Restore, Restored
<1>19. Forget(p) \/ Resave(p)
  BY <1>9, <1>10, <1>11, <1>12, <1>13, <1>14, <1>15, <1>16, <1>17, <1>18 DEF Step
<1> QED
  <2>1. run[p].pc \in Undoing /\ UndoNext(p)
    BY <1>19 DEF Forget, Resave, At, Undoing
  <2>2. Touched(p) = Entry(p).tunnel
    BY <2>1 DEF Touched
  <2>3. \A e \in Entries : e = Entry(p) => Back(e)'
    BY <1>19, ForgetBack, ResaveBack
  <2> QED BY <1>1, <2>1, <2>2, <2>3, ListsUndoNext
-----------------------------------------------------------------------------
(* What is confirmed is served. *)

\* The records that a process keeps.
LEMMA CopiesStay ==
  ASSUME NEW p \in Procs, CopiesOK(p), run[p].pc \notin {"idle", "over"},
         run'[p].done = run[p].done, run'[p].undo = run[p].undo,
         \/ run'[p].pc \in {"sync"} \cup Undoing
         \/ run'[p].sess = None
         \/ ~run'[p].sess.fresh
         \/ run'[p].sess = run[p].sess /\ run[p].pc \notin {"sync"} \cup Undoing
  PROVE  CopiesOK(p)'
BY DEF CopiesOK

LEMMA CopiesEnd ==
  ASSUME TypeOK, NEW p \in Procs, NEW res, End(p, res)
  PROVE  CopiesOK(p)' /\ ServedOK(p)'
<1>1. run'[p].pc = "over"
  BY DEF End, TypeOK, Idle
<1> QED BY <1>1 DEF CopiesOK, ServedOK

LEMMA CopiesUndone ==
  ASSUME TypeOK, NEW p \in Procs, NEW entries \in Seq(Entries), Undone(p, entries),
         \A i \in DOMAIN entries : entries[i].previous # None => ~entries[i].previous.fresh
  PROVE  CopiesOK(p)' /\ ServedOK(p)'
<1>1. CASE entries = <<>>
  BY <1>1, CopiesEnd DEF Undone
<1>2. CASE entries # <<>>
  <2> DEFINE place == IF entries[Len(entries)].previous = None THEN "remove" ELSE "restore"
             r == [run[p] EXCEPT !.done = entries, !.undo = entries, !.pc = place]
  <2>1. Become(p, r)
    BY <1>2 DEF Undone
  <2>2. place \in {"remove", "restore"}
    OBVIOUS
  <2> HIDE DEF place
  <2>3. r.pc = place /\ r.done = entries /\ r.undo = entries /\ r.cmd = run[p].cmd
    BY DEF TypeOK, Runs
  <2> HIDE DEF r
  <2>4. run'[p] = r
    BY <2>1, <2>3, Becomes
  <2> QED BY <2>2, <2>3, <2>4 DEF CopiesOK, ServedOK, Undoing
<1> QED BY <1>1, <1>2

\* An apply that fails keeps the record of the tunnel at work too.
LEMMA CopiesFail ==
  ASSUME IInv, NEW p \in Procs, ListsOK(p), CopiesOK(p), run[p].pc \notin {"idle", "over"},
         \/ Fail(p) \/ Undone(p, run[p].done)
         \/ /\ run[p].pc \in {"ensure", "clear", "ready", "save"}
            /\ EnsureFails(p) \/ Undone(p, WithThis(p))
  PROVE  CopiesOK(p)' /\ ServedOK(p)'
<1>1. TypeOK /\ run[p].done \in Seq(Entries)
  BY DEF IInv, TypeOK, Runs
<1>2. CASE Undone(p, run[p].done)
  BY <1>1, <1>2, CopiesUndone DEF CopiesOK
<1>3. ASSUME run[p].pc \in {"ensure", "clear", "ready", "save"}, Undone(p, WithThis(p))
      PROVE  CopiesOK(p)' /\ ServedOK(p)'
  <2> DEFINE all == WithThis(p)
  <2>1. AboutThis(p) /\ run[p].pc # "lock"
    BY <1>3 DEF AboutThis
  <2>2. /\ all \in Seq(Entries) /\ DOMAIN all = 1..(Len(run[p].done) + 1)
        /\ Len(run[p].done) \in Nat /\ DOMAIN run[p].done = 1..Len(run[p].done)
        /\ \A i \in DOMAIN run[p].done : all[i] = run[p].done[i]
        /\ all[Len(run[p].done) + 1] = [tunnel |-> This(p), previous |-> run[p].sess]
    BY <2>1, DoneWithThis
  <2>3. all[Len(run[p].done) + 1].previous = run[p].sess
    BY <2>2
  <2> HIDE DEF all
  <2>4. \A i \in DOMAIN all : i \in DOMAIN run[p].done \/ i = Len(run[p].done) + 1
    BY <2>2
  <2>5. run[p].sess # None => ~run[p].sess.fresh
    BY <1>3 DEF CopiesOK, Undoing
  <2>6. \A i \in DOMAIN run[p].done :
          run[p].done[i].previous # None => ~run[p].done[i].previous.fresh
    BY DEF CopiesOK
  <2>7. \A i \in DOMAIN all : all[i].previous # None => ~all[i].previous.fresh
    BY <2>2, <2>3, <2>4, <2>5, <2>6
  <2>8. Undone(p, all)
    BY <1>3 DEF all
  <2> QED BY <1>1, <2>2, <2>7, <2>8, CopiesUndone
<1>4. CASE Fail(p)
  BY <1>1, <1>2, <1>4, CopiesEnd DEF Fail
<1> QED BY <1>2, <1>3, <1>4 DEF EnsureFails

LEMMA CopiesUndoNext ==
  ASSUME IInv, NEW p \in Procs, CopiesOK(p), run[p].pc \in Undoing, UndoNext(p)
  PROVE  CopiesOK(p)' /\ ServedOK(p)'
<1> DEFINE undo == run[p].undo
           n == Len(undo)
           rest == SubSeq(undo, 1, n - 1)
<1>1. TypeOK /\ undo \in Seq(Entries) /\ undo # <<>> /\ run[p].pc \notin {"idle", "over"}
  BY AtEntry DEF PlaceOK, Runs, Undoing
<1>2. n \in Nat /\ n # 0 /\ DOMAIN undo = 1..n
  BY <1>1
<1>3. \A i \in DOMAIN rest : i \in DOMAIN undo /\ rest[i] = undo[i]
  <2>1. rest = [i \in 1..(n - 1) |-> undo[i]]
    BY <1>1, <1>2
  <2> QED BY <1>2, <2>1
<1> HIDE DEF rest
<1>4. CASE rest = <<>>
  BY <1>1, <1>4, CopiesEnd DEF UndoNext, rest
<1>5. CASE rest # <<>>
  <2> DEFINE place == IF rest[Len(rest)].previous = None THEN "remove" ELSE "restore"
             r == [run[p] EXCEPT !.undo = rest, !.pc = place]
  <2>1. Become(p, r)
    BY <1>5 DEF UndoNext, rest
  <2>2. place \in {"remove", "restore"}
    OBVIOUS
  <2> HIDE DEF place
  <2>3. r.pc = place /\ r.done = run[p].done /\ r.undo = rest /\ r.cmd = run[p].cmd
    BY <1>1 DEF TypeOK, Runs
  <2> HIDE DEF r
  <2>4. run'[p] = r
    BY <1>1, <2>1, <2>3, Becomes
  <2>5. /\ \A i \in DOMAIN undo : undo[i].previous # None => ~undo[i].previous.fresh
        /\ \A i \in DOMAIN run[p].done :
             run[p].done[i].previous # None => ~run[p].done[i].previous.fresh
    BY <1>1 DEF CopiesOK
  <2> QED BY <1>3, <2>2, <2>3, <2>4, <2>5 DEF CopiesOK, ServedOK, Undoing
<1> QED BY <1>4, <1>5

\* The tunnels that are done are not the one at work.
LEMMA DoneServed ==
  ASSUME IInv, NEW p \in Procs, ListsOK(p), ServedOK(p), AboutThis(p),
         run[p].pc \notin {"idle", "over"} \cup Undoing, Is(p, "apply"), pod' = pod,
         \A u \in Tunnels \ {This(p)} : record'[u] = record[u] /\ remote'[u] = remote[u],
         NEW i \in DOMAIN run[p].done, NEW t, t = run[p].done[i].tunnel
  PROVE  Served(t)' /\ News(t)'
<1>1. TypeOK /\ PlaceOK(p) /\ run[p] \in Runs
  BY DEF IInv, TypeOK
<1>2. 1 \in DOMAIN run[p].todo /\ This(p) = run[p].todo[1].tunnel
  <2>1. run[p].todo \in Seq(Items) /\ run[p].todo # <<>>
    BY <1>1 DEF PlaceOK, Runs
  <2> QED BY <2>1 DEF This, Item
<1>3. t # This(p) /\ t \in Tunnels
  <2>1. run[p].done[i] \in Entries
    BY <1>1 DEF Runs
  <2> QED BY <1>2, <2>1 DEF ListsOK, Entries
<1>4. Served(t) /\ News(t)
  BY DEF ServedOK
<1> QED BY <1>3, <1>4 DEF Served, Started, News
\* It goes on to a place where only what is done has to be served.
LEMMA ServedDone ==
  ASSUME NEW p \in Procs, run'[p].cmd = run[p].cmd, run'[p].done = run[p].done,
         run'[p].pc \in {"lock", "find", "sync", "ensure", "revert", "daemon"} \cup Undoing,
         Is(p, "apply") /\ run'[p].pc \notin Undoing =>
           \A i \in DOMAIN run[p].done :
             \A t : t = run[p].done[i].tunnel => Served(t)' /\ News(t)'
  PROVE  ServedOK(p)'
<1>1. Is(p, "apply")' = Is(p, "apply")
  BY DEF Is
<1> QED BY <1>1 DEF ServedOK, Undoing

\* The other steps, from a place where a command is at work to another.
LEMMA ServedGo ==
  ASSUME IInv, NEW p \in Procs, ListsOK(p), ServedOK(p), CopiesOK(p), AboutThis(p),
         run[p].pc \notin {"idle", "over", "sync"} \cup Undoing, pod' = pod,
         \A u \in Tunnels \ {This(p)} : record'[u] = record[u] /\ remote'[u] = remote[u],
         NEW place \in Places \ ({"idle", "over", "lock"} \cup Undoing), Go(p, place),
         place \in {"clear", "ready"} \/ (place = "save" /\ ~Is(p, "domain"))
           => remote'[This(p)].up,
         place = "save" /\ Is(p, "apply") => \A t : t = This(p) => Started(t)',
         place = "ready" /\ ~Is(p, "apply") => \A t : t = This(p) => Agree(t)',
         place = "await" /\ ~Is(p, "apply") => \A t : t = This(p) => Served(t)'
  PROVE  ServedOK(p)' /\ CopiesOK(p)'
<1>1. TypeOK
  BY DEF IInv
<1>2. /\ run'[p].pc = place /\ run'[p].done = run[p].done /\ run'[p].undo = run[p].undo
      /\ run'[p].sess = run[p].sess /\ This(p)' = This(p)
      /\ \A c : Is(p, c)' = Is(p, c)
  BY <1>1, GoTo
<1>3. CopiesOK(p)'
  BY <1>2, CopiesStay
<1>4. Is(p, "apply") => \A i \in DOMAIN run[p].done :
        \A t : t = run[p].done[i].tunnel => Served(t)' /\ News(t)'
  BY DoneServed
<1>5. Is(p, "apply")' => \A i \in DOMAIN run'[p].done :
        \A t : t = run'[p].done[i].tunnel => Served(t)' /\ News(t)'
  BY <1>2, <1>4
<1>6. place = "ready" /\ ~Is(p, "apply") => \A t : t = This(p)' => Agree(t)'
  BY <1>2
<1>7. place = "await" /\ ~Is(p, "apply") => \A t : t = This(p)' => Served(t)'
  BY <1>2
<1>8. place = "save" /\ Is(p, "apply") => \A t : t = This(p)' => Started(t)'
  BY <1>2
<1> QED BY <1>2, <1>3, <1>5, <1>6, <1>7, <1>8 DEF ServedOK
\* The steps that do more than go on.
LEMMA ServedTakeLock ==
  ASSUME NEW p \in Procs, ServedOK(p), CopiesOK(p), TakeLock(p)
  PROVE  ServedOK(p)' /\ CopiesOK(p)'
<1>1. run' = run /\ run[p].pc = "lock" /\ record' = record /\ remote' = remote /\ pod' = pod
  BY DEF TakeLock, Waits, At, cluster
<1>2. \A t : (Served(t)' <=> Served(t)) /\ (News(t)' <=> News(t))
  BY <1>1 DEF Served, Started, News
<1>3. Is(p, "apply")' = Is(p, "apply")
  BY <1>1 DEF Is
<1>4. CopiesOK(p)'
  BY <1>1 DEF CopiesOK
<1>5. ServedOK(p)'
  BY <1>1, <1>2, <1>3 DEF ServedOK, Undoing
<1> QED BY <1>4, <1>5

LEMMA ServedFind ==
  ASSUME IInv, NEW p \in Procs, ListsOK(p), ServedOK(p), CopiesOK(p), Find(p)
  PROVE  ServedOK(p)' /\ CopiesOK(p)'
<1>1. run[p].pc \in {"lock", "find"} /\ AboutThis(p) /\ run[p].pc \notin {"idle", "over"} \cup Undoing
      /\ pod' = pod /\ record' = record /\ remote' = remote
  BY DEF Find, At, AboutThis, Undoing, cluster
<1>2. TypeOK /\ PlaceOK(p) /\ run[p] \in Runs /\ run[p].sess = None
  BY <1>1 DEF IInv, TypeOK, PlaceOK
<1>3. Is(p, "apply") => \A i \in DOMAIN run[p].done :
        \A t : t = run[p].done[i].tunnel => Served(t)' /\ News(t)'
  BY <1>1, DoneServed
<1>4. CASE \E res : End(p, res)
  BY <1>2, <1>4, CopiesEnd
<1>5. ASSUME NEW r, Become(p, r), r.cmd = run[p].cmd, r.done = run[p].done,
             r.undo = run[p].undo, r.pc \in {"sync", "ensure"}, r.pc = "sync" \/ r.sess = None
      PROVE  ServedOK(p)' /\ CopiesOK(p)'
  <2>1. run'[p] = r
    BY <1>2, <1>5, Becomes
  <2>2. ServedOK(p)'
    BY <1>3, <1>5, <2>1, ServedDone
  <2>3. CopiesOK(p)'
    BY <1>1, <1>5, <2>1, CopiesStay
  <2> QED BY <2>2, <2>3
<1>6. ASSUME NEW rec, Become(p, [run[p] EXCEPT !.pc = "sync", !.sess = rec])
      PROVE  ServedOK(p)' /\ CopiesOK(p)'
  <2> DEFINE r == [run[p] EXCEPT !.pc = "sync", !.sess = rec]
  <2>1. Become(p, r)
    BY <1>6
  <2>2. r.cmd = run[p].cmd /\ r.done = run[p].done /\ r.undo = run[p].undo /\ r.pc = "sync"
    BY <1>2 DEF Runs
  <2> HIDE DEF r
  <2> QED BY <1>5, <2>1, <2>2
<1>7. ASSUME NEW s, Become(p, [run[p] EXCEPT !.pc = "ensure", !.key = s])
      PROVE  ServedOK(p)' /\ CopiesOK(p)'
  <2> DEFINE r == [run[p] EXCEPT !.pc = "ensure", !.key = s]
  <2>1. Become(p, r)
    BY <1>7
  <2>2. /\ r.cmd = run[p].cmd /\ r.done = run[p].done /\ r.undo = run[p].undo
        /\ r.pc = "ensure" /\ r.sess = None
    BY <1>2 DEF Runs
  <2> HIDE DEF r
  <2> QED BY <1>5, <2>1, <2>2
<1> QED BY <1>4, <1>6, <1>7 DEF Find

LEMMA ServedSync ==
  ASSUME IInv, NEW p \in Procs, ListsOK(p), ServedOK(p), CopiesOK(p), Sync(p)
  PROVE  ServedOK(p)' /\ CopiesOK(p)'
<1>1. run[p].pc = "sync" /\ AboutThis(p) /\ run[p].pc \notin {"idle", "over"} \cup Undoing
      /\ pod' = pod /\ remote' = remote
  BY DEF Sync, At, AboutThis, Undoing, cluster
<1>2. TypeOK /\ run[p] \in Runs /\ This(p) \in Tunnels /\ record[This(p)] # None
  BY <1>1, AtThis DEF IInv, AtWork, BeforeOK, At
<1>3. CASE (\E res : End(p, res)) \/ Fail(p)
  BY <1>1, <1>2, <1>3, CopiesEnd, CopiesFail
<1>4. ASSUME NEW s,
             Become(p, [run[p] EXCEPT !.pc = "ensure", !.sess = Synced(p), !.key = s]),
             record' = [record EXCEPT ![This(p)] = Synced(p)]
      PROVE  ServedOK(p)' /\ CopiesOK(p)'
  <2> DEFINE r == [run[p] EXCEPT !.pc = "ensure", !.sess = Synced(p), !.key = s]
  <2>1. Become(p, r)
    BY <1>4
  <2>2. /\ r.cmd = run[p].cmd /\ r.done = run[p].done /\ r.undo = run[p].undo
        /\ r.pc = "ensure" /\ r.sess = Synced(p)
    BY <1>2 DEF Runs
  <2> HIDE DEF r
  <2>3. run'[p] = r
    BY <1>2, <2>1, <2>2, Becomes
  <2>4. ~Synced(p).fresh
    <3>1. record[This(p)] \in Records
      BY <1>2 DEF TypeOK
    <3> QED BY <3>1 DEF Synced, Merge, Records
  <2>5. \A u \in Tunnels \ {This(p)} : record'[u] = record[u]
    BY <1>2, <1>4 DEF TypeOK
  <2>6. Is(p, "apply") => \A i \in DOMAIN run[p].done :
          \A t : t = run[p].done[i].tunnel => Served(t)' /\ News(t)'
    BY <1>1, <2>5, DoneServed
  <2>7. ServedOK(p)'
    BY <2>2, <2>3, <2>6, ServedDone
  <2>8. CopiesOK(p)'
    BY <1>1, <2>2, <2>3, <2>4, CopiesStay
  <2> QED BY <2>7, <2>8
<1> QED BY <1>3, <1>4 DEF Sync

LEMMA ServedUnverified ==
  ASSUME IInv, NEW p \in Procs, ListsOK(p), ServedOK(p), CopiesOK(p), Unverified(p)
  PROVE  ServedOK(p)' /\ CopiesOK(p)'
<1>1. run[p].pc = "ensure" /\ AboutThis(p) /\ run[p].pc \notin {"idle", "over"} \cup Undoing
      /\ pod' = pod /\ record' = record /\ remote' = remote
  BY DEF Unverified, At, AboutThis, Undoing, cluster
<1>2. TypeOK /\ run[p] \in Runs
  BY <1>1 DEF IInv, TypeOK
<1>3. CASE Fail(p)
  BY <1>1, <1>2, <1>3, CopiesFail
<1>4. CASE Become(p, [run[p] EXCEPT !.todo[1].domain = NoDomain])
  <2> DEFINE r == [run[p] EXCEPT !.todo[1].domain = NoDomain]
  <2>1. Become(p, r)
    BY <1>4
  <2>2. /\ r.cmd = run[p].cmd /\ r.done = run[p].done /\ r.undo = run[p].undo
        /\ r.pc = "ensure" /\ r.sess = run[p].sess
    BY <1>1, <1>2 DEF Runs
  <2> HIDE DEF r
  <2>3. run'[p] = r
    BY <1>2, <2>1, <2>2, Becomes
  <2>4. Is(p, "apply") => \A i \in DOMAIN run[p].done :
          \A t : t = run[p].done[i].tunnel => Served(t)' /\ News(t)'
    BY <1>1, DoneServed
  <2>5. ServedOK(p)'
    BY <2>2, <2>3, <2>4, ServedDone
  <2>6. CopiesOK(p)'
    BY <1>1, <2>2, <2>3, CopiesStay DEF Undoing
  <2> QED BY <2>5, <2>6
<1> QED BY <1>3, <1>4 DEF Unverified

LEMMA ServedEnsure ==
  ASSUME IInv, NEW p \in Procs, ListsOK(p), ServedOK(p), CopiesOK(p), Ensure(p)
  PROVE  ServedOK(p)' /\ CopiesOK(p)'
<1>1. /\ run[p].pc = "ensure" /\ AboutThis(p)
      /\ run[p].pc \notin {"idle", "over", "sync"} \cup Undoing
      /\ pod' = pod /\ record' = record
  BY DEF Ensure, At, AboutThis, Undoing
<1>2. TypeOK /\ This(p) \in Tunnels /\ run[p].pc \notin {"idle", "over"}
  BY <1>1, AtThis DEF IInv, At
<1>3. CASE EnsureFails(p)
  BY <1>1, <1>2, <1>3, CopiesFail
<1>4. CASE Put(This(p), Asked(p)) /\ Go(p, AfterEnsure(p))
  <2> DEFINE place == AfterEnsure(p)
  <2>1. /\ place \in Places \ ({"idle", "over", "lock"} \cup Undoing)
        /\ place \in {"save", "clear", "ready"}
        /\ place = "save" => ~Is(p, "apply")
        /\ place = "ready" => Is(p, "apply")
    BY DEF AfterEnsure, Places, Undoing
  <2>2. Go(p, place)
    BY <1>4
  <2> HIDE DEF place
  <2>3. remote'[This(p)] = Asked(p) /\ Asked(p).up = TRUE
        /\ \A u \in Tunnels \ {This(p)} : remote'[u] = remote[u]
    BY <1>2, <1>4 DEF Put, TypeOK, Asked, Objects
  <2> QED BY <1>1, <2>1, <2>2, <2>3, ServedGo
<1> QED BY <1>3, <1>4 DEF Ensure

LEMMA ServedSetDomain ==
  ASSUME IInv, NEW p \in Procs, ListsOK(p), ServedOK(p), CopiesOK(p), SetDomain(p)
  PROVE  ServedOK(p)' /\ CopiesOK(p)'
<1>1. /\ run[p].pc = "ensure" /\ AboutThis(p) /\ Is(p, "domain") /\ ~Is(p, "apply")
      /\ run[p].pc \notin {"idle", "over", "sync"} \cup Undoing
      /\ pod' = pod /\ record' = record
  BY DEF SetDomain, At, AboutThis, Undoing, Is
<1>2. TypeOK /\ This(p) \in Tunnels
  BY <1>1, AtThis DEF IInv, At
<1>3. CASE End(p, "error")
  BY <1>2, <1>3, CopiesEnd
<1>4. CASE /\ Put(This(p), [remote[This(p)] EXCEPT !.domain = Item(p).domain])
           /\ Go(p, "save")
  <2>1. "save" \in Places \ ({"idle", "over", "lock"} \cup Undoing)
    BY DEF Places, Undoing
  <2>2. \A u \in Tunnels \ {This(p)} : remote'[u] = remote[u]
    BY <1>2, <1>4 DEF Put, TypeOK
  <2> QED BY <1>1, <1>4, <2>1, <2>2, ServedGo
<1> QED BY <1>3, <1>4 DEF SetDomain

LEMMA ServedClear ==
  ASSUME IInv, NEW p \in Procs, ListsOK(p), ServedOK(p), CopiesOK(p), Clear(p)
  PROVE  ServedOK(p)' /\ CopiesOK(p)'
<1>1. /\ run[p].pc = "clear" /\ AboutThis(p) /\ Is(p, "apply")
      /\ run[p].pc \notin {"idle", "over", "sync"} \cup Undoing
      /\ pod' = pod /\ record' = record /\ remote' = remote
  BY DEF Clear, At, AboutThis, Undoing, IInv, PlaceOK, cluster
<1>2. CASE Undone(p, WithThis(p))
  BY <1>1, <1>2, CopiesFail
<1>3. CASE Go(p, "ready")
  <2>1. "ready" \in Places \ ({"idle", "over", "lock"} \cup Undoing)
    BY DEF Places, Undoing
  <2>2. remote'[This(p)].up
    BY <1>1 DEF ServedOK
  <2> QED BY <1>1, <1>3, <2>1, <2>2, ServedGo
<1> QED BY <1>2, <1>3 DEF Clear

LEMMA ServedReady ==
  ASSUME IInv, NEW p \in Procs, ListsOK(p), ServedOK(p), CopiesOK(p), Ready(p)
  PROVE  ServedOK(p)' /\ CopiesOK(p)'
<1>1. /\ run[p].pc = "ready" /\ AboutThis(p)
      /\ run[p].pc \notin {"idle", "over", "sync"} \cup Undoing
      /\ pod' = pod /\ record' = record /\ remote' = remote
  BY DEF Ready, At, AboutThis, Undoing, cluster
<1>2. TypeOK /\ This(p) \in Tunnels
  BY <1>1, AtThis DEF IInv, At
<1>3. CASE End(p, "committed")
  BY <1>2, <1>3, CopiesEnd
<1>4. CASE Undone(p, WithThis(p))
  BY <1>1, <1>4, CopiesFail
<1>5. CASE RolledOut(This(p)) /\ Go(p, IF Is(p, "apply") THEN "save" ELSE "await")
  <2> DEFINE place == IF Is(p, "apply") THEN "save" ELSE "await"
  <2>1. /\ place \in Places \ ({"idle", "over", "lock"} \cup Undoing)
        /\ place \in {"save", "await"}
        /\ place = "await" => ~Is(p, "apply")
    BY DEF Places, Undoing
  <2>2. Go(p, place)
    BY <1>5
  <2> HIDE DEF place
  <2>3. /\ remote[This(p)].up /\ remote[This(p)] # None
        /\ Started(This(p))
    BY <1>1, <1>5 DEF RolledOut, Started, ServedOK
  <2>4. ~Is(p, "apply") => \A t : t = This(p) => Served(t)'
    <3> SUFFICES ASSUME ~Is(p, "apply"), NEW t, t = This(p) PROVE Served(t)'
      OBVIOUS
    <3>1. Agree(t)
      BY <1>1 DEF ServedOK
    <3>2. record[t] # None /\ Same(record[t], remote[t])
      BY <2>3, <3>1 DEF Agree
    <3> QED BY <1>1, <2>3, <3>2 DEF Served, Started
  <2>5. \A t : t = This(p) => Started(t)'
    BY <1>1, <2>3 DEF Started
  <2> QED BY <1>1, <2>1, <2>2, <2>3, <2>4, <2>5, ServedGo
<1> QED BY <1>3, <1>4, <1>5 DEF Ready
LEMMA ServedSave ==
  ASSUME IInv, NEW p \in Procs, ListsOK(p), ServedOK(p), CopiesOK(p), Save(p)
  PROVE  ServedOK(p)' /\ CopiesOK(p)'
<1>1. /\ run[p].pc = "save" /\ AboutThis(p) /\ ~Is(p, "apply") /\ At(p, "save")
      /\ run[p].pc \notin {"idle", "over", "sync"} \cup Undoing
      /\ pod' = pod /\ remote' = remote
  BY DEF Save, At, AboutThis, Undoing, cluster
<1>2. TypeOK /\ This(p) \in Tunnels /\ This(p) \in Holds(p) /\ run[p] \in Runs /\ PlaceOK(p)
  BY <1>1, AtThis DEF IInv, At
<1>3. CASE \E res : End(p, res)
  BY <1>2, <1>3, CopiesEnd
<1>4. CASE record' = record /\ Go(p, "revert")
  <2>1. "revert" \in Places \ ({"idle", "over", "lock"} \cup Undoing)
    BY DEF Places, Undoing
  <2> QED BY <1>1, <1>4, <2>1, ServedGo
<1>5. CASE /\ record' = [record EXCEPT ![This(p)] =
                [secret |-> run[p].key, policy |-> Asked(p).policy,
                 domain |-> Asked(p).domain, state |-> run[p].sess.state, fresh |-> FALSE]]
           /\ ~Is(p, "domain") /\ Go(p, "ready")
  <2>1. "ready" \in Places \ ({"idle", "over", "lock"} \cup Undoing)
    BY DEF Places, Undoing
  <2>2. run[p].sess.state \in States
    BY <1>1, <1>2 DEF PlaceOK, Runs, Records
  <2>3. /\ \A u \in Tunnels \ {This(p)} : record'[u] = record[u]
        /\ \A u \in Holds(p) : u = This(p) => Agree(u)'
    BY <1>1, <1>5, <2>2, WrittenAgrees
  <2>4. \A t : t = This(p) => Agree(t)'
    BY <1>2, <2>3
  <2>5. remote'[This(p)].up
    BY <1>1, <1>5 DEF ServedOK
  <2> QED BY <1>1, <1>5, <2>1, <2>3, <2>4, <2>5, ServedGo
<1> QED BY <1>3, <1>4, <1>5 DEF Save

LEMMA ServedSaveApplied ==
  ASSUME IInv, NEW p \in Procs, ListsOK(p), ServedOK(p), CopiesOK(p), SaveApplied(p)
  PROVE  ServedOK(p)' /\ CopiesOK(p)'
<1>1. /\ run[p].pc = "save" /\ AboutThis(p) /\ Is(p, "apply") /\ ~Is(p, "domain")
      /\ run[p].pc \notin {"idle", "over", "sync"} \cup Undoing /\ At(p, "save")
      /\ pod' = pod /\ remote' = remote /\ run[p].pc # "lock"
  BY DEF SaveApplied, At, AboutThis, Undoing, cluster, Is
<1>2. /\ TypeOK /\ This(p) \in Tunnels /\ This(p) \in Holds(p) /\ run[p] \in Runs
      /\ AtWork(p) /\ record \in [Tunnels -> Records \cup {None}]
  BY <1>1, AtThis DEF IInv, At, TypeOK
<1>3. CASE Undone(p, WithThis(p))
  BY <1>1, <1>3, CopiesFail
<1>4. CASE /\ record' = [record EXCEPT ![This(p)] =
                [secret |-> run[p].key, policy |-> Asked(p).policy,
                 domain |-> Asked(p).domain, state |-> "pending", fresh |-> FALSE]]
           /\ Become(p, [run[p] EXCEPT
                !.done = WithThis(p), !.todo = Tail(@), !.sess = None, !.key = None,
                !.pc = IF Len(run[p].todo) = 1 THEN "daemon" ELSE "find"])
  <2> DEFINE done == run[p].done
             all == WithThis(p)
             place == IF Len(run[p].todo) = 1 THEN "daemon" ELSE "find"
             r == [run[p] EXCEPT !.done = WithThis(p), !.todo = Tail(@), !.sess = None,
                                 !.key = None, !.pc = place]
             new == [secret |-> run[p].key, policy |-> Asked(p).policy,
                     domain |-> Asked(p).domain, state |-> "pending", fresh |-> FALSE]
  <2>1. /\ DOMAIN all = 1..(Len(done) + 1) /\ Len(done) \in Nat /\ DOMAIN done = 1..Len(done)
        /\ \A i \in DOMAIN done : all[i] = done[i]
        /\ all[Len(done) + 1] = [tunnel |-> This(p), previous |-> run[p].sess]
    BY <1>1, DoneWithThis
  <2>2. all[Len(done) + 1].tunnel = This(p) /\ all[Len(done) + 1].previous = run[p].sess
    BY <2>1
  <2> HIDE DEF all
  <2>3. \A i \in DOMAIN all : i \in DOMAIN done \/ i = Len(done) + 1
    BY <2>1
  <2>4. Become(p, r)
    BY <1>4
  <2>5. /\ r.cmd = run[p].cmd /\ r.done = all /\ r.undo = run[p].undo /\ r.pc = place
        /\ r.sess = None
    BY <1>2 DEF Runs, all
  <2> HIDE DEF r
  <2>6. run'[p] = r /\ Is(p, "apply")'
    BY <1>1, <1>2, <2>4, <2>5, Becomes
  <2>7. place \in {"find", "daemon"}
    OBVIOUS
  <2> HIDE DEF place
  <2>8. /\ record'[This(p)] = new
        /\ \A u \in Tunnels \ {This(p)} : record'[u] = record[u]
    BY <1>2, <1>4
  <2>9. \A t : t = This(p) => Served(t)' /\ News(t)'
    <3> SUFFICES ASSUME NEW t, t = This(p) PROVE Served(t)' /\ News(t)'
      OBVIOUS
    <3>1. new.state = "pending" /\ new.secret = Asked(p).secret
          /\ new.policy = Asked(p).policy /\ new.domain = Asked(p).domain
      BY DEF Asked, Objects
    <3> HIDE DEF new
    <3>2. remote[t] # None /\ Same(Asked(p), remote[t])
      BY <1>1, <1>2 DEF AtWork, AfterOK, Changed
    <3>3. Agree(t)'
      BY <1>1, <1>2, <1>4, WrittenAgrees DEF States
    <3>4. record'[t] # None
      BY <1>1, <3>2, <3>3 DEF Agree
    <3>5. remote[t].up /\ Started(t)
      BY <1>1 DEF ServedOK
    <3>6. Served(t)'
      BY <1>1, <2>8, <3>1, <3>2, <3>4, <3>5 DEF Served, Started, Same
    <3>7. News(t)'
      BY <2>8, <3>1 DEF News
    <3> QED BY <3>6, <3>7
  <2>10. \A i \in DOMAIN done : \A t : t = done[i].tunnel => Served(t)' /\ News(t)'
    BY <1>1, <2>8, DoneServed
  <2>11. \A i \in DOMAIN all : \A t : t = all[i].tunnel => Served(t)' /\ News(t)'
    BY <2>1, <2>2, <2>3, <2>9, <2>10
  <2>12. ServedOK(p)'
    BY <2>5, <2>6, <2>7, <2>11 DEF ServedOK
  <2>13. CopiesOK(p)'
    <3>1. run[p].sess # None => ~run[p].sess.fresh
      BY <1>1 DEF CopiesOK
    <3>2. /\ \A i \in DOMAIN done : done[i].previous # None => ~done[i].previous.fresh
          /\ \A i \in DOMAIN run[p].undo :
               run[p].undo[i].previous # None => ~run[p].undo[i].previous.fresh
      BY <1>1 DEF CopiesOK
    <3>3. \A i \in DOMAIN all : all[i].previous # None => ~all[i].previous.fresh
      BY <2>1, <2>2, <2>3, <3>1, <3>2
    <3> QED BY <2>5, <2>6, <3>2, <3>3 DEF CopiesOK
  <2> QED BY <2>12, <2>13
<1> QED BY <1>3, <1>4 DEF SaveApplied

LEMMA ServedStartDaemon ==
  ASSUME IInv, NEW p \in Procs, ListsOK(p), ServedOK(p), CopiesOK(p), StartDaemon(p)
  PROVE  ServedOK(p)' /\ CopiesOK(p)'
<1>1. /\ run[p].pc = "daemon" /\ run[p].pc \notin {"idle", "over", "sync"} \cup Undoing
      /\ pod' = pod /\ record' = record /\ remote' = remote
  BY DEF StartDaemon, At, Undoing, cluster
<1>2. TypeOK /\ Is(p, "apply")
  BY <1>1 DEF IInv, PlaceOK
<1>3. CASE Undone(p, run[p].done)
  BY <1>1, <1>3, CopiesFail
<1>4. CASE Go(p, "await")
  <2>1. "await" \in Places
    BY DEF Places
  <2>2. /\ run'[p].pc = "await" /\ run'[p].done = run[p].done /\ run'[p].undo = run[p].undo
        /\ run'[p].sess = run[p].sess /\ Is(p, "apply")' = Is(p, "apply")
    BY <1>2, <1>4, <2>1, GoTo
  <2>3. \A t : (Served(t)' <=> Served(t)) /\ (News(t)' <=> News(t))
    BY <1>1 DEF Served, Started, News
  <2>4. CopiesOK(p)'
    BY <1>1, <2>2, CopiesStay
  <2>5. ServedOK(p)'
    BY <1>1, <1>2, <2>2, <2>3 DEF ServedOK
  <2> QED BY <2>4, <2>5
<1> QED BY <1>3, <1>4 DEF StartDaemon

\* Every step of a process.
LEMMA ServedStep ==
  ASSUME IInv, NEW p \in Procs, ListsOK(p), ServedOK(p), CopiesOK(p), Step(p)
  PROVE  ServedOK(p)' /\ CopiesOK(p)'
<1>1. TypeOK /\ run[p].pc \notin {"idle", "over"}
  BY StepTouches DEF IInv
<1>2. CASE LockTimeout(p) \/ Revert(p)
  BY <1>1, <1>2, CopiesEnd DEF LockTimeout, Revert
<1>3. CASE TakeLock(p) \/ Find(p) \/ Sync(p) \/ Unverified(p) \/ Ensure(p) \/ SetDomain(p)
  BY <1>3, ServedTakeLock, ServedFind, ServedSync, ServedUnverified, ServedEnsure,
     ServedSetDomain
<1>4. CASE Clear(p) \/ Ready(p) \/ Save(p) \/ SaveApplied(p) \/ StartDaemon(p)
  BY <1>4, ServedClear, ServedReady, ServedSave, ServedSaveApplied, ServedStartDaemon
<1>5. CASE Await(p)
  <2>1. CASE \E res : End(p, res)
    BY <1>1, <2>1, CopiesEnd
  <2>2. CASE Undone(p, run[p].done)
    BY <1>1, <2>2, CopiesFail
  <2> QED BY <1>5, <2>1, <2>2 DEF Await
<1>6. CASE Remove(p) \/ Restore(p) \/ Restored(p)
  <2>1. PICK place \in {"forget", "restored", "resave"} : Go(p, place)
    BY <1>6 DEF Remove, Restore, Restored
  <2>2. place \in Places /\ place \in Undoing
    BY DEF Places, Undoing
  <2>3. /\ run'[p].pc = place /\ run'[p].done = run[p].done /\ run'[p].undo = run[p].undo
        /\ run'[p].cmd = run[p].cmd
    BY <1>1, <2>1, <2>2, GoTo
  <2> QED BY <1>1, <2>2, <2>3, CopiesStay, ServedDone
<1>7. CASE Forget(p) \/ Resave(p)
  <2>1. run[p].pc \in Undoing /\ UndoNext(p)
    BY <1>7 DEF Forget, Resave, At, Undoing
  <2> QED BY <2>1, CopiesUndoNext
<1> QED BY <1>2, <1>3, <1>4, <1>5, <1>6, <1>7 DEF Step
\* What is kept for a process by the steps of others.
LEMMA ServedFrame ==
  ASSUME IInv, NEW q \in Procs, ListsOK(q), ServedOK(q), CopiesOK(q), run'[q] = run[q],
         \A t \in Holds(q) :
           /\ remote'[t] = remote[t]
           /\ Agree(t) => Agree(t)'
           /\ Served(t) => Served(t)'
           /\ News(t) => News(t)'
           /\ remote[t] # None /\ remote[t].up /\ Started(t) => Started(t)'
  PROVE  ServedOK(q)' /\ CopiesOK(q)'
<1>1. This(q)' = This(q) /\ Is(q, "apply")' = Is(q, "apply") /\ Is(q, "domain")' = Is(q, "domain")
  BY DEF This, Item, Is
<1>2. CopiesOK(q)'
  BY DEF CopiesOK
<1>3. CASE run[q].pc \in {"idle", "over"} \cup Undoing
  BY <1>2, <1>3 DEF ServedOK, Undoing
<1>4. CASE run[q].pc = "lock"
  <2>1. run[q].done = <<>>
    BY <1>4 DEF ListsOK
  <2> QED BY <1>2, <1>4, <2>1 DEF ServedOK
<1>5. CASE run[q].pc \notin {"idle", "over", "lock"} \cup Undoing
  <2>1. /\ Holds(q) = Wants(q) /\ AtWork(q)
        /\ \A i \in DOMAIN run[q].done : run[q].done[i].tunnel \in Wants(q)
    BY <1>5, Inside
  <2>2. /\ run[q].pc \in {"clear", "ready", "save"} => This(q) \in Holds(q)
        /\ run[q].pc = "await" /\ ~Is(q, "apply") => This(q) \in Holds(q)
    BY <1>5, AtThis DEF AboutThis, At
  <2>3. Is(q, "apply")' => \A i \in DOMAIN run'[q].done :
          \A t : t = run'[q].done[i].tunnel => Served(t)' /\ News(t)'
    <3> SUFFICES ASSUME Is(q, "apply"), NEW i \in DOMAIN run[q].done,
                        NEW t, t = run[q].done[i].tunnel
                 PROVE  Served(t)' /\ News(t)'
      BY <1>1
    <3>1. Served(t) /\ News(t) /\ t \in Holds(q)
      BY <1>5, <2>1 DEF ServedOK
    <3> QED BY <3>1
  <2>4. run[q].pc = "ready" /\ ~Is(q, "apply") => \A t : t = This(q)' => Agree(t)'
    BY <1>1, <2>2 DEF ServedOK
  <2>5. run[q].pc = "await" /\ ~Is(q, "apply") => \A t : t = This(q)' => Served(t)'
    BY <1>1, <2>2 DEF ServedOK
  <2>6. run[q].pc = "save" /\ Is(q, "apply") => \A t : t = This(q)' => Started(t)'
    <3> SUFFICES ASSUME run[q].pc = "save", Is(q, "apply"), NEW t, t = This(q)
                 PROVE  Started(t)'
      BY <1>1
    <3>1. remote[t] # None
      BY <2>1 DEF AtWork, AfterOK, Changed
    <3>2. ~Is(q, "domain")
      BY DEF Is
    <3>3. remote[t].up /\ Started(t)
      BY <3>2 DEF ServedOK
    <3> QED BY <2>2, <3>1, <3>3
  <2>7. /\ run[q].pc \in {"clear", "ready"} \/ (run[q].pc = "save" /\ ~Is(q, "domain"))
             => remote'[This(q)].up
        /\ run[q].pc = "save" /\ Is(q, "apply") => remote'[This(q)] = remote[This(q)]
    BY <2>2 DEF ServedOK
  <2>8. ServedOK(q)'
    BY <1>1, <1>5, <2>3, <2>4, <2>5, <2>6, <2>7 DEF ServedOK
  <2> QED BY <1>2, <2>8
<1> QED BY <1>3, <1>4, <1>5

\* What a command writes confirms nothing.
LEMMA StepWrites ==
  ASSUME IInv, NEW p \in Procs, CopiesOK(p), Step(p), NEW t \in Tunnels
  PROVE  record'[t] = record[t] \/ record'[t] = None \/ ~record'[t].fresh
<1>1. TypeOK /\ record \in [Tunnels -> Records \cup {None}]
  BY DEF IInv, TypeOK
<1>2. CASE record' = record
  BY <1>2
<1>3. CASE Sync(p)
  <2>1. This(p) \in Tunnels /\ record[This(p)] # None
    BY <1>3, AtThis DEF Sync, At, AboutThis, AtWork, BeforeOK
  <2>2. ~Synced(p).fresh
    <3>1. record[This(p)] \in Records
      BY <1>1, <2>1
    <3> QED BY <3>1 DEF Synced, Merge, Records
  <2> QED BY <1>1, <1>3, <2>2 DEF Sync
<1>4. CASE Save(p) \/ SaveApplied(p)
  <2>1. ASSUME NEW st,
               record' = [record EXCEPT ![This(p)] =
                 [secret |-> run[p].key, policy |-> Asked(p).policy,
                  domain |-> Asked(p).domain, state |-> st, fresh |-> FALSE]]
        PROVE  record'[t] = record[t] \/ ~record'[t].fresh
    BY <1>1, <2>1
  <2> QED BY <1>2, <1>4, <2>1 DEF Save, SaveApplied
<1>5. CASE Forget(p)
  BY <1>1, <1>5 DEF Forget
<1>6. CASE Resave(p)
  <2>1. run[p].pc \in Undoing /\ run[p].pc \notin {"idle", "over"} /\ run[p].pc = "resave"
    BY <1>6 DEF Resave, At, Undoing
  <2>2. Entry(p).previous # None => ~Entry(p).previous.fresh
    <3>1. run[p].undo \in Seq(Entries) /\ run[p].undo # <<>>
      BY <1>1, <2>1 DEF IInv, PlaceOK, TypeOK, Runs
    <3>2. Len(run[p].undo) \in DOMAIN run[p].undo
      BY <3>1
    <3> QED BY <2>1, <3>2 DEF CopiesOK, Entry
  <2> QED BY <1>1, <1>6, <2>2 DEF Resave
<1>7. CASE TakeLock(p) \/ LockTimeout(p) \/ Find(p) \/ Unverified(p) \/ Ensure(p)
  BY <1>2, <1>7 DEF TakeLock, LockTimeout, Find, Unverified, Ensure
<1>8. CASE SetDomain(p) \/ Clear(p) \/ Ready(p) \/ Revert(p) \/ StartDaemon(p) \/ Await(p)
  BY <1>2, <1>8 DEF SetDomain, Clear, Ready, Revert, StartDaemon, Await
<1>9. CASE Remove(p) \/ Restore(p) \/ Restored(p)
  BY <1>2, <1>9 DEF Remove, Restore, Restored
<1> QED BY <1>3, <1>4, <1>5, <1>6, <1>7, <1>8, <1>9 DEF Step

LEMMA ServedByStep ==
  ASSUME IInv, UInv, VInv, NEW p \in Procs, Step(p)
  PROVE  VInv'
<1>1. TypeOK /\ ListsOK(p) /\ ServedOK(p) /\ CopiesOK(p) /\ pod' = pod /\ worker' = worker
  BY StepTouches DEF IInv, UInv, VInv
<1>2. ASSUME NEW q \in Procs PROVE ServedOK(q)' /\ CopiesOK(q)'
  <2>1. CASE q = p
    BY <1>1, <2>1, ServedStep
  <2>2. CASE q # p
    <3>1. run'[q] = run[q]
      BY <1>1, <2>2, StepAlone
    <3>2. \A t \in Holds(q) : record'[t] = record[t] /\ remote'[t] = remote[t]
      <4>1. \A t \in Holds(q) : t \in Tunnels \ Holds(p)
        BY <2>2 DEF Holds
      <4> QED BY <4>1, StepTouches DEF Mine
    <3>3. \A t \in Holds(q) : /\ Agree(t) => Agree(t)'
                              /\ Served(t) => Served(t)'
                              /\ News(t) => News(t)'
      BY <1>1, <3>2 DEF Agree, Served, Started, News
    <3>5. \A t \in Holds(q) : Started(t) => Started(t)'
      BY <1>1, <3>2 DEF Started
    <3>4. ListsOK(q) /\ ServedOK(q) /\ CopiesOK(q)
      BY DEF UInv, VInv
    <3> QED BY <3>1, <3>2, <3>3, <3>4, <3>5, ServedFrame
  <2> QED BY <2>1, <2>2
<1>3. ASSUME NEW t \in Tunnels PROVE DialOK(t)'
  <2>1. record'[t] = record[t] \/ record'[t] = None \/ ~record'[t].fresh
    BY <1>1, StepWrites
  <2>2. DialOK(t)
    BY DEF VInv
  <2> QED BY <1>1, <2>1, <2>2 DEF DialOK
<1> QED BY <1>2, <1>3 DEF VInv
\* What the daemon reports: a session is connected only once it has said so.
LEMMA ReportedNews ==
  ASSUME TypeOK, NEW t \in Tunnels, NEW s \in States, Report(t, s), remote' = remote,
         pod' = pod, NEW u \in Tunnels
  PROVE  /\ Agree(u) => Agree(u)'
         /\ Served(u) => Served(u)'
         /\ News(u) => News(u)'
<1>1. /\ record'[u] = None <=> record[u] = None
      /\ record[u] # None =>
           /\ record'[u].secret = record[u].secret /\ record'[u].policy = record[u].policy
           /\ record'[u].domain = record[u].domain
  BY Reported
<1>2. Agree(u) => Agree(u)'
  BY <1>1 DEF Agree, Same
<1>3. Served(u) => Served(u)'
  BY <1>1 DEF Served, Started, Same
<1>4. News(u) => News(u)'
  <2>1. CASE ~Desired(t)
    BY <2>1 DEF Report, News
  <2>2. CASE Desired(t)
    <3> DEFINE new == [record[t] EXCEPT !.state = s,
                                        !.fresh = record[t].fresh \/ s = "connected"]
    <3>1. record[t] \in Records /\ record \in [Tunnels -> Records \cup {None}]
      BY <2>2 DEF Desired, TypeOK
    <3>2. new.state = s /\ (s = "connected" => new.fresh)
      BY <3>1 DEF Records
    <3>3. record' = [record EXCEPT ![t] = new]
      BY <2>2, <3>1 DEF Report
    <3> HIDE DEF new
    <3> QED BY <3>1, <3>2, <3>3 DEF News
  <2> QED BY <2>1, <2>2
<1> QED BY <1>2, <1>3, <1>4

LEMMA ServedByDaemon ==
  ASSUME IInv, UInv, VInv, NEW t \in Tunnels, Daemon(t)
  PROVE  VInv'
<1>1. /\ TypeOK /\ pod' = pod /\ remote' = remote /\ run' = run
      /\ worker \in [Tunnels -> Workers \cup {None}]
      /\ record \in [Tunnels -> Records \cup {None}]
  BY DEF Daemon, cluster, IInv, TypeOK
<1>2. record' = record \/ \E s \in {"connecting", "connected", "error"} : Report(t, s)
  BY DEF Daemon, Adopt, Retire, Mark, Connect, DialFails, Dropped
<1>3. {"connecting", "connected", "error"} \subseteq States
  BY DEF States
<1>4. \A u \in Tunnels : /\ Agree(u) => Agree(u)'
                         /\ Served(u) => Served(u)'
                         /\ News(u) => News(u)'
  <2>1. CASE record' = record
    BY <1>1, <2>1 DEF Agree, Served, Started, News
  <2>2. CASE \E s \in {"connecting", "connected", "error"} : Report(t, s)
    BY <1>1, <1>3, <2>2, ReportedNews
  <2> QED BY <1>2, <2>1, <2>2
<1>5. ASSUME NEW q \in Procs PROVE ServedOK(q)' /\ CopiesOK(q)'
  <2>1. ListsOK(q) /\ ServedOK(q) /\ CopiesOK(q) /\ Holds(q) \subseteq Tunnels
    BY DEF UInv, VInv, Holds
  <2>2. \A u \in Tunnels : Started(u) => Started(u)'
    BY <1>1 DEF Started
  <2> QED BY <1>1, <1>4, <2>1, <2>2, ServedFrame
<1>6. ASSUME NEW u \in Tunnels PROVE DialOK(u)'
  <2>1. DialOK(u)
    BY DEF VInv
  <2>2. CASE u # t
    <3>1. worker'[u] = worker[u]
      BY <1>1, <2>2 DEF Daemon, Adopt, Retire, Mark, Connect, DialFails, Dropped, Phase
    <3>2. record'[u] = record[u]
      BY <1>1, <1>2, <2>2 DEF Report
    <3> QED BY <2>1, <3>1, <3>2 DEF DialOK
  <2>3. CASE u = t /\ (worker'[t] = None \/ worker'[t].phase # "dial")
    BY <2>3 DEF DialOK
  <2>4. CASE Adopt(t) \/ Retire(t)
    <3>1. worker'[t] = None \/ worker'[t].phase = "get"
      BY <1>1, <2>4 DEF Adopt, Retire
    <3> QED BY <2>2, <2>3, <3>1
  <2>5. CASE \E ph \in {"get", "serve"} : worker[t] # None /\ Phase(t, ph)
    <3>1. PICK ph \in {"get", "serve"} : worker[t] # None /\ Phase(t, ph)
      BY <2>5
    <3> DEFINE new == [worker[t] EXCEPT !.phase = ph, !.live = (ph = "serve"),
                         !.key = IF ph = "get" THEN None ELSE worker[t].key]
    <3>2. worker[t] \in Workers
      BY <1>1, <3>1
    <3>3. new.phase = ph
      BY <3>2 DEF Workers
    <3>4. worker' = [worker EXCEPT ![t] = new]
      BY <1>1, <3>1 DEF Phase
    <3> HIDE DEF new
    <3>5. worker'[t].phase = ph
      BY <1>1, <3>3, <3>4
    <3> QED BY <2>2, <2>3, <3>5
  <2>6. CASE Mark(t) /\ u = t
    <3> DEFINE new == [record[t] EXCEPT !.state = "connecting",
                                        !.fresh = record[t].fresh \/ "connecting" = "connected"]
    <3>1. record[t] \in Records
      BY <1>1, <2>6 DEF Mark, Desired
    <3>2. new.state = "connecting"
      BY <3>1 DEF Records
    <3>3. record' = [record EXCEPT ![t] = new]
      BY <1>1, <2>6 DEF Mark, Report
    <3> HIDE DEF new
    <3>4. record'[t].state = "connecting"
      BY <1>1, <3>2, <3>3
    <3> QED BY <2>6, <3>4 DEF DialOK
  <2> QED BY <2>2, <2>4, <2>5, <2>6 DEF Daemon, Connect, DialFails, Dropped
<1> QED BY <1>5, <1>6 DEF VInv

\* A server that was started for what the Deployment says goes on; if it restarts,
\* it was still started for that.
LEMMA ServedByPod ==
  ASSUME IInv, UInv, VInv, NEW t \in Tunnels, Rollout(t) \/ Restart(t)
  PROVE  VInv'
<1>1. /\ TypeOK /\ record' = record /\ remote' = remote /\ run' = run /\ Severed(t)
      /\ pod \in [Tunnels -> Pods \cup {None}]
  BY DEF Rollout, Restart, IInv, TypeOK
<1>2. ASSUME NEW u \in Tunnels, remote[u] # None, remote[u].up, Started(u)
      PROVE  Started(u)'
  <2>1. CASE Rollout(t)
    <3>1. u # t
      BY <1>2, <2>1 DEF Rollout, Started
    <3>2. pod'[u] = pod[u]
      BY <1>1, <2>1, <3>1 DEF Rollout
    <3> QED BY <1>1, <1>2, <3>2 DEF Started
  <2>2. CASE Restart(t)
    <3>2. PICK new \in Pods : new.of = pod[t].of /\ pod' = [pod EXCEPT ![t] = new]
      BY <2>2, Restarted
    <3>4. \A v \in Tunnels : pod'[v] = IF v = t THEN new ELSE pod[v]
      BY <1>1, <3>2
    <3>5. pod[t] # None
      BY <2>2 DEF Restart
    <3> QED BY <1>1, <1>2, <3>2, <3>4, <3>5, SentinelAssumption DEF Started
  <2> QED BY <2>1, <2>2
<1>3. \A u \in Tunnels : /\ Agree(u) => Agree(u)'
                         /\ Served(u) => Served(u)'
                         /\ News(u) => News(u)'
  BY <1>1, <1>2 DEF Agree, Served, News
<1>4. ASSUME NEW q \in Procs PROVE ServedOK(q)' /\ CopiesOK(q)'
  <2>1. ListsOK(q) /\ ServedOK(q) /\ CopiesOK(q) /\ Holds(q) \subseteq Tunnels
    BY DEF UInv, VInv, Holds
  <2> QED BY <1>1, <1>2, <1>3, <2>1, ServedFrame
<1>5. ASSUME NEW u \in Tunnels PROVE DialOK(u)'
  <2>1. DialOK(u)
    BY DEF VInv
  <2>a. \A v \in Tunnels : /\ worker'[v] = None <=> worker[v] = None
                           /\ worker[v] # None => worker'[v].phase = worker[v].phase
    BY <1>1, SeveredWorker
  <2>2. /\ worker'[u] = None <=> worker[u] = None
        /\ worker[u] # None => worker'[u].phase = worker[u].phase
    BY <2>a
  <2> QED BY <1>1, <2>1, <2>2 DEF DialOK
<1> QED BY <1>4, <1>5 DEF VInv

LEMMA ServedStill ==
  ASSUME IInv, NEW q \in Procs, ListsOK(q), ServedOK(q), CopiesOK(q), run'[q] = run[q],
         record' = record, remote' = remote, pod' = pod
  PROVE  ServedOK(q)' /\ CopiesOK(q)'
<1>1. \A t \in Holds(q) : /\ Agree(t) => Agree(t)'
                          /\ Served(t) => Served(t)'
                          /\ News(t) => News(t)'
  BY DEF Agree, Served, Started, News
<1>2. \A t \in Holds(q) : Started(t) => Started(t)'
  BY DEF Started
<1> QED BY <1>1, <1>2, ServedFrame

LEMMA NextServed == IInv /\ UInv /\ VInv /\ [Next]_vars => VInv'
<1> SUFFICES ASSUME IInv, UInv, VInv, [Next]_vars PROVE VInv'
  OBVIOUS
<1>1. TypeOK
  BY DEF IInv
<1>2. CASE UNCHANGED vars
  <2>1. /\ record' = record /\ remote' = remote /\ pod' = pod /\ skewed' = skewed
      /\ worker' = worker
        /\ run' = run
    BY <1>2 DEF vars
  <2>2. \A q \in Procs : ListsOK(q) /\ ServedOK(q) /\ CopiesOK(q) /\ Holds(q) \subseteq Tunnels
    BY DEF UInv, VInv, Holds
  <2>4. \A q \in Procs : ServedOK(q)' /\ CopiesOK(q)'
    BY <2>1, <2>2, ServedStill
  <2>5. \A t \in Tunnels : DialOK(t)'
    BY <2>1 DEF VInv, DialOK
  <2> QED BY <2>4, <2>5 DEF VInv
<1>3. CASE Finished
  BY <1>2, <1>3 DEF Finished
<1>4. ASSUME NEW p \in Procs, Crash(p) \/ \E c \in Commands : Begin(p, c)
      PROVE  VInv'
  <2>1. record' = record /\ remote' = remote /\ pod' = pod /\ skewed' = skewed
      /\ worker' = worker
    BY <1>4 DEF Crash, Begin, cluster
  <2>3. ASSUME NEW q \in Procs PROVE ServedOK(q)' /\ CopiesOK(q)'
    <3>1. CASE q # p
      <4>1. run'[q] = run[q]
        BY <1>1, <1>4, <3>1, StepAlone
      <4>2. ListsOK(q) /\ ServedOK(q) /\ CopiesOK(q) /\ Holds(q) \subseteq Tunnels
        BY DEF UInv, VInv, Holds
      <4> QED BY <2>1, <4>1, <4>2, ServedStill
    <3>2. CASE q = p /\ Crash(p)
      BY <1>1, <3>2, CopiesEnd DEF Crash
    <3>3. CASE q = p /\ \E c \in Commands : Begin(p, c)
      <4>1. PICK c \in Commands : Begin(p, c)
        BY <3>3
      <4>2. run[p] = Idle
        BY <4>1 DEF Begin, At, IInv, PlaceOK
      <4>3. run'[p] = [Idle EXCEPT !.pc = "lock", !.cmd = c, !.todo = c.items]
        BY <1>1, <4>1, <4>2 DEF Begin, TypeOK
      <4>4. /\ run'[p].pc = "lock" /\ run'[p].sess = None
            /\ run'[p].done = <<>> /\ run'[p].undo = <<>>
        BY <4>3 DEF Idle
      <4> QED BY <3>3, <4>4 DEF ServedOK, CopiesOK
    <3> QED BY <1>4, <3>1, <3>2, <3>3
  <2>4. \A t \in Tunnels : DialOK(t)'
    BY <2>1 DEF VInv, DialOK
  <2> QED BY <2>3, <2>4 DEF VInv
<1>5. ASSUME NEW p \in Procs, Step(p) PROVE VInv'
  BY <1>5, ServedByStep
<1>6. ASSUME NEW t \in Tunnels, Daemon(t) \/ Rollout(t) \/ Restart(t) PROVE VInv'
  BY <1>6, ServedByDaemon, ServedByPod
<1> QED BY <1>2, <1>3, <1>4, <1>5, <1>6 DEF Next

LEMMA InitServed == Init => VInv
<1> SUFFICES ASSUME Init PROVE VInv
  OBVIOUS
<1>1. \A p \in Procs : ServedOK(p) /\ CopiesOK(p)
  BY DEF Init, ServedOK, CopiesOK, Idle
<1>2. ASSUME NEW t \in Tunnels PROVE DialOK(t)
  <2>1. worker[t] # None => worker[t].phase = "serve"
    BY DEF Init
  <2> QED BY <2>1 DEF DialOK
<1> QED BY <1>1, <1>2 DEF VInv

\* A step of a process leaves the servers as they are, and changes at most one tunnel's
\* objects in the cluster.
LEMMA StepPuts ==
  ASSUME NEW p \in Procs, Step(p)
  PROVE  pod' = pod /\ (KeepRemote \/ \E t, m : Put(t, m))
<1>1. CASE TakeLock(p) \/ LockTimeout(p) \/ Find(p) \/ Sync(p) \/ Unverified(p) \/ Clear(p)
  BY <1>1 DEF TakeLock, LockTimeout, Find, Sync, Unverified, Clear, cluster, KeepRemote
<1>2. CASE Ready(p) \/ Save(p) \/ SaveApplied(p) \/ StartDaemon(p) \/ Await(p)
  BY <1>2 DEF Ready, Save, SaveApplied, StartDaemon, Await, cluster, KeepRemote
<1>3. CASE Forget(p) \/ Restored(p) \/ Resave(p)
  BY <1>3 DEF Forget, Restored, Resave, cluster, KeepRemote
<1>4. CASE Ensure(p)
  BY <1>4, Zenon DEF Ensure
<1>5. CASE SetDomain(p) \/ Revert(p)
  BY <1>5, Zenon DEF SetDomain, Revert
<1>6. CASE Remove(p) \/ Restore(p)
  BY <1>6, Zenon DEF Remove, Restore
<1> QED BY <1>1, <1>2, <1>3, <1>4, <1>5, <1>6 DEF Step

LEMMA PutAligned ==
  ASSUME TypeOK, AInv, pod' = pod, NEW t, NEW m, Put(t, m), NEW u \in Tunnels
  PROVE  AlignedOK(u)'
<1>1. CASE u = t
  <2>1. remote'[u] = m
    BY <1>1 DEF Put, TypeOK
  <2> QED BY <1>1, <2>1 DEF Put, AInv, AlignedOK
<1>2. CASE u # t
  <2>1. remote'[u] = remote[u]
    BY <1>2 DEF Put, TypeOK
  <2> QED BY <1>2, <2>1 DEF Put, AInv, AlignedOK
<1> QED BY <1>1, <1>2

LEMMA InitAligned == Init => AInv
<1> SUFFICES ASSUME Init, NEW t \in Tunnels PROVE AlignedOK(t)
  BY DEF AInv
<1>1. CASE record[t] = None
  BY <1>1 DEF Init, AlignedOK
<1>2. CASE record[t] # None
  <2>1. record[t] \in Records /\ (record[t].state = "connected") \in BOOLEAN
    BY <1>2, InitInv DEF IInv, TypeOK
  <2>2. remote[t].digest = Config(remote[t])
    <3>1. remote[t] = [Objects(Config(record[t]), record[t].domain) EXCEPT
                         !.up = record[t].state = "connected"]
      BY <1>2 DEF Init
    <3>2. PICK up \in BOOLEAN : up = (record[t].state = "connected")
      BY <2>1, Zenon
    <3>3. remote[t] = [Objects(Config(record[t]), record[t].domain) EXCEPT !.up = up]
      BY <3>1, <3>2, Zenon
    <3> QED BY <2>1, <3>3, InitObjects
  <2>3. pod[t] # None => pod[t] = [of |-> Config(record[t]), runs |-> Config(record[t])]
    BY DEF Init
  <2> QED BY <2>2, <2>3 DEF AlignedOK
<1> QED BY <1>1, <1>2

LEMMA NextAligned == TypeOK /\ AInv /\ [Next]_vars => AInv'
<1> SUFFICES ASSUME TypeOK, AInv, [Next]_vars, NEW u \in Tunnels PROVE AlignedOK(u)'
  BY DEF AInv
<1>1. AlignedOK(u)
  BY DEF AInv
<1>2. CASE KeepRemote /\ pod' = pod
  BY <1>1, <1>2 DEF KeepRemote, AlignedOK
<1>3. CASE UNCHANGED vars \/ Finished
  BY <1>2, <1>3 DEF Finished, vars, KeepRemote
<1>4. ASSUME NEW p \in Procs, Crash(p) \/ \E c \in Commands : Begin(p, c)
      PROVE  AlignedOK(u)'
  BY <1>2, <1>4 DEF Crash, Begin, cluster, KeepRemote
<1>5. ASSUME NEW p \in Procs, Step(p) PROVE AlignedOK(u)'
  BY <1>2, <1>5, StepPuts, PutAligned
<1>6. ASSUME NEW t \in Tunnels, Daemon(t) PROVE AlignedOK(u)'
  BY <1>2, <1>6 DEF Daemon, cluster, KeepRemote
<1>7. ASSUME NEW t \in Tunnels, Rollout(t) PROVE AlignedOK(u)'
  <2>1. CASE u # t
    <3>1. remote'[u] = remote[u] /\ pod'[u] = pod[u]
      BY <1>7, <2>1 DEF Rollout, TypeOK
    <3>2. u \in skewed => u \in skewed'
      BY <1>7, <2>1 DEF Rollout
    <3> QED BY <1>1, <3>1, <3>2 DEF AlignedOK
  <2>2. CASE u = t /\ pod' = [pod EXCEPT ![t] = None] /\ skewed' = skewed
    <3>1. pod'[t] = None /\ remote'[t] = remote[t]
      BY <1>7, <2>2 DEF Rollout, TypeOK
    <3> QED BY <1>1, <2>2, <3>1 DEF AlignedOK
  <2>3. ASSUME u = t, NEW c,
               pod' = [pod EXCEPT ![t] = [of |-> remote[t].digest, runs |-> c]],
               skewed' = IF c = remote[t].digest /\ c = Config(remote[t]) THEN skewed \ {t}
                         ELSE skewed \cup {t}
        PROVE  AlignedOK(u)'
    <3>1. remote'[t] = remote[t]
      BY <1>7 DEF Rollout
    <3>2. pod'[t].runs = c /\ pod'[t].of = remote[t].digest
      BY <2>3 DEF TypeOK
    <3> QED BY <2>3, <3>1, <3>2 DEF AlignedOK
  <2> QED BY <1>7, <2>1, <2>2, <2>3 DEF Rollout
<1>8. ASSUME NEW t \in Tunnels, Restart(t) PROVE AlignedOK(u)'
  <2>1. CASE u = t
    BY <1>8, <2>1 DEF Restart, AlignedOK
  <2>2. CASE u # t
    <3>1. remote'[u] = remote[u] /\ pod'[u] = pod[u] /\ (u \in skewed => u \in skewed')
      BY <1>8, <2>2 DEF Restart, TypeOK
    <3> QED BY <1>1, <3>1 DEF AlignedOK
  <2> QED BY <2>1, <2>2
<1> QED BY <1>3, <1>4, <1>5, <1>6, <1>7, <1>8 DEF Next

\* What Await confirms is served: the daemon would not be seen connected otherwise.
LEMMA StepConfirmed ==
  ASSUME IInv, UInv, VInv, AInv, NEW p \in Procs, Step(p), Ends(p), result' = "ok",
         At(p, "await"), NEW t \in Awaited(p)
  PROVE  /\ worker[t] # None /\ worker[t].phase = "serve" /\ worker[t].live
         /\ worker[t].print = Config(remote[t])
         /\ pod[t] # None /\ (t \notin skewed => pod[t].runs = Config(remote[t]))
<1>1. /\ TypeOK /\ run[p].pc = "await" /\ PlaceOK(p) /\ ListsOK(p) /\ ServedOK(p)
      /\ run[p].pc \notin {"idle", "over"} \cup Undoing
  BY DEF At, IInv, UInv, VInv, Undoing
<1>2. Await(p)
  BY DEF Step, At, TakeLock, LockTimeout, Waits, Find, Sync, Unverified, Ensure, SetDomain,
         Clear, Ready, Save, Revert, SaveApplied, StartDaemon, Remove, Forget, Restore,
         Restored, Resave
<1>3. Confirmed(p, t)
  <2>1. ~End(p, "error") /\ ~End(p, "committed")
    BY DEF End
  <2>2. ~Undone(p, run[p].done)
    <3> SUFFICES ASSUME Undone(p, run[p].done), run[p].done # <<>> PROVE FALSE
      BY <2>1 DEF Undone
    <3> DEFINE entries == run[p].done
               place == IF entries[Len(entries)].previous = None THEN "remove" ELSE "restore"
               r == [run[p] EXCEPT !.done = entries, !.undo = entries, !.pc = place]
    <3>1. run'[p] = r
      BY <1>1 DEF Undone, Become, TypeOK
    <3>2. r.pc = place
      BY <1>1 DEF TypeOK, Runs
    <3>3. place # "over"
      OBVIOUS
    <3> QED BY <3>1, <3>2, <3>3 DEF Ends
  <2> QED BY <1>2, <2>1, <2>2 DEF Await
<1>4. t \in Wants(p)
  BY DEF Awaited
<1>5. Served(t) /\ (Is(p, "apply") => News(t)) /\ t \in Tunnels
  <2>1. t \in Tunnels
    BY <1>1, <1>4, WantsTunnels DEF PlaceOK
  <2>2. CASE Is(p, "apply")
    <3>1. run[p].todo = <<>>
      BY <1>1, <2>2 DEF ListsOK
    <3>2. PICK i \in DOMAIN run[p].done : t = run[p].done[i].tunnel
      BY <1>1, <1>4, <3>1 DEF ListsOK
    <3> QED BY <1>1, <2>1, <2>2, <3>2 DEF ServedOK
  <2>3. CASE ~Is(p, "apply")
    <3>1. t = This(p)
      BY <1>1, <1>4, <2>3 DEF ListsOK, AboutThis, At
    <3> QED BY <1>1, <2>1, <2>3, <3>1 DEF ServedOK
  <2> QED BY <2>2, <2>3
<1>6. record[t] # None /\ record[t].state = "connected" /\ record[t].fresh /\ Stable(t)
  BY <1>3, <1>5 DEF Confirmed, News
<1>7. worker[t] \in Workers
  BY <1>1, <1>5, <1>6 DEF TypeOK, Stable
<1>8. worker[t].phase # "get" /\ worker[t].phase # "dial"
  BY <1>5, <1>6 DEF VInv, DialOK, Stable
<1>9. worker[t].phase = "serve"
  BY <1>7, <1>8 DEF Workers
<1>10. Config(record[t]) = Config(remote[t])
  BY <1>5 DEF Served, Same, Config
<1>11. pod[t] # None /\ (t \notin skewed => pod[t].runs = Config(remote[t]))
  <2>1. pod[t] # None /\ pod[t].of = remote[t].digest /\ remote[t] # None
    BY <1>5 DEF Served, Started
  <2> QED BY <1>5, <2>1 DEF AInv, AlignedOK
<1> QED BY <1>5, <1>6, <1>9, <1>10, <1>11 DEF Stable
-----------------------------------------------------------------------------
(* The theorems. *)

LEMMA NextKeeps == IInv /\ [Next]_vars => IInv'
<1> SUFFICES ASSUME IInv, [Next]_vars PROVE IInv'
  OBVIOUS
<1>1. CASE UNCHANGED vars
  <2>1. /\ record' = record /\ remote' = remote /\ pod' = pod /\ skewed' = skewed
      /\ worker' = worker
        /\ lock' = lock /\ run' = run /\ result' = result /\ faults' = faults /\ flaws' = flaws
    BY <1>1 DEF vars
  <2>2. TypeOK
    BY DEF IInv
  <2> QED BY <2>1, <2>2, Observed DEF TypeOK
<1>2. CASE Finished
  BY <1>1, <1>2 DEF Finished
<1>3. ASSUME NEW p \in Procs, NEW c \in Commands, Begin(p, c) PROVE IInv'
  BY <1>3, BeginKeeps
<1>4. ASSUME NEW p \in Procs, Step(p) PROVE IInv'
  BY <1>4, TakeLockKeeps, LockTimeoutKeeps, FindKeeps, SyncKeeps, UnverifiedKeeps,
     EnsureKeeps, SetDomainKeeps, ClearKeeps, ReadyKeeps, SaveKeeps, RevertKeeps,
     SaveAppliedKeeps, StartDaemonKeeps, AwaitKeeps, RemoveKeeps, ForgetKeeps,
     RestoreKeeps, RestoredKeeps, ResaveKeeps
  DEF Step
<1>5. ASSUME NEW p \in Procs, Crash(p) PROVE IInv'
  BY <1>5, CrashKeeps
<1>6. ASSUME NEW t \in Tunnels, Daemon(t) \/ Rollout(t) \/ Restart(t) PROVE IInv'
  BY <1>6, DaemonKeeps, RolloutKeeps, RestartKeeps
<1> QED BY <1>1, <1>2, <1>3, <1>4, <1>5, <1>6 DEF Next

\* IInv is inductive: it holds in every reachable state, for any tunnels, any
\* processes, any commands and any number of faults.
THEOREM Invariance == Spec => []IInv
BY InitInv, NextKeeps, PTL DEF Spec

\* The type invariant of the commands that change tunnels.
THEOREM TypeCorrect == Spec => []TypeOK
<1>1. IInv => TypeOK
  BY DEF IInv
<1> QED BY <1>1, Invariance, PTL

\* Commands never wait for each other's operation locks, however many there are and
\* however many tunnels an apply takes, since each takes them in the order of the IDs.
THEOREM NoDeadlock == Spec => []NoWaitCycle
BY Ordered, Invariance, PTL

\* No command loses the change of another: outside of commands and but for what
\* failed, every session record has the Secret, the policy and the domain that
\* are in the cluster.
THEOREM NoLostChange == Spec => []RecordAgrees
<1>1. IInv => RecordAgrees
  BY DEF IInv
<1> QED BY <1>1, Invariance, PTL

\* A command that fails before it commits has changed nothing: the Secret and the
\* record's configuration are what they were, and so is the domain unless what
\* went wrong is on record.
THEOREM FailureChangesNothing == Spec => UncommittedChangesNothing
<1> DEFINE A == \A p \in Procs :
                  Ends(p) /\ result' = "error" /\ (At(p, "ensure") \/ At(p, "revert"))
                    /\ ~Is(p, "apply") => Unchanged(p)
<1>1. IInv /\ [Next]_vars => [A]_vars
  BY StepUncommitted
<1>2. [A]_vars => [\A p \in Procs :
       Ends(p) /\ result' = "error" /\ (At(p, "ensure") \/ At(p, "revert")) /\ ~Is(p, "apply")
         => LET t == This(p)
                r == run[p].sess
            IN  /\ record'[t] # None => Config(record'[t]) = Config(r)
                /\ remote'[t] # None /\ "lost" \notin flaws'[t] => Config(remote'[t]) = Config(r)
                /\ remote'[t] # None /\ flaws'[t] = {} => remote'[t].domain = r.domain]_vars
  BY DEF Unchanged
<1> QED BY <1>1, <1>2, Invariance, PTL DEF Spec, UncommittedChangesNothing
\* An apply that fails has undone all it did: what it made is gone, and what it
\* changed is as before, but for the tunnels whose roll-back failed itself.
THEOREM FailedApplyIsUndone == Spec => ApplyIsUndone
<1> DEFINE A == \A p \in Procs :
       Ends(p) /\ result' = "error" /\ Is(p, "apply")
         => \A i \in DOMAIN run[p].done :
              LET t == run[p].done[i].tunnel
                  r == run[p].done[i].previous
              IN  "undo" \notin flaws'[t] =>
                    IF r = None THEN record'[t] = None /\ remote'[t] = None
                    ELSE record'[t] # None /\ Same(record'[t], r) /\ Same(remote'[t], r)
<1>1. ASSUME IInv, UInv, [Next]_vars PROVE [A]_vars
  <2> SUFFICES ASSUME NEW p \in Procs, Ends(p), result' = "error", Is(p, "apply"),
                      NEW i \in DOMAIN run[p].done
               PROVE  LET t == run[p].done[i].tunnel
                          r == run[p].done[i].previous
                      IN  "undo" \notin flaws'[t] =>
                            IF r = None THEN record'[t] = None /\ remote'[t] = None
                            ELSE record'[t] # None /\ Same(record'[t], r) /\ Same(remote'[t], r)
    OBVIOUS
  <2>1. TypeOK /\ ListsOK(p) /\ UndoneOK(p)
    BY <1>1 DEF IInv, UInv
  <2>2. Step(p)
    <3>1. ~Crash(p)
      BY DEF Crash, End
    <3> QED BY <1>1, <2>1, <3>1, EndsItself
  <2>3. PICK e \in Entries : e = run[p].done[i]
    BY <2>1 DEF TypeOK, Runs
  <2>4. Back(e)'
    BY <1>1, <2>1, <2>2, <2>3, StepUndone
  <2> QED BY <2>3, <2>4 DEF Back, AsBefore
<1>2. Spec => []UInv
  BY InitLists, NextLists, Invariance, PTL DEF Spec
<1> QED BY <1>1, <1>2, Invariance, PTL DEF Spec, ApplyIsUndone
\* A command that reports success has a daemon that serves what it made, whatever
\* other commands, the daemon and the rollout did meanwhile.
THEOREM SuccessIsServed == Spec => ConfirmedIsServed
<1> DEFINE A == \A p \in Procs :
       Ends(p) /\ result' = "ok" /\ At(p, "await")
         => \A t \in Awaited(p) :
              /\ worker[t] # None /\ worker[t].phase = "serve" /\ worker[t].live
              /\ worker[t].print = Config(remote[t])
              /\ pod[t] # None /\ (t \notin skewed => pod[t].runs = Config(remote[t]))
<1>1. ASSUME IInv, UInv, VInv, AInv, [Next]_vars PROVE [A]_vars
  <2>1. ASSUME NEW p \in Procs, Ends(p), result' = "ok" PROVE Step(p)
    <3>1. ~Crash(p)
      BY <2>1 DEF Crash, End
    <3> QED BY <1>1, <2>1, <3>1, EndsItself DEF IInv
  <2> QED BY <1>1, <2>1, StepConfirmed
<1>2. Spec => []UInv
  BY InitLists, NextLists, Invariance, PTL DEF Spec
<1>3. Spec => []VInv
  BY <1>2, InitServed, NextServed, Invariance, PTL DEF Spec
<1>4. Spec => []AInv
  BY InitAligned, NextAligned, TypeCorrect, PTL DEF Spec
<1> QED BY <1>1, <1>2, <1>3, <1>4, Invariance, PTL DEF Spec, ConfirmedIsServed
=============================================================================
