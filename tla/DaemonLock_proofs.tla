-------------------------- MODULE DaemonLock_proofs --------------------------
(***************************************************************************)
(* Theorems of DaemonLock for any number of CLIs, daemons and faults.      *)
(***************************************************************************)
EXTENDS DaemonLock, TLAPS

LEMMA InitInv == Init => IInv
<1> SUFFICES ASSUME Init PROVE IInv OBVIOUS
<1>1. TypeOK
  BY LockAssumption DEF Init, TypeOK, CliPCs, DaemonPCs, Procs
<1>2. Owned
  BY LockAssumption DEF Init, Owned, Sound, Condemns, Holding, Procs
<1> QED BY <1>1, <1>2 DEF IInv

\* A process that ends keeps the types.
LEMMA EndedType ==
  ASSUME TypeOK, NEW p \in Procs,
         NEW files \in [Locks -> Procs \cup Remains \cup {None}], Ended(p, files)
  PROVE  /\ lock' \in [Locks -> Procs \cup Remains \cup {None}]
         /\ state' \in [pid : Daemons \cup {"dead"}, fresh : BOOLEAN] \cup {None}
         /\ pc' \in [Procs -> CliPCs \cup DaemonPCs]
         /\ \A c \in Clis : pc'[c] \in CliPCs
         /\ \A d \in Daemons : pc'[d] \in DaemonPCs
         /\ seen' \in [Procs -> Procs \cup {"dead", None} \cup Ages]
         /\ child' \in [Clis -> Daemons \cup {None}]
         /\ term' \subseteq Daemons
<1> USE DEF TypeOK, Ended, Procs
<1>1. lock' \in [Locks -> Procs \cup Remains \cup {None}]
  BY DEF Remains
<1>2. state' \in [pid : Daemons \cup {"dead"}, fresh : BOOLEAN] \cup {None}
  BY DEF Corpse
<1>3. /\ pc' \in [Procs -> CliPCs \cup DaemonPCs]
      /\ \A c \in Clis : pc'[c] \in CliPCs
      /\ \A d \in Daemons : pc'[d] \in DaemonPCs
  BY LockAssumption DEF Goto, CliPCs, DaemonPCs
<1>4. seen' \in [Procs -> Procs \cup {"dead", None} \cup Ages]
  OBVIOUS
<1>5. child' \in [Clis -> Daemons \cup {None}]
  OBVIOUS
<1> QED BY <1>1, <1>2, <1>3, <1>4, <1>5

LEMMA EndType ==
  ASSUME TypeOK, NEW p \in Procs, NEW from, End(p, from)
  PROVE  TypeOK'
<1>1. lock \in [Locks -> Procs \cup Remains \cup {None}]
  BY DEF TypeOK
<1> QED BY <1>1, EndedType DEF End, TypeOK

\* So does one that reads, when it goes where a process of its kind can be.
LEMMA LearnType ==
  ASSUME TypeOK, NEW p \in Procs, NEW from, NEW to, NEW what,
         Learn(p, from, to, what),
         what \in Procs \cup {"dead", None} \cup Ages,
         p \in Clis => to \in CliPCs, p \in Daemons => to \in DaemonPCs
  PROVE  TypeOK'
<1>1. /\ pc' \in [Procs -> CliPCs \cup DaemonPCs]
      /\ \A c \in Clis : pc'[c] \in CliPCs
      /\ \A d \in Daemons : pc'[d] \in DaemonPCs
  BY LockAssumption DEF Learn, Goto, TypeOK, Procs
<1> QED BY <1>1 DEF Learn, TypeOK

LEMMA MoveType ==
  ASSUME TypeOK, NEW p \in Procs, NEW from, NEW to, Move(p, from, to),
         p \in Clis => to \in CliPCs, p \in Daemons => to \in DaemonPCs
  PROVE  TypeOK'
BY LearnType DEF Move

LEMMA LockType ==
  ASSUME TypeOK, NEW p \in Procs, Lock(p)
  PROVE  TypeOK'
<1> USE LockAssumption DEF CliPCs, DaemonPCs
<1>j. ASSUME NEW from, NEW what \in {"dead"} \cup Ages, Judge(p, from, what)
      PROVE  TypeOK'
  BY <1>j, LearnType, MoveType DEF Judge, Procs
<1>f. ASSUME NEW from, Fail(p, from)
      PROVE  TypeOK'
  BY <1>f, EndType, MoveType DEF Fail, Procs
<1>1. CASE Inspect(p)
  <2>1. ASSUME NEW age \in AgesOf(Mine(p)), Learn(p, "inspect", "open", age)
        PROVE  TypeOK'
    <3>1. age \in Ages
      BY <2>1 DEF AgesOf, Ages
    <3> QED BY <2>1, <3>1, LearnType
  <2> QED BY <1>1, <2>1, MoveType DEF Inspect
<1>9. CASE Open(p)
  <2>1. CASE Judge(p, "open", seen[p])
    <3>1. CASE p \in Daemons
      BY <2>1, <3>1, LearnType DEF Judge, TypeOK
    <3>2. CASE p \notin Daemons
      BY <2>1, <3>2, MoveType DEF Judge, Procs
    <3> QED BY <3>1, <3>2
  <2>2. CASE Learn(p, "open", "probe", lock[Mine(p)]) /\ lock[Mine(p)] \in Procs \cup {"dead"}
    BY <2>2, LearnType
  <2> QED BY <1>9, <2>1, <2>2 DEF Open
<1>10. CASE Probe(p)
  BY <1>10, <1>j, <1>f DEF Probe
<1>2. CASE Unlink(p) \/ Create(p)
  <2>1. /\ pc' \in [Procs -> CliPCs \cup DaemonPCs]
        /\ \A c \in Clis : pc'[c] \in CliPCs
        /\ \A d \in Daemons : pc'[d] \in DaemonPCs
    BY <1>2 DEF Unlink, Create, Goto, TypeOK, Procs
  <2>2. lock' \in [Locks -> Procs \cup Remains \cup {None}] /\ clean' \in BOOLEAN
    BY <1>2 DEF Unlink, Create, TypeOK
  <2> QED BY <1>2, <2>1, <2>2 DEF Unlink, Create, TypeOK
<1>3. CASE CreateFails(p)
  BY <1>3, <1>f DEF CreateFails
<1>4. CASE WriteToken(p)
  BY <1>4, MoveType DEF WriteToken
<1>5. CASE Read(p)
  BY <1>5, EndType, MoveType DEF Read
<1>6. CASE Remove(p)
  <2>1. [lock EXCEPT ![Mine(p)] = None] \in [Locks -> Procs \cup Remains \cup {None}]
    BY DEF TypeOK
  <2> QED BY <1>6, <2>1, EndedType DEF Remove, TypeOK
<1>7. CASE Forget(p)
  <2>1. Subject(p) \in Procs \cup {"dead", None} \cup Ages
    BY DEF Subject, TypeOK, Procs
  <2> QED BY <1>7, <2>1, LearnType, MoveType DEF Forget, After, Procs
<1>8. CASE Erase(p)
  <2>1. /\ pc' \in [Procs -> CliPCs \cup DaemonPCs]
        /\ \A c \in Clis : pc'[c] \in CliPCs
        /\ \A d \in Daemons : pc'[d] \in DaemonPCs
    BY <1>8 DEF Erase, After, Goto, TypeOK, Procs
  <2> QED BY <1>8, <2>1 DEF Erase, TypeOK
<1> QED BY <1>1, <1>2, <1>3, <1>4, <1>5, <1>6, <1>7, <1>8, <1>9, <1>10 DEF Lock

LEMMA CliType ==
  ASSUME TypeOK, NEW c \in Clis, Call(c) \/ Cli(c)
  PROVE  TypeOK'
<1>c. c \in Procs /\ c \notin Daemons
  BY LockAssumption DEF Procs
<1> USE <1>c DEF CliPCs, DaemonPCs
<1>1. CASE Call(c) \/ Held(c)
  BY <1>1, MoveType DEF Call, Held
<1>2. CASE Stale(c) \/ StopTimesOut(c) \/ Await(c)
  BY <1>2, EndType, MoveType DEF Stale, StopTimesOut, Await
<1>3. CASE Stop(c)
  <2>1. CASE state = None /\ Move(c, "stop", "inspect")
    BY <2>1, MoveType
  <2>2. CASE state # None /\ Learn(c, "stop", "forget", state.pid)
    <3>1. state.pid \in Procs \cup {"dead", None} \cup Ages
      BY <2>2 DEF TypeOK, Procs
    <3> QED BY <2>2, <3>1, LearnType
  <2>3. CASE /\ Alive
             /\ Goto(c, "dying")
             /\ seen' = [seen EXCEPT ![c] = state.pid]
             /\ term' = term \cup {state.pid}
             /\ UNCHANGED <<lock, state, child, faults, clean>>
    BY <2>3 DEF Alive, ProcessAlive, Goto, TypeOK, Procs
  <2> QED BY <1>3, <2>1, <2>2, <2>3 DEF Stop
<1>4. CASE Dying(c)
  BY <1>4, LearnType DEF Dying
<1>5. CASE Spawn(c)
  <2>1. CASE Move(c, "spawn", "read")
    BY <2>1, MoveType
  <2>2. ASSUME NEW d \in Daemons,
               pc' = [pc EXCEPT ![c] = "child", ![d] = "inspect"],
               child' = [child EXCEPT ![c] = d],
               UNCHANGED <<lock, state, seen, term, faults, clean>>
        PROVE  TypeOK'
    BY <2>2, LockAssumption DEF TypeOK, Procs
  <2> QED BY <1>5, <2>1, <2>2 DEF Spawn
<1>6. CASE Child(c)
  BY <1>6 DEF Child, Goto, TypeOK, Procs
<1>7. CASE Lock(c)
  BY <1>7, LockType
<1> QED BY <1>1, <1>2, <1>3, <1>4, <1>5, <1>6, <1>7 DEF Cli

LEMMA DaemonType ==
  ASSUME TypeOK, NEW d \in Daemons, Daemon(d) \/ Beat(d) \/ Interrupt(d)
  PROVE  TypeOK'
<1>d. d \in Procs /\ d \notin Clis
  BY LockAssumption DEF Procs
<1> USE <1>d DEF CliPCs, DaemonPCs
<1>1. CASE Owner(d) \/ Beat(d)
  BY <1>1, EndType, MoveType DEF Owner, Beat
<1>2. CASE SaveState(d) \/ Touch(d) \/ Leave(d)
  <2>1. /\ pc' \in [Procs -> CliPCs \cup DaemonPCs]
        /\ \A c \in Clis : pc'[c] \in CliPCs
        /\ \A e \in Daemons : pc'[e] \in DaemonPCs
    BY <1>2 DEF SaveState, Touch, Leave, Goto, TypeOK, Procs
  <2>2. CASE SaveState(d) \/ Touch(d)
    <3>1. /\ state' = [pid |-> d, fresh |-> TRUE]
          /\ UNCHANGED <<lock, seen, child, term, faults, clean>>
      BY <2>2 DEF SaveState, Touch
    <3>2. state' \in [pid : Daemons \cup {"dead"}, fresh : BOOLEAN] \cup {None}
      BY <3>1
    <3> QED BY <2>1, <3>1, <3>2 DEF TypeOK
  <2>3. CASE Leave(d)
    BY <2>1, <2>3 DEF Leave, TypeOK
  <2> QED BY <1>2, <2>2, <2>3
<1>3. CASE Interrupt(d)
  BY <1>3 DEF Interrupt, TypeOK
<1>4. CASE Lock(d)
  BY <1>4, LockType
<1> QED BY <1>1, <1>2, <1>3, <1>4 DEF Daemon

LEMMA FaultType ==
  ASSUME TypeOK, NEW p \in Procs, Fault(p)
  PROVE  TypeOK'
<1>n. faults' \in 0..MaxFaults
  BY LockAssumption DEF Fault, TypeOK
<1>b. clean' \in BOOLEAN
  BY DEF Fault
<1>1. faults' \in 0..MaxFaults /\ clean' \in BOOLEAN
  BY <1>n, <1>b
<1>2. CASE Crash(p)
  <2>1. lock \in [Locks -> Procs \cup Remains \cup {None}]
    BY DEF TypeOK
  <2> QED BY <1>1, <1>2, <2>1, EndedType DEF Crash, TypeOK
<1>3. CASE WriteFails(p)
  <2>1. [lock EXCEPT ![Mine(p)] = None] \in [Locks -> Procs \cup Remains \cup {None}]
    BY DEF TypeOK
  <2>2. CASE p \in Daemons
    BY <1>1, <1>3, <2>1, <2>2, EndedType DEF WriteFails, TypeOK
  <2>3. CASE p \notin Daemons
    <3>1. /\ pc' = [pc EXCEPT ![p] = "await"]
          /\ lock' = [lock EXCEPT ![Mine(p)] = None]
          /\ UNCHANGED <<state, seen, child, term>>
      BY <1>3, <2>3 DEF WriteFails, Goto
    <3> QED BY <1>1, <2>1, <2>3, <3>1 DEF TypeOK, CliPCs, Procs
  <2> QED BY <2>2, <2>3
<1>4. CASE p \in Daemons /\ SaveStateFails(p)
  BY <1>1, <1>4, LockAssumption DEF SaveStateFails, Goto, TypeOK, DaemonPCs
<1>5. CASE Stall(p)
  BY <1>1, <1>5 DEF Stall, Goto, TypeOK, CliPCs, DaemonPCs
<1> QED BY <1>2, <1>3, <1>4, <1>5 DEF Fault

LEMMA TypeStep ==
  ASSUME TypeOK, [Next]_vars
  PROVE  TypeOK'
<1>1. ASSUME NEW l \in Locks, Age(l) PROVE TypeOK'
  BY <1>1 DEF Age, TypeOK, Remains
<1>2. CASE Late
  BY <1>2 DEF Late, Alive, ProcessAlive, TypeOK
<1>3. CASE UNCHANGED vars
  BY <1>3 DEF vars, TypeOK
<1> QED BY <1>1, <1>2, <1>3, CliType, DaemonType, FaultType DEF Next
-----------------------------------------------------------------------------
\* A step of p that changes no lock file nor whether p holds its own.  Another process
\* stays as it is, begins, or finds that what it knew of p is of a process that ended.
LEMMA KeepOwned ==
  ASSUME TypeOK, Owned, NEW p \in Procs,
         lock' = lock,
         \A q \in Procs \ {p} : pc'[q] = pc[q] \/ (pc[q] = "off" /\ pc'[q] = "inspect"),
         \A q \in Procs \ {p} : \/ seen'[q] = seen[q]
                                \/ seen[q] = p /\ ~Holding(p) /\ seen'[q] = "dead",
         pc'[p] = "write" => pc[p] = "write",
         Holding(p)' <=> Holding(p), Sound(p)'
  PROVE  Owned'
<1>1. \A q \in Procs : Holding(q)' <=> Holding(q)
  BY DEF Holding
<1>2. ASSUME NEW q \in Procs \ {p}
      PROVE  Sound(q)'
  <2>1. Sound(q)
    BY DEF Owned
  <2>2. CASE pc'[q] # pc[q]
    BY <2>2 DEF Sound, Condemns
  <2>3. CASE pc'[q] = pc[q] /\ seen'[q] = seen[q]
    <3>1. \A r \in Procs : Writing(r)' => Writing(r)
      <4>1. pc'[p] # "overdue"
        BY DEF Sound
      <4> QED BY <4>1 DEF Writing
    <3> QED BY <2>1, <2>3, <3>1 DEF Sound, Condemns, Mine
  <2>4. CASE pc'[q] = pc[q] /\ seen[q] = p /\ ~Holding(p) /\ seen'[q] = "dead"
    <3>1. lock[Mine(q)] # p
      BY <2>4 DEF Owned, Mine, Locks
    <3>2. pc[q] \notin {"open", "probe", "owner"}
      BY <2>1, <2>4, <3>1, LockAssumption DEF Sound, Ages
    <3> QED BY <2>1, <2>4, <3>2 DEF Sound, Condemns, Mine
  <2> QED BY <2>2, <2>3, <2>4
<1>3. \A q \in Procs : Sound(q)'
  BY <1>2
<1>4. /\ \A l \in Locks : lock'[l] \in Procs \cup {None}
      /\ \A q \in Procs : Holding(q)' => lock'[Mine(q)] = q
      /\ \A l \in Locks, q \in Procs : lock'[l] = q => Mine(q) = l /\ Holding(q)'
  BY <1>1 DEF Owned
<1> QED BY <1>3, <1>4 DEF Owned, Mine

\* A process without a lock file ends, and the lock files stay as they are.
LEMMA EndOwned ==
  ASSUME TypeOK, Owned, NEW p \in Procs, NEW from, End(p, from), ~Holding(p)
  PROVE  Owned'
<1>1. \A l \in Locks : lock[l] # p
  BY DEF Owned
<1>2. lock' = lock
  BY <1>1 DEF End, Ended, TypeOK
<1>3. pc' = [pc EXCEPT ![p] = IF p \in Clis THEN "idle" ELSE "off"]
  BY DEF End, Ended, Goto
<1>4. ~Holding(p)' /\ Sound(p)' /\ pc'[p] # "write"
  BY <1>3 DEF Holding, Sound, Condemns, TypeOK
<1>5. \A q \in Procs \ {p} : seen'[q] = seen[q] \/ (seen[q] = p /\ seen'[q] = "dead")
  BY DEF End, Ended
<1>6. \A q \in Procs \ {p} : pc'[q] = pc[q]
  BY <1>3 DEF TypeOK
<1> QED BY <1>2, <1>4, <1>5, <1>6, KeepOwned

\* A process goes on without touching a file, and holds what it held.
LEMMA LearnOwned ==
  ASSUME TypeOK, Owned, NEW p \in Procs, NEW from, NEW to, NEW what,
         Learn(p, from, to, what), to # "write",
         Holding(p)' <=> Holding(p), Sound(p)'
  PROVE  Owned'
<1>1. /\ pc' = [pc EXCEPT ![p] = to]
      /\ seen' = [seen EXCEPT ![p] = what]
      /\ lock' = lock
  BY DEF Learn, Goto
<1>2. /\ pc'[p] = to
      /\ \A q \in Procs \ {p} : pc'[q] = pc[q] /\ seen'[q] = seen[q]
  BY <1>1 DEF TypeOK
<1> QED BY <1>1, <1>2, KeepOwned

\* So does one that is not about to judge a file.
LEMMA GoOwned ==
  ASSUME TypeOK, Owned, NEW p \in Procs, NEW from, NEW to, NEW what,
         Learn(p, from, to, what), to \notin Judging \cup {"write", "overdue"},
         Holding(p)' <=> Holding(p)
  PROVE  Owned'
<1>1. pc'[p] = to
  BY DEF Learn, Goto, TypeOK
<1>2. Sound(p)'
  BY <1>1 DEF Sound, Condemns, Judging
<1> QED BY <1>2, LearnOwned

LEMMA MoveOwned ==
  ASSUME TypeOK, Owned, NEW p \in Procs, NEW from, NEW to, Move(p, from, to),
         to \notin Judging \cup {"write", "overdue"}, Holding(p)' <=> Holding(p)
  PROVE  Owned'
BY GoOwned DEF Move

\* A step of p that changes neither its lock file nor whether it holds it, and no
\* other process but one that is at its very beginning then.
LEMMA StayOwned ==
  ASSUME TypeOK, Owned, NEW p \in Procs,
         lock' = lock,
         \A q \in Procs \ {p} : pc'[q] = pc[q] \/ (pc[q] = "off" /\ pc'[q] = "inspect"),
         \A q \in Procs \ {p} : seen'[q] = seen[q],
         pc'[p] \notin Judging \cup {"write", "overdue"}, Holding(p)' <=> Holding(p)
  PROVE  Owned'
<1>1. Sound(p)'
  BY DEF Sound, Condemns, Judging
<1> QED BY <1>1, KeepOwned

\* p takes the file of what it learnt for one to be removed only if it is gone.
LEMMA JudgeOwned ==
  ASSUME TypeOK, Owned, NEW p \in Procs, NEW from, NEW what \in {"dead"} \cup Ages,
         Judge(p, from, what), ~Holding(p),
         what \in {"dead", "old"} => lock[Mine(p)] = None
  PROVE  Owned'
<1>1. CASE p \in Daemons
  <2>1. Learn(p, from, "owner", what)
    BY <1>1 DEF Judge
  <2>2. pc'[p] = "owner" /\ seen'[p] = what /\ lock' = lock
    BY <2>1 DEF Learn, Goto, TypeOK
  <2>3. ~Holding(p)' /\ Sound(p)'
    BY <1>1, <2>2, LockAssumption DEF Holding, Sound, Condemns, Mine, Ages
  <2> QED BY <2>1, <2>3, LearnOwned
<1>2. CASE p \notin Daemons
  <2>1. PICK to \in {"unlink", "create"} :
          Learn(p, from, to, None) /\ (to = "unlink" => what \in {"dead", "old"})
    BY <1>2 DEF Judge, Move
  <2>2. pc'[p] = to /\ lock' = lock
    BY <2>1 DEF Learn, Goto, TypeOK
  <2>3. ~Holding(p)' /\ Sound(p)'
    BY <2>1, <2>2 DEF Holding, Sound, Condemns, Mine
  <2> QED BY <2>1, <2>3, LearnOwned
<1> QED BY <1>1, <1>2

\* p has the name for itself: nobody is about to judge the file that was there before.
LEMMA CreateOwned ==
  ASSUME TypeOK, Owned, NEW p \in Procs, Create(p), clean'
  PROVE  Owned'
<1>1. /\ lock[Mine(p)] = None
      /\ lock' = [lock EXCEPT ![Mine(p)] = p]
      /\ pc[p] = "create" /\ pc' = [pc EXCEPT ![p] = "write"]
      /\ seen' = seen
      /\ \A q \in Procs : Mine(q) = Mine(p) => pc[q] \notin Judging
  BY DEF Create, Goto
<1>2. ~Holding(p) /\ Holding(p)' /\ Mine(p) \in Locks
  BY <1>1 DEF Holding, Mine, Locks, TypeOK
<1>3. \A q \in Procs \ {p} : pc'[q] = pc[q] /\ (Holding(q)' <=> Holding(q))
  BY <1>1 DEF Holding, TypeOK
<1>4. \A q \in Procs \ {p} : Holding(q) => Mine(q) # Mine(p)
  BY <1>1, LockAssumption DEF Owned
<1>5. \A l \in Locks : lock'[l] = IF l = Mine(p) THEN p ELSE lock[l]
  BY <1>1, <1>2 DEF TypeOK
<1>6. \A q \in Procs : Mine(q) \in Locks
  BY DEF Mine, Locks
<1>7. /\ \A l \in Locks : lock'[l] \in Procs \cup {None}
      /\ \A q \in Procs : Holding(q)' => lock'[Mine(q)] = q
      /\ \A l \in Locks, q \in Procs : lock'[l] = q => Mine(q) = l /\ Holding(q)'
  BY <1>2, <1>3, <1>4, <1>5, <1>6 DEF Owned
<1>8. ASSUME NEW q \in Procs
      PROVE  Sound(q)'
  <2>1. CASE q = p
    BY <1>1, <2>1 DEF Sound, Condemns, TypeOK
  <2>2. CASE q # p /\ Mine(q) = Mine(p)
    <3>1. pc'[q] = pc[q] /\ pc[q] \notin Judging /\ Sound(q)
      BY <1>1, <1>3, <2>2 DEF Owned
    <3> QED BY <3>1 DEF Sound, Condemns, Judging
  <2>3. CASE q # p /\ Mine(q) # Mine(p)
    <3>1. pc'[q] = pc[q] /\ seen'[q] = seen[q] /\ lock'[Mine(q)] = lock[Mine(q)] /\ Sound(q)
      BY <1>1, <1>3, <1>5, <1>6, <2>3 DEF Owned
    <3>2. \A r \in Procs : lock[Mine(q)] = r => r # p
      BY <1>2, <1>6 DEF Owned
    <3>3. \A r \in Procs \ {p} : Writing(r)' <=> Writing(r)
      BY <1>3 DEF Writing
    <3> QED BY <3>1, <3>2, <3>3 DEF Sound, Condemns, Mine
  <2> QED BY <2>1, <2>2, <2>3
<1>9. \A q \in Procs : Sound(q)'
  BY <1>8
<1> QED BY <1>7, <1>9 DEF Owned, Mine

\* The holder removes its file and is gone.
LEMMA RemoveOwned ==
  ASSUME TypeOK, Owned, NEW p \in Procs, Remove(p)
  PROVE  Owned'
<1>1. /\ pc[p] = "remove"
      /\ pc' = [pc EXCEPT ![p] = IF p \in Clis THEN "idle" ELSE "off"]
      /\ seen' = [q \in Procs |-> IF q = p THEN None
                                  ELSE IF seen[q] = p THEN "dead" ELSE seen[q]]
  BY DEF Remove, Ended, Goto
<1>2. Holding(p) /\ ~Holding(p)'
  BY <1>1 DEF Holding, TypeOK
<1>3. \A l \in Locks : lock'[l] = IF l = Mine(p) THEN None ELSE lock[l]
  BY LockAssumption DEF Remove, Ended, Owned, TypeOK
<1>4. \A q \in Procs \ {p} : /\ pc'[q] = pc[q] /\ (Holding(q)' <=> Holding(q))
                             /\ Holding(q) => Mine(q) # Mine(p)
  BY <1>1, <1>2 DEF Holding, Owned, TypeOK
<1>5. \A q \in Procs : Mine(q) \in Locks
  BY DEF Mine, Locks
<1>6. /\ \A l \in Locks : lock'[l] \in Procs \cup {None}
      /\ \A q \in Procs : Holding(q)' => lock'[Mine(q)] = q
      /\ \A l \in Locks, q \in Procs : lock'[l] = q => Mine(q) = l /\ Holding(q)'
  BY <1>2, <1>3, <1>4, <1>5, LockAssumption DEF Owned
<1>7. ASSUME NEW q \in Procs
      PROVE  Sound(q)'
  <2>1. CASE q = p
    BY <1>1, <2>1 DEF Sound, Condemns, TypeOK
  <2>2. CASE q # p
    <3>1. /\ pc'[q] = pc[q] /\ Sound(q) /\ pc[q] # "overdue"
          /\ Condemns(q) => lock'[Mine(q)] = None
      BY <1>3, <1>4, <1>5, <2>2 DEF Owned, Sound
    <3>2. CASE seen[q] = p
      <4>1. seen'[q] = "dead"
        BY <1>1, <2>2, <3>2
      <4>2. pc[q] \notin {"open", "owner"}
        BY <3>1, <3>2, LockAssumption DEF Sound, Ages
      <4>3. pc[q] = "probe" => lock'[Mine(q)] = None
        <5>1. pc[q] = "probe" => lock[Mine(q)] = p
          BY <3>1, <3>2, LockAssumption DEF Sound
        <5> QED BY <1>3, <1>5, <5>1 DEF Owned
      <4> QED BY <3>1, <4>1, <4>2, <4>3 DEF Sound, Condemns, Mine
    <3>3. CASE seen[q] # p
      <4>1. seen'[q] = seen[q]
        BY <1>1, <2>2, <3>3
      <4>2. pc[q] = "probe" /\ seen[q] # "dead" => lock'[Mine(q)] = seen[q]
        <5>1. pc[q] = "probe" /\ seen[q] # "dead" => /\ lock[Mine(q)] = seen[q]
                                                     /\ seen[q] \in Procs
          BY <3>1 DEF Sound
        <5>2. lock[Mine(p)] = p
          BY <1>2 DEF Owned
        <5> QED BY <1>3, <1>5, <3>3, <5>1, <5>2
      <4>3. \A r \in Procs : lock'[Mine(q)] = r => lock[Mine(q)] = r /\ r # p
        BY <1>3, <1>5, <1>2, LockAssumption DEF Owned
      <4>4. \A r \in Procs \ {p} : Writing(r)' <=> Writing(r)
        BY <1>4 DEF Writing
      <4> QED BY <3>1, <4>1, <4>2, <4>3, <4>4 DEF Sound, Condemns, Mine
    <3> QED BY <3>2, <3>3
  <2> QED BY <2>1, <2>2
<1>8. \A q \in Procs : Sound(q)'
  BY <1>7
<1> QED BY <1>6, <1>8 DEF Owned, Mine

LEMMA LockOwned ==
  ASSUME TypeOK, Owned, NEW p \in Procs, Lock(p), clean'
  PROVE  Owned'
<1>k. (p \in Clis /\ p \notin Daemons) \/ (p \in Daemons /\ p \notin Clis)
  BY LockAssumption DEF Procs
<1>h. ASSUME NEW from, NEW to, NEW what, Learn(p, from, to, what)
      PROVE  pc[p] = from /\ pc'[p] = to /\ seen'[p] = what /\ lock' = lock
  BY <1>h DEF Learn, Goto, TypeOK
<1>e. ASSUME NEW from, End(p, from)
      PROVE  pc[p] = from
  BY <1>e DEF End
<1>s. Sound(p) /\ Mine(p) \in Locks /\ lock[Mine(p)] \in Procs \cup {None}
  BY DEF Owned, Mine, Locks
<1>f. ASSUME NEW from, Fail(p, from), from \in {"probe", "create"}
      PROVE  Owned'
  <2>1. CASE End(p, from)
    BY <1>f, <2>1, <1>e, EndOwned DEF Holding
  <2>2. CASE Move(p, from, "await")
    BY <1>f, <2>2, <1>h, <1>k, MoveOwned DEF Move, Holding, Judging
  <2> QED BY <1>f, <2>1, <2>2 DEF Fail
<1>1. CASE Inspect(p)
  <2>1. CASE Move(p, "inspect", "create")
    BY <2>1, <1>h, <1>k, MoveOwned DEF Move, Holding, Judging
  <2>2. ASSUME NEW age \in AgesOf(Mine(p)), Learn(p, "inspect", "open", age)
        PROVE  Owned'
    <3>1. age \in Ages
      BY <2>2 DEF AgesOf, Ages
    <3>2. ASSUME NEW q \in Procs, age = "old", lock[Mine(p)] = q
          PROVE  ~Writing(q)
      <4>1. pc[q] # "overdue" /\ q \notin {"empty", "old"}
        BY LockAssumption DEF Owned, Sound
      <4> QED BY <2>2, <3>2, <4>1 DEF AgesOf, Writing
    <3>3. pc'[p] = "open" /\ seen'[p] = age /\ lock' = lock /\ pc[p] = "inspect"
      BY <2>2, <1>h
    <3>4. \A q \in Procs : Writing(q)' => Writing(q)
      BY <2>2 DEF Learn, Goto, Writing, TypeOK
    <3>5. Sound(p)'
      BY <3>1, <3>2, <3>3, <3>4 DEF Sound, Condemns, Mine
    <3>6. ~Holding(p) /\ ~Holding(p)'
      BY <3>3 DEF Holding
    <3> QED BY <2>2, <3>5, <3>6, LearnOwned
  <2> QED BY <1>1, <2>1, <2>2 DEF Inspect
<1>2. CASE Open(p)
  <2>1. pc[p] = "open" /\ ~Holding(p)
    BY <1>2 DEF Open, Judge, Move, Learn, Holding
  <2>2. CASE lock[Mine(p)] \in Procs /\ Learn(p, "open", "probe", lock[Mine(p)])
    <3>1. pc'[p] = "probe" /\ seen'[p] = lock[Mine(p)] /\ lock' = lock
      BY <2>2, <1>h
    <3>2. ~Holding(p)' /\ Sound(p)'
      BY <2>2, <3>1, LockAssumption DEF Holding, Sound, Condemns, Mine
    <3> QED BY <2>1, <2>2, <3>2, LearnOwned
  <2>3. CASE /\ lock[Mine(p)] = None \/ Writing(lock[Mine(p)])
             /\ Judge(p, "open", seen[p])
    <3>1. seen[p] \in Ages
      BY <1>s, <2>1 DEF Sound
    <3>2. seen[p] \in {"dead", "old"} => lock[Mine(p)] = None
      BY <1>s, <2>1, <2>3, <3>1 DEF Sound, Ages
    <3> QED BY <2>1, <2>3, <3>1, <3>2, JudgeOwned
  <2> QED BY <1>2, <1>s, <2>2, <2>3, LockAssumption DEF Open
<1>3. CASE Probe(p)
  <2>1. CASE seen[p] \notin Procs /\ Judge(p, "probe", "dead")
    <3>1. pc[p] = "probe" /\ ~Holding(p)
      BY <2>1 DEF Judge, Move, Learn, Holding
    <3>2. lock[Mine(p)] = None
      BY <1>s, <2>1, <3>1 DEF Sound, Condemns
    <3> QED BY <2>1, <3>1, <3>2, JudgeOwned
  <2> QED BY <1>3, <2>1, <1>f DEF Probe
<1>4. CASE Unlink(p)
  <2>1. /\ pc[p] = "unlink" /\ pc'[p] = "create"
        /\ \A q \in Procs \ {p} : pc'[q] = pc[q]
        /\ seen' = seen
    BY <1>4 DEF Unlink, Goto, TypeOK
  <2>2. lock[Mine(p)] = None
    BY <1>s, <2>1 DEF Sound, Condemns
  <2>3. lock' = lock
    BY <1>4, <2>2 DEF Unlink, TypeOK
  <2>4. Holding(p)' <=> Holding(p)
    BY <2>1, <1>k DEF Holding
  <2> QED BY <2>1, <2>3, <2>4, StayOwned DEF Judging
<1>5. CASE Create(p)
  BY <1>5, CreateOwned
<1>6. CASE CreateFails(p)
  BY <1>6, <1>f DEF CreateFails
<1>7. CASE WriteToken(p)
  BY <1>7, <1>h, MoveOwned DEF WriteToken, Writing, Move, Holding, Judging
<1>8. CASE Read(p)
  <2>1. CASE Move(p, "read", "remove")
    BY <2>1, <1>h, MoveOwned DEF Move, Holding, Judging
  <2>2. CASE lock[Mine(p)] # p /\ End(p, "read")
    BY <2>2, <1>e DEF Owned, Holding
  <2> QED BY <1>8, <2>1, <2>2 DEF Read
<1>9. CASE Remove(p)
  BY <1>9, RemoveOwned
<1>10. CASE Forget(p)
  <2>1. \/ Learn(p, "forget", "erase", Subject(p))
        \/ Learn(p, "forget", After(p), None)
    BY <1>10 DEF Forget, Move
  <2>2. Holding(p)' <=> Holding(p)
    BY <2>1, <1>h, <1>k DEF Holding, After
  <2> QED BY <2>1, <2>2, GoOwned DEF After, Judging
<1>11. CASE Erase(p)
  <2>1. /\ pc[p] = "erase" /\ pc' = [pc EXCEPT ![p] = After(p)]
        /\ lock' = lock /\ seen' = [seen EXCEPT ![p] = None]
    BY <1>11 DEF Erase, Goto
  <2>2. Holding(p)' <=> Holding(p)
    BY <2>1, <1>k DEF Holding, After, TypeOK
  <2>3. \A q \in Procs \ {p} : pc'[q] = pc[q] /\ seen'[q] = seen[q]
    BY <2>1 DEF TypeOK
  <2>4. pc'[p] = After(p) /\ After(p) \notin Judging \cup {"write", "overdue"}
    BY <2>1 DEF TypeOK, After, Judging
  <2>5. lock' = lock
    BY <2>1
  <2> QED BY <2>2, <2>3, <2>4, <2>5, StayOwned
<1> QED BY <1>1, <1>2, <1>3, <1>4, <1>5, <1>6, <1>7, <1>8, <1>9, <1>10, <1>11 DEF Lock

\* A step that touches no lock file and no process.
LEMMA UnchangedOwned ==
  ASSUME Owned, UNCHANGED <<lock, pc, seen>>
  PROVE  Owned'
BY DEF Owned, Sound, Condemns, Holding, Writing, Mine

LEMMA CliOwned ==
  ASSUME TypeOK, Owned, NEW c \in Clis, Call(c) \/ Cli(c), clean'
  PROVE  Owned'
<1>c. c \in Procs /\ c \notin Daemons
  BY LockAssumption DEF Procs
<1>h. ASSUME NEW from, NEW to, NEW what, Learn(c, from, to, what)
      PROVE  pc[c] = from /\ pc'[c] = to
  BY <1>h, <1>c DEF Learn, Goto, TypeOK
<1>1. CASE Call(c) \/ Held(c)
  <2>1. \/ Move(c, "idle", "stale") \/ Move(c, "idle", "inspect")
        \/ Move(c, "held", "read") \/ Move(c, "held", "spawn")
    BY <1>1 DEF Call, Held
  <2> QED BY <2>1, <1>c, <1>h, MoveOwned DEF Move, Holding, Judging
<1>2. CASE Stale(c) \/ StopTimesOut(c) \/ Await(c)
  <2>1. CASE Move(c, "stale", "stop")
    BY <2>1, <1>c, <1>h, MoveOwned DEF Move, Holding, Judging
  <2>2. CASE End(c, "stale") \/ End(c, "dying") \/ End(c, "await")
    BY <2>2, <1>c, EndOwned DEF End, Holding
  <2> QED BY <1>2, <2>1, <2>2 DEF Stale, StopTimesOut, Await
<1>3. CASE Stop(c)
  <2>1. CASE Move(c, "stop", "inspect") \/ Learn(c, "stop", "forget", state.pid)
    BY <2>1, <1>c, <1>h, GoOwned DEF Move, Holding, Judging
  <2>2. CASE /\ pc[c] = "stop"
             /\ Goto(c, "dying")
             /\ seen' = [seen EXCEPT ![c] = state.pid]
             /\ lock' = lock
    <3>1. Holding(c)' <=> Holding(c)
      BY <2>2, <1>c DEF Goto, Holding, TypeOK
    <3> QED BY <2>2, <3>1, <1>c, StayOwned DEF Goto, TypeOK, Procs, Judging
  <2> QED BY <1>3, <2>1, <2>2 DEF Stop
<1>4. CASE Dying(c)
  BY <1>4, <1>c, <1>h, GoOwned DEF Dying, Holding, Judging
<1>5. CASE Spawn(c)
  <2>1. CASE Move(c, "spawn", "read")
    BY <2>1, <1>c, <1>h, MoveOwned DEF Move, Holding, Judging
  <2>2. ASSUME NEW d \in Daemons, pc[c] = "spawn", pc[d] = "off",
               pc' = [pc EXCEPT ![c] = "child", ![d] = "inspect"],
               UNCHANGED <<lock, seen>>
        PROVE  Owned'
    <3>1. /\ pc'[c] = "child" /\ (Holding(c)' <=> Holding(c))
          /\ \A q \in Procs \ {c} : pc'[q] = pc[q] \/ (pc[q] = "off" /\ pc'[q] = "inspect")
      BY <2>2, <1>c DEF Holding, TypeOK, Procs
    <3> QED BY <2>2, <3>1, <1>c, StayOwned DEF Judging
  <2> QED BY <1>5, <2>1, <2>2 DEF Spawn
<1>6. CASE Child(c)
  <2>1. /\ pc'[c] = "read" /\ (Holding(c)' <=> Holding(c))
        /\ \A q \in Procs \ {c} : pc'[q] = pc[q]
        /\ lock' = lock /\ seen' = seen
    BY <1>6, <1>c DEF Child, Goto, Holding, TypeOK
  <2> QED BY <2>1, <1>c, StayOwned DEF Judging
<1>7. CASE Lock(c)
  BY <1>7, <1>c, LockOwned
<1> QED BY <1>1, <1>2, <1>3, <1>4, <1>5, <1>6, <1>7 DEF Cli

LEMMA DaemonOwned ==
  ASSUME TypeOK, Owned, NEW d \in Daemons, clean',
         Daemon(d) \/ Beat(d) \/ Interrupt(d)
  PROVE  Owned'
<1>d. d \in Procs /\ d \notin Clis
  BY LockAssumption DEF Procs
<1>1. CASE Owner(d)
  <2>1. CASE End(d, "owner")
    BY <2>1, <1>d, EndOwned DEF End, Holding
  <2>2. CASE Move(d, "owner", "create")
    <3>1. Holding(d)' <=> Holding(d)
      BY <2>2, <1>d DEF Move, Learn, Goto, Holding, TypeOK
    <3> QED BY <2>2, <3>1, <1>d, MoveOwned DEF Judging
  <2>3. CASE seen[d] \in {"dead", "old"} /\ Learn(d, "owner", "unlink", None)
    <3>1. pc[d] = "owner" /\ pc'[d] = "unlink" /\ lock' = lock
      BY <2>3, <1>d DEF Learn, Goto, TypeOK
    <3>2. lock[Mine(d)] = None
      BY <2>3, <3>1, <1>d DEF Owned, Sound, Condemns
    <3>3. Sound(d)' /\ ~Holding(d)' /\ ~Holding(d)
      BY <1>d, <3>1, <3>2 DEF Sound, Condemns, Holding, Mine
    <3> QED BY <2>3, <3>3, <1>d, LearnOwned
  <2> QED BY <1>1, <2>1, <2>2, <2>3 DEF Owner, Move
<1>2. CASE SaveState(d) \/ Touch(d) \/ Leave(d) \/ Beat(d)
  <2>1. /\ pc'[d] \in {"run", "touch", "forget"} /\ (Holding(d)' <=> Holding(d))
        /\ \A q \in Procs \ {d} : pc'[q] = pc[q]
        /\ lock' = lock
        /\ \A q \in Procs \ {d} : seen'[q] = seen[q]
    BY <1>2, <1>d DEF SaveState, Touch, Leave, Beat, Move, Learn, Goto, Holding,
       TypeOK, Procs
  <2> QED BY <2>1, <1>d, StayOwned DEF Judging
<1>3. CASE Interrupt(d)
  BY <1>3, UnchangedOwned DEF Interrupt
<1>4. CASE Lock(d)
  BY <1>4, <1>d, LockOwned
<1> QED BY <1>1, <1>2, <1>3, <1>4 DEF Daemon

\* A step that is no fault and creates no lock says nothing of what went wrong before.
LEMMA OnlyOnce ==
  ASSUME [Next]_vars, clean'
  PROVE  clean
<1>1. ASSUME NEW p \in Procs, Lock(p)
      PROVE  clean
  BY <1>1 DEF Lock, Inspect, Open, Probe, Judge, Fail, Unlink, Create, CreateFails,
     WriteToken, Read, Remove, Forget, Erase, Move, Learn, End
<1>2. ASSUME NEW c \in Clis, Call(c) \/ Cli(c)
      PROVE  clean
  BY <1>1, <1>2 DEF Procs, Call, Cli, Stale, Stop, Dying, StopTimesOut, Held, Spawn,
     Child, Await, Move, Learn, End
<1>3. ASSUME NEW d \in Daemons, Daemon(d) \/ Beat(d) \/ Interrupt(d)
      PROVE  clean
  BY <1>1, <1>3 DEF Procs, Daemon, Beat, Interrupt, Owner, SaveState, Touch, Leave,
     Move, Learn, End
<1>4. ASSUME NEW p \in Procs, Fault(p)
      PROVE  FALSE
  BY <1>4 DEF Fault
<1> QED BY <1>2, <1>3, <1>4 DEF Next, Age, Late, vars

\* Every lock names its holder, and what is to be removed is gone, until a process dies
\* or stalls, a write fails or a lock is created under another's eyes.
THEOREM Invariance == Spec => []IInv
<1>1. ASSUME IInv, [Next]_vars
      PROVE  IInv'
  <2>1. TypeOK /\ TypeOK'
    BY <1>1, TypeStep DEF IInv
  <2>2. ASSUME clean'
        PROVE  Owned'
    <3>1. Owned
      BY <1>1, <2>2, OnlyOnce DEF IInv
    <3>2. ~\E p \in Procs : Fault(p)
      BY <2>2 DEF Fault
    <3>3. CASE UNCHANGED vars \/ Late
      BY <3>1, <3>3, UnchangedOwned DEF vars, Late
    <3>4. ~\E l \in Locks : Age(l)
      BY <3>1, LockAssumption DEF Age, Owned
    <3> QED BY <1>1, <2>1, <2>2, <3>1, <3>2, <3>3, <3>4, CliOwned, DaemonOwned DEF Next
  <2> QED BY <2>1, <2>2 DEF IInv
<1> QED BY InitInv, <1>1, PTL DEF Spec

\* There is one daemon, and one CLI that starts it, on the same condition.
THEOREM ExclusiveHolds == Spec => []Exclusive
<1>1. IInv => Exclusive
  BY DEF IInv, Owned, Exclusive
<1> QED BY Invariance, <1>1, PTL
=============================================================================
