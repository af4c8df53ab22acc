----------------------------- MODULE DaemonLock -----------------------------
(***************************************************************************)
(* Who runs the daemon: the lock files and the state file of pkg/daemon,   *)
(* ensureDaemonRunning of the CLI and the start and the end of the daemon. *)
(* Each look at a file or a process and each change of a file is a step.   *)
(* A process is its PID and start token, which the system never reuses;    *)
(* the model does, and lets what a file says of a process that ended, and  *)
(* what was read of it, turn to "dead".                                    *)
(***************************************************************************)
EXTENDS Naturals, FiniteSets

CONSTANTS Clis,       \* CLI processes, each calls ensureDaemonRunning
          Daemons,    \* daemon processes
          MaxFaults,  \* bound on crashes and failures of the file system
          None

Procs == Clis \cup Daemons

ASSUME LockAssumption ==
  /\ Clis \cap Daemons = {}
  /\ MaxFaults \in Nat
  /\ None \notin Procs \cup {"dead", "empty", "old", "young"}
  /\ {"dead", "empty", "old", "young"} \cap Procs = {}

Locks == {"launch", "runtime"}

VARIABLES lock,    \* lock[l]: the process that created the file, or None; once it
                   \* is gone, what is left: "dead" (a token), "empty", and "old"
                   \* for an empty file past its age
          state,   \* daemon.json: the daemon's PID and a fresh heartbeat, or None
          pc,      \* pc[p]: where process p is
          seen,    \* seen[p]: the owner or PID that p read, the age of the file that
                   \* it found instead, or None
          child,   \* child[c]: the daemon that CLI c started, or None
          term,    \* the daemons that were sent SIGTERM
          faults,
          clean    \* no faults yet, and no lock was created while another process was
                   \* about to judge a file of that name that was there before

vars == <<lock, state, pc, seen, child, term, faults, clean>>

\* Between the first look at a lock file and what follows from it.
Judging == {"open", "probe", "owner", "unlink"}

CliPCs == {"idle", "stale", "stop", "dying", "forget", "erase", "inspect", "open", "probe",
           "unlink", "create", "write", "overdue", "held", "spawn", "child", "read", "remove",
           "await"}

DaemonPCs == {"off", "inspect", "open", "probe", "owner", "unlink", "create", "write",
              "overdue", "held", "run", "touch", "forget", "erase", "read", "remove"}

Remains == {"dead", "empty", "old"}
Ages == {"young", "old"}

TypeOK ==
  /\ lock \in [Locks -> Procs \cup Remains \cup {None}]
  /\ state \in [pid : Daemons \cup {"dead"}, fresh : BOOLEAN] \cup {None}
  /\ pc \in [Procs -> CliPCs \cup DaemonPCs]
  /\ \A c \in Clis : pc[c] \in CliPCs
  /\ \A d \in Daemons : pc[d] \in DaemonPCs
  /\ seen \in [Procs -> Procs \cup {"dead", None} \cup Ages]
  /\ child \in [Clis -> Daemons \cup {None}]
  /\ term \subseteq Daemons
  /\ faults \in 0..MaxFaults
  /\ clean \in BOOLEAN

Init ==
  /\ lock = [l \in Locks |-> None]
  /\ state = None
  /\ pc = [p \in Procs |-> IF p \in Clis THEN "idle" ELSE "off"]
  /\ seen = [p \in Procs |-> None]
  /\ child = [c \in Clis |-> None]
  /\ term = {}
  /\ faults = 0
  /\ clean = TRUE

Mine(p) == IF p \in Clis THEN "launch" ELSE "runtime"

Goto(p, l) == pc' = [pc EXCEPT ![p] = l]

\* A step that changes no file; p goes on with what it read.
Learn(p, from, to, what) ==
  /\ pc[p] = from
  /\ Goto(p, to)
  /\ seen' = [seen EXCEPT ![p] = what]
  /\ UNCHANGED <<lock, state, child, term, faults, clean>>

Move(p, from, to) == Learn(p, from, to, None)

Corpse == [pid |-> "dead", fresh |-> FALSE]

\* A process, or a CLI's call, ends and leaves the lock files as they are in files.
Ended(p, files) ==
  /\ Goto(p, IF p \in Clis THEN "idle" ELSE "off")
  /\ lock' = [l \in Locks |-> IF files[l] # p THEN files[l]
                              ELSE CASE pc[p] = "write"   -> "empty"
                                     [] pc[p] = "overdue" -> "old"
                                     [] OTHER             -> "dead"]
  /\ state' = IF state # None /\ state.pid = p THEN Corpse ELSE state
  /\ seen' = [q \in Procs |-> IF q = p THEN None
                              ELSE IF seen[q] = p THEN "dead" ELSE seen[q]]
  /\ child' = [c \in Clis |-> IF p \in {c, child[c]} THEN None ELSE child[c]]
  /\ term' = term \ {p}

End(p, from) ==
  /\ pc[p] = from
  /\ Ended(p, lock)
  /\ UNCHANGED <<faults, clean>>

ProcessAlive == state # None /\ state.pid # "dead"

Alive == ProcessAlive /\ state.fresh
-----------------------------------------------------------------------------
(* createOwnedLock and the checks before it. *)

Fail(p, from) ==
  IF p \in Clis THEN Move(p, from, "await") ELSE End(p, from)

Writing(p) == pc[p] \in {"write", "overdue"}

\* How old a lock file may look.  Its creator is about to write an empty one; a file with
\* a token may have been there for any time.
AgesOf(l) ==
  CASE lock[l] = "empty" -> {"young"}
    [] lock[l] = "old"   -> {"old"}
    [] lock[l] \in Procs /\ Writing(lock[l]) ->
         {IF pc[lock[l]] = "write" THEN "young" ELSE "old"}
    [] OTHER -> Ages

\* A fault: an empty lock file counts as somebody's, however old.
InspectAgeless(p) ==
  IF lock[Mine(p)] = None THEN Move(p, "inspect", "create")
  ELSE Learn(p, "inspect", "open", "young")

\* The Lstat of AcquireLaunchLock and AcquireRuntimeLock.
Inspect(p) ==
  \/ lock[Mine(p)] = None /\ Move(p, "inspect", "create")
  \/ /\ lock[Mine(p)] # None
     /\ \E age \in AgesOf(Mine(p)) : Learn(p, "inspect", "open", age)

\* A file that names no owner alive is taken away if its owner is dead, or if it names
\* none and is old.  AcquireRuntimeLock asks the daemon's state first.
Judge(p, from, what) ==
  IF p \in Daemons THEN Learn(p, from, "owner", what)
  ELSE Move(p, from, IF what \in {"dead", "old"} THEN "unlink" ELSE "create")

\* lockOwnerAlive reads the token: there may be none yet, or no file any more.
Open(p) ==
  LET owner == lock[Mine(p)] IN
  IF owner = "dead" \/ (owner \in Procs /\ ~Writing(owner))
  THEN Learn(p, "open", "probe", owner)
  ELSE Judge(p, "open", seen[p])

\* A fault: the owner's process is not looked up.
ProbeNobody(p) == Judge(p, "probe", "dead")

\* lockOwnerAlive looks the owner's process up.
Probe(p) ==
  IF seen[p] \in Procs THEN Fail(p, "probe") ELSE Judge(p, "probe", "dead")

Owner(d) ==
  IF ProcessAlive THEN End(d, "owner")
  ELSE Move(d, "owner", IF seen[d] \in {"dead", "old"} THEN "unlink" ELSE "create")

\* The file goes by its name, whoever created it meanwhile.
Unlink(p) ==
  /\ pc[p] = "unlink"
  /\ Goto(p, "create")
  /\ lock' = [lock EXCEPT ![Mine(p)] = None]
  /\ UNCHANGED <<state, seen, child, term, faults, clean>>

Create(p) ==
  /\ pc[p] = "create"
  /\ lock[Mine(p)] = None
  /\ Goto(p, "write")
  /\ lock' = [lock EXCEPT ![Mine(p)] = p]
  /\ clean' = (clean /\ \A q \in Procs : Mine(q) = Mine(p) => pc[q] \notin Judging)
  /\ UNCHANGED <<state, seen, child, term, faults>>

CreateFails(p) ==
  /\ lock[Mine(p)] # None
  /\ Fail(p, "create")

WriteToken(p) == Writing(p) /\ Move(p, pc[p], "held")

WriteFails(p) ==
  LET files == [lock EXCEPT ![Mine(p)] = None] IN
  /\ Writing(p)
  /\ IF p \in Daemons THEN Ended(p, files)
     ELSE /\ Goto(p, "await")
          /\ lock' = files
          /\ UNCHANGED <<state, seen, child, term>>

\* The creator of the file does not come to write it before the file looks old.
Stall(p) ==
  /\ pc[p] = "write"
  /\ Goto(p, "overdue")
  /\ UNCHANGED <<lock, state, seen, child, term>>

\* release: the file is read, and removed by its name if it was p's.
Read(p) ==
  IF lock[Mine(p)] = p THEN Move(p, "read", "remove")
  ELSE End(p, "read")

Remove(p) ==
  /\ pc[p] = "remove"
  /\ Ended(p, [lock EXCEPT ![Mine(p)] = None])
  /\ UNCHANGED <<faults, clean>>
-----------------------------------------------------------------------------
(* DeleteStateForPID of the PID in seen[p], for a daemon its own. *)

Subject(p) == IF p \in Clis THEN seen[p] ELSE p

After(p) == IF p \in Clis THEN "inspect" ELSE "read"

Forget(p) ==
  IF state # None /\ state.pid = Subject(p)
  THEN Learn(p, "forget", "erase", Subject(p))
  ELSE Move(p, "forget", After(p))

Erase(p) ==
  /\ pc[p] = "erase"
  /\ Goto(p, After(p))
  /\ seen' = [seen EXCEPT ![p] = None]
  /\ state' = None
  /\ UNCHANGED <<lock, child, term, faults, clean>>
-----------------------------------------------------------------------------
(* ensureDaemonRunning *)

Call(c) ==
  /\ Move(c, "idle", IF Alive THEN "stale" ELSE "inspect")

\* StaleExecutable: the daemon may be of another version than this CLI.
Stale(c) ==
  \/ state # None /\ Move(c, "stale", "stop")
  \/ End(c, "stale")

\* Stop reads the state again.
Stop(c) ==
  \/ state = None /\ Move(c, "stop", "inspect")
  \/ state # None /\ ~Alive /\ Learn(c, "stop", "forget", state.pid)
  \/ /\ Alive
     /\ pc[c] = "stop"
     /\ Goto(c, "dying")
     /\ seen' = [seen EXCEPT ![c] = state.pid]
     /\ term' = term \cup {state.pid}
     /\ UNCHANGED <<lock, state, child, faults, clean>>

Dying(c) ==
  /\ seen[c] = "dead"
  /\ Learn(c, "dying", "forget", "dead")

Held(c) == Move(c, "held", IF Alive THEN "read" ELSE "spawn")

\* A bound of the model: starting a process fails when all identities are in use.
Spawn(c) ==
  \/ \E d \in Daemons :
       /\ pc[c] = "spawn" /\ pc[d] = "off"
       /\ pc' = [pc EXCEPT ![c] = "child", ![d] = "inspect"]
       /\ child' = [child EXCEPT ![c] = d]
       /\ UNCHANGED <<lock, state, seen, term, faults, clean>>
  \/ (\A d \in Daemons : pc[d] # "off") /\ Move(c, "spawn", "read")

\* waitForDaemonStartup: the daemon shows up, the child exits, or the wait ends.
Child(c) ==
  /\ pc[c] = "child"
  /\ Goto(c, "read")
  /\ child' = [child EXCEPT ![c] = None]
  /\ UNCHANGED <<lock, state, seen, term, faults, clean>>

\* The wait for the launcher that has the lock: a daemon shows up, or not in time.
Await(c) == End(c, "await")

\* The daemon does not stop in time.
StopTimesOut(c) == End(c, "dying")
-----------------------------------------------------------------------------
(* The daemon command. *)

SaveState(d) ==
  /\ pc[d] = "held"
  /\ Goto(d, "run")
  /\ state' = [pid |-> d, fresh |-> TRUE]
  /\ UNCHANGED <<lock, seen, child, term, faults, clean>>

SaveStateFails(d) ==
  /\ pc[d] = "held"
  /\ Goto(d, "read")
  /\ UNCHANGED <<lock, state, seen, child, term>>

\* TouchStateForPID
Beat(d) ==
  /\ state # None /\ state.pid = d
  /\ Move(d, "run", "touch")

Touch(d) ==
  /\ pc[d] = "touch"
  /\ Goto(d, "run")
  /\ state' = [pid |-> d, fresh |-> TRUE]
  /\ UNCHANGED <<lock, seen, child, term, faults, clean>>

Leave(d) ==
  /\ d \in term
  /\ pc[d] = "run"
  /\ Goto(d, "forget")
  /\ term' = term \ {d}
  /\ UNCHANGED <<lock, state, seen, child, faults, clean>>
-----------------------------------------------------------------------------
(* The environment. *)

Interrupt(d) ==
  /\ pc[d] \in {"run", "touch"}
  /\ term' = term \cup {d}
  /\ UNCHANGED <<lock, state, pc, seen, child, faults, clean>>

\* The machine sleeps, and the heartbeat is late.
Late ==
  /\ Alive
  /\ state' = [state EXCEPT !.fresh = FALSE]
  /\ UNCHANGED <<lock, pc, seen, child, term, faults, clean>>

Age(l) ==
  /\ lock[l] = "empty"
  /\ lock' = [lock EXCEPT ![l] = "old"]
  /\ UNCHANGED <<state, pc, seen, child, term, faults, clean>>

Crash(p) ==
  /\ pc[p] \notin {"idle", "off"}
  /\ Ended(p, lock)

Fault(p) ==
  /\ faults < MaxFaults
  /\ faults' = faults + 1
  /\ clean' = FALSE
  /\ Crash(p) \/ WriteFails(p) \/ Stall(p) \/ (p \in Daemons /\ SaveStateFails(p))
-----------------------------------------------------------------------------
Lock(p) == \/ Inspect(p) \/ Open(p) \/ Probe(p) \/ Unlink(p) \/ Create(p)
           \/ CreateFails(p) \/ WriteToken(p) \/ Read(p) \/ Remove(p) \/ Forget(p) \/ Erase(p)

Cli(c) == \/ Stale(c) \/ Stop(c) \/ Dying(c) \/ StopTimesOut(c) \/ Held(c)
          \/ Spawn(c) \/ Child(c) \/ Await(c) \/ Lock(c)

Daemon(d) == \/ Owner(d) \/ SaveState(d) \/ Touch(d) \/ Leave(d) \/ Lock(d)

Next == \/ \E c \in Clis : Call(c) \/ Cli(c)
        \/ \E d \in Daemons : Daemon(d) \/ Beat(d) \/ Interrupt(d)
        \/ \E p \in Procs : Fault(p)
        \/ \E l \in Locks : Age(l)
        \/ Late

Spec == Init /\ [][Next]_vars

\* Processes keep running, and files grow old.
FairSpec ==
  /\ Spec
  /\ \A c \in Clis : WF_vars(Cli(c))
  /\ \A d \in Daemons : WF_vars(Daemon(d))
  /\ \A l \in Locks : WF_vars(Age(l))
-----------------------------------------------------------------------------
(* Properties. *)

Holding(p) ==
  \/ pc[p] \in {"write", "overdue", "held", "read", "remove"}
  \/ p \in Clis /\ pc[p] \in {"spawn", "child"}
  \/ p \in Daemons /\ pc[p] \in {"run", "touch", "forget", "erase"}

Running(d) == pc[d] \in {"run", "touch", "forget", "erase"}

\* Each lock has one holder: there is one daemon, one CLI is starting it, and no file is
\* taken from its owner.  That is so as long as no process died or stalled and no write
\* failed, and no lock was created while another process was between its look at the file
\* before and what it does about it (state.go:164-223).
Exclusive ==
  clean => \A p, q \in Procs : Holding(p) /\ Holding(q) /\ Mine(p) = Mine(q) => p = q

\* Why: a lock file names its holder, and its holder only, ...
Condemns(p) ==
  \/ pc[p] = "unlink"
  \/ pc[p] \in {"probe", "owner"} /\ seen[p] = "dead"
  \/ pc[p] = "owner" /\ seen[p] = "old"

\* ... and a file that a process is to remove is gone already.
Sound(p) ==
  /\ pc[p] # "overdue"
  /\ pc[p] = "open" => /\ seen[p] \in Ages
                       /\ \A q \in Procs : seen[p] = "old" /\ lock[Mine(p)] = q => ~Writing(q)
  /\ pc[p] = "probe" => seen[p] \in (Procs \cap {lock[Mine(p)]}) \cup {"dead"}
  /\ pc[p] = "owner" => seen[p] \in {"dead"} \cup Ages
  /\ Condemns(p) => lock[Mine(p)] = None

Owned ==
  /\ \A l \in Locks : lock[l] \in Procs \cup {None}
  /\ \A p \in Procs : Holding(p) => lock[Mine(p)] = p
  /\ \A l \in Locks, p \in Procs : lock[l] = p => Mine(p) = l /\ Holding(p)
  /\ \A p \in Procs : Sound(p)

\* The inductive invariant of the proofs.
IInv == TypeOK /\ (clean => Owned)

\* "RuntimeLockDoesNotStartDuplicateWhenLockOwnerIsAliveWithoutState"
\* (pkg/daemon/state_test.go:87): nobody becomes the daemon beside the one that has the lock, where nothing fails.  It
\* fails, as README.md shows.
NoDuplicate ==
  faults = 0 => \A d, e \in Daemons : Running(d) /\ Running(e) => d = e

\* Whatever crashed in the middle of whatever, the files left behind do not keep a
\* daemon from coming up if one is asked for again and again.
DaemonComesUp ==
  []<>(\E c \in Clis : pc[c] # "idle") => []<>(\E d \in Daemons : Running(d))

\* "DeleteStateForPIDDoesNotDeleteReplacement" (pkg/daemon/state_test.go:214): the
\* state that is deleted for a PID is not that of another daemon.
DeletesOwn ==
  [][\A p \in Procs : pc[p] = "erase" /\ pc'[p] = After(p) /\ state # None
       => state.pid = seen[p]]_vars
=============================================================================
