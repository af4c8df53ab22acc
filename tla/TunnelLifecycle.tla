--------------------------- MODULE TunnelLifecycle ---------------------------
(***************************************************************************)
(* The life of one tunnel under concurrent CLI commands: its session       *)
(* record, its Kubernetes resources, the lock file that orders the         *)
(* commands (tunnel-<id>.lock; every tunnel has its own, so one tunnel is  *)
(* enough) and the daemon's worker.  A process runs one command and ends.  *)
(* The calls of pkg/session are atomic here (SessionRegister), those of    *)
(* pkg/k8s succeed or fail as a whole, except that a scaling that reports  *)
(* an error may have been applied.                                         *)
(***************************************************************************)
CONSTANTS Procs,     \* CLI processes
          Commands,  \* the commands they may run
          ReadsFail, \* whether reading a record that is there may fail
          None,      \* no record, nobody, nothing
          Daemon     \* the daemon's PID, as an owner

Exposes == {"foreground", "background"}

\* foreground, background: expose; remove: cleanup --all and logout's cleanup;
\* recover: recoverStaleSessions; scrub: logout --force.
AllCommands == Exposes \cup {"stop", "start", "cleanup", "remove", "recover", "scrub"}

ASSUME LifecycleAssumption ==
  /\ Commands \subseteq AllCommands /\ ReadsFail \in BOOLEAN
  /\ None \notin Procs \cup AllCommands /\ Daemon \notin Procs /\ None # Daemon

\* "pending" stands for connecting, too.  A record without secret is scrubbed.
Records == [mode   : {"foreground", "daemon"},
            owner  : Procs \cup {Daemon, None},
            state  : {"pending", "connected", "error", "stopped"},
            secret : BOOLEAN]

ASSUME RecordAssumption == None \notin Records

VARIABLES record,  \* the session record, or None
          remote,  \* the Deployment: "none", "running" or "paused" (scaled to 0)
          lock,    \* holder of the tunnel operation lock, or None
          worker,  \* the daemon has a worker for the tunnel
          cmd,     \* cmd[p]: the command of p, or None
          pc,      \* pc[p]: where p is in it
          copy     \* copy[p]: p's variable sess, or None

vars == <<record, remote, lock, worker, cmd, pc, copy>>

\* How a command ends; "unsure": it could not undo what it had begun, or a call
\* that failed had its effect and only the answer was lost.
Ends == {"done", "failed", "unsure", "dead"}

PCs == {"new", "provision", "save", "ready", "handoff", "await", "dial", "connected",
        "mark", "serve", "rollback", "exit", "own", "spare", "clean", "delete",
        "lock", "find", "halt", "pause", "restore", "resume", "reopen", "undo",
        "unwind", "giveup", "quit", "wipe"} \cup Ends

TypeOK ==
  /\ record \in Records \cup {None}
  /\ remote \in {"none", "running", "paused"}
  /\ lock \in Procs \cup {None}
  /\ worker \in BOOLEAN
  /\ cmd \in [Procs -> Commands \cup {None}]
  /\ pc \in [Procs -> PCs]
  /\ copy \in [Procs -> Records \cup {None}]

Running(p) == pc[p] \notin Ends \cup {"new"}

\* No tunnel yet, or one that the daemon serves or that is stopped.
Init ==
  /\ \/ record = None /\ remote = "none"
     \/ /\ record = [mode |-> "daemon", owner |-> Daemon, state |-> "connected",
                     secret |-> TRUE]
        /\ remote = "running"
     \/ /\ record = [mode |-> "daemon", owner |-> None, state |-> "stopped",
                     secret |-> TRUE]
        /\ remote = "paused"
  /\ lock = None
  /\ worker = FALSE
  /\ cmd = [p \in Procs |-> None]
  /\ pc = [p \in Procs |-> "new"]
  /\ copy = [p \in Procs |-> None]

Goto(p, l) == pc' = [pc EXCEPT ![p] = l]

\* p goes from one label to another and keeps the lock if it has it.
Move(p, from, to) ==
  /\ pc[p] = from
  /\ Goto(p, to)
  /\ UNCHANGED <<lock, worker, cmd>>

\* p's command returns; the deferred release of the lock runs.
End(p, from, end) ==
  /\ pc[p] = from
  /\ Goto(p, end)
  /\ lock' = IF lock = p THEN None ELSE lock
  /\ copy' = [copy EXCEPT ![p] = None]
  /\ UNCHANGED <<worker, cmd>>

\* session.Update of a record that is there: scrubbed credentials stay scrubbed.
Put(rec) ==
  /\ record # None
  /\ record' = IF record.secret THEN rec
               ELSE [rec EXCEPT !.owner = None, !.state = "stopped", !.secret = FALSE]
-----------------------------------------------------------------------------
(* The tunnel operation lock. *)

\* A tunnel id is random: only one process exposes it, and only a new one.
Begin(p, c) ==
  /\ pc[p] = "new"
  /\ c \in Exposes => record = None /\ \A q \in Procs : cmd[q] \notin Exposes
  /\ cmd' = [cmd EXCEPT ![p] = c]
  /\ Goto(p, CASE c \in Exposes -> "provision"
               [] c = "scrub"   -> "quit"
               [] OTHER         -> "lock")
  /\ UNCHANGED <<record, remote, lock, worker, copy>>

Waiting == {"lock", "rollback", "exit"}

Acquire(p) ==
  /\ pc[p] \in Waiting
  /\ lock = None
  /\ lock' = p
  /\ Goto(p, CASE pc[p] = "lock"     -> "find"
               [] pc[p] = "rollback" -> "spare"
               [] pc[p] = "exit"     -> "own")
  /\ UNCHANGED <<record, remote, worker, cmd, copy>>

\* The lock is still held when the wait of 30 seconds ends.
LockTimesOut(p) ==
  /\ pc[p] \in Waiting
  /\ lock # None
  /\ Goto(p, "failed")
  /\ copy' = [copy EXCEPT ![p] = None]
  /\ UNCHANGED <<record, remote, lock, worker, cmd>>

Eligible(rec) ==
  \/ rec.state \in {"stopped", "error"}
  \/ rec.owner \notin {p \in Procs : Running(p)}

\* A fault: recovery that does not ask whether the owner is alive.
NeedsRecoveryAlways(rec) == rec.state # "stopped" /\ rec.mode = "foreground"

\* Only a foreground tunnel is an orphan when its process is gone.  (One whose TTL is
\* over is removed whatever its mode and state; the tunnels here have none.)
NeedsRecovery(rec) ==
  /\ rec.state # "stopped"
  /\ rec.mode = "foreground"
  /\ rec.owner \notin {p \in Procs : Running(p)}

\* What the command goes on with once it has found the record.
Chosen(c, rec) ==
  CASE c = "stop"    -> "halt"
    [] c = "start"   -> IF rec.secret THEN "resume" ELSE "failed"
    [] c = "cleanup" -> IF Eligible(rec) THEN "clean" ELSE "done"
    [] c = "remove"  -> "clean"
    [] c = "recover" -> IF NeedsRecovery(rec) THEN "clean" ELSE "done"

Find(p) ==
  /\ pc[p] = "find"
  /\ record # None
  /\ Chosen(cmd[p], record) \notin Ends
  /\ Move(p, "find", Chosen(cmd[p], record))
  /\ copy' = [copy EXCEPT ![p] = record]
  /\ UNCHANGED <<record, remote>>

Unreadable == record = None \/ ReadsFail

IsStopped == record # None /\ record.state = "stopped"

\* There is nothing to read or nothing to do.  The owner of a session that was
\* written a minute ago, and the daemon, may not count as dead.
FindEnds(p) ==
  /\ pc[p] = "find"
  /\ \/ Unreadable /\ End(p, "find", "failed")
     \/ /\ record # None
        /\ Chosen(cmd[p], record) \in Ends
        /\ End(p, "find", Chosen(cmd[p], record))
     \/ /\ cmd[p] \in {"cleanup", "recover"}
        /\ record # None
        /\ record.state \notin {"stopped"} \cup (IF cmd[p] = "cleanup" THEN {"error"} ELSE {})
        /\ End(p, "find", "done")
  /\ UNCHANGED <<record, remote>>
-----------------------------------------------------------------------------
(* stop *)

Stopped(rec) == [rec EXCEPT !.owner = None, !.state = "stopped"]

Halt(p) ==
  /\ Move(p, "halt", "pause")
  /\ Put(Stopped(copy[p]))
  /\ UNCHANGED <<remote, copy>>

\* Any write of the record may fail, and does if the record is gone, and so may
\* the daemon refuse to stop.
WriteFails(p, from, end) ==
  /\ End(p, from, end)
  /\ UNCHANGED <<record, remote>>

Pause(p) ==
  /\ remote # "none"
  /\ remote' = "paused"
  /\ End(p, "pause", "done")
  /\ UNCHANGED record

\* What a failed scaling or removal leaves.
MayBecome(r) == remote' \in {remote, IF remote = "none" THEN "none" ELSE r}

PauseFails(p) ==
  /\ Move(p, "pause", "restore")
  /\ MayBecome("paused")
  /\ UNCHANGED <<record, copy>>

\* A fault: a stop that reports the failed scaling and leaves the record.
RestoreForgotten(p) ==
  /\ End(p, "restore", "failed")
  /\ UNCHANGED <<record, remote>>

Restore(p) ==
  /\ End(p, "restore", "failed")
  /\ Put(copy[p])
  /\ UNCHANGED remote
-----------------------------------------------------------------------------
(* start *)

Reopened(rec) == [rec EXCEPT !.mode = "daemon", !.owner = None, !.state = "pending"]

Resume(p) ==
  /\ remote # "none"
  /\ Move(p, "resume", "reopen")
  /\ remote' = "running"
  /\ UNCHANGED <<record, copy>>

ResumeFails(p) ==
  /\ \/ End(p, "resume", "failed") /\ UNCHANGED remote
     \/ /\ remote # "none"
        /\ End(p, "resume", "unsure")
        /\ remote' = "running"
  /\ UNCHANGED record

Reopen(p) ==
  /\ Move(p, "reopen", "await")
  /\ Put(Reopened(copy[p]))
  /\ UNCHANGED <<remote, copy>>

ReopenFails(p) ==
  /\ Move(p, "reopen", "undo")
  /\ UNCHANGED <<record, remote, copy>>

\* waitForDaemonSession: the record has looked active for two seconds.
Active(rec) == /\ rec # None
               /\ rec.state # "stopped"
               /\ rec.mode = "daemon" => rec.state = "connected"

Await(p) ==
  /\ Active(record)
  /\ End(p, "await", "done")
  /\ UNCHANGED <<record, remote>>

\* A fault: a wait without a deadline.
AwaitForever(p) == FALSE

\* The daemon does not start, or does not connect the tunnel in a minute.
AwaitFails(p) ==
  /\ Move(p, "await", IF cmd[p] = "start" THEN "undo" ELSE "rollback")
  /\ UNCHANGED <<record, remote, copy>>

\* rollbackStartedTunnelSession
Undo(p) ==
  /\ remote # "none"
  /\ Move(p, "undo", "unwind")
  /\ remote' = "paused"
  /\ UNCHANGED <<record, copy>>

UndoFails(p) ==
  /\ Move(p, "undo", "giveup")
  /\ MayBecome("paused")
  /\ UNCHANGED <<record, copy>>

Unwind(p) ==
  /\ End(p, "unwind", "failed")
  /\ Put([Reopened(copy[p]) EXCEPT !.state = "stopped"])
  /\ UNCHANGED remote

GiveUp(p) ==
  /\ End(p, "giveup", "failed")
  /\ Put([Reopened(copy[p]) EXCEPT !.state = "error"])
  /\ UNCHANGED remote
-----------------------------------------------------------------------------
(* expose *)

Provision(p) ==
  /\ Move(p, "provision", "save")
  /\ remote' = "running"
  /\ UNCHANGED <<record, copy>>

\* EnsureTunnelWithOptions removes what it created, if it can.
ProvisionFails(p) ==
  /\ End(p, "provision", "failed")
  /\ remote' \in {remote, "running"}
  /\ UNCHANGED record

New(p) == [mode |-> "foreground", owner |-> p, state |-> "pending", secret |-> TRUE]

Save(p) ==
  /\ Move(p, "save", "ready")
  /\ record' = New(p)
  /\ copy' = [copy EXCEPT ![p] = New(p)]
  /\ UNCHANGED remote

SaveFails(p) ==
  /\ Move(p, "save", "rollback")
  /\ UNCHANGED <<record, remote, copy>>

Ready(p) ==
  /\ remote = "running"
  /\ Move(p, "ready", IF cmd[p] = "foreground" THEN "dial" ELSE "handoff")
  /\ UNCHANGED <<record, remote, copy>>

ReadyFails(p) ==
  /\ Move(p, "ready", "rollback")
  /\ UNCHANGED <<record, remote, copy>>

\* The record in hand is the one saved before the wait, and no lock is held.
Handoff(p) ==
  /\ Move(p, "handoff", "await")
  /\ Put(Reopened(copy[p]))
  /\ UNCHANGED <<remote, copy>>

HandoffFails(p) ==
  /\ Move(p, "handoff", "rollback")
  /\ UNCHANGED <<record, remote, copy>>

\* The foreground process connects, reads the record and writes it back.
Dial(p) ==
  /\ remote = "running"
  /\ Move(p, "dial", "connected")
  /\ UNCHANGED <<record, remote, copy>>

DialFails(p) ==
  /\ Move(p, "dial", "exit")
  /\ UNCHANGED <<record, remote, copy>>

OnConnected(p) ==
  /\ record # None /\ ~IsStopped
  /\ Move(p, "connected", "mark")
  /\ copy' = [copy EXCEPT ![p] = record]
  /\ UNCHANGED <<record, remote>>

\* The record is stopped, gone or unreadable.
OnConnectedEnds(p) ==
  /\ Unreadable \/ IsStopped
  /\ Move(p, "connected", "serve")
  /\ UNCHANGED <<record, remote, copy>>

Mark(p) ==
  /\ Move(p, "mark", "serve")
  /\ Put([copy[p] EXCEPT !.state = "connected"])
  /\ UNCHANGED <<remote, copy>>

MarkFails(p) ==
  /\ Move(p, "mark", "serve")
  /\ UNCHANGED <<record, remote, copy>>

\* The connection ends, by a signal, a failure or the dialling deadline.
Disconnect(p) ==
  /\ Move(p, "serve", "exit")
  /\ UNCHANGED <<record, remote, copy>>
-----------------------------------------------------------------------------
(* Removal: cleanup, recovery, the rollback and the exit of expose. *)

Owns(p) == /\ record # None /\ ~IsStopped
           /\ record.mode = "foreground"
           /\ record.owner = p

\* cleanupTunnelForCurrentOwner: a record that cannot be read counts as owned.
Own(p) ==
  /\ Unreadable \/ Owns(p)
  /\ Move(p, "own", "spare")
  /\ UNCHANGED <<record, remote, copy>>

OwnNot(p) ==
  /\ record # None
  /\ ~Owns(p)
  /\ End(p, "own", "done")
  /\ UNCHANGED <<record, remote>>

\* tunnelCleanupShouldPreserve: likewise.
Spare(p) ==
  /\ IsStopped
  /\ End(p, "spare", "done")
  /\ UNCHANGED <<record, remote>>

SpareNot(p) ==
  /\ Unreadable \/ ~IsStopped
  /\ Move(p, "spare", "clean")
  /\ UNCHANGED <<record, remote, copy>>

Clean(p) ==
  /\ Move(p, "clean", "delete")
  /\ remote' = "none"
  /\ UNCHANGED <<record, copy>>

\* A fault: a removal whose failure is logged and forgotten.
CleanErrorIgnored(p) ==
  /\ Move(p, "clean", "delete")
  /\ MayBecome("none")
  /\ UNCHANGED <<record, copy>>

CleanFails(p) ==
  /\ End(p, "clean", "failed")
  /\ MayBecome("none")
  /\ UNCHANGED record

Delete(p) ==
  /\ End(p, "delete", "done")
  /\ record' = None
  /\ UNCHANGED remote
-----------------------------------------------------------------------------
(* logout --force: no tunnel lock; the daemon is stopped first. *)

Quit(p) ==
  /\ pc[p] = "quit"
  /\ Goto(p, "wipe")
  /\ worker' = FALSE
  /\ UNCHANGED <<record, remote, lock, cmd, copy>>

Wipe(p) ==
  /\ End(p, "wipe", "done")
  /\ record' = IF record = None THEN None
               ELSE [Stopped(record) EXCEPT !.secret = FALSE]
  /\ UNCHANGED remote
-----------------------------------------------------------------------------
(* The daemon, as DaemonWorkers details it, and the death of a process. *)

Adopt ==
  /\ record # None /\ ~IsStopped
  /\ record.mode = "daemon"
  /\ worker' = TRUE
  /\ UNCHANGED <<record, remote, lock, cmd, pc, copy>>

Report(s) ==
  /\ worker
  /\ record # None /\ ~IsStopped
  /\ record' = [record EXCEPT !.mode = "daemon", !.owner = Daemon, !.state = s]
  /\ UNCHANGED <<remote, lock, worker, cmd, pc, copy>>

Retire ==
  /\ worker
  /\ worker' = FALSE
  /\ UNCHANGED <<record, remote, lock, cmd, pc, copy>>

Crash(p) ==
  /\ Running(p)
  /\ End(p, pc[p], "dead")
  /\ UNCHANGED <<record, remote>>
-----------------------------------------------------------------------------
Stop(p)  == \/ Halt(p) \/ WriteFails(p, "halt", "failed") \/ Pause(p)
            \/ PauseFails(p) \/ Restore(p) \/ WriteFails(p, "restore", "unsure")

Start(p) == \/ Resume(p) \/ ResumeFails(p) \/ Reopen(p) \/ ReopenFails(p)
            \/ Undo(p) \/ UndoFails(p) \/ Unwind(p) \/ GiveUp(p)
            \/ WriteFails(p, "unwind", "failed") \/ WriteFails(p, "giveup", "unsure")

Expose(p) == \/ Provision(p) \/ ProvisionFails(p) \/ Save(p) \/ SaveFails(p)
             \/ Ready(p) \/ ReadyFails(p) \/ Handoff(p) \/ HandoffFails(p)
             \/ Dial(p) \/ DialFails(p) \/ OnConnected(p) \/ OnConnectedEnds(p)
             \/ Mark(p) \/ MarkFails(p) \/ Own(p) \/ OwnNot(p) \/ Spare(p)
             \/ SpareNot(p)

Remove(p) == \/ Clean(p) \/ CleanFails(p)
             \/ Delete(p) \/ WriteFails(p, "delete", "failed")

Logout(p) == \/ Quit(p) \/ WriteFails(p, "quit", "failed")
             \/ Wipe(p) \/ WriteFails(p, "wipe", "failed")

\* Everything p does without waiting for the end of its connection.
Step(p) == \/ Acquire(p) \/ LockTimesOut(p) \/ Find(p) \/ FindEnds(p)
           \/ Stop(p) \/ Start(p) \/ Await(p) \/ AwaitFails(p)
           \/ Expose(p) \/ Remove(p) \/ Logout(p)

Next == \/ \E p \in Procs : \/ \E c \in Commands : Begin(p, c)
                            \/ Step(p) \/ Disconnect(p) \/ Crash(p)
        \/ Adopt \/ Retire
        \/ \E s \in {"pending", "connected", "error"} : Report(s)

Spec == Init /\ [][Next]_vars

\* A running process keeps running; waits for the lock, for the daemon and for
\* the cluster end by a deadline at the latest.
FairSpec == Spec /\ \A p \in Procs : WF_vars(Step(p))
-----------------------------------------------------------------------------
(* Properties. *)

\* What holds at each place of a command, besides the types.
LockedPCs == {"find", "halt", "pause", "restore", "resume", "reopen", "undo",
              "unwind", "giveup", "own", "spare", "clean", "delete"}

StartPCs == {"resume", "reopen", "undo", "unwind", "giveup"}

ExposePCs == {"provision", "save", "ready", "handoff", "dial", "connected", "mark",
              "serve", "rollback", "exit", "own", "spare"}

Started(p) == pc[p] = "new" => cmd[p] = None

Place(p) == /\ pc[p] \in ExposePCs => cmd[p] \in Exposes
            /\ pc[p] = "await" => cmd[p] \in Exposes \cup {"start"}
            /\ pc[p] \in StartPCs => cmd[p] = "start"
            /\ pc[p] \in {"lock", "find"}
               => cmd[p] \in {"stop", "start", "cleanup", "remove", "recover"}

LockHeld(p) ==
  pc[p] \in LockedPCs \/ (pc[p] = "await" /\ cmd[p] = "start") => lock = p

NotSaved(p) == pc[p] \in {"provision", "save"} => record = None

Recorded(p) ==
  /\ cmd[p] \notin Exposes
  /\ pc[p] \in LockedPCs \ {"find"} \/ (pc[p] = "await" /\ cmd[p] = "start")
  => record # None

CloudGone(p) == pc[p] = "delete" => remote = "none"

InHand(p) ==
  /\ pc[p] \in {"halt", "pause", "restore", "resume", "reopen", "undo", "unwind",
                "giveup", "await", "ready", "handoff", "mark"} => copy[p] # None
  /\ pc[p] = "mark" => copy[p].state # "stopped"

\* A foreground record that is not stopped is owned by a process that exposed it.
OwnerExposed(rec) ==
  rec # None /\ rec.mode = "foreground" /\ rec.state # "stopped"
  => rec.owner \in Procs /\ cmd[rec.owner] \in Exposes

Orphan(p) ==
  cmd[p] = "recover" /\ pc[p] = "clean"
  => \A q \in Procs : cmd[q] \in Exposes => ~Running(q)

At(p) == /\ Started(p) /\ Place(p) /\ LockHeld(p) /\ NotSaved(p) /\ Recorded(p)
         /\ CloudGone(p) /\ InHand(p) /\ OwnerExposed(copy[p]) /\ Orphan(p)

OneExpose == \A p, q \in Procs : cmd[p] \in Exposes /\ cmd[q] \in Exposes => p = q

\* The inductive invariant of the proofs.
IInv == TypeOK /\ OneExpose /\ OwnerExposed(record) /\ \A p \in Procs : At(p)

\* The record is the only handle on the cloud resources, so it goes last:
\* whatever the order of commands, failures and deaths, no command forgets a
\* tunnel that still exists in the cluster.
RecordRemovedLast ==
  [][record # None /\ record' = None => remote = "none"]_vars

\* When every command so far has ended, none died and none reported that it
\* could not undo its work, a tunnel that says "stopped" is not running up
\* costs.  (A logout --force promises nothing about the cluster.)
StoppedIsPaused ==
  /\ \A p \in Procs : pc[p] \in {"new", "done", "failed"}
  /\ record # None /\ record.state = "stopped" /\ record.secret
  => remote # "running"

\* recoverStaleSessions, which runs at the start of every expose, never removes
\* a tunnel while the process that exposed it is running, whatever stop, start and
\* the daemon have written since that process saved the record it is judged by.  (A
\* tunnel whose TTL is over is removed in any case; the model has none.)
RecoverySpares ==
  [][\A p, q \in Procs :
       cmd[p] = "recover" /\ pc[p] = "clean" /\ remote' # remote
       => ~(cmd[q] \in Exposes /\ Running(q))]_vars

\* Every command ends, whoever holds the lock and whatever the daemon does; only
\* a foreground expose stays, and only while it serves its connection.
CommandsEnd ==
  \A p \in Procs : Running(p) ~> ~Running(p) \/ pc[p] = "serve"

\* What stop tells the user (stop.go:45): the tunnel's remote entry resources
\* and its session are preserved.  They are, unless somebody runs a command to
\* reopen or remove the tunnel.
StopPreserves ==
  /\ \A p \in Procs : cmd[p] \in Exposes \cup {"stop", None}
  /\ \E p \in Procs : cmd[p] = "stop" /\ pc[p] = "done"
  => record # None /\ remote # "none"

\* What a background expose tells the user (expose.go:323): the tunnel is run by
\* the daemon.  The recovery of a later expose, which is for foreground tunnels
\* whose process is gone, does not remove it.
RecoveryKeepsBackground ==
  [][\A p \in Procs :
       cmd[p] = "recover" /\ pc[p] = "clean" /\ remote' # remote
       => \A q \in Procs : ~(cmd[q] = "background" /\ pc[q] = "done")]_vars
=============================================================================
