---------------------------- MODULE DaemonWorkers ----------------------------
(***************************************************************************)
(* The daemon of cmd/daemon.go: a reconcile loop that compares the session *)
(* records with a table of workers, and one worker goroutine per tunnel    *)
(* that dials, serves and records the connection state.  Records are       *)
(* written by single atomic calls of pkg/session (SessionRegister says so) *)
(* and by CLI commands, which are the environment here.                    *)
(*                                                                         *)
(* A config stands for everything daemonTunnelFingerprint covers; config 0 *)
(* is a record without a secret.  Two configs with one number are equal.   *)
(***************************************************************************)
EXTENDS Naturals, FiniteSets

CONSTANTS Tunnels,     \* tunnel ids
          Workers,     \* identities of worker goroutines, reused when gone
          MaxConfig,   \* bound on how often the CLI changes configs
          None         \* no record, no worker, not desired

ASSUME DaemonAssumption ==
  /\ MaxConfig \in Nat \ {0}
  /\ None \notin Workers
  /\ None \notin Nat

States  == {"pending", "connecting", "connected", "error", "stopped"}
Configs == 0..MaxConfig
Records == [state : States, config : Configs, expired : BOOLEAN]

ASSUME NoneAssumption == None \notin Records

VARIABLES file,     \* file[t]: the session record of t, or None
          last,     \* the last config handed out
          phase,    \* of the reconcile loop: "wait", "collect"; or the daemon is "down"
          listed,   \* the expired tunnels among those listed, yet to visit
          desired,  \* desired[t]: the config to run, or None
          managed,  \* managed[t]: the registered worker, or None
          wpc,      \* wpc[w]: where worker w is
          wtunnel,  \* wtunnel[w]: its tunnel
          wprint,   \* wprint[w]: the fingerprint it was registered with
          wcancel,  \* wcancel[w]: its context is cancelled
          wcopy     \* wcopy[w]: the record it read at the top of its loop, with
                    \* the state it would write without a secret

loop   == <<phase, listed, desired>>
worker == <<wpc, wtunnel, wprint, wcancel, wcopy>>
vars   == <<file, last, loop, managed, worker>>

WPCs == {"get", "drop", "mark", "start", "dial", "connected", "serve", "check",
         "fail", "sleep", "exit", "unlist", "gone"}

TypeOK ==
  /\ file \in [Tunnels -> Records \cup {None}]
  /\ last \in Configs
  /\ phase \in {"down", "wait", "collect"}
  /\ listed \subseteq Tunnels
  /\ desired \in [Tunnels -> Configs \cup {None}]
  /\ managed \in [Tunnels -> Workers \cup {None}]
  /\ wpc \in [Workers -> WPCs]
  /\ wtunnel \in [Workers -> Tunnels \cup {None}]
  /\ wprint \in [Workers -> Configs \cup {None}]
  /\ wcancel \in [Workers -> BOOLEAN]
  /\ wcopy \in [Workers -> Records \cup {None}]

\* The deferred close(mt.done) has run.
Done(w) == wpc[w] \in {"unlist", "gone"}

\* The goroutine may still dial, serve or write.
Live(w) == ~Done(w)

Nothing == [t \in Tunnels |-> None]

\* Records left by earlier runs: none, or one of any state, perhaps without
\* the secret that every record of this version has.
Init ==
  /\ file \in [Tunnels -> [state : {"pending", "connected"}, config : {0, 1},
                           expired : {FALSE}] \cup {None}]
  /\ last = 1
  /\ phase = "down" /\ listed = {} /\ desired = Nothing
  /\ managed = Nothing
  /\ wpc     = [w \in Workers |-> "gone"]
  /\ wtunnel = [w \in Workers |-> None]
  /\ wprint  = [w \in Workers |-> None]
  /\ wcancel = [w \in Workers |-> FALSE]
  /\ wcopy   = [w \in Workers |-> None]
-----------------------------------------------------------------------------
(* The CLI's writes, each one atomic call of pkg/session. *)

Write(t, rec) ==
  /\ file' = [file EXCEPT ![t] = rec]
  /\ UNCHANGED <<loop, managed, worker>>

CliStop(t) ==
  /\ file[t] # None
  /\ file[t].state # "stopped"
  /\ Write(t, [file[t] EXCEPT !.state = "stopped"])
  /\ UNCHANGED last

CliStart(t) ==
  /\ file[t] # None
  /\ file[t].state = "stopped"
  /\ file[t].config # 0
  /\ Write(t, [file[t] EXCEPT !.state = "pending"])
  /\ UNCHANGED last

\* rotate, share, policy, apply: another config, perhaps another deadline.
\* apply also creates the record.  A scrubbed record stays scrubbed.
CliConfigure(t) ==
  /\ last < MaxConfig
  /\ file[t] # None => file[t].config # 0 \/ file[t].state # "stopped"
  /\ last' = last + 1
  /\ Write(t, [state   |-> IF file[t] = None THEN "pending" ELSE file[t].state,
               config  |-> last + 1,
               expired |-> FALSE])

CliDelete(t) ==
  /\ file[t] # None
  /\ Write(t, None)
  /\ UNCHANGED last

CliScrub(t) ==
  /\ file[t] # None
  /\ Write(t, [file[t] EXCEPT !.state = "stopped", !.config = 0])
  /\ UNCHANGED last

\* The clock passes ExpiresAt.
Expire(t) ==
  /\ file[t] # None
  /\ ~file[t].expired
  /\ Write(t, [file[t] EXCEPT !.expired = TRUE])
  /\ UNCHANGED last
-----------------------------------------------------------------------------
(* The reconcile loop. *)

\* Fault: a record that says connected is taken to have an owner.
WantedUnowned(rec) ==
  IF rec = None \/ rec.state \in {"stopped", "connected"} THEN None ELSE rec.config

Wanted(rec) == IF rec = None \/ rec.state = "stopped" THEN None ELSE rec.config

Expired(rec) == rec # None /\ rec.expired

\* session.List, and the judgement of every listed record that had not expired
\* then; the others are visited one by one.
List ==
  /\ phase = "wait"
  /\ phase' = "collect"
  /\ listed' = {t \in Tunnels : Expired(file[t])}
  /\ desired' = [t \in Tunnels |-> IF Expired(file[t]) THEN None ELSE Wanted(file[t])]
  /\ UNCHANGED <<file, last, managed, worker>>

Visit(t, d) ==
  /\ phase = "collect"
  /\ t \in listed
  /\ listed' = listed \ {t}
  /\ desired' = [desired EXCEPT ![t] = d]
  /\ UNCHANGED <<last, phase, managed, worker>>

\* cleanupExpiredDaemonSession reads the record again, under the tunnel's
\* operation lock: it may be gone or have been given another deadline.
Recheck(t) ==
  /\ ~Expired(file[t])
  /\ Visit(t, Wanted(file[t]))
  /\ UNCHANGED file

CleanUp(t) ==
  /\ Expired(file[t])
  /\ Visit(t, None)
  /\ file' = [file EXCEPT ![t] = None]

\* The lock wait, the read, the remote cleanup or the local delete fails.
CleanUpFails(t) ==
  /\ Visit(t, None)
  /\ UNCHANGED file

\* Fault: a cancelled worker no longer counts, though it still runs.
RegisteredUncancelled(t) ==
  IF managed[t] # None /\ (Done(managed[t]) \/ wcancel[managed[t]])
  THEN None ELSE managed[t]

\* The workers reconcileDaemonWorkers finds registered after dropping those
\* that are done.
Registered(t) == IF managed[t] # None /\ Done(managed[t]) THEN None ELSE managed[t]

\* Faults: only changed tunnels are cancelled; only undesired ones are.
ToCancelChanged == {w \in Workers : \E t \in Tunnels :
                      Registered(t) = w /\ desired[t] \notin {None, wprint[w]}}

ToCancelUndesired == {w \in Workers : \E t \in Tunnels :
                        Registered(t) = w /\ desired[t] = None}

ToCancel == {w \in Workers : \E t \in Tunnels :
               Registered(t) = w /\ (desired[t] = None \/ desired[t] # wprint[w])}

ToStart == {t \in Tunnels : desired[t] # None /\ Registered(t) = None}

\* reconcileDaemonWorkers holds the mutex throughout.  A goroutine gets an
\* identity that is not in use (a bound of the model: it waits for one).
Reconcile(new) ==
  LET started == {new[t] : t \in ToStart}
      starts(w) == CHOOSE t \in ToStart : new[t] = w
  IN  /\ phase = "collect"
      /\ listed = {}
      /\ \A t \in ToStart : new[t] \in Workers /\ wpc[new[t]] = "gone"
      /\ \A t, u \in ToStart : t # u => new[t] # new[u]
      /\ phase' = "wait"
      /\ managed' = [t \in Tunnels |-> IF t \in ToStart THEN new[t] ELSE Registered(t)]
      /\ wpc' = [w \in Workers |-> IF w \in started THEN "get" ELSE wpc[w]]
      /\ wtunnel' = [w \in Workers |-> IF w \in started THEN starts(w) ELSE wtunnel[w]]
      /\ wprint' = [w \in Workers |->
                      IF w \in started THEN desired[starts(w)] ELSE wprint[w]]
      /\ wcancel' = [w \in Workers |->
                       w \notin started /\ (wcancel[w] \/ w \in ToCancel)]
      /\ UNCHANGED <<file, last, listed, desired, wcopy>>

\* A daemon starts, alone (the runtime lock), with an empty table.
Launch ==
  /\ phase = "down"
  /\ phase' = "wait"
  /\ UNCHANGED <<file, last, listed, desired, managed, worker>>

\* The process dies, or a signal ends it, and its goroutines with it.
Crash ==
  /\ phase # "down"
  /\ phase' = "down" /\ listed' = {} /\ desired' = Nothing
  /\ managed' = Nothing
  /\ wpc'     = [w \in Workers |-> "gone"]
  /\ wtunnel' = [w \in Workers |-> None]
  /\ wprint'  = [w \in Workers |-> None]
  /\ wcancel' = [w \in Workers |-> FALSE]
  /\ wcopy'   = [w \in Workers |-> None]
  /\ UNCHANGED <<file, last>>
-----------------------------------------------------------------------------
(* runDaemonTunnel. *)

Goto(w, l) == wpc' = [wpc EXCEPT ![w] = l]

Move(w, from, to) ==
  /\ wpc[w] = from
  /\ Goto(w, to)
  /\ UNCHANGED <<last, loop, managed, wtunnel, wprint, wcancel>>

Record(w) == file[wtunnel[w]]

Get(w) ==
  /\ wpc[w] = "get"
  /\ Record(w) # None
  /\ Record(w).state # "stopped"
  /\ Move(w, "get", IF Record(w).config = 0 THEN "drop" ELSE "mark")
  /\ wcopy' = [wcopy EXCEPT ![w] = [Record(w) EXCEPT !.state = "stopped"]]
  /\ UNCHANGED file

\* The record is gone or stopped, or reading it fails (a lock timeout).
GetEnds(w) ==
  /\ Move(w, "get", "exit")
  /\ UNCHANGED <<file, wcopy>>

\* Without a secret: an Update of the copy read before, if there is a file.
Drop(w) ==
  /\ Move(w, "drop", "exit")
  /\ file' = IF Record(w) = None THEN file
             ELSE [file EXCEPT ![wtunnel[w]] = wcopy[w]]
  /\ UNCHANGED wcopy

\* Fault: the stopped state is not tested.
SetStateAlways(w, s) ==
  file' = IF Record(w) = None THEN file
          ELSE [file EXCEPT ![wtunnel[w]].state = s]

\* UpdateAtomic with a mutation that leaves "stopped" alone.
SetState(w, s) ==
  file' = IF Record(w) = None \/ Record(w).state = "stopped" THEN file
          ELSE [file EXCEPT ![wtunnel[w]].state = s]

MarkConnecting(w) ==
  /\ Move(w, "mark", IF Record(w) = None THEN "exit" ELSE "start")
  /\ SetState(w, "connecting")
  /\ UNCHANGED wcopy

\* Any of the worker's writes may fail; the worker reports it and goes on.
MarkFails(w) ==
  /\ \/ Move(w, "mark", "start")
     \/ Move(w, "connected", "serve")
     \/ Move(w, "fail", "sleep")
     \/ Move(w, "drop", "exit")
  /\ UNCHANGED <<file, wcopy>>

\* A dial with a cancelled context fails at once.
DialStart(w) ==
  /\ Move(w, "start", IF wcancel[w] THEN "check" ELSE "dial")
  /\ UNCHANGED <<file, wcopy>>

DialOK(w) ==
  /\ Move(w, "dial", "connected")
  /\ UNCHANGED <<file, wcopy>>

DialFails(w) ==
  /\ Move(w, "dial", "check")
  /\ UNCHANGED <<file, wcopy>>

OnConnected(w) ==
  /\ Move(w, "connected", "serve")
  /\ SetState(w, "connected")
  /\ UNCHANGED wcopy

\* The connection closes, or the context is cancelled.
Disconnect(w) ==
  /\ Move(w, "serve", "check")
  /\ UNCHANGED <<file, wcopy>>

Check(w) ==
  /\ Move(w, "check", IF wcancel[w] THEN "exit" ELSE "fail")
  /\ UNCHANGED <<file, wcopy>>

MarkError(w) ==
  /\ Move(w, "fail", "sleep")
  /\ SetState(w, "error")
  /\ UNCHANGED wcopy

Wake(w) ==
  /\ Move(w, "sleep", "get")
  /\ UNCHANGED <<file, wcopy>>

Cancelled(w) ==
  /\ Move(w, "sleep", "exit")
  /\ wcancel[w]
  /\ UNCHANGED <<file, wcopy>>

CloseDone(w) ==
  /\ Move(w, "exit", "unlist")
  /\ UNCHANGED <<file, wcopy>>

\* The deferred function takes the mutex after it closed the channel.
Unlist(w) ==
  /\ wpc[w] = "unlist"
  /\ managed' = IF managed[wtunnel[w]] = w
                THEN [managed EXCEPT ![wtunnel[w]] = None] ELSE managed
  /\ Goto(w, "gone")
  /\ wtunnel' = [wtunnel EXCEPT ![w] = None]
  /\ wprint' = [wprint EXCEPT ![w] = None]
  /\ wcancel' = [wcancel EXCEPT ![w] = FALSE]
  /\ wcopy' = [wcopy EXCEPT ![w] = None]
  /\ UNCHANGED <<file, last, loop>>

WorkerStep(w) ==
  \/ Get(w) \/ GetEnds(w) \/ Drop(w) \/ MarkConnecting(w) \/ MarkFails(w)
  \/ DialStart(w) \/ DialOK(w) \/ DialFails(w) \/ OnConnected(w)
  \/ Disconnect(w) \/ Check(w) \/ MarkError(w) \/ Wake(w) \/ Cancelled(w)
  \/ CloseDone(w) \/ Unlist(w)

Cli(t) == \/ CliStop(t) \/ CliStart(t) \/ CliConfigure(t) \/ CliDelete(t)
          \/ CliScrub(t) \/ Expire(t)

LoopStep ==
  \/ List
  \/ \E t \in Tunnels : Recheck(t) \/ CleanUp(t) \/ CleanUpFails(t)
  \/ \E new \in [Tunnels -> Workers] : Reconcile(new)

Next == \/ \E t \in Tunnels : Cli(t)
        \/ LoopStep
        \/ \E w \in Workers : WorkerStep(w)
        \/ Launch \/ Crash

Spec == Init /\ [][Next]_vars

\* While the daemon is up, the ticker keeps ticking, a goroutine keeps running, and a dial ends; a
\* connection need not break unless its context is cancelled.
Fairness ==
  /\ WF_vars(LoopStep)
  /\ \A w \in Workers :
       /\ WF_vars(WorkerStep(w) /\ wpc[w] # "serve")
       /\ WF_vars(wcancel[w] /\ Disconnect(w))

FairSpec == Spec /\ Fairness
-----------------------------------------------------------------------------
(* Properties. *)

\* A goroutine that may still act is the one in the table.
LiveRegistered ==
  \A w \in Workers : Live(w) => /\ wtunnel[w] \in Tunnels
                                /\ managed[wtunnel[w]] = w

\* A table entry is a goroutine of that tunnel that has not finished, and a
\* worker about to write its copy has one, in state "stopped".
TableInv ==
  /\ \A t \in Tunnels : managed[t] # None => /\ wtunnel[managed[t]] = t
                                             /\ wpc[managed[t]] # "gone"
  /\ \A w \in Workers : wpc[w] # "gone" => wtunnel[w] \in Tunnels
  /\ \A w \in Workers : wpc[w] = "drop" => /\ wcopy[w] \in Records
                                           /\ wcopy[w].state = "stopped"

\* The inductive invariant of the proofs.
IInv == TypeOK /\ LiveRegistered /\ TableInv

\* Never two connections for one tunnel: a replacement starts only after the
\* worker it replaces has exited, and a late deferred delete of the old worker
\* does not make room for a third.
OneLiveWorker ==
  \A v, w \in Workers :
    v # w /\ Live(v) /\ Live(w) => wtunnel[v] # wtunnel[w]

\* The final session update of a replaced worker never lands after its
\* replacement was registered: whoever writes a record is registered for it.
OnlyRegisteredWrites ==
  [][\A t \in Tunnels, w \in Workers :
       file'[t] # file[t] /\ wpc'[w] # wpc[w] => managed[t] = w]_vars

\* A worker never turns "stopped" into anything else, whatever it read before.
StopSticks ==
  [][\A t \in Tunnels, w \in Workers :
       /\ file[t] # None /\ file[t].state = "stopped"
       /\ wpc'[w] # wpc[w]
       => file'[t] # None /\ file'[t].state = "stopped"]_vars

Undesired(t) == file[t] = None \/ file[t].state = "stopped" \/ file[t].expired

\* A tunnel that stays stopped, deleted or expired is disconnected for good,
\* even if cleaning it up keeps failing.
Disconnects ==
  \A t \in Tunnels :
    <>[]Undesired(t) => <>[](\A w \in Workers : Live(w) => wtunnel[w] # t)

Settled(t, c) == /\ phase # "down"
                 /\ file[t] # None /\ ~Undesired(t)
                 /\ file[t].config = c

\* When the daemon stays up and the record of a tunnel settles, a registered,
\* uncancelled worker serves it again and again, whatever crashed or was
\* replaced before ...
Readopts ==
  \A t \in Tunnels, c \in Configs \ {0} :
    <>[]Settled(t, c) =>
      []<>(\E w \in Workers : managed[t] = w /\ Live(w) /\ ~wcancel[w])

\* ... and in the end no connection uses an earlier configuration.
DropsOldConfig ==
  \A t \in Tunnels, c \in Configs \ {0} :
    <>[]Settled(t, c) =>
      <>[](\A w \in Workers :
             wtunnel[w] = t /\ wpc[w] \in {"dial", "connected", "serve"}
               => wcopy[w].config = c)
=============================================================================
