---------------------------- MODULE TunnelChange ----------------------------
(***************************************************************************)
(* The commands that change a tunnel that is there: rotate-server-secret,  *)
(* the access policy (share, policy, auth), domain, and apply, which       *)
(* changes or creates several tunnels and undoes what it did if one of     *)
(* them fails.  They take the locks of their tunnels, bring the record up  *)
(* to date from the cluster, change the cluster, write the record and wait *)
(* for the daemon to connect anew.  A call of pkg/k8s is one step here;    *)
(* TunnelResources has its inside.  The daemon and the pod are those of    *)
(* DaemonWorkers and TunnelResources, as far as a command sees them.       *)
(***************************************************************************)
EXTENDS Naturals, Sequences, FiniteSets

CONSTANTS Tunnels,   \* tunnel IDs, ordered as the strings are
          Existing,  \* those that are there at the start
          Procs,     \* processes, each of which runs one of these commands
          Secrets,   \* server secrets
          Policies,  \* what else the auth Secret and the fingerprint hold
          Domains,   \* custom domains
          NoDomain,  \* CustomDomain = ""
          Commands,  \* the commands the processes may run
          MaxFaults, \* bound: calls that fail and processes that die
          None       \* no value

ASSUME TunnelsAssumption == Tunnels \subseteq Nat
ASSUME ProcsAssumption == IsFiniteSet(Procs)
ASSUME BoundAssumption == MaxFaults \in Nat
\* What a command asks of a tunnel; None is "leave it as it is".
Items == [tunnel : Tunnels, policy : Policies \cup {None},
          domain : Domains \cup {NoDomain, None}]

\* validateApplyTunnelNames.
NamesDiffer(items) ==
  \A i, j \in DOMAIN items : i # j => items[i].tunnel # items[j].tunnel

ASSUME CommandsAssumption ==
  \A c \in Commands :
    /\ c.name \in {"rotate", "policy", "domain", "apply"}
    /\ c.items \in Seq(Items) \ {<<>>}
    /\ c.name # "apply" => Len(c.items) = 1
    /\ NamesDiffer(c.items)
    /\ c.name = "domain" => c.items[1].policy = None /\ c.items[1].domain # None
    /\ c.name = "apply" =>
         \A i \in DOMAIN c.items : c.items[i].policy # None /\ c.items[i].domain # None

VARIABLES record,  \* the sessions; fresh: connected since the command at work began
          remote,  \* what is in the cluster; up: the Deployment has a replica
          pod,     \* the server that runs: the digest it was started for, and the
                   \* configuration that it found in the Secret then
          skewed,  \* the tunnels whose Deployment has, or had when their server was
                   \* started, the digest of something else than the Secret has
          worker,  \* the daemon's goroutine for the tunnel
          lock,    \* who holds the operation lock of each tunnel
          run,     \* what each process is doing
          result,  \* how the last command ended, until the next begins
          faults,  \* how many there were
          flaws    \* per tunnel: what went wrong since it was last in order

cluster == <<remote, pod, skewed>>
trouble == <<faults, flaws>>
vars == <<record, remote, pod, skewed, worker, lock, run, result, faults, flaws>>

Configs == [secret : Secrets, policy : Policies]
States == {"stopped", "pending", "connecting", "connected", "error"}
Records == [secret : Secrets, policy : Policies, domain : Domains \cup {NoDomain},
            state : States, fresh : BOOLEAN]
\* What the Secret has, and the digest of a configuration in the Deployment.
Remotes == [secret : Secrets, policy : Policies, digest : Configs,
            domain : Domains \cup {NoDomain}, up : BOOLEAN]
Pods == [of : Configs, runs : Configs]

\* A process: its place and command, the items left, the variable sess (existing,
\* in apply), the secret it gives to EnsureTunnel, the tunnels an apply has changed
\* with their records before, and those it has still to undo.
Entries == [tunnel : Tunnels, previous : Records \cup {None}]
Places == {"idle", "over", "lock", "find", "sync", "ensure", "clear", "ready", "save",
           "revert", "daemon", "await", "restore", "restored", "resave", "remove",
           "forget"}
Idle == [pc |-> "idle", cmd |-> None, todo |-> <<>>, sess |-> None, key |-> None,
         done |-> <<>>, undo |-> <<>>]

Workers == [print : Configs, key : Secrets \cup {None},
            phase : {"get", "dial", "serve"}, live : BOOLEAN]
Runs == [pc : Places, cmd : Commands \cup {None}, todo : Seq(Items),
         sess : Records \cup {None}, key : Secrets \cup {None},
         done : Seq(Entries), undo : Seq(Entries)]

ASSUME SentinelAssumption ==
  /\ None \notin Procs \cup Secrets \cup Policies \cup Domains \cup {NoDomain} \cup Commands
  /\ None \notin Configs /\ None \notin Records /\ None \notin Remotes /\ None \notin Pods
  /\ None \notin Workers

TypeOK ==
  /\ record \in [Tunnels -> Records \cup {None}]
  /\ remote \in [Tunnels -> Remotes \cup {None}]
  /\ pod \in [Tunnels -> Pods \cup {None}]
  /\ skewed \subseteq Tunnels
  /\ worker \in [Tunnels -> Workers \cup {None}]
  /\ lock \in [Tunnels -> Procs \cup {None}]
  /\ run \in [Procs -> Runs]
  /\ result \in {"none", "ok", "error", "committed"}
  /\ faults \in 0..MaxFaults
  /\ flaws \in [Tunnels -> SUBSET {"partial", "lost", "save", "undo", "crash"}]

Same(r, m) == r.secret = m.secret /\ r.policy = m.policy /\ r.domain = m.domain

Config(r) == [secret |-> r.secret, policy |-> r.policy]

\* The objects of a tunnel as EnsureTunnel makes them.
Objects(c, domain) ==
  [secret |-> c.secret, policy |-> c.policy, digest |-> c, domain |-> domain, up |-> TRUE]

\* A tunnel is not there yet, or works, or was stopped in order.
Init ==
  /\ record \in [Tunnels -> {None} \cup
       [secret : Secrets, policy : Policies, domain : {NoDomain},
        state : {"connected", "stopped"}, fresh : {FALSE}]]
  /\ \A t \in Tunnels : t \in Existing <=> record[t] # None
  /\ \A t, u \in Tunnels : \* secrets are random: no two tunnels share one
       t # u /\ record[t] # None /\ record[u] # None => record[t].secret # record[u].secret
  /\ remote = [t \in Tunnels |->
       IF record[t] = None THEN None
       ELSE [Objects(Config(record[t]), record[t].domain) EXCEPT
               !.up = record[t].state = "connected"]]
  /\ pod = [t \in Tunnels |->
       IF record[t] # None /\ record[t].state = "connected"
         THEN [of |-> Config(record[t]), runs |-> Config(record[t])] ELSE None]
  /\ skewed = {}
  /\ worker = [t \in Tunnels |->
       IF pod[t] = None THEN None
       ELSE [print |-> pod[t].runs, key |-> pod[t].runs.secret, phase |-> "serve",
             live |-> TRUE]]
  /\ lock = [t \in Tunnels |-> None]
  /\ run = [p \in Procs |-> Idle]
  /\ result = "none"
  /\ faults = 0 /\ flaws = [t \in Tunnels |-> {}]
-----------------------------------------------------------------------------
(* Locks, and the two ends of a command. *)

At(p, place) == run[p].pc = place
Is(p, name) == run[p].cmd.name = name
Wants(p) == {run[p].cmd.items[i].tunnel : i \in DOMAIN run[p].cmd.items}
Holds(p) == {t \in Tunnels : lock[t] = p}
Item(p) == Head(run[p].todo)
This(p) == Item(p).tunnel

Become(p, r) == run' = [run EXCEPT ![p] = r] /\ UNCHANGED <<result, lock>>
Go(p, place) == Become(p, [run[p] EXCEPT !.pc = place])
End(p, r) ==
  /\ run' = [run EXCEPT ![p] = [Idle EXCEPT !.pc = "over"]]
  /\ result' = r
  /\ lock' = [t \in Tunnels |-> IF lock[t] = p THEN None ELSE lock[t]]

NoFault == UNCHANGED trouble
Fault == faults < MaxFaults /\ faults' = faults + 1 /\ UNCHANGED flaws
Flaw(t, f) ==
  faults < MaxFaults /\ faults' = faults + 1 /\ flaws' = [flaws EXCEPT ![t] = @ \cup {f}]
InOrder(t) == flaws' = [flaws EXCEPT ![t] = {}] /\ UNCHANGED faults

Lowest(S) == CHOOSE n \in S : \A m \in S : n <= m

\* Fault: the locks are taken in the order of the file.
NextLockUnsorted(p) ==
  LET items == run[p].cmd.items
  IN  items[Lowest({i \in DOMAIN items : items[i].tunnel \notin Holds(p)})].tunnel

Waits(p) == At(p, "lock") /\ Wants(p) # Holds(p)
NextLock(p) == Lowest(Wants(p) \ Holds(p))

Begin(p, c) ==
  /\ At(p, "idle")
  /\ run' = [run EXCEPT ![p].pc = "lock", ![p].cmd = c, ![p].todo = c.items]
  /\ result' = "none"
  /\ UNCHANGED <<record, cluster, worker, lock, trouble>>

TakeLock(p) ==
  /\ Waits(p)
  /\ lock[NextLock(p)] = None
  /\ lock' = [lock EXCEPT ![NextLock(p)] = p]
  /\ UNCHANGED <<record, cluster, worker, run, result, trouble>>

\* The thirty seconds are over.
LockTimeout(p) ==
  /\ Waits(p)
  /\ lock[NextLock(p)] # None
  /\ End(p, "error")
  /\ UNCHANGED <<record, cluster, worker, trouble>>
-----------------------------------------------------------------------------
(* The record, brought up to date from the cluster. *)

\* Fault: only the tunnel that failed is undone.
UndoneLast(p, entries) ==
  IF entries = <<>> THEN End(p, "error")
  ELSE Become(p, [run[p] EXCEPT
         !.done = entries, !.undo = <<entries[Len(entries)]>>,
         !.pc = IF entries[Len(entries)].previous = None THEN "remove" ELSE "restore"])

\* Apply fails: it undoes these tunnels, the last first.
Undone(p, entries) ==
  IF entries = <<>> THEN End(p, "error")
  ELSE Become(p, [run[p] EXCEPT
         !.done = entries, !.undo = entries,
         !.pc = IF entries[Len(entries)].previous = None THEN "remove" ELSE "restore"])

\* A command fails before it changed this tunnel.
Fail(p) == IF Is(p, "apply") THEN Undone(p, run[p].done) ELSE End(p, "error")

\* An apply fails after it changed this tunnel.
WithThis(p) == Append(run[p].done, [tunnel |-> This(p), previous |-> run[p].sess])

\* Secrets are random.
Unused(s) ==
  /\ \A t \in Tunnels : /\ record[t] # None => record[t].secret # s
                        /\ remote[t] # None => s \notin {remote[t].secret, remote[t].digest.secret}
                        /\ pod[t] # None => s \notin {pod[t].of.secret, pod[t].runs.secret}
  /\ \A q \in Procs : run[q].key # s

Find(p) ==
  /\ At(p, "find") \/ (At(p, "lock") /\ Wants(p) = Holds(p))
  /\ UNCHANGED <<record, cluster, worker, trouble>>
  /\ IF record[This(p)] # None
       THEN Become(p, [run[p] EXCEPT !.pc = "sync", !.sess = record[This(p)]])
       ELSE IF Is(p, "apply")
         THEN \E s \in Secrets : /\ Unused(s)
                                 /\ Become(p, [run[p] EXCEPT !.pc = "ensure", !.key = s])
         ELSE End(p, "error")

\* Fault: the copy read before the lock was taken is good enough.
MergeNothing(r, m) == [r EXCEPT !.fresh = FALSE]

\* mergeSessionRemoteState.  A missing Secret corrects nothing, a missing Ingress
\* means that there is no custom domain.
Merge(r, m) ==
  IF m = None THEN [r EXCEPT !.domain = NoDomain, !.fresh = FALSE]
  ELSE [r EXCEPT !.secret = m.secret, !.policy = m.policy, !.domain = m.domain,
                 !.fresh = FALSE]

Synced(p) == Merge(record[This(p)], remote[This(p)])

\* rotate and the policies want a tunnel that is not stopped.
Sync(p) ==
  /\ At(p, "sync")
  /\ UNCHANGED <<cluster, worker>>
  /\ \/ /\ record' = [record EXCEPT ![This(p)] = Synced(p)]
        /\ IF remote[This(p)] = None THEN NoFault ELSE InOrder(This(p))
        /\ IF Synced(p).state = "stopped" /\ (Is(p, "rotate") \/ Is(p, "policy"))
             THEN End(p, "error")
             ELSE \E s \in Secrets :
                    /\ IF Is(p, "rotate") THEN Unused(s) ELSE s = Synced(p).secret
                    /\ Become(p, [run[p] EXCEPT !.pc = "ensure", !.sess = Synced(p),
                                                !.key = s])
     \/ UNCHANGED record /\ Fault /\ Fail(p)
-----------------------------------------------------------------------------
(* The change of the cluster. *)

\* What the command asks for; a new tunnel's item says everything.
Asked(p) ==
  Objects([secret |-> run[p].key,
           policy |-> IF Item(p).policy = None THEN run[p].sess.policy ELSE Item(p).policy],
          IF Item(p).domain = None THEN run[p].sess.domain ELSE Item(p).domain)

Put(t, m) ==
  /\ remote' = [remote EXCEPT ![t] = m]
  /\ skewed' = IF m # None /\ m.digest # Config(m) THEN skewed \cup {t} ELSE skewed

KeepRemote == UNCHANGED <<remote, skewed>>

\* Fault: the Secret is not put back.
HalfwaySecret(m, asked) ==
  IF m = None THEN {None} ELSE {m, [m EXCEPT !.secret = asked.secret]}

\* What EnsureTunnel leaves when it fails: the Secret is as before, the Deployment,
\* digest and all, and the Ingress may be changed already.
Halfway(m, asked) ==
  IF m = None THEN {None}
  ELSE {m} \cup {[m EXCEPT !.up = TRUE, !.digest = asked.digest, !.domain = d] :
                   d \in {m.domain, asked.domain}}

\* What it leaves when the roll-back fails too: the Secret and perhaps the Deployment
\* and the Ingress are changed.
Unrolled(m, asked) ==
  {asked} \cup (IF m = None THEN {}
                ELSE {[asked EXCEPT !.domain = m.domain],
                      [m EXCEPT !.secret = asked.secret, !.policy = asked.policy]})

\* The CNAME of the domain does not lead here: that is an error for a tunnel that is
\* there, and a new one goes without its domain.
Unverified(p) ==
  /\ At(p, "ensure") /\ Is(p, "apply") /\ Item(p).domain \in Domains
  /\ Fault
  /\ IF run[p].sess # None THEN Fail(p)
     ELSE Become(p, [run[p] EXCEPT !.todo[1].domain = NoDomain])
  /\ UNCHANGED <<record, cluster, worker>>

AfterEnsure(p) ==
  IF ~Is(p, "apply") THEN "save"
  ELSE IF run[p].sess # None /\ run[p].sess.domain # NoDomain /\ Asked(p).domain = NoDomain
    THEN "clear" ELSE "ready"

\* A failed update of an existing tunnel is rolled back once more by apply.
EnsureFails(p) ==
  IF Is(p, "apply") /\ run[p].sess # None THEN Undone(p, WithThis(p)) ELSE Fail(p)

\* What apply will roll back leaves no flaw yet.
Mishap(p, f) == IF Is(p, "apply") /\ run[p].sess # None THEN Fault ELSE Flaw(This(p), f)

Ensure(p) ==
  /\ At(p, "ensure") /\ ~Is(p, "domain")
  /\ UNCHANGED <<record, pod, worker>>
  /\ \/ Put(This(p), Asked(p)) /\ NoFault /\ Go(p, AfterEnsure(p))
     \/ /\ \E m \in Halfway(remote[This(p)], Asked(p)) :
             /\ Put(This(p), m)
             /\ IF m = remote[This(p)] THEN Fault ELSE Mishap(p, "partial")
        /\ EnsureFails(p)
     \/ /\ \E m \in Unrolled(remote[This(p)], Asked(p)) : Put(This(p), m)
        /\ Mishap(p, "lost") /\ EnsureFails(p)

\* ConfigureCustomDomain and ClearCustomDomain: the Deployment must be there.
SetDomain(p) ==
  /\ At(p, "ensure") /\ Is(p, "domain")
  /\ UNCHANGED <<record, pod, worker>>
  /\ \/ /\ remote[This(p)] # None
        /\ Put(This(p), [remote[This(p)] EXCEPT !.domain = Item(p).domain])
        /\ \/ NoFault /\ Go(p, "save")
           \/ Flaw(This(p), "lost") /\ End(p, "error")
     \/ /\ IF remote[This(p)] = None THEN NoFault ELSE Fault
        /\ KeepRemote /\ End(p, "error")

\* An apply whose file no longer has the domain removes the certificate too.
Clear(p) ==
  /\ At(p, "clear")
  /\ UNCHANGED <<record, cluster, worker>>
  /\ \/ NoFault /\ Go(p, "ready")
     \/ Fault /\ Undone(p, WithThis(p))

\* A server was started for what the Deployment says.
RolledOut(t) ==
  remote[t] # None /\ (remote[t].up => pod[t] # None /\ pod[t].of = remote[t].digest)

\* WaitForReady, before apply writes the record and after the others have.
Ready(p) ==
  /\ At(p, "ready")
  /\ UNCHANGED <<record, cluster, worker>>
  /\ \/ RolledOut(This(p)) /\ NoFault /\ Go(p, IF Is(p, "apply") THEN "save" ELSE "await")
     \/ Fault /\ IF Is(p, "apply") THEN Undone(p, WithThis(p)) ELSE End(p, "committed")
-----------------------------------------------------------------------------
(* The change of the record. *)

\* session.Update of the copy that Sync made, with what it says of the connection.
\* A domain is cleared, though its certificate may be left: then that is the error.
Save(p) ==
  /\ At(p, "save") /\ ~Is(p, "apply")
  /\ UNCHANGED <<cluster, worker>>
  /\ \/ /\ record' = [record EXCEPT ![This(p)] =
               [secret |-> run[p].key, policy |-> Asked(p).policy,
                domain |-> Asked(p).domain, state |-> run[p].sess.state, fresh |-> FALSE]]
        /\ NoFault
        /\ \/ ~Is(p, "domain") /\ Go(p, "ready")
           \/ Is(p, "domain") /\ End(p, "ok")
           \/ Is(p, "domain") /\ Item(p).domain = NoDomain /\ End(p, "committed")
     \/ /\ UNCHANGED record /\ Flaw(This(p), "save")
        /\ IF Is(p, "domain") THEN Go(p, "revert") ELSE End(p, "committed")

\* restoreRemoteCustomDomain, which may fail after a failed save without a fault of its own.
Revert(p) ==
  /\ At(p, "revert")
  /\ UNCHANGED <<record, pod, worker>>
  /\ \/ /\ Put(This(p), [remote[This(p)] EXCEPT !.domain = run[p].sess.domain])
        /\ flaws' = [flaws EXCEPT ![This(p)] = @ \ {"save"}] /\ UNCHANGED faults
     \/ KeepRemote /\ UNCHANGED trouble
  /\ End(p, "error")

\* session.Save of a record that waits for the daemon; then the next tunnel.
SaveApplied(p) ==
  /\ At(p, "save") /\ Is(p, "apply")
  /\ UNCHANGED <<cluster, worker>>
  /\ \/ /\ record' = [record EXCEPT ![This(p)] =
               [secret |-> run[p].key, policy |-> Asked(p).policy,
                domain |-> Asked(p).domain, state |-> "pending", fresh |-> FALSE]]
        /\ InOrder(This(p))
        /\ Become(p, [run[p] EXCEPT
             !.done = WithThis(p), !.todo = Tail(@), !.sess = None, !.key = None,
             !.pc = IF Len(run[p].todo) = 1 THEN "daemon" ELSE "find"])
     \/ UNCHANGED record /\ Fault /\ Undone(p, WithThis(p))
-----------------------------------------------------------------------------
(* The wait for the daemon. *)

\* ensureDaemonRunning.
StartDaemon(p) ==
  /\ At(p, "daemon")
  /\ UNCHANGED <<record, cluster, worker>>
  /\ \/ NoFault /\ Go(p, "await")
     \/ Fault /\ Undone(p, run[p].done)

\* The daemon wants a worker for the tunnel.
Desired(t) == record[t] # None /\ record[t].state # "stopped"

\* daemonConnectionStability: seen connected for longer than the daemon takes to
\* react to a change of the record or to the end of a connection.
Stable(t) ==
  /\ worker[t] # None /\ Desired(t) /\ worker[t].print = Config(record[t])
  /\ worker[t].phase # "get"
  /\ worker[t].phase = "serve" => worker[t].live

\* Fault: any connection will do, the one from before the change too.
ConfirmedAnyhow(p, t) ==
  record[t] # None /\ record[t].state = "connected" /\ Stable(t)

\* waitForDaemonSessionAfter; apply does not ask when.
Confirmed(p, t) ==
  /\ record[t] # None /\ record[t].state = "connected" /\ Stable(t)
  /\ Is(p, "apply") \/ record[t].fresh

\* The tunnels whose connection is waited for: after a policy that did not change, none.
Awaited(p) ==
  IF Is(p, "policy") /\ Asked(p).policy = run[p].sess.policy THEN {} ELSE Wants(p)

\* Nothing is left to happen to the tunnel.
Quiet(t) == Stable(t) /\ worker[t].phase = "serve" /\ RolledOut(t)

\* The time for the connection passes before it is there only by a fault.
Await(p) ==
  /\ At(p, "await")
  /\ UNCHANGED <<record, cluster, worker>>
  /\ \/ (\A t \in Awaited(p) : Confirmed(p, t)) /\ NoFault /\ End(p, "ok")
     \/ /\ \E t \in Awaited(p) : ~Confirmed(p, t) /\ IF Quiet(t) THEN NoFault ELSE Fault
        /\ IF Is(p, "apply") THEN Undone(p, run[p].done) ELSE End(p, "committed")
-----------------------------------------------------------------------------
(* The roll-back of an apply, one tunnel after the other. *)

Entry(p) == run[p].undo[Len(run[p].undo)]

\* The next tunnel to undo, or the end.
UndoNext(p) ==
  LET rest == SubSeq(run[p].undo, 1, Len(run[p].undo) - 1)
  IN  IF rest = <<>> THEN End(p, "error")
      ELSE Become(p, [run[p] EXCEPT
             !.undo = rest,
             !.pc = IF rest[Len(rest)].previous = None THEN "remove" ELSE "restore"])

\* CleanupTunnel of a new tunnel; its error is only reported.
Remove(p) ==
  /\ At(p, "remove") /\ Go(p, "forget")
  /\ UNCHANGED <<record, pod, worker>>
  /\ \/ Put(Entry(p).tunnel, None) /\ NoFault
     \/ KeepRemote /\ Flaw(Entry(p).tunnel, "undo")

Forget(p) ==
  /\ At(p, "forget") /\ UndoNext(p)
  /\ UNCHANGED <<cluster, worker>>
  /\ \/ record' = [record EXCEPT ![Entry(p).tunnel] = None] /\ NoFault
     \/ UNCHANGED record /\ Flaw(Entry(p).tunnel, "undo")

\* restoreExistingApplyTunnel: EnsureTunnel with what was there, and its rollout.
Restore(p) ==
  /\ At(p, "restore")
  /\ UNCHANGED <<record, pod, worker>>
  /\ LET t == Entry(p).tunnel
         was == Objects(Config(Entry(p).previous), Entry(p).previous.domain)
     IN  \/ Put(t, was) /\ NoFault /\ Go(p, "restored")
         \/ /\ \E m \in Halfway(remote[t], was) : Put(t, m)
            /\ Flaw(t, "undo") /\ Go(p, "resave")

Restored(p) ==
  /\ At(p, "restored") /\ Go(p, "resave")
  /\ UNCHANGED <<record, cluster, worker>>
  /\ IF RolledOut(Entry(p).tunnel) THEN NoFault ELSE Fault

\* session.Save of the previous record, whatever became of the rest.
Resave(p) ==
  /\ At(p, "resave") /\ UndoNext(p)
  /\ UNCHANGED <<cluster, worker>>
  /\ \/ record' = [record EXCEPT ![Entry(p).tunnel] = Entry(p).previous] /\ NoFault
     \/ UNCHANGED record /\ Flaw(Entry(p).tunnel, "undo")

\* The process dies; the kernel drops its locks.
Crash(p) ==
  /\ run[p].pc \notin {"idle", "over"}
  /\ faults < MaxFaults /\ faults' = faults + 1
  /\ flaws' = [t \in Tunnels |-> IF lock[t] = p THEN flaws[t] \cup {"crash"} ELSE flaws[t]]
  /\ End(p, "none")
  /\ UNCHANGED <<record, cluster, worker>>
-----------------------------------------------------------------------------
(* The daemon and the pod. *)

Report(t, s) ==
  record' = IF Desired(t)
              THEN [record EXCEPT ![t].state = s, ![t].fresh = @ \/ s = "connected"]
              ELSE record

Phase(t, ph) ==
  worker' = [worker EXCEPT ![t].phase = ph, ![t].live = ph = "serve", ![t].key =
               IF ph = "get" THEN None ELSE @]

Adopt(t) ==
  /\ worker[t] = None /\ Desired(t)
  /\ worker' = [worker EXCEPT ![t] = [print |-> Config(record[t]), key |-> None,
                                      phase |-> "get", live |-> FALSE]]
  /\ UNCHANGED record

\* It is cancelled when it is not wanted, or not with this configuration.
Retire(t) ==
  /\ worker[t] # None
  /\ Desired(t) => worker[t].print # Config(record[t])
  /\ worker' = [worker EXCEPT ![t] = None]
  /\ UNCHANGED record

Mark(t) ==
  /\ worker[t] # None /\ worker[t].phase = "get" /\ Desired(t)
  /\ worker' = [worker EXCEPT ![t].phase = "dial", ![t].key = record[t].secret]
  /\ Report(t, "connecting")

Connect(t) ==
  /\ worker[t] # None /\ worker[t].phase = "dial"
  /\ pod[t] # None /\ pod[t].runs.secret = worker[t].key
  /\ Phase(t, "serve") /\ Report(t, "connected")

DialFails(t) ==
  /\ worker[t] # None /\ worker[t].phase = "dial"
  /\ pod[t] # None => pod[t].runs.secret # worker[t].key
  /\ Phase(t, "get") /\ Report(t, "error")

Dropped(t) ==
  /\ worker[t] # None /\ worker[t].phase = "serve" /\ ~worker[t].live
  /\ Phase(t, "get") /\ Report(t, "error")

Daemon(t) ==
  /\ Adopt(t) \/ Retire(t) \/ Mark(t) \/ Connect(t) \/ DialFails(t) \/ Dropped(t)
  /\ UNCHANGED <<cluster, lock, run, result, trouble>>

Severed(t) == worker' = IF worker[t] = None THEN worker ELSE [worker EXCEPT ![t].live = FALSE]

\* What a server that starts may find in the Secret: EnsureTunnel writes it some time
\* before it ends, and may put it back.
Found(t) ==
  {Config(remote[t])}
  \cup {Config(Asked(p)) : p \in {p \in Procs : /\ At(p, "ensure") /\ ~Is(p, "domain")
                                                /\ This(p) = t}}

\* A Deployment that changed, or is scaled, starts or ends a server, which closes the
\* connection.  The server may have started before a failed ensure put the Secret back.
Rollout(t) ==
  LET m == remote[t] IN
  /\ \/ /\ m # None /\ m.up /\ (pod[t] # None => pod[t].of # m.digest)
        /\ \E c \in Found(t) \cup {m.digest} :
             /\ pod' = [pod EXCEPT ![t] = [of |-> m.digest, runs |-> c]]
             /\ skewed' = IF c = m.digest /\ c = Config(m) THEN skewed \ {t}
                          ELSE skewed \cup {t}
     \/ /\ pod[t] # None /\ (m # None => ~m.up)
        /\ pod' = [pod EXCEPT ![t] = None] /\ UNCHANGED skewed
  /\ Severed(t)
  /\ UNCHANGED <<record, remote, lock, run, result, trouble>>

\* The container restarts by itself.
Restart(t) ==
  /\ pod[t] # None /\ remote[t] # None
  /\ \E c \in Found(t) \ {pod[t].runs} : pod' = [pod EXCEPT ![t].runs = c]
  /\ skewed' = skewed \cup {t}
  /\ Severed(t)
  /\ UNCHANGED <<record, remote, lock, run, result, trouble>>
-----------------------------------------------------------------------------
Step(p) ==
  \/ TakeLock(p) \/ LockTimeout(p)
  \/ Find(p) \/ Sync(p)
  \/ Unverified(p) \/ Ensure(p) \/ SetDomain(p) \/ Clear(p) \/ Ready(p)
  \/ Save(p) \/ Revert(p) \/ SaveApplied(p)
  \/ StartDaemon(p) \/ Await(p)
  \/ Remove(p) \/ Forget(p) \/ Restore(p) \/ Restored(p) \/ Resave(p)

\* Every command has ended and the daemon has nothing to do.
Finished == (\A p \in Procs : At(p, "over")) /\ UNCHANGED vars

Next ==
  \/ Finished
  \/ \E p \in Procs : (\E c \in Commands : Begin(p, c)) \/ Step(p) \/ Crash(p)
  \/ \E t \in Tunnels : Daemon(t) \/ Rollout(t) \/ Restart(t)

Spec == Init /\ [][Next]_vars
-----------------------------------------------------------------------------
(* Properties. *)

\* No processes wait for each other's locks, two or more of them: an apply takes
\* its locks in the order of the tunnel IDs (tunnel_lock.go:72-91).
NoWaitCycle ==
  \A D \in (SUBSET Procs) \ {{}} :
    ~ \A p \in D : Waits(p) /\ lock[NextLock(p)] \in D

Agree(t) ==
  IF record[t] = None THEN remote[t] = None
  ELSE remote[t] # None /\ Same(record[t], remote[t])

Sound(t) == flaws[t] = {} => Agree(t)

\* Between commands the record says what the cluster has, unless something went
\* wrong since a command last had both in order: no command, whatever it was
\* interleaved with, loses the change of another (findSessionSyncedLocked,
\* session.Update and session.Save).
RecordAgrees == \A t \in Tunnels : lock[t] = None => Sound(t)

Ends(p) == ~At(p, "over") /\ run'[p].pc = "over"

\* A command that reports success has a daemon that is connected, with the
\* configuration the command made, to a server that has it: neither the
\* connection from before nor what the old record said of it can confirm a
\* change (rotate.go:150, share.go:388, apply.go:225).  The server has it unless
\* it was started while Secret and Deployment differed: a failed ensure puts back
\* the Secret only, and one that asks for the same again finds the Deployment up
\* to date and starts no server (client.go:239, 587, 668).
ConfirmedIsServed ==
  [][\A p \in Procs :
       Ends(p) /\ result' = "ok" /\ At(p, "await")
         => \A t \in Awaited(p) :
              /\ worker[t] # None /\ worker[t].phase = "serve" /\ worker[t].live
              /\ worker[t].print = Config(remote[t])
              /\ pod[t] # None /\ (t \notin skewed => pod[t].runs = Config(remote[t]))]_vars

\* rotate, a policy or a domain that fails before it commits leaves the Secret and
\* the record's configuration as they were, and a domain that could not be saved
\* is taken back (rotate.go:134, share.go:368, domain.go:317-329).
UncommittedChangesNothing ==
  [][\A p \in Procs :
       Ends(p) /\ result' = "error" /\ (At(p, "ensure") \/ At(p, "revert")) /\ ~Is(p, "apply")
         => LET t == This(p)
                r == run[p].sess
            IN  /\ record'[t] # None => Config(record'[t]) = Config(r)
                /\ remote'[t] # None /\ "lost" \notin flaws'[t] => Config(remote'[t]) = Config(r)
                /\ remote'[t] # None /\ flaws'[t] = {} => remote'[t].domain = r.domain]_vars

\* An apply that fails and whose roll-back does not has changed nothing: the
\* tunnels it made are gone, the others and their records as before, whichever of
\* several failed, and where (apply.go:216-230, 579-663).
ApplyIsUndone ==
  [][\A p \in Procs :
       Ends(p) /\ result' = "error" /\ Is(p, "apply")
         => \A i \in DOMAIN run[p].done :
              LET t == run[p].done[i].tunnel
                  r == run[p].done[i].previous
              IN  "undo" \notin flaws'[t] =>
                    IF r = None THEN record'[t] = None /\ remote'[t] = None
                    ELSE record'[t] # None /\ Same(record'[t], r) /\ Same(remote'[t], r)]_vars

\* "apply -f sealtun.yaml creates/updates tunnels idempotently" (README_EN.md:22):
\* where nothing fails and nobody interferes, an apply succeeds.
ApplyIdempotent == faults = 0 /\ result # "none" => result = "ok"
=============================================================================
