# A specification of sealtun

sealtun exposes a local port through a reverse tunnel: a CLI creates a server
Deployment, a Service, an Ingress and a Secret in a Sealos (Kubernetes)
namespace, a client process connects to the server by WebSocket, and a local
daemon keeps the connections of the background tunnels. Several short CLI
processes, one daemon with many goroutines and the cluster share their state
through files under `~/.sealtun` and through the Kubernetes API. What is hard is
not in any one function: it is in the order in which they act, in what a process
still believes about a file it read a minute ago, and in what is left when one
of them dies or a call fails halfway.

The modules here are TLA+ translations of that code (`src/` is the repository),
with the runs of TLC and the proofs of TLAPS that say what is right about it and
the few places where it does something other than its messages and tests say.

## Inventory

| Component | State | Operations | Hard because | Module |
|---|---|---|---|---|
| Session store, `pkg/session` | one encrypted JSON file per tunnel, `sessions.lock` (flock), temporary files | Save, Update, UpdateAtomic, Get, Delete, ScrubCredentials | stale copies, crash between write and rename, lock time-out, partial scrub | `SessionData`, `SessionRegister`, `SessionStore` |
| Session key, `pkg/session/encryption.go` | the key file | look, create, write, remove, read | several make it at once; a death between create and write | `SessionKey` |
| Daemon workers, `cmd/daemon.go` | the table `managed`, goroutines with contexts | reconcile every 2 s, connect, report, expire | replacement of workers, stale lists, stop against report | `DaemonWorkers` |
| Daemon locks, state, launch, `pkg/daemon`, `cmd/daemon_launch.go` | launch lock, runtime lock, `daemon.json` | launch, acquire, heartbeat, stop, delete state | check-then-act on files by name, leftover files | `DaemonLock` |
| Tunnel operation lock, `cmd/tunnel_lock.go` | `tunnel-<id>.lock` (flock) | one command at a time per tunnel; several locks in order | expose does not take it; apply takes several | in `TunnelLifecycle`, `TunnelChange` |
| Lifecycle commands, `cmd/stop.go`, `start.go`, `cleanup.go`, `logout.go`, recovery | record, remote resources | stop, start, cleanup, cleanup --all, recover, logout --force | order of remote and local changes, roll-back, death at any point | `TunnelLifecycle` |
| expose, `cmd/expose.go`, `pkg/tunnel/client.go` | record, remote resources, connection | provision, hand over, connect, serve, exit | runs beside the other commands without their lock; deadlines | `TunnelLifecycle`, `ForegroundTunnel` |
| rotate, policy, auth, `cmd/rotate.go`, `access_policy.go`, `basic_auth.go` | record, Secret, the daemon's connection | change a running tunnel | confirmation by an old connection; failure between cluster and record | `TunnelChange` |
| apply, `cmd/apply.go` | several tunnels | lock, ensure, save, wait; undo all | several locks; roll-back over several tunnels | `TunnelChange` |
| up, `cmd/up.go` | `.sealtun/state.json` | reuse, expose, find what was made | no lock; others make tunnels meanwhile | `ProjectState` |
| Sharing and policy, `cmd/share.go`, `policy.go` | the links in Secret, record and server | create, revoke, rotate, policy set | each replaces the whole policy | `ShareLinks` |
| Domains, `cmd/domain.go` | Ingress, Certificate, record, DNS | add, add --wait, clear | waits without the lock; half-made changes | `DomainAttach` |
| Kubernetes client, `pkg/k8s` | the objects of a tunnel | ensure, configure and clear a domain, scale, clean up | partial failure and roll-back; objects of others | `TunnelResources` |
| Tunnel server, `pkg/tunnel/server.go` | the active session, stream and raw TCP slots, log, audit ring, header cache | accept a tunnel, dial, relay, public requests | replacement of the session, slots that outlive requests, visitors who leave | `TunnelServer`, `PublicTraffic` |
| Relay, `pkg/tunnel/relay.go` | two copying goroutines, a deadline | half-close, drain, close | one direction fails while the other carries data | `StreamRelay` |
| Rate limiter, `pkg/accesspolicy` | the table of buckets | allow, prune, overflow | a full table; requests out of the order of their times | `RateLimiter` |
| Credentials, `pkg/auth/config.go`, `cmd/auth_refresh.go`, `profile.go`, `workspace.go`, `login.go` | `auth.json`, kubeconfig, profiles, the marker | login, renew, switch, save, delete, logout | two files that belong together; one-time refresh tokens | `Credentials` |
| Device login, `pkg/auth/auth.go`, `cmd/login.go`, `cmd/ui_api.go` | the code; the console's pending login | start, poll, exchange | requests of the console overlap; deadlines | `DeviceLogin` |
| Routes, inspection, formatting | none | match, read, print | nothing: stateless | not modelled |

The components meet in few places: every command and the daemon write records
through the session store; commands wait for the daemon by polling the record;
the daemon learns of commands by listing the records; commands and daemon reach
the cluster through `pkg/k8s`; the daemon is started by commands and known to
them by its state file. Accordingly `DaemonWorkers`, `TunnelLifecycle` and
`TunnelChange` use the store as the atomic register that `SessionRegister`
specifies and `SessionStore` is proved to implement; `TunnelLifecycle` and
`TunnelChange` have of the daemon what `DaemonWorkers` details, and of `pkg/k8s`
whole calls that `TunnelResources` details; `ShareLinks` and `DomainAttach`
have the inside of two of `TunnelChange`'s commands.

## Modules

**`SessionData`** has the records (secret, connection state, scrubbed mark), the
calls, and what each call computes; `Preserve` is `preserveScrubbedCredentials`,
`Mutate` the functions passed to `UpdateAtomic`. **`SessionRegister`** is the
abstract specification: each call takes effect at one instant, or fails, or its
process dies. **`SessionStore`** is the code: flock with a time-out, read, write
of the temporary file, rename, release, the walk of `ScrubCredentials`, errors
of the file system and the death of a process between any two steps (the kernel
drops its flock). A file may be corrupt from the start. `Register` is the
refinement mapping: everything is the same variable, and `outcome` is read off
the program counter.

**`SessionKey`**: `sessionEncryptionKeyFromConfigDir`, by any number of
processes. The key a process would make bears its name; `sealed` remembers the
keys that records were encrypted with.

**`DaemonWorkers`**: `List`, `Visit`, `Recheck`, `CleanUp` and `Reconcile` are
the body of the ticker (`listed` is the stale snapshot of expired sessions),
`managed` the table; a worker goes through the labels of `runDaemonTunnel` (`get`,
`mark`, `dial`, `connected`, `serve`, `check`, `fail`, `sleep`) and its deferred
functions (`exit`, `unlist`). The environment is the CLI (stop, start,
configure, delete, scrub) and time. A `config` is everything that the
fingerprint covers. All records are those of daemon mode.

**`TunnelLifecycle`**: one tunnel, any number of CLI processes, each running one
command. `pc[p]` is the place in its command, `copy[p]` its variable `sess`,
`lock` the tunnel lock (held by all commands except expose, until it rolls back
or exits, and logout). `remote` is the Deployment; a call of `pkg/k8s` succeeds,
fails, or fails after having had its effect. Waits (for the lock, for the
daemon) end by their deadline at the latest. The daemon adopts a record,
reports, retires. TTL is left to `DaemonWorkers`.

**`ForegroundTunnel`**: the retry loop around one dial and the connection of a
foreground expose under their common context, with a clock of small integers.

**`TunnelChange`**: several tunnels; each process runs one of rotate, policy,
domain, apply. A process has its list of tunnels in `todo`, what it has done and
will have to undo in `done`; it takes its locks one by one (`NextLock`), reads
the record and corrects it from the cluster (`Find`, `Sync`), makes one call of
`pkg/k8s` (`Ensure`), waits for the roll-out (`Ready`), writes the record
(`Save`), wakes the daemon and waits for a connection (`Await`). The daemon's
worker and the pod follow in steps of their own, so the
connection that is seen may be an old one. A Deployment carries the `digest` of the
configuration that was asked for, and the cluster starts a server when the digest is
another than that of the running one (`Rollout`), or by itself (`Restart`); a server
reads the Secret when it starts, which an ensure at work has written already or has
still to put back (`Found`). A failed ensure puts back the Secret and not the digest
(`Halfway`), after which `skewed` remembers that the two differ, or that the server that
runs was started while they did. `faults` counts the calls that fail
and the deaths; `flaws` says for each tunnel what went wrong since a command last
had record and cluster in order, so that the properties can say what holds
exactly when nothing did.

**`TunnelResources`**: the objects of one tunnel, by kind. `todo` is the set of calls
an operation has still to make, and `Order` the code's order, in which they are made;
`Undoing` is the deferred function of `EnsureTunnelWithOptions` and `ConfigureCustomDomain`; `Cleaned`,
and the actions before it, is `CleanupTunnel`, which goes on after an error and
reports it. An object may be somebody else's (`Foreign`), another machine may
change the tunnel (`Rival`), an answer may be lost, the process may die.
`TunnelChange` takes one step for a whole operation; `MCTunnelOperations` reads what the
commands see off the objects (`Seen`, the Deployment's digest included), and `CallsAreOneStep` says that an ensure which
returns, and a configure which fails, have taken one of the steps that `TunnelChange` has
for them, a failed ensure to one of its `Halfway` states. Left out of this are the operations that something else went wrong
around (`defects`: an answer that was lost, a failed roll-back, another client); for these
`TunnelChange` has coarser steps and flaws of its own.

**`ShareLinks`**: the policy is a set of links, whose names differ, and a limit. A command reads the
record, corrects it from the cluster under the lock (`Synced`), replaces the
policy in the cluster, then in the record, and shows its URL. Secret, digest and server
are as in `TunnelChange`: the server gets the policy when it is started, and is started
when the digest changes. `given`, `gone`, `barred` remember what the users were
told.

**`DomainAttach`**: the Certificate, then the Ingress, then the record, and the
undoing of each; the DNS zone and cert-manager act on their own. The wait reads
DNS, Ingress and Certificate one after the other. `seen` remembers what was so
since the lock was taken, or in the present round.

**`ProjectState`**: `up` in one project directory; every expose beside it may make
or remove a tunnel; times have the resolution of the records. Any error of the store
(its lock is busy, a record cannot be decrypted) counts as the code has it: the tunnel
of the state is gone (`Load`), there were no tunnels before (`Before`); `unread` says of
an up that this happened to it. Forgetting a state is a comparison (`Compare`) and a
removal by name (`Remove`); `raced` says that another up wrote the file between them.

**`DaemonLock`**: the two lock files, the state file, `ensureDaemonRunning`, and
the start and end of the daemon command. The look at a lock file and its age
(`Inspect`), the reading of its token (`Open`), the look at its owner (`Probe`) and at the
daemon's state (`Owner`), the removal of the file, its creation and the write of its token
are separate steps; the creator of a file may stall before it writes the token, until the
empty file looks old (`Stall`). A process is its PID
and start token. The model reuses the names of ended processes, and to keep
identities unique what a file says of a process turns to `"dead"` when it ends.

**`TunnelServer`**: the server in the pod. A tunnel's handler goes "swap",
"wait"; the session it replaces is in `drains` until its grace period is over. A
dial (`proxyDialContext`) and the goroutine that opens its stream have a place
each (`dpc`, `opc`), the context between them is `done`, the channel without
buffer is the joint step `HandOver`; `opening` and `slotted` are the lengths of
the two semaphore channels. A raw connection goes through `rpc`, its deferred
functions in reverse order. yamux and `net/http` are used as the code uses them:
a stream is opened or refused, a context may be done at any time.

**`PublicTraffic`**: the steps of `handlePublicTraffic` that touch what is kept of
requests; the load, the flush and the count of the header cache are separate, as
its atomics are. **`RateLimiter`**: `Allow` under its mutex, for requests that
read the clock before they got it. **`StreamRelay`**: the two goroutines of
`relayBidirectional`, the channel of their results and the caller, between peers
that send, end, stall and reset.

**`Credentials`**: a command is a sequence of steps, each of which reads or
replaces one file or asks the region; `next` is the step a process is at, and the table
`After` says which one follows; what a failed write puts back is a step as
well. A `workspace` command whose access token has expired goes through the steps of a
renewal (`Routine`) while it has the lock. A generation of credentials (`gen`) stands for what one answer of the
region holds; `spent` are the refresh tokens that were used. **`DeviceLogin`**:
the command line's polling with its clock, and the console's requests, each of
which goes by its copy of the pending login. Both are actions of one module, since they
ask the same region; a run has one or the other.

Definitions marked "fault" are wrong variants of the definition after them. They
are used by no specification; they are there to see that a property notices.

`MCSessionStore` restricts the calls, for two kinds of load. `MCTunnelChange` has
the commands of the runs of `TunnelChange`.
`MCTunnelOperations`, `MCTunnelLifecycle` and `MCParts` put parts that share no
state into one run: the variable `part` names the one that acts, the others stay
at one of their initial values, so the states are those of the parts one after the
other, not their product. The parts' constants are those of `MCParts`, with values in
`Parts.cfg`. `..._proofs` modules
hold the theorems; `Parts_proofs` has those of the parts of `MCParts`, about
`PartsSpec`, so that what is proved is what the run checks, and `TunnelResources_proofs`
those of the objects of a tunnel, about `PartsSpec` of `MCTunnelOperations`. `MCTunnelLifecycle` takes
the relay's grace, deadline and amount of data from `TunnelLifecycle.cfg` likewise.

## Runs

| Run | Instance | Shows |
|---|---|---|
| `store` | 2 processes; saves, deletions and scrubs of 2 tunnels, or every call on one with 2 states and 2 secrets; fair | a write cannot bring scrubbed credentials back; a conditional update changes the record that is there and never a stopped one; the store implements the register; a scrub that succeeds has left no credentials; every call returns |
| `daemon_workers` | 1 tunnel, 2 workers, 2 configurations, fair, any number of crashes | one live worker per tunnel; no worker reverts a stop; what is stopped, deleted or expired gets disconnected even if its clean-up fails; what is wanted gets served, with its latest configuration, after any crash |
| `lifecycle` | 2 processes, all commands, reads that fail; a dial with deadline 7 and interval 2; a relay with 2 units each way; fair | the record goes last; recovery removes no tunnel whose exposer is running; what ended well and says stopped is paused; every command ends; a dial is given up only by deadline or signal, and a signal ends it; a relay drops nothing it need not drop, and a failure ends it |
| `daemon_lock` | 1 caller, 2 daemons, 2 faults, fair | one daemon as long as nothing fails and no lock is created while another process judges the file before; whatever was left behind, a daemon comes up |
| `tunnel_server` | 2 clients, 2 dials, 2 raw connections, one slot of each kind, fair | the newest client stays connected, replaced ones end; slots are given back; no stream stays open when its visitor has left; dials return |
| `operations` | 2 processes, 2 tunnels of which apply may create one, 1 fault; the objects of a tunnel with 2 configurations, 2 faults | no cycle of lock waits; record and cluster agree between commands; what is confirmed is served, unless Secret and Deployment differed when the server was started; a failed command, and a failed apply, has changed nothing; a failed ensure is undone, a cleanup is complete, objects of others stay, and the calls of an ensure add up to the one step the commands count on |
| `parts` | for each part 2 or 3 processes, 1 or 2 of each name, 2 faults | cache and rings stay bounded and in order; credentials stay usable; no record is orphaned by a second key; a login lands where it was started; links stay given, and revoked ones out of the policy; a domain is whole; `up` writes down its own tunnel and forgets one that is gone; the rate limit holds |
| `lifecycle_stop` | 1 expose and 1 stop | **violated**, finding 1 |
| `foreground_owns` | deadline 7, interval 2 | **violated**, finding 2 |
| `change_reapply` | 1 apply of what is there, no fault | **violated**, finding 3 |
| `relay_idle` | a deadline of 3 | **violated**, finding 4 |
| `credentials_workspace` | 1 process | **violated**, finding 5 |

Why the bounds are enough. Two processes suffice for every race of the store on
one file, since the lock admits one at a time and a stale copy needs one other
writer; two tunnels make a scrub incomplete, and that takes no calls but those
that add, remove and scrub records (`MCSessionStore`). A worker and its replacement are
two identities, reused; two configurations tell old from new. In
`TunnelLifecycle` the properties relate at most an exposer, a command and a
recovery, and the proofs cover any number. In `TunnelServer` two dials contend
for one slot, two raw connections for another, and a client replaces a client
again and again, since identities are reused when nothing refers to them.

In `TunnelChange` two processes and two tunnels make every cycle of waits of
length two; an apply of two tunnels may fail at the first or the second, with one
created and one changed; three secrets leave a rotation beside a creation. In
`TunnelResources` two faults are a failing call and a failing roll-back. In
`RateLimiter` three clients meet a table for two, one of which is the overflow's,
and time covers two windows and a pruning; `MaxDelay`, how long a request waits
between its clock and the mutex, is as long as a window. `PublicTraffic` has more good headers
than places, and its rings wrap twice. Two renewals are enough for a spent token;
commands other than renewals do not overlap in `Credentials`, see below. In
`ShareLinks` a name is used again after its link went. The console's login has
two codes, two profiles and two requests at once, and outlives its code. In
`DomainAttach` one of two processes waits, two domains replace each other, the
zone changes once. These are bounds of the runs: where there is a theorem (see Proofs)
the constants may have any value.

`CHECK_DEADLOCK FALSE` is set where the system stops: commands, relays and dials
end, and the bounded parts come to their bounds. A daemon, a server, a store or a
set of lock holders that could do nothing at all would be reported.

Fairness. Threads of a living process run (`WF` on each step); a wait with a
time-out ends. A connection need not break, a dial need not succeed, the cluster
need not answer well, a user need not do anything; the reconcile loop is fair
because of its ticker, the relay's deadlines because of the clock. Waiting for a
stream slot is strongly fair: a Go channel serves blocked senders in the order
they came. OpenStream ends because yamux closes a session whose peer does not
acknowledge a stream. A process may die at any time and need not be restarted.

## What the code does otherwise

1. `cmd/expose.go:312`, and 336-346 in the foreground: expose writes the record
   it saved before it waited, without the tunnel lock. A stop that succeeded in
   between is overwritten, the tunnel does not connect (its Deployment is
   paused) and expose's roll-back or exit removes it. `stop` said "Domain,
   Service, Ingress, and local session were preserved."
2. `cmd/expose.go:479`: the 60-second deadline for connecting is the context
   under which the connection is served; a foreground tunnel ends after a minute.
3. `cmd/apply.go:487`: an apply of what is already there (without a TTL) writes a
   pending record, the daemon's fingerprint is unchanged, nothing connects anew,
   the wait times out, and the apply fails and rolls back. The README calls it
   idempotent.
4. `pkg/tunnel/server.go:960`: the deadline of a raw TCP connection is set once,
   ten minutes from its start; a connection that carries data is cut as well. The
   comment at line 948 says "expire idle connections".
5. `cmd/auth_refresh.go:152`: a renewal saves the kubeconfig of the default
   workspace and keeps the name of the chosen one; new tunnels go to the default
   one until the workspace is chosen again.

Also seen while modelling, and not runs of their own:

* A stop whose pause fails restores the record it read (`cmd/stop.go:65`). If
  expose handed the tunnel to the daemon in between, the record is a foreground
  one again, and a later recovery removes a tunnel that "is running in the
  background" (`TunnelLifecycle!RecoveryKeepsBackground` states it, and fails). Recovery
  is spared from nothing but a running exposer: it goes by the mode that it read, and
  removes stopped and daemon tunnels too once their TTL is over (`session_helpers.go:360`;
  the model has no TTL). So `RecoverySpares` is about the exposer only.
* A renewal brings only the profile in use up to date (`cmd/auth_refresh.go:155`).
  `login --profile work`, then `profile save home`, then a renewal: `home` has the
  new refresh token, `work` keeps the spent one, and a later `profile use work`
  brings it back (`Credentials!NoneSpent` fails with two profiles; the run has one).
* `DeleteStateForPID` reads, then deletes by name (`pkg/daemon/state.go:323-334`):
  a replacement's state may go, and is never written again
  (`DaemonLock!DeletesOwn` fails).
* Two daemons can run, with no fault at all (`DaemonLock!NoDuplicate`, with 1 caller and 2
  daemons and no faults, fails after 46 steps). `pkg/daemon/state.go:192-223` takes three looks at the
  runtime lock and then removes it by its name: a starter reads the old daemon's token;
  that daemon ends in order and removes its file; a third process creates its own; the
  starter finds the old daemon dead, no state of a new one yet, and removes the third
  one's file. The same happens after a crash, when two starters both find the dead
  owner's file. `pkg/daemon/state_test.go:87` is named
  `TestRuntimeLockDoesNotStartDuplicateWhenLockOwnerIsAliveWithoutState`. `Exclusive` is therefore
  only claimed (`clean`) while nothing failed and no lock was created under the eyes of
  a process that was judging the file before it.
* The roll-back of an ensure restores the Secret (`pkg/k8s/client.go:239`) and not the
  Deployment, which keeps the digest of what was asked for (397-410). Then
  a server may have been started with the configuration that was taken back, or is
  started for the new digest with the old configuration. In the second case the command
  that is tried again finds the Deployment up to date (587, 668), no server is started,
  WaitForReady is content, and the command reports success for a configuration that the
  server does not have. `TunnelChange!ConfirmedIsServed` without its exemption of `skewed` tunnels fails
  in 19 steps: a failed policy, its roll-back, a roll-out, the policy again, confirmed.
  `ShareLinks!BarredRefused` fails likewise: a revoke that failed and was rolled back
  is tried again and succeeds, and the server still accepts the revoked token; or the
  container restarts by itself between the two. The Secret and the record are right in
  all of these, which is what the properties say of them without exemption.
* apply's roll-back of a stopped tunnel leaves its Deployment running;
  `rollbackApplyResults` deletes the record of a new tunnel even if its cleanup
  failed.
* rotate that dies between the cluster and the record leaves the daemon with a
  secret the server no longer takes, until the next command on the tunnel.
* domain's `session.Update` writes the connection state it read before.
* A request that read the clock before the start of its client's window resets
  the bucket (`access_policy.go`); the property exempts it.
* A poll of the console that comes to its end late clears a login that was begun
  meanwhile; the answer with the token may be lost, and the code is spent.
* share rotate whose answer is lost has cancelled the old link and shows no new
  one.
* up: two at once may write down each other's tunnels, and one that runs in the
  foreground, or beside another expose, writes down a tunnel made elsewhere, which
  the next up reuses (`ProjectState!StateIsProjects` fails).
* up forgets a state by comparing and then removing by name (`cmd/up.go:937-957`). Another
  up that writes its new tunnel in between loses it, although that tunnel is live
  (`ProjectState!ForgetsNoLive` fails in 10 steps); `ForgetsTheGone` looks at the removal,
  and exempts this race.
* up takes any error of the store for an answer. A record that cannot be read, or a store
  whose lock is busy, makes up forget a live tunnel and expose another
  (`cmd/up.go:110-114`). If the list of the tunnels before cannot be read, every tunnel
  counts as new (997-999), and an expose that made none in the end, because it ran in the
  foreground, leaves up to write down an old one (`WritesOwn` without `unread` fails in 7
  steps).
* domain add --wait takes the names from the Certificate's spec and readiness from
  its status, which may still be that of another domain
  (`DomainAttach!ReadyIsIssued` fails); it waits for the domain that the record
  has by then, which another command may have changed.

## Proofs

TLAPS checks the following, for any number of tunnels, processes, secrets, workers and
faults. Each invariant here is inductive: it holds at first, each action keeps it, and
what is to be shown follows from it.

* `SessionStore_proofs`: the inductive invariant `IInv` (who passed the lock holds
  it; the content of a temporary file is still what its call computes from the
  file it will replace; a scrub has cleaned what it passed; nothing marked
  scrubbed has a secret), type correctness, `ScrubbedHasNoSecret`, `ScrubSticky`,
  `ScrubCompletes`, `MarkKeepsOthersWrites`, and that every step of the store is
  a step of the register or a stutter (`ImplementsRegister`). The strengthening
  is needed because a rename alone does not know that nothing was written since
  the file was read; the lock does.
* `DaemonWorkers_proofs`: `IInv` (a goroutine that may still act is the one in the
  table; a table entry is a goroutine of that tunnel), `OneLiveWorker`,
  `OnlyRegisteredWrites`, `StopSticks`.
* `TunnelLifecycle_proofs`: `IInv`, a list of what is known at each place of a
  command (`At`): who is past "find" has the lock and, unless it is an expose,
  the record; at "delete" the remote resources are gone; a recovery at "clean"
  has a foreground record in hand and no exposer is alive. `Effects` says what a
  step of one process may do to the others, `Combine` that this keeps their part
  of the invariant; each action is shown to stay within it. `RecordRemovedLast`
  and `RecoverySpares` follow. `StoppedIsPaused` needs `SInv` beside it: a tunnel that
  says stopped and runs is accounted for by a process that is at the pause, is taking
  it back, or has reported that it does not know; and what a failing stop writes back
  was there before.
* `TunnelLifecycle_proofs`, on the relay that the run checks beside the tunnel: `RelayInv`
  says what is in the channel at each place of the caller (`ChannelOK`), that a
  direction that ended without an error is drained (`EndsOK`), and that at the end of
  the grace what was due is delivered or lost to a stall or a cut (`GraceOK`).
  `RelayNothingDropped` follows for any grace, deadline and amount of data.
* `TunnelChange_proofs`, in three layers. `IInv` is what is known at each place of a
  command: where it is in its lists (`PlaceOK`), which locks it has (`LocksOK`), and
  what record and cluster of its tunnel have in common there (`AtWork`). `UInv` is about
  the lists of an apply: each tunnel is still to do or done, once, and those already
  undone are as before (`UndoneOK`). `VInv` is about connections: the server was started for
  what was done (`Served`), and a record says connected only after news of the worker
  (`ServedOK`), since no process keeps a record that could confirm anything (`CopiesOK`).
  `AInv` adds that where Secret and digest never differed, the server runs what it was
  started for. A step of a
  process changes only tunnels it has the lock of, before or after (`Mine`); `Frame`
  reduces each layer to that process. From `IInv` follow `RecordAgrees` and
  `UncommittedChangesNothing`, from `UInv` `ApplyIsUndone`, from `VInv` and `AInv`
  `ConfirmedIsServed`. `NoWaitCycle` is for any set of processes and tunnels: each
  waits for a tunnel above all it holds, so in a set that waits for itself,
  whoever has the highest lock that is waited for would wait for a higher one.
* `TunnelResources_proofs`, the objects of a tunnel, for any configurations, objects of
  others and number of mishaps: `TypesInv` (what is left belongs to the operation and its
  phase; no object changes its owner), `RollbackInv` and `CleanupInv`. While the calls are
  made, an object whose call is left is as it was, and one that is not as it was has been
  noted, among those created or in a snapshot (`ApplyOK`); while they are undone, it is
  still to be undone (`UndoOK`), so with nothing left the tunnel is as before:
  `FailureUndone`. The order of the calls is needed, since the snapshots come before the
  writes they are for. A clean-up has done with each kind that is not left, unless a call
  failed (`CleanOK`, `Gone`): `CleanupComplete`; here the order is needed because the
  Certificate is read before it is deleted, and its TLS Secret is known by it.
  `OthersUntouched` is an action property of every operation. On top of these, `CallsInv`
  is about the core and the Ingress: the calls that were made have left what was asked, and
  the Ingress is rewritten after the rest (`MadeOK`), so what a roll-back leaves is
  rewritten in that order (`HalfOK`) and is a `Halfway` state of `TunnelChange`, or what was
  asked if all calls are made: `CallsAreOneStep`, which contains `FailureUndone`. The order is what keeps a paused tunnel
  from getting a new domain and no server.
* `Parts_proofs`, part by part:
  * the session key (`IInv`): one process at a time makes the key, and until it
    is written the file is no key for anybody; `KeyOpensAll`. The strengthening
    is needed for the removal of a key that could not be written: nobody can have
    used one by then.
  * the limiter (`LimiterInv`): what was pruned was over by then for everybody who is
    still waiting (`Forgotten`). This needs that nobody waits for the mutex longer than
    a window, which `LimiterAssumption` says and the run has as its bound.
  * public traffic (`CacheInv`, `BooksInv`): the cache of good headers is bounded by
    n * CacheMax + n(n-1)/2 for n goroutines, however their flushes meet: each that is
    late to set the count to zero may lose the count of a full cache, and of what the
    others were storing. The rings by their sequence numbers.
  * links (`LinksInv`): who is about to write works on the policy as it is, since it has
    the lock (`PlanOK`); a token that went never comes back into the policy, tokens being
    new; where Secret and digest never differed, a server runs what it was started for
    (`Level`), and a command that waited has a server that was started for what it asked
    (`DoneOK`).
  * `up` (`ProjectInv`): what an up that works alone and could read the store has to choose
    from is what it made; what one is about to remove is the state of a tunnel that is gone,
    since tunnels are made only once, or another up has written since.
  * the login (`CliInv`, `ConsoleInv`): on the command line `Polling` bounds the time of
    the next question by the deadline, and puts every grant before it; in the console
    nobody else knows a new code before the session is set (`OwnCode`), so a saved login
    is pending only until its request has cleared it (`SavedOK`).
  * domains (`DomainInv`): what the holder of the lock can count on at each place
    (`HolderOK`), and what it has seen to be so since (`NoticedOK`).
  * the credentials (`CredInv`), in three layers. `CredTypes` says at which steps a
    command may be while it has the lock and while it has not (`PlaceOK`); since two that
    run are both renewals (`Overlaps`), whoever is past the lock works alone
    (`WorksAlone`), and each action is shown for that one. `PairInv`, up to the first
    failure: the files of a directory agree, or one is being saved, and then the
    kubeconfig that would be put back agrees with the auth.json that is still there; a
    failure there leaves none for the putting back. `SpentInv`, without failures: a token
    that is held is not spent; one in a file is, only while the renewal that spent it is
    about to replace it (`Replacing`). This needs that without a marker the profile's token
    differs from the active one, from which a renewal starts, since nothing would
    replace it there. `CredentialsUsable` follows, as between commands nothing is being saved.
* `DaemonLock_proofs`: `IInv` and `Exclusive`: as long as the history is `clean`, a lock
  file names its holder and its holder only, and whoever is to remove a file, or has
  found its owner dead, does so to a file that is gone already (`Sound`). The second part
  is what a creation under its eyes would break.
* `TunnelServer_proofs`: `IInv`: the channels are as long as there are goroutines
  that hold a slot (cardinalities of sets, so leaving needs membership), an open
  session that was replaced is in `drains`, the active one is not, an open
  stream has a holder; `NewestStays`, `NoOrphanStream`, and `RawBounded`, because
  the connections counted are among those that have a slot.

Assumptions are the named `ASSUME`s of the modules: sentinels differ from what
they stand for, bounds are natural numbers, sets of processes (`TunnelChange`), of
goroutines and headers (`PublicTraffic`) are finite. The only one about time is that of
the limiter. TLC evaluates them in every run.

Only model-checked: all liveness (`CallsReturn`, `Disconnects`, `Readopts`,
`DropsOldConfig`, `CommandsEnd`, `ForegroundEnds`, `RelayFailureEnds`,
`DaemonComesUp`, `SupersededEnds`, `DialReturns`), since fairness and ENABLED are
out of the prover's reach. Every invariant and every action property that a passing run
checks has its theorem. `CredentialsUsable` is proved for any number of processes, failures
and generations, of one profile and of renewals that overlap, as in the run (see
"What the code does otherwise" for two profiles). No module uses RECURSIVE operators,
and nothing is proved by induction over data.

## Not modelled

* Routes, targets, inspection, protocol templates, hints, formatting, the parsing
  and validation of YAML and flags: stateless, and enumerated by the tests.
* In the modelled parts: wording and output, the content of records beyond what
  the properties tell apart, PID reuse, Windows variants of locks and signals,
  temporary files that a crash leaves behind (nobody reads them).
* `Credentials`: commands other than renewals take no lock, and would break each
  other's files when they overlap; the model runs them one at a time. A death
  between the two files of a pair is left out.
* `TunnelResources`: the ACME account's key, `UpdateTunnelResources`, the inside
  of `WaitForReady` (a wait in `TunnelChange`).
* Server: TCP over WebSocket (a raw connection without slots), the metrics'
  counters, the shutdown of `Start`; `relayWebSocketAndStream`; yamux itself.
* `ShareLinks`: the expiry of links. `SessionKey`: the cipher, and a `Close` that
  fails after a good `Write`. `DeviceLogin`: on the command line a request takes
  no time.

## Plan

1. The server's shutdown, TCP over WebSocket, and the inside of `WaitForReady`.
2. The operations that something went wrong around (a lost answer, a failed roll-back) in
   `CallsAreOneStep`, with finer flaws in `TunnelChange`.
