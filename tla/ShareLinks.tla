----------------------------- MODULE ShareLinks -----------------------------
(***************************************************************************)
(* The access policy of one HTTPS tunnel and the temporary links in it:    *)
(* share create, revoke and rotate (cmd/share.go) and policy set           *)
(* (cmd/policy.go), each a change of the whole policy under the tunnel's   *)
(* operation lock.  The policy is in the auth Secret of the cluster, in    *)
(* the record and in the server, which lets a request with a link's token  *)
(* in (accesspolicy.TokenAuthorized).  The server reads the Secret when it *)
(* starts, and is started when the digest of the policy that the           *)
(* Deployment carries changes (client.go:393-410, 668).                    *)
(*                                                                         *)
(* TunnelChange has the tunnel, the daemon and the processes around such a *)
(* change; this module has what is in the policy, and what its users were  *)
(* told.                                                                   *)
(***************************************************************************)
EXTENDS Naturals

CONSTANTS Procs,    \* processes, each of which runs one of these commands
          Names,    \* names of links
          Tokens,   \* tokens; each is generated once
          Limits,   \* rate limits
          None,     \* no process, no command
          MaxFaults \* bound: calls that fail and answers that are lost

VARIABLES remote, \* the policy in the auth Secret
          digest, \* the policy whose digest the Deployment has
          local,  \* the policy of the record
          pod,    \* the server: the digest it was started for, and the policy it runs
          skewed, \* Secret and Deployment differ, or did when the server was started
          lock,   \* the holder of the operation lock
          run,    \* what each process is doing
          given,  \* the links whose URL was shown
          gone,   \* tokens that a revoke or a rotate took out of the Secret
          barred, \* those of them whose command reported success
          limit,  \* the rate limit that was set last
          faults

told == <<given, gone, barred, limit>>
cluster == <<remote, digest, pod, skewed>>
vars == <<cluster, local, lock, run, told, faults>>

\* The order of the links is nothing to anybody, and their expiry, which can only take
\* one away earlier, is left out.
Links == [name : Names, token : Tokens]
Policies == [links : SUBSET Links, limit : Limits]
Commands ==
  [do : {"create", "revoke", "rotate"}, name : Names] \cup [do : {"set"}, limit : Limits]

TypeOK ==
  /\ remote \in Policies /\ digest \in Policies /\ local \in Policies
  /\ pod \in [of : Policies, runs : Policies] /\ skewed \in BOOLEAN
  /\ lock \in Procs \cup {None}
  /\ run \in [Procs -> [pc : {"idle", "sync", "ensure", "save", "ready", "await"},
                        cmd : Commands \cup {None}, sess : Policies, next : Policies,
                        link : Links \cup {None}]]
  /\ faults \in 0..MaxFaults
  /\ given \subseteq Links /\ gone \subseteq Tokens /\ barred \subseteq gone
  /\ limit \in Limits

Empty == [links |-> {}, limit |-> CHOOSE l \in Limits : TRUE]
Idle == [pc |-> "idle", cmd |-> None, sess |-> Empty, next |-> Empty, link |-> None]

Init ==
  /\ remote = Empty /\ digest = Empty /\ local = Empty
  /\ pod = [of |-> Empty, runs |-> Empty] /\ skewed = FALSE
  /\ lock = None
  /\ run = [p \in Procs |-> Idle]
  /\ faults = 0
  /\ given = {} /\ gone = {} /\ barred = {} /\ limit = Empty.limit
-----------------------------------------------------------------------------
(* The policy as a value. *)

TokensOf(links) == {l.token : l \in links}
NamesOf(links) == {l.name : l \in links}

\* TokenAuthorized, for a token in the query.
Accepts(policy, token) == token \in TokensOf(policy.links)

\* generateShareToken.
Unused(t) ==
  /\ t \notin TokensOf(remote.links) \cup gone
  /\ \A p \in Procs : t \notin TokensOf(run[p].next.links)

\* temporaryTokenNameExists and its like: whether the policy lets the command go on.
Applies(c, policy) ==
  CASE c.do = "set"    -> TRUE
    [] c.do = "create" -> c.name \notin NamesOf(policy.links)
    [] OTHER           -> c.name \in NamesOf(policy.links)

\* The link it makes, if it makes one.
LinksFor(c) ==
  IF c.do \in {"create", "rotate"}
    THEN {[name |-> c.name, token |-> t] : t \in {t \in Tokens : Unused(t)}}
    ELSE {None}

Without(links, name) == {l \in links : l.name # name}
Replaced(links, link) == {IF l.name = link.name THEN link ELSE l : l \in links}

\* The policy that the command makes of it, with this link if it makes one.
Changed(c, policy, link) ==
  CASE c.do = "set"    -> [policy EXCEPT !.limit = c.limit]
    [] c.do = "create" -> [policy EXCEPT !.links = @ \cup {link}]
    [] c.do = "revoke" -> [policy EXCEPT !.links = Without(@, c.name)]
    [] c.do = "rotate" -> [policy EXCEPT !.links = Replaced(@, link)]
-----------------------------------------------------------------------------
(* A command.  Nothing is changed before "ensure". *)

At(p, place) == run[p].pc = place
Go(p, place) == run' = [run EXCEPT ![p].pc = place] /\ UNCHANGED lock
Quit(p) == run' = [run EXCEPT ![p] = Idle] /\ lock' = None
Fault == faults < MaxFaults /\ faults' = faults + 1

Begin(p) ==
  /\ At(p, "idle") /\ lock = None
  /\ \E c \in Commands : run' = [run EXCEPT ![p].pc = "sync", ![p].cmd = c]
  /\ lock' = p
  /\ UNCHANGED <<cluster, local, told, faults>>

\* Fault: the record is good enough.
SyncedLocal == local

\* findSessionSyncedLocked: the policy of the cluster replaces that of the record.
Synced == remote

Sync(p) ==
  /\ At(p, "sync")
  /\ UNCHANGED <<cluster, told>>
  /\ \/ /\ local' = Synced /\ UNCHANGED faults
        /\ IF Applies(run[p].cmd, Synced)
             THEN \E link \in LinksFor(run[p].cmd) :
                    /\ run' = [run EXCEPT
                         ![p].pc = "ensure", ![p].sess = Synced, ![p].link = link,
                         ![p].next = Changed(run[p].cmd, Synced, link)]
                    /\ UNCHANGED lock
             ELSE Quit(p)
     \/ UNCHANGED local /\ Fault /\ Quit(p)

\* The policy in the Secret becomes the new one.
Put(p) ==
  /\ remote' = run[p].next
  /\ gone' = IF run[p].cmd.do = "set" THEN gone
             ELSE gone \cup TokensOf({l \in remote.links : l.name = run[p].cmd.name})
  /\ limit' = IF run[p].cmd.do = "set" THEN run[p].cmd.limit ELSE limit

\* EnsureTunnelWithOptions: the Secret, then the Deployment.  When it fails it may have
\* changed the Deployment, which it leaves so; the Secret it puts back, if it can.
Ensure(p) ==
  /\ At(p, "ensure")
  /\ UNCHANGED <<local, pod, given, barred>>
  /\ \/ Put(p) /\ digest' = run[p].next /\ UNCHANGED <<skewed, faults>> /\ Go(p, "save")
     \/ /\ UNCHANGED <<remote, gone, limit>> \/ Put(p)
        /\ digest' \in {digest, run[p].next}
        /\ skewed' = (skewed \/ digest' # remote')
        /\ Fault /\ Quit(p)

\* What the user reads: the URL is shown too if the command failed once it was committed.
Tell(p, success) ==
  /\ given' = IF run[p].link = None THEN given ELSE given \cup {run[p].link}
  /\ barred' = IF success
       THEN barred \cup (TokensOf(run[p].sess.links) \cap gone)
       ELSE barred
  /\ UNCHANGED <<gone, limit>>

Committed(p) == Fault /\ Tell(p, FALSE) /\ Quit(p)

Save(p) ==
  /\ At(p, "save")
  /\ UNCHANGED cluster
  /\ \/ local' = run[p].next /\ UNCHANGED <<told, faults>> /\ Go(p, "ready")
     \/ UNCHANGED local /\ Committed(p)

\* WaitForReady: a server was started for what the Deployment says.  A policy that is as
\* before needs no new connection of the daemon.
Ready(p) ==
  /\ At(p, "ready")
  /\ UNCHANGED <<cluster, local>>
  /\ \/ /\ pod.of = digest /\ UNCHANGED faults
        /\ IF run[p].next = run[p].sess THEN Tell(p, TRUE) /\ Quit(p)
           ELSE UNCHANGED told /\ Go(p, "await")
     \/ Committed(p)

\* waitForDaemonSessionAfter, which TunnelChange has.
Await(p) ==
  /\ At(p, "await")
  /\ UNCHANGED <<cluster, local>>
  /\ \/ Tell(p, TRUE) /\ UNCHANGED faults /\ Quit(p)
     \/ Committed(p)
-----------------------------------------------------------------------------
\* What a server that starts may find in the Secret: an ensure that is at work writes it
\* some time before it ends, and may put it back.
Found == {remote} \cup {run[p].next : p \in {p \in Procs : At(p, "ensure")}}

\* A Deployment that changed starts a server, maybe before a failed ensure put the
\* Secret back.
Rollout ==
  /\ pod.of # digest
  /\ \E c \in Found \cup {digest} :
       /\ pod' = [of |-> digest, runs |-> c]
       /\ skewed' = (c # digest \/ digest # remote)
  /\ UNCHANGED <<remote, digest, local, lock, run, told, faults>>

\* The container restarts by itself.
Restart ==
  /\ \E c \in Found \ {pod.runs} : pod' = [pod EXCEPT !.runs = c]
  /\ skewed' = TRUE
  /\ UNCHANGED <<remote, digest, local, lock, run, told, faults>>

Next ==
  \/ \E p \in Procs :
       Begin(p) \/ Sync(p) \/ Ensure(p) \/ Save(p) \/ Ready(p) \/ Await(p)
  \/ Rollout \/ Restart

Spec == Init /\ [][Next]_vars
-----------------------------------------------------------------------------
(* Properties. *)

\* A token that was revoked or rotated is not in the policy from the moment the command
\* reports success, and never again, whatever other commands do with the policy
\* (share.go:222-331).  The server refuses it too, unless it was started while Secret and
\* Deployment differed: a failed ensure puts back the Secret only, and the revoke that
\* is tried again finds the Deployment up to date and starts no server
\* (client.go:239, 587, 668).
BarredStaysOut ==
  \A t \in barred : t \notin TokensOf(remote.links) /\ (skewed \/ ~Accepts(pod.runs, t))

\* What the command says, without exception: a server refuses a token whose revoke or
\* rotate reported success.  It fails, as README.md shows.
BarredRefused == \A t \in barred : ~Accepts(pod.runs, t)

\* A link whose URL was shown is in the cluster's policy until a revoke or a rotate of
\* it got there, even if the command that made it failed half-way: no command that
\* works on an older copy of the policy drops it (share.go:149-179, 368-372).
GivenStaysIn == \A l \in given : l \in remote.links \/ l.token \in gone

\* Names tell the links of a tunnel apart (share.go:154-156).
NamesDiffer == \A l, m \in remote.links : l.name = m.name => l = m

\* No share command undoes the rate limit that policy set put there (policy.go:163-207).
LimitStays == remote.limit = limit

LinksHold == BarredStaysOut /\ GivenStaysIn /\ NamesDiffer /\ LimitStays
=============================================================================
