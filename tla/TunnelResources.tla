--------------------------- MODULE TunnelResources ---------------------------
(***************************************************************************)
(* The Kubernetes objects of one tunnel and the operations of              *)
(* pkg/k8s/client.go on them, call by call: EnsureTunnelWithOptions with   *)
(* its roll-back, ConfigureCustomDomain, ClearCustomDomain, CleanupTunnel  *)
(* and ScaleTunnel.  Commands hold the lock of the tunnel, so one          *)
(* operation runs at a time; it may die between two calls, and each call   *)
(* may fail with or without having had its effect.                         *)
(*                                                                         *)
(* An apply is a Get, a check of the label and a Create or an Update that  *)
(* carries the resource version, so one step: what comes in between makes  *)
(* the call fail.  Objects of others are there from the start.             *)
(***************************************************************************)
EXTENDS Naturals

CONSTANTS Configs,   \* what a tunnel may be asked to be: auth is the content of
                     \* its auth Secret (secret, basic auth, policy), domain its
                     \* custom domain, raw whether it has a TCP port
          NoDomain,  \* opts.CustomDomain = ""
          Squatted,  \* the kinds of which others may own the object of that name
          Absent,    \* there is no object of that name
          Foreign,   \* there is one without Sealtun's label
          Perils,    \* what happens beside failing calls: "crash" (of the
                     \* process), "rival" (another machine changes the tunnel),
                     \* "lost" (a call has its effect and fails)
          MaxFaults, \* bound: calls that fail for no reason of their own, deaths
                     \* of the process and changes of the rival
          None       \* no value

Auths == {c.auth : c \in Configs}
Hosts == {c.domain : c \in Configs} \ {NoDomain}

\* EnsureTunnelWithOptions rejects a custom domain of a raw TCP tunnel.
ConfigsAssumption ==
  /\ \A c \in Configs : c = [auth |-> c.auth, domain |-> c.domain, raw |-> c.raw]
  /\ \A c \in Configs : c.raw \in BOOLEAN /\ (c.raw => c.domain = NoDomain)

FaultsAssumption == MaxFaults \in Nat /\ Perils \subseteq {"crash", "rival", "lost"}

Kinds == {"secret", "deployment", "service", "tcp", "issuer", "certificate",
          "ingress", "tls"}

\* What Sealtun's object of a kind holds.  A Deployment holds the digest of the
\* configuration in its pod template.
Managed(k) ==
  CASE k = "secret"                     -> Auths
    [] k = "deployment"                 -> [auth : Auths, replicas : {0, 1}]
    [] k \in {"service", "tcp", "issuer"} -> {"own"}
    [] k = "certificate"                -> Hosts
    [] k = "ingress"                    -> Hosts \cup {NoDomain}
    [] k = "tls"                        -> {"labelled", "annotated"}

\* The sentinels are no contents of an object.
SentinelAssumption ==
  /\ Absent # Foreign
  /\ \A k \in Kinds : {Absent, Foreign} \cap Managed(k) = {}
  /\ None \notin Auths \cup Hosts \cup {"own", Absent, Foreign}

VARIABLES cluster,  \* the object of each kind
          op,       \* the operation and its argument
          phase,    \* "idle", "apply", "clean" or "undo"
          todo,     \* the calls that are left, made in their Order
          made,     \* created: the kinds of the objects this operation created
          saved,    \* the snapshots it took
          result,   \* what the last operation returned
          before,   \* cluster when it began, as long as a property asks for it
          faults,   \* how many there were
          flaws     \* what went wrong around it: "lost" (a call that failed had
                    \* its effect), "call" (one of a clean-up failed), "undo"
                    \* (one of the roll-back failed), "rival"

calls == <<op, phase, todo, made, saved, result, before>>
vars == <<cluster, op, phase, todo, made, saved, result, before, faults, flaws>>

Ensures == [name : {"ensure"}, config : Configs]
Others ==
  [name : {"configure"}, config : {c \in Configs : c.domain # NoDomain /\ ~c.raw}]
    \cup [name : {"clear", "cleanup", "pause", "resume", "idle"}, config : {None}]

NoSnapshots == [secret |-> None, applied |-> None, issuer |-> None, certificate |-> None]

\* Fault: the Ingress is changed before the Deployment is.
OrderIngressFirst ==
  [apply |-> <<"core", "secret", "ingress", "deployment", "service", "tcp", "snapshot",
               "slot", "issuer", "certificate", "port", "scale">>,
   clean |-> <<"read", "certificate", "tls", "issuer", "secret", "deployment",
               "service", "tcp", "ingress">>,
   undo  |-> <<"drop", "ingress", "certificate", "issuer", "tcp", "service",
               "deployment", "secret", "secret back", "issuer back",
               "certificate back">>]

\* The calls of a phase, in the order in which the code makes them.
Order ==
  [apply |-> <<"core", "secret", "deployment", "service", "tcp", "snapshot", "slot",
               "issuer", "certificate", "ingress", "port", "scale">>,
   clean |-> <<"read", "certificate", "tls", "issuer", "secret", "deployment",
               "service", "tcp", "ingress">>,
   undo  |-> <<"drop", "ingress", "certificate", "issuer", "tcp", "service",
               "deployment", "secret", "secret back", "issuer back",
               "certificate back">>]

Cleaning == {"read", "certificate", "tls", "issuer"}
ForDomain == {"snapshot", "slot", "issuer", "certificate"}

Steps(o) ==
  CASE o.name = "ensure" ->
         {"secret", "deployment", "service", "tcp", "ingress"}
           \cup (IF o.config.domain = NoDomain THEN {} ELSE ForDomain)
           \cup (IF o.config.raw THEN {"port"} ELSE {})
    [] o.name = "configure" -> {"core", "ingress"} \cup ForDomain
    [] o.name = "clear" -> {"core", "ingress"}
    [] o.name = "cleanup" ->
         Cleaning \cup {"secret", "deployment", "service", "tcp", "ingress"}
    [] o.name \in {"pause", "resume"} -> {"scale"}

TypeOK ==
  /\ DOMAIN cluster = Kinds
  /\ \A k \in Kinds : cluster[k] \in Managed(k) \cup {Absent, Foreign}
  /\ op \in Ensures \cup Others
  /\ phase \in {"idle", "apply", "clean", "undo"}
  /\ made \subseteq Kinds
  /\ saved.secret \in Auths \cup {None} /\ saved.applied \in Auths \cup {None}
  /\ saved.issuer \in Managed("issuer") \cup {Absent, Foreign, None}
  /\ saved.certificate \in Hosts \cup {Absent, Foreign, None}
  /\ result \in {"none", "ok", "error"}
  /\ faults \in 0..MaxFaults
  /\ flaws \subseteq {"lost", "call", "undo", "rival"}
  /\ phase = "idle" => todo = {}
  /\ phase = "undo" => op.name \in {"ensure", "configure"}

Init ==
  /\ cluster \in {[k \in Kinds |-> IF k \in s THEN Foreign ELSE Absent] :
                    s \in SUBSET Squatted}
  /\ op = [name |-> "idle", config |-> None]
  /\ phase = "idle" /\ todo = {}
  /\ made = {} /\ saved = NoSnapshots
  /\ result = "none" /\ before = cluster
  /\ faults = 0 /\ flaws = {}

\* Something goes wrong, for which the model has so many occasions.
Fault(f) ==
  /\ faults < MaxFaults
  /\ "lost" \in f => "lost" \in Perils
  /\ faults' = faults + 1
  /\ flaws' = flaws \cup f

NoFault == UNCHANGED <<faults, flaws>>

\* Fault: whatever has the name is taken for Sealtun's.
OwnByName(k) == cluster[k] # Absent

Own(k) == cluster[k] \notin {Absent, Foreign}

Start(o) ==
  /\ phase = "idle"
  /\ op' = o
  /\ phase' = IF o.name = "cleanup" THEN "clean" ELSE "apply"
  /\ todo' = Steps(o)
  /\ made' = {} /\ saved' = NoSnapshots
  /\ result' = "none" /\ before' = cluster /\ flaws' = {}
  /\ UNCHANGED <<cluster, faults>>

\* What remains to be said of the objects as they were before.
Judged(r) ==
  \/ op.name \in {"ensure", "configure"} /\ r = "error"
  \/ op.name = "cleanup" /\ r = "ok"

Finish(r) ==
  /\ phase' = "idle" /\ todo' = {}
  /\ made' = {} /\ saved' = NoSnapshots
  /\ result' = r
  /\ before' = IF Judged(r) THEN before ELSE cluster
  /\ UNCHANGED op
-----------------------------------------------------------------------------
(* The calls that make the objects what the configuration says. *)

Desired(k) ==
  CASE k = "secret"              -> op.config.auth
    [] k = "deployment"          -> [auth |-> op.config.auth, replicas |-> 1]
    [] k \in {"certificate", "ingress"} ->
         IF op.name = "clear" THEN NoDomain ELSE op.config.domain
    [] OTHER                     -> "own"

Put(k, v) == cluster' = [cluster EXCEPT ![k] = v]

\* The deferred function: the created objects, the last one first, then the updated
\* Secret, then the snapshots.  A failed Certificate takes the Issuer made for it along
\* first.
Undoing(call, m, s) ==
  (IF call = "certificate" /\ "issuer" \in m THEN (m \ {"issuer"}) \cup {"drop"} ELSE m)
    \cup (IF s.applied # None THEN {"secret back"} ELSE {})
    \cup (IF s.issuer # None THEN {"issuer back", "certificate back"} ELSE {})

\* The first error ends an apply: with the roll-back, where there is one.
Fail(call) ==
  IF op.name \in {"ensure", "configure"}
    THEN /\ phase' = "undo"
         /\ todo' = Undoing(call, made', saved')
         /\ UNCHANGED <<op, result, before>>
    ELSE Finish("error")

\* It is time for a call when it is the first of those that are left.
Turn(p, call) ==
  /\ phase = p /\ call \in todo
  /\ LET order == Order[p]
     IN  \E i \in DOMAIN order :
           order[i] = call /\ \A j \in 1..(i - 1) : order[j] \notin todo

Proceed(call) ==
  /\ todo' = todo \ {call}
  /\ UNCHANGED <<op, phase, result, before>>

\* A call that changes nothing, or fails.
Look(call, good) ==
  /\ Turn("apply", call)
  /\ UNCHANGED <<cluster, made, saved>>
  /\ \/ good /\ NoFault /\ Proceed(call)
     \/ ~good /\ NoFault /\ Fail(call)
     \/ good /\ Fault({}) /\ Fail(call)

\* ensureAuthSecret remembers what it replaced.
Replaced(k) ==
  IF k = "secret" /\ Own(k) /\ cluster[k] # Desired(k)
    THEN [saved EXCEPT !.secret = cluster[k], !.applied = Desired(k)]
    ELSE saved

Apply(k) ==
  /\ Turn("apply", k)
  /\ k = "tcp" => op.config.raw
  /\ \/ /\ cluster[k] # Foreign
        /\ Put(k, Desired(k))
        /\ made' = IF cluster[k] = Absent THEN made \cup {k} ELSE made
        /\ saved' = Replaced(k)
        /\ NoFault
        /\ Proceed(k)
     \/ /\ cluster[k] # Foreign      \* the answer of the call is lost
        /\ Put(k, Desired(k))
        /\ Fault({"lost"})
        /\ UNCHANGED <<made, saved>>
        /\ Fail(k)
     \/ /\ IF cluster[k] = Foreign THEN NoFault ELSE Fault({})
        /\ UNCHANGED <<cluster, made, saved>>
        /\ Fail(k)

ApplySecret == Apply("secret")
ApplyDeployment == Apply("deployment")
ApplyService == Apply("service")
ApplyTCPService == Apply("tcp")
ApplyIssuer == Apply("issuer")
ApplyCertificate == Apply("certificate")
ApplyIngress == Apply("ingress")

\* A tunnel without a raw TCP port has no second Service.
DropStaleService ==
  /\ Turn("apply", "tcp") /\ ~op.config.raw
  /\ UNCHANGED <<made, saved>>
  /\ \/ /\ IF Own("tcp") THEN Put("tcp", Absent) ELSE UNCHANGED cluster
        /\ NoFault
        /\ Proceed("tcp")
     \/ /\ Own("tcp") /\ Put("tcp", Absent)
        /\ Fault({"lost"})
        /\ Fail("tcp")
     \/ UNCHANGED cluster /\ Fault({}) /\ Fail("tcp")

Snapshot ==
  /\ Turn("apply", "snapshot")
  /\ UNCHANGED <<cluster, made>>
  /\ \/ /\ NoFault
        /\ saved' = [saved EXCEPT !.issuer = cluster["issuer"],
                                  !.certificate = cluster["certificate"]]
        /\ Proceed("snapshot")
     \/ Fault({}) /\ UNCHANGED saved /\ Fail("snapshot")

\* The TLS Secret of a managed Certificate, by its label or its annotation.
SecretOwned(cert) ==
  \/ cluster["tls"] = "labelled"
  \/ cluster["tls"] = "annotated" /\ cert \in Hosts

CheckSlot == Look("slot", cluster["tls"] = Absent \/ SecretOwned(cluster["certificate"]))

CheckCore == Look("core", Own("deployment") /\ Own("service"))

\* The port of the raw TCP Service, which may not have been given one.
CheckPort == Look("port", Own("tcp"))

Scale ==
  /\ Turn("apply", "scale")
  /\ LET n == IF op.name = "pause" THEN 0 ELSE 1
     IN  \/ /\ Own("deployment")
            /\ Put("deployment", [cluster["deployment"] EXCEPT !.replicas = n])
            /\ \/ NoFault /\ Proceed("scale")
               \/ Fault({"lost"}) /\ Fail("scale")
         \/ /\ IF Own("deployment") THEN Fault({}) ELSE NoFault
            /\ UNCHANGED cluster /\ Fail("scale")
  /\ UNCHANGED <<made, saved>>

\* All calls are made: a clear goes on to the certificate, the others return.
Applied ==
  /\ phase = "apply" /\ todo = {}
  /\ \/ /\ op.name = "clear"
        /\ phase' = "clean" /\ todo' = Cleaning
        /\ UNCHANGED <<op, made, saved, result, before>>
     \/ op.name # "clear" /\ Finish("ok")
  /\ UNCHANGED <<cluster, faults, flaws>>
-----------------------------------------------------------------------------
(* Removal: of everything (cleanup) or of the certificate (clear).  An error is *)
(* remembered and the next object is tried.                                     *)

\* The Certificate as it is now decides on the TLS Secret later.
ReadCertificate ==
  /\ Turn("clean", "read")
  /\ \/ saved' = [saved EXCEPT !.certificate = cluster["certificate"]] /\ NoFault
     \/ Fault({"call"}) /\ UNCHANGED saved
  /\ Proceed("read")
  /\ UNCHANGED <<cluster, made>>

Removable(k) ==
  IF k = "tls" THEN SecretOwned(saved.certificate) ELSE Own(k)

Remove(k) ==
  /\ Turn("clean", k)
  /\ \/ /\ IF Removable(k) THEN Put(k, Absent) ELSE UNCHANGED cluster
        /\ NoFault
     \/ UNCHANGED cluster /\ Fault({"call"})
     \/ Removable(k) /\ Put(k, Absent) /\ Fault({"call", "lost"})
  /\ Proceed(k)
  /\ UNCHANGED <<made, saved>>

RemoveCertificate == Remove("certificate")
RemoveTLSSecret == Remove("tls")
RemoveIssuer == Remove("issuer")
RemoveCore == \E k \in {"secret", "deployment", "service", "tcp", "ingress"} : Remove(k)

\* Fault: the errors on the way are forgotten.
CleanedAnyway ==
  /\ phase = "clean" /\ todo = {}
  /\ Finish("ok")
  /\ UNCHANGED <<cluster, faults, flaws>>

Cleaned ==
  /\ phase = "clean" /\ todo = {}
  /\ Finish(IF "call" \in flaws THEN "error" ELSE "ok")
  /\ UNCHANGED <<cluster, faults, flaws>>
-----------------------------------------------------------------------------
(* The roll-back of an ensure or a configure. *)

\* cleanupCreated stops at the first error; the rest of the roll-back goes on.
Uncreate(k) ==
  /\ Turn("undo", k)
  /\ \/ /\ IF Own(k) THEN Put(k, Absent) ELSE UNCHANGED cluster
        /\ todo' = todo \ {k}
        /\ NoFault
     \/ /\ UNCHANGED cluster
        /\ todo' = todo \ Kinds
        /\ Fault({"undo"})
  /\ UNCHANGED <<op, phase, made, saved, result, before>>

DropIssuer ==
  /\ Turn("undo", "drop")
  /\ \/ /\ IF Own("issuer") THEN Put("issuer", Absent) ELSE UNCHANGED cluster
        /\ NoFault
     \/ UNCHANGED cluster /\ Fault({})
  /\ todo' = todo \ {"drop"}
  /\ UNCHANGED <<op, phase, made, saved, result, before>>

\* A Secret that is no longer the one applied is left as it is.
RestoreSecret ==
  /\ Turn("undo", "secret back")
  /\ \/ /\ cluster["secret"] = saved.applied
        /\ Put("secret", saved.secret)
        /\ NoFault
     \/ /\ cluster["secret"] # saved.applied
        /\ flaws' = flaws \cup {"undo"} /\ UNCHANGED <<cluster, faults>>
     \/ UNCHANGED cluster /\ Fault({"undo"})
  /\ todo' = todo \ {"secret back"}
  /\ UNCHANGED <<op, phase, made, saved, result, before>>

\* A snapshot of an absent object removes the object, one of a foreign object
\* leaves everything alone.
RestoreDynamic(call, k) ==
  /\ Turn("undo", call)
  /\ \/ /\ IF cluster[k] # Foreign /\ saved[k] # Foreign
             THEN Put(k, saved[k]) ELSE UNCHANGED cluster
        /\ NoFault
     \/ UNCHANGED cluster /\ Fault({"undo"})
  /\ todo' = todo \ {call}
  /\ UNCHANGED <<op, phase, made, saved, result, before>>

Undone ==
  /\ phase = "undo" /\ todo = {}
  /\ Finish("error")
  /\ UNCHANGED <<cluster, faults, flaws>>
-----------------------------------------------------------------------------
(* The others: the process may die, the controllers of the cluster act, and    *)
(* somebody on another machine may change the same tunnel's Secret.            *)

Crash ==
  /\ "crash" \in Perils /\ phase # "idle"
  /\ Fault({}) /\ Finish("none")
  /\ UNCHANGED cluster

IssueCertificate ==
  /\ Own("certificate") /\ Own("issuer") /\ cluster["tls"] = Absent
  /\ \E v \in Managed("tls") : Put("tls", v)
  /\ UNCHANGED <<calls, faults, flaws>>

Rival ==
  /\ "rival" \in Perils /\ Own("secret")
  /\ \E a \in Auths \ {cluster["secret"]} : Put("secret", a)
  /\ Fault({"rival"})
  /\ UNCHANGED calls
-----------------------------------------------------------------------------
Applying ==
  \/ ApplySecret \/ ApplyDeployment \/ ApplyService \/ ApplyTCPService
  \/ ApplyIssuer \/ ApplyCertificate \/ ApplyIngress
  \/ DropStaleService \/ Snapshot \/ CheckSlot \/ CheckCore \/ CheckPort
  \/ Scale \/ Applied

Removing ==
  \/ ReadCertificate \/ RemoveCertificate \/ RemoveTLSSecret \/ RemoveIssuer
  \/ RemoveCore \/ Cleaned

Undo ==
  \/ \E k \in Kinds : Uncreate(k)
  \/ DropIssuer \/ RestoreSecret \/ Undone
  \/ RestoreDynamic("issuer back", "issuer")
  \/ RestoreDynamic("certificate back", "certificate")

Next ==
  \/ \E o \in Ensures \cup Others : o.name # "idle" /\ Start(o)
  \/ Applying \/ Removing \/ Undo \/ Crash \/ IssueCertificate \/ Rival

Spec == Init /\ [][Next]_vars
-----------------------------------------------------------------------------
(* Properties. *)

\* What a failed ensure or configure leaves (client.go:228-255, 1485-1494):
\* the objects it made are gone; the Secret, the Issuer and the Certificate are
\* as before.  Except where an answer was lost, another client was at work, or
\* the roll-back itself failed (an ensure says so, a configure does not).
FailureUndone ==
  phase = "idle" /\ result = "error" /\ op.name \in {"ensure", "configure"} /\ flaws = {}
    => \A k \in Kinds \ {"tls"} :
         \/ cluster[k] = before[k]
         \/ k \in {"deployment", "service", "tcp", "ingress"} /\ before[k] # Absent

\* A cleanup that reports success has left nothing of the tunnel, whatever state
\* failed, interrupted and repeated operations had left it in.  A TLS Secret that
\* only its annotation ties to the tunnel needs its Certificate to be found.
CleanupComplete ==
  phase = "idle" /\ result = "ok" /\ op.name = "cleanup"
    => \A k \in Kinds : \/ ~Own(k)
                        \/ cluster[k] = "annotated" /\ before["certificate"] = Absent

\* An object that has the name and not Sealtun's label is never written or
\* deleted, by no operation and no roll-back (the checks before each Update and
\* Delete, client.go:417-1779).
OthersUntouchedBy == \A k \in Kinds : cluster[k] = Foreign => cluster'[k] = Foreign
OthersUntouched == [][OthersUntouchedBy]_vars
=============================================================================
