---------------------------- MODULE DomainAttach ----------------------------
(***************************************************************************)
(* The custom domain of one HTTPS tunnel: domain add, with or without      *)
(* --wait, and domain clear (cmd/domain.go).  A domain is attached by a    *)
(* Certificate that names it and by its host in the Ingress, under the     *)
(* tunnel's operation lock; the waits before and after that hold no lock.  *)
(*                                                                         *)
(* The owner of the DNS zone points a domain here or takes it away, and    *)
(* cert-manager issues the certificate and reports on it, at any time;     *)
(* both are external.                                                      *)
(***************************************************************************)
EXTENDS Naturals

CONSTANTS Procs,    \* processes, each of which runs one of these commands
          Waiters,  \* those that may use --wait
          Domains,  \* custom domains
          NoDomain, \* CustomDomain = ""
          None,     \* no process, no certificate
          MaxMoves, \* bound: changes of the DNS zones
          MaxFaults \* bound: calls that fail, answers that are lost

VARIABLES dns,     \* the domains whose CNAME leads here
          ingress, \* the custom host of the Ingress
          cert,    \* the Certificate, its status, and what the Secret it made is for
          local,   \* the domain of the record
          lock,    \* the holder of the operation lock
          run,     \* what each process is doing
          seen,    \* history: of the domain a process is about, that its CNAME led
                   \* here, that the Ingress had it, that its Certificate was ready
          broken,  \* an undo failed, and no command has set it right since
          moves, faults

vars == <<dns, ingress, cert, local, lock, run, seen, broken, moves, faults>>

Hosts == Domains \cup {NoDomain}
Certs == [names : Domains, ready : BOOLEAN, issued : Hosts]
Commands == [want : Domains, wait : BOOLEAN] \cup [want : {NoDomain}, wait : {FALSE}]

\* was: the domain and the Certificate before the change; sess: the domain waited for.
TypeOK ==
  /\ dns \subseteq Domains /\ ingress \in Hosts /\ local \in Hosts
  /\ cert \in Certs \cup {None} /\ lock \in Procs \cup {None}
  /\ run \in [Procs -> [pc : {"idle", "early", "lock", "require", "cert", "ingress", "undo",
                              "uncert", "save", "revert", "find", "dns", "host", "ready"},
                        want : Hosts, wait : BOOLEAN, was : Hosts,
                        cert : Certs \cup {None}, sess : Hosts]]
  /\ seen \in [Procs -> SUBSET {"led", "had", "sure"}]
  /\ broken \in BOOLEAN
  /\ moves \in 0..MaxMoves /\ faults \in 0..MaxFaults

Idle == [pc |-> "idle", want |-> NoDomain, wait |-> FALSE, was |-> NoDomain,
         cert |-> None, sess |-> NoDomain]

Init ==
  /\ dns \in SUBSET Domains
  /\ ingress = NoDomain /\ local = NoDomain /\ cert = None
  /\ lock = None /\ run = [p \in Procs |-> Idle]
  /\ seen = [p \in Procs |-> {}]
  /\ broken = FALSE /\ moves = 0 /\ faults = 0
-----------------------------------------------------------------------------
(* The history, which no command reads: what was so of the domain that the process is *)
(* about, from the lock to the Ingress, or in the present round of the wait.           *)

About(r) ==
  IF r.pc \in {"require", "cert", "ingress"} THEN {r.want}
  ELSE IF r.pc \in {"dns", "host", "ready"} THEN {r.sess} ELSE {}

Facts(domains, zone, host, c) ==
  {f \in {"led", "had", "sure"} :
     \E d \in domains : \/ f = "led" /\ d \in zone
                        \/ f = "had" /\ d = host
                        \/ f = "sure" /\ c # None /\ c.ready /\ c.names = d}

\* p begins anew; nothing is kept of a process that is about nothing.
Remember(begin) ==
  seen' = [p \in Procs |->
    IF About(run'[p]) = {} THEN {}
    ELSE Facts(About(run'[p]), dns', ingress', cert') \cup (IF p \in begin THEN {} ELSE seen[p])]

Keep == Remember({})
Forget(q) == Remember({q})
-----------------------------------------------------------------------------
(* The commands. *)

At(p, place) == run[p].pc = place
Go(p, place) == run' = [run EXCEPT ![p].pc = place]
End(p) == run' = [run EXCEPT ![p] = Idle]
Fault == faults < MaxFaults /\ faults' = faults + 1
NoFault == UNCHANGED faults
Release(p) == lock' = IF lock = p THEN None ELSE lock

\* refreshSessionFromRemote, which takes the lock for itself; its errors are ignored.
Refreshed == (lock = None /\ local' = ingress) \/ UNCHANGED local

\* With --wait, planSessionCustomDomain comes first.
Begin(p) ==
  /\ At(p, "idle")
  /\ \E c \in Commands :
       /\ IF c.wait THEN p \in Waiters /\ Refreshed ELSE UNCHANGED local
       /\ run' = [run EXCEPT ![p].pc = IF c.wait THEN "early" ELSE "lock",
                             ![p].want = c.want, ![p].wait = c.wait]
  /\ UNCHANGED <<dns, ingress, cert, lock, broken, moves, faults>> /\ Keep

\* waitForDomainCNAMEReady, before the lock; the timeout may come while it does not lead here.
WaitEarly(p) ==
  /\ At(p, "early")
  /\ IF run[p].want \in dns THEN Go(p, "lock") ELSE End(p)
  /\ UNCHANGED <<dns, ingress, cert, local, lock, broken, moves, faults>> /\ Keep

\* refreshSessionFromRemoteLocked; an add then asks the DNS again, a clear goes on.
TakeLock(p) ==
  /\ At(p, "lock") /\ lock = None
  /\ \/ /\ lock' = p /\ local' = ingress /\ NoFault
        /\ run' = [run EXCEPT ![p].was = ingress, ![p].cert = cert, ![p].pc =
                     IF run[p].want = NoDomain THEN "ingress" ELSE "require"]
     \/ UNCHANGED <<lock, local>> /\ Fault /\ End(p)
  /\ UNCHANGED <<dns, ingress, cert, broken, moves>> /\ Forget(p)

\* Fault: whoever waited for the CNAME need not ask again.
LeadsHereEarlier(p) == run[p].wait \/ run[p].want \in dns

\* requireDomainCNAME.
LeadsHere(p) == run[p].want \in dns

Require(p) ==
  /\ At(p, "require")
  /\ IF LeadsHere(p) THEN Go(p, "cert") /\ UNCHANGED lock ELSE End(p) /\ Release(p)
  /\ UNCHANGED <<dns, ingress, cert, local, broken, moves, faults>> /\ Keep

\* applyDynamicResource of the Certificate: its spec; the status and the Secret stay.
Naming(d) ==
  IF cert = None THEN [names |-> d, ready |-> FALSE, issued |-> NoDomain]
  ELSE [cert EXCEPT !.names = d]

\* ensureCustomDomainResources, of which an answer may be lost.
SetCert(p) ==
  /\ At(p, "cert")
  /\ \/ cert' = Naming(run[p].want) /\ NoFault /\ Go(p, "ingress")
     \/ cert' \in {cert, Naming(run[p].want)} /\ Fault /\ Go(p, "undo")
  /\ UNCHANGED <<dns, ingress, local, lock, broken, moves>> /\ Keep

\* ensureIngressForHost.  A clear has only this, and then the Certificate, to fail.
SetIngress(p) ==
  /\ At(p, "ingress")
  /\ UNCHANGED <<dns, cert, local, moves>>
  /\ \/ /\ ingress' = run[p].want /\ NoFault
        /\ Go(p, IF run[p].want = NoDomain THEN "uncert" ELSE "save")
        /\ UNCHANGED <<lock, broken>>
     \/ /\ ingress' \in {ingress, run[p].want} /\ Fault
        /\ broken' = (broken \/ ingress' # ingress)
        /\ IF run[p].want = NoDomain THEN End(p) /\ Release(p)
           ELSE Go(p, "undo") /\ UNCHANGED lock
  /\ Keep

\* cleanupCreated and restoreDynamicResource: the Certificate as it was.
Undo(p) ==
  /\ At(p, "undo")
  /\ \/ /\ cert' = IF run[p].cert = None THEN None ELSE Naming(run[p].cert.names)
        /\ NoFault /\ UNCHANGED broken
     \/ UNCHANGED cert /\ Fault /\ broken' = TRUE
  /\ End(p) /\ Release(p)
  /\ UNCHANGED <<dns, ingress, local, moves>> /\ Keep

\* cleanupCustomDomainResources; the domain is cleared even if a Certificate is left.
ClearCert(p) ==
  /\ At(p, "uncert") /\ Go(p, "save")
  /\ \/ cert' = None /\ NoFault /\ UNCHANGED broken
     \/ UNCHANGED cert /\ Fault /\ broken' = (broken \/ cert # None)
  /\ UNCHANGED <<dns, ingress, local, lock, moves>> /\ Keep

Right(p) ==
  IF run[p].want = NoDomain THEN cert = None ELSE cert # None /\ cert.names = run[p].want

\* session.Update.
Save(p) ==
  /\ At(p, "save")
  /\ \/ /\ local' = run[p].want /\ NoFault /\ Release(p)
        /\ broken' = IF Right(p) THEN FALSE ELSE broken
        /\ IF run[p].wait THEN run' = [run EXCEPT ![p] = [Idle EXCEPT !.pc = "find"]] ELSE End(p)
     \/ UNCHANGED <<local, lock, broken>> /\ Fault /\ Go(p, "revert")
  /\ UNCHANGED <<dns, ingress, cert, moves>> /\ Keep

\* restoreRemoteCustomDomain, with the whole of ConfigureCustomDomain or ClearCustomDomain.
Revert(p) ==
  /\ At(p, "revert")
  /\ \/ /\ ingress' = run[p].was
        /\ cert' = IF run[p].was = NoDomain THEN None ELSE Naming(run[p].was)
        /\ broken' = FALSE /\ NoFault
     \/ UNCHANGED <<ingress, cert>> /\ Fault /\ broken' = TRUE
  /\ End(p) /\ Release(p)
  /\ UNCHANGED <<dns, local, moves>> /\ Keep
-----------------------------------------------------------------------------
(* The wait of domain add --wait, for the domain that the record has by then. *)

\* waitForSessionDomain reads the record anew.
Find(p) ==
  /\ At(p, "find") /\ Refreshed
  /\ IF local' = NoDomain THEN End(p)
     ELSE run' = [run EXCEPT ![p].pc = "dns", ![p].sess = local']
  /\ UNCHANGED <<dns, ingress, cert, lock, broken, moves, faults>> /\ Forget(p)

\* One reading of a round; what is not ready begins the next round, or is the timeout.
Reads(p, place, holds, next) ==
  /\ At(p, place)
  /\ UNCHANGED <<dns, ingress, cert, local, lock, broken, moves, faults>>
  /\ IF holds THEN IF next = "over" THEN End(p) ELSE Go(p, next)
     ELSE Go(p, "dns") \/ End(p)
  /\ IF run'[p].pc = "dns" THEN Forget(p) ELSE Keep

\* verifyDomainCNAME, and the diagnostics of the Ingress and of the Certificate.
ReadDns(p) == Reads(p, "dns", run[p].sess \in dns, "host")
ReadIngress(p) == Reads(p, "host", ingress = run[p].sess, "ready")
CertificateReady(p) == cert # None /\ cert.ready /\ cert.names = run[p].sess
ReadCertificate(p) == Reads(p, "ready", CertificateReady(p), "over")
-----------------------------------------------------------------------------
(* The zone and cert-manager. *)

MoveDns ==
  /\ moves < MaxMoves /\ moves' = moves + 1
  /\ \E d \in Domains : dns' = IF d \in dns THEN dns \ {d} ELSE dns \cup {d}
  /\ UNCHANGED <<ingress, cert, local, lock, run, broken, faults>> /\ Keep

Manage ==
  /\ cert # None
  /\ \/ cert.names \in dns /\ cert.issued # cert.names
          /\ cert' = [cert EXCEPT !.issued = cert.names]
     \/ cert.ready # (cert.issued = cert.names)
          /\ cert' = [cert EXCEPT !.ready = ~@]
  /\ UNCHANGED <<dns, ingress, local, lock, run, broken, moves, faults>> /\ Keep

Step(p) ==
  \/ WaitEarly(p) \/ TakeLock(p) \/ Require(p) \/ SetCert(p) \/ SetIngress(p) \/ Undo(p)
  \/ ClearCert(p) \/ Save(p) \/ Revert(p)
  \/ Find(p) \/ ReadDns(p) \/ ReadIngress(p) \/ ReadCertificate(p)

Next == (\E p \in Procs : Begin(p) \/ Step(p)) \/ MoveDns \/ Manage

Spec == Init /\ [][Next]_vars
-----------------------------------------------------------------------------
(* Properties. *)

\* The Ingress gets a domain only if its CNAME has led here since the command took the
\* lock: what the wait saw before that may be over (domain.go:317-325).  A failed
\* command puts back a domain that was checked when it was attached.
OnlyCheckedAttached ==
  \A p \in Procs : At(p, "ingress") /\ ingress' # ingress /\ ingress' \in Domains
                     => "led" \in seen[p]

\* domain add --wait reports ready only if within one round the CNAME led here, the
\* Ingress had the host and the Certificate that named it was ready, all for one domain
\* (domain.go:753-801).
ReadyIsWhole ==
  \A p \in Procs : At(p, "ready") /\ CertificateReady(p) /\ run'[p].pc = "idle"
                     => seen[p] = {"led", "had", "sure"}

\* Between commands the Ingress, the Certificate and the record have the same domain,
\* unless an undo failed (client.go:1482-1507, domain.go:327-334).
DomainsAgree ==
  lock = None /\ ~broken
    => /\ local = ingress
       /\ IF ingress = NoDomain THEN cert = None ELSE cert # None /\ cert.names = ingress

HoldsBy == OnlyCheckedAttached /\ ReadyIsWhole /\ DomainsAgree'
DomainHolds == [][HoldsBy]_vars

\* What ready seems to say: not so while the status is the one of the domain before.
ReadyIsIssued ==
  [][\A p \in Procs : At(p, "ready") /\ CertificateReady(p) /\ run'[p].pc = "idle"
                        => cert.issued = run[p].sess]_vars
=============================================================================
