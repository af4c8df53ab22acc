------------------------------ MODULE MCParts ------------------------------
(***************************************************************************)
(* The parts of the system that share no state with each other and are     *)
(* small enough for one run: a behaviour is one of whichever of them       *)
(* `part` names, from its initial state, while the others stay where they  *)
(* are.                                                                    *)
(***************************************************************************)
EXTENDS SessionKey, Sequences

CONSTANTS Parts, \* those that are checked
          None,  \* no request, no file, no name
          Procs, \* processes that run commands
          MaxFaults

\* Each part's own, which its module explains.
CONSTANTS Requests, Clients, Overflow, Limit, Window, MaxBuckets, Threshold, PruneInterval,
          MaxDelay, MaxClock
CONSTANTS Goroutines, Headers, NoHeader, CacheMax, LogCap, AuditCap, MaxRequests
CONSTANTS Profile, Workspaces, Default, MaxGen \* one profile: see NoneSpent
CONSTANTS Names, Tokens, Limits
CONSTANTS Ups, Tunnels, MaxSeconds
CONSTANTS Waiters, Domains, NoDomain, MaxMoves
CONSTANTS Codes, Profiles, Handlers, Lifetime, Interval, MaxWait, MaxSlow, MaxTime

\* A request waits for the limiter's mutex no longer than a window lasts.
ASSUME LimiterAssumption ==
  /\ Limit \in Nat /\ Window \in Nat /\ MaxBuckets \in Nat \ {0}
  /\ MaxDelay \in 0..Window /\ MaxClock \in Nat \ {0}

ASSUME TrafficAssumption ==
  /\ IsFiniteSet(Goroutines) /\ Goroutines # {} /\ IsFiniteSet(Headers)
  /\ CacheMax \in Nat \ {0} /\ LogCap \in Nat \ {0} /\ AuditCap \in Nat \ {0}

\* The commands that change the credentials.
CredentialCommands ==
  {"refresh", "workspace", "login", "loginProfile", "save", "use", "delete", "logout"}

ASSUME CredentialsAssumption ==
  /\ None \notin Procs \cup CredentialCommands /\ Profile \notin {None, "active"}
  /\ Default \in Workspaces /\ MaxGen \in Nat /\ MaxFaults \in Nat

ASSUME LinksAssumption == None \notin Procs /\ Limits # {}

ASSUME ProjectAssumption == "other" \notin Ups /\ None \notin Ups \cup {"other"}

ASSUME DomainAssumption ==
  /\ None \notin Procs /\ NoDomain \notin Domains
  /\ None \notin [names : Domains, ready : BOOLEAN, issued : Domains \cup {NoDomain}]

ASSUME LoginAssumption ==
  /\ None \notin Codes \cup {"expired", "timeout"}
  /\ Lifetime \in Nat /\ Interval \in Nat /\ MaxWait \in Nat

VARIABLES part,
  clock, waiting, buckets, lastPrune, seen, answer,
  place, header, cache, count, total, logged, nextSeq, audit, start, recorded,
  auth, kube, marker, lock, next, cmd, name, held, config, old, gen, spent, faults,
  time, codes, cli, pending, handler, saved, slow,
  policy, print, mine, served, uneven, opLock, doing, given, gone, barred, limit, slips,
  dns, host, cert, domain, domainLock, adding, noticed, broken, moves, upsets,
  second, made, records, state, up

limiterVars == <<clock, waiting, buckets, lastPrune, seen, answer>>
trafficVars == <<place, header, cache, count, total, logged, nextSeq, audit, start, recorded>>
credentialVars == <<auth, kube, marker, lock, next, cmd, name, held, config, old, gen, spent,
                    faults>>
keyVars == vars
loginVars == <<time, codes, cli, pending, handler, saved, slow>>
linkVars == <<policy, print, mine, served, uneven, opLock, doing, given, gone, barred, limit,
              slips>>
domainVars == <<dns, host, cert, domain, domainLock, adding, noticed, broken, moves, upsets>>
stateVars == <<second, made, records, state, up>>

Limiter == INSTANCE RateLimiter WITH
  Interval <- PruneInterval, MaxTime <- MaxClock, Never <- None, now <- clock

Traffic == INSTANCE PublicTraffic

\* Renewals may meet.
Creds == INSTANCE Credentials WITH
  Profiles <- {Profile}, Commands <- CredentialCommands, Overlap <- {"refresh"}

Login == INSTANCE DeviceLogin WITH now <- time, session <- pending

ShareCommands == INSTANCE ShareLinks WITH
  remote <- policy, digest <- print, local <- mine, pod <- served, skewed <- uneven,
  lock <- opLock, run <- doing, faults <- slips

DomainCommands == INSTANCE DomainAttach WITH
  ingress <- host, local <- domain, lock <- domainLock,
  run <- adding, seen <- noticed, faults <- upsets

Project == INSTANCE ProjectState WITH MaxTime <- MaxSeconds, now <- second

LimiterRuns(A) ==
  /\ part = "limiter" /\ A
  /\ UNCHANGED <<part, trafficVars, credentialVars, keyVars, loginVars,
                 linkVars, domainVars, stateVars>>
TrafficRuns(A) ==
  /\ part = "traffic" /\ A
  /\ UNCHANGED <<part, limiterVars, credentialVars, keyVars, loginVars,
                 linkVars, domainVars, stateVars>>
CredentialsRun(A) ==
  /\ part = "credentials" /\ A
  /\ UNCHANGED <<part, limiterVars, trafficVars, keyVars, loginVars,
                 linkVars, domainVars, stateVars>>
KeyRuns(A) ==
  /\ part = "key" /\ A
  /\ UNCHANGED <<part, limiterVars, trafficVars, credentialVars, loginVars,
                 linkVars, domainVars, stateVars>>
CommandLineRuns(A) ==
  /\ part = "command line" /\ A
  /\ UNCHANGED <<part, limiterVars, trafficVars, credentialVars, keyVars,
                 linkVars, domainVars, stateVars>>
ConsoleRuns(A) ==
  /\ part = "console" /\ A
  /\ UNCHANGED <<part, limiterVars, trafficVars, credentialVars, keyVars,
                 linkVars, domainVars, stateVars>>
LinksRun(A) ==
  /\ part = "links" /\ A
  /\ UNCHANGED <<part, limiterVars, trafficVars, credentialVars, keyVars,
                 loginVars, domainVars, stateVars>>
DomainRuns(A) ==
  /\ part = "domain" /\ A
  /\ UNCHANGED <<part, limiterVars, trafficVars, credentialVars, keyVars,
                 loginVars, linkVars, stateVars>>
ProjectRuns(A) ==
  /\ part = "project" /\ A
  /\ UNCHANGED <<part, limiterVars, trafficVars, credentialVars, keyVars,
                 loginVars, linkVars, domainVars>>

all == <<part, limiterVars, trafficVars, credentialVars, keyVars, loginVars, linkVars,
         domainVars, stateVars>>

PartsInit ==
  /\ part \in Parts
  /\ Limiter!Init /\ Traffic!Init /\ Creds!Init /\ Init
  /\ Login!Init
  /\ ShareCommands!Init /\ DomainCommands!Init /\ Project!Init
  /\ part # "domain" => dns = {}

PartsNext ==
  \/ LimiterRuns(Limiter!Next)
  \/ TrafficRuns(Traffic!Next)
  \/ CredentialsRun(Creds!Next)
  \/ KeyRuns(Next)
  \/ CommandLineRuns(Login!CliNext)
  \/ ConsoleRuns(Login!ConsoleNext)
  \/ LinksRun(ShareCommands!Next)
  \/ DomainRuns(DomainCommands!Next)
  \/ ProjectRuns(Project!Next)

PartsSpec == PartsInit /\ [][PartsNext]_all
-----------------------------------------------------------------------------
(* What each part promises: the properties of its module, which say more; that of the  *)
(* session key, which this module extends, is KeyOpensAll.                             *)

\* No pruning and no crowd of clients gives a client a new bucket before its window is
\* over, or makes the table outgrow its bound (access_policy.go:209-253).
LimiterHolds ==
  [][part = "limiter" => Limiter!NotRefilledBy /\ Limiter!TableBounded']_limiterVars

\* The cache of good headers stays near its maximum however its flushes meet, and the
\* log and the audit list the newest requests in order (server.go:435-492, 837-851).
TrafficBounded == part = "traffic" => Traffic!KeepsBounded

\* auth.json and kubeconfig belong together after any one failure, and no command keeps
\* or presents a refresh token that is spent (auth_refresh.go:97-161, config.go:238-271).
CredentialsUsable == part = "credentials" => Creds!CredentialsUsable

\* A device login is saved once, as the profile it was started for, whatever login is
\* begun meanwhile; the command line sees every grant that comes in time, and polls no
\* longer than the code lasts (ui_api.go:432-502, auth.go:218-281).
LoginSound == part \in {"command line", "console"} => Login!LoginSound

\* No command that changes the access policy drops a link that was given out, nor lets a
\* revoked one in again (share.go:128-331, policy.go:163-184).
LinksHold == part = "links" => ShareCommands!LinksHold

\* A domain is attached only if its CNAME led here under the lock, is reported ready only
\* if all of it was so in one round, and is the same in Ingress, Certificate and record
\* between commands (domain.go:123-151, 300-397, 696-801).
DomainHolds == [][part = "domain" => DomainCommands!HoldsBy]_domainVars

\* An up writes down the tunnel that it made itself, if nobody interferes and the store
\* can be read, and removes the state of a tunnel that is gone only, unless another up
\* writes one between its comparison and the removal (up.go:106-157, 937-957, 996-1033).
StateKept == [][part = "project" => Project!StateBy]_stateVars
=============================================================================
