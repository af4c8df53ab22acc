----------------------------- MODULE Credentials -----------------------------
(***************************************************************************)
(* The credentials under ~/.sealtun: the active pair auth.json and         *)
(* kubeconfig, a pair for every saved profile, and the marker that names   *)
(* the profile in use (pkg/auth/config.go).  The commands that change them *)
(* are sequences of steps (After); each step reads or replaces one file,   *)
(* or asks the region.  Only the renewal by the refresh token takes a lock *)
(* (cmd/auth_refresh.go), so renewals may overlap each other; two commands *)
(* of which one is not a renewal overlap only if both are in Overlap.      *)
(*                                                                         *)
(* The region is external.  Every answer of its token endpoint is a new    *)
(* generation of credentials; it may rotate the refresh token, which is    *)
(* then spent, and it issues kubeconfigs for the default workspace only.   *)
(***************************************************************************)
EXTENDS Naturals

CONSTANTS Procs,      \* processes, each of which runs one command at a time
          Profiles,   \* names of profiles
          Workspaces, \* namespaces of the account
          Default,    \* the one the region issues kubeconfigs for
          Commands,   \* those that are run
          Overlap,    \* those of them that may run beside each other
          None,       \* no file, no name, no process
          MaxGen,     \* bound: answers of the token endpoint
          MaxFaults   \* bound: failed writes and calls, in all; then no command begins

VARIABLES auth,   \* auth.json of "active" and of each profile
          kube,   \* the kubeconfig beside it
          marker, \* current_profile
          lock,   \* the holder of auth-refresh.lock
          next,   \* the step that each process does next
          cmd,    \* its command
          name,   \* the profile it saves to
          held,   \* the auth data it has in memory
          config, \* and the kubeconfig
          old,    \* the kubeconfig that saveAuthDataToDir has replaced
          gen,    \* the last generation
          spent,  \* refresh tokens that the region has rotated
          faults  \* how often something failed

vars == <<auth, kube, marker, lock, next, cmd, name, held, config, old, gen, spent, faults>>
files == <<auth, kube, marker>>
memory == <<cmd, name, held, config, old>>
region == <<gen, spent>>

Dirs == Profiles \cup {"active"}
Gens == 0..MaxGen
Auths == [gen : Gens, token : Gens, ws : Workspaces]
Kubes == [gen : Gens, ws : Workspaces]

\* What a command does after each of its steps, from its start to its end; after a
\* "sync" with a marker, the copies.  "named" is the profile that it is given, "copy"
\* that of the marker.  A renewal is a command, and what `workspace` may do at its
\* check, after which it loads again.  Of logout these are the last steps.
After ==
  [refresh   |-> [start |-> "lock", lock |-> "load", load |-> "renew", renew |-> "region",
                  region |-> "kube", kube |-> "auth", auth |-> "sync", sync |-> "unlock",
                  copyKube |-> "copyAuth", copyAuth |-> "unlock", unlock |-> "end"],
   workspace |-> [start |-> "load", load |-> "check", check |-> "read", unlock |-> "again",
                  again |-> "read", read |-> "choose", choose |-> "kube", kube |-> "auth",
                  auth |-> "sync", sync |-> "end", copyKube |-> "copyAuth",
                  copyAuth |-> "end"],
   login     |-> [start |-> "login", login |-> "kube", kube |-> "auth", auth |-> "unmark",
                  unmark |-> "end"],
   loginProfile |->
                 [start |-> "login", login |-> "namedKube", namedKube |-> "namedAuth",
                  namedAuth |-> "pload", pload |-> "pread", pread |-> "kube",
                  kube |-> "auth", auth |-> "mark", mark |-> "end"],
   save      |-> [start |-> "load", load |-> "read", read |-> "namedKube",
                  namedKube |-> "namedAuth", namedAuth |-> "mark", mark |-> "end"],
   use       |-> [start |-> "pload", pload |-> "pread", pread |-> "kube", kube |-> "auth",
                  auth |-> "mark", mark |-> "end"],
   delete    |-> [start |-> "delete", delete |-> "unmarkNamed", unmarkNamed |-> "end"],
   logout    |-> [start |-> "clearAuth", clearAuth |-> "clearKube", clearKube |-> "unmark",
                  unmark |-> "end"]]

KubeSteps == {"kube", "namedKube", "copyKube"}
AuthSteps == {"auth", "namedAuth", "copyAuth"}
RestoreSteps == {"restore", "namedRestore", "copyRestore"}

Steps ==
  KubeSteps \cup AuthSteps \cup RestoreSteps
    \cup {"lock", "load", "renew", "region", "sync", "unlock", "release", "check", "again",
          "read", "choose", "login", "pload", "pread", "mark", "unmark", "delete",
          "unmarkNamed", "clearAuth", "clearKube", "end"}

TypeOK ==
  /\ auth \in [Dirs -> Auths \cup {None}] /\ kube \in [Dirs -> Kubes \cup {None}]
  /\ marker \in Profiles \cup {None} /\ lock \in Procs \cup {None}
  /\ next \in [Procs -> Steps]
  /\ cmd \in [Procs -> Commands \cup {None}] /\ name \in [Procs -> Profiles \cup {None}]
  /\ held \in [Procs -> Auths \cup {None}] /\ config \in [Procs -> Kubes \cup {None}]
  /\ old \in [Procs -> Kubes \cup {None}]
  /\ gen \in Gens /\ spent \subseteq Gens /\ faults \in 0..MaxFaults

Init ==
  /\ auth = [d \in Dirs |-> None] /\ kube = [d \in Dirs |-> None]
  /\ marker = None /\ lock = None
  /\ next = [p \in Procs |-> "end"] /\ cmd = [p \in Procs |-> None]
  /\ name = [p \in Procs |-> None]
  /\ held = [p \in Procs |-> None] /\ config = [p \in Procs |-> None]
  /\ old = [p \in Procs |-> None]
  /\ gen = 0 /\ spent = {} /\ faults = 0
-----------------------------------------------------------------------------
Idle(p) == cmd[p] = None
Turn(p, what) == ~Idle(p) /\ next[p] = what

\* Who holds the lock is in tryAuthRefresh, whatever its command.
Routine(p) == IF lock = p THEN "refresh" ELSE cmd[p]

Goes(p, step) == next' = [next EXCEPT ![p] = step]
GoesOn(p) == Goes(p, After[Routine(p)][next[p]])

\* The directory that the step at hand writes to.
Dir(p) == IF next[p] \in {"kube", "auth", "restore"} THEN "active" ELSE name[p]

\* What a command that fails has still to do: the deferred release of its lock.
Fails(p) == Goes(p, IF lock = p THEN "release" ELSE "end")

Faulty == faults < MaxFaults /\ faults' = faults + 1

Begin(p) ==
  /\ Idle(p) /\ faults < MaxFaults
  /\ \E c \in Commands, n \in Profiles :
       /\ \A q \in Procs \ {p} : Idle(q) \/ {c, cmd[q]} \subseteq Overlap
       /\ Goes(p, After[c].start)
       /\ cmd' = [cmd EXCEPT ![p] = c] /\ name' = [name EXCEPT ![p] = n]
  /\ UNCHANGED <<files, lock, held, config, old, region, faults>>

End(p) ==
  /\ Turn(p, "end")
  /\ cmd' = [cmd EXCEPT ![p] = None] /\ name' = [name EXCEPT ![p] = None]
  /\ held' = [held EXCEPT ![p] = None] /\ config' = [config EXCEPT ![p] = None]
  /\ old' = [old EXCEPT ![p] = None]
  /\ UNCHANGED <<files, lock, next, region, faults>>
-----------------------------------------------------------------------------
(* Reading. *)

\* LoadAuthData, LoadProfile: without the file the command ends.
Load(p, what, d) ==
  /\ Turn(p, what)
  /\ held' = [held EXCEPT ![p] = auth[d]]
  /\ IF auth[d] = None THEN Fails(p) ELSE GoesOn(p)
  /\ UNCHANGED <<files, lock, cmd, name, config, old, region, faults>>

Read(p, what, d) ==
  /\ Turn(p, what)
  /\ config' = [config EXCEPT ![p] = kube[d]]
  /\ IF kube[d] = None THEN Fails(p) ELSE GoesOn(p)
  /\ UNCHANGED <<files, lock, cmd, name, held, old, region, faults>>
-----------------------------------------------------------------------------
(* saveAuthDataToDir: the kubeconfig, then auth.json, each with a rename.  Only the    *)
(* copy in the profile in use may fail without an end of the command.                  *)

SaveFails(p) ==
  IF next[p] \in {"copyKube", "copyRestore"} THEN Goes(p, After[Routine(p)].copyAuth)
  ELSE Fails(p)

SaveKube(p) ==
  /\ ~Idle(p) /\ next[p] \in KubeSteps
  /\ \/ /\ kube' = [kube EXCEPT ![Dir(p)] = config[p]]
        /\ old' = [old EXCEPT ![p] = kube[Dir(p)]]
        /\ GoesOn(p) /\ UNCHANGED faults
     \/ Faulty /\ SaveFails(p) /\ UNCHANGED <<kube, old>>
  /\ UNCHANGED <<auth, marker, lock, cmd, name, held, config, region>>

\* The kubeconfig that was there is put back first.
Undo(p) ==
  Goes(p, CASE next[p] = "auth"      -> "restore"
            [] next[p] = "namedAuth" -> "namedRestore"
            [] next[p] = "copyAuth"  -> "copyRestore")

SaveAuth(p) ==
  /\ ~Idle(p) /\ next[p] \in AuthSteps
  /\ \/ /\ auth' = [auth EXCEPT ![Dir(p)] = held[p]]
        /\ GoesOn(p) /\ UNCHANGED faults
     \/ /\ Faulty
        /\ Undo(p) /\ UNCHANGED auth
  /\ UNCHANGED <<kube, marker, lock, memory, region>>

RestoreKube(p) ==
  /\ ~Idle(p) /\ next[p] \in RestoreSteps
  /\ \/ kube' = [kube EXCEPT ![Dir(p)] = old[p]] /\ UNCHANGED faults
     \/ Faulty /\ UNCHANGED kube
  /\ SaveFails(p)
  /\ UNCHANGED <<auth, marker, lock, memory, region>>

\* CurrentProfileName, and SaveProfile under that name.
Sync(p) ==
  /\ Turn(p, "sync")
  /\ IF marker = None THEN GoesOn(p) /\ UNCHANGED name
     ELSE Goes(p, "copyKube") /\ name' = [name EXCEPT ![p] = marker]
  /\ UNCHANGED <<files, lock, cmd, held, config, old, region, faults>>
-----------------------------------------------------------------------------
(* The marker, and removal. *)

SetMarker(p, what, m) ==
  /\ Turn(p, what)
  /\ \/ marker' = m /\ GoesOn(p) /\ UNCHANGED faults
     \/ Faulty /\ Fails(p) /\ UNCHANGED marker
  /\ UNCHANGED <<auth, kube, lock, memory, region>>

Mark(p) == SetMarker(p, "mark", name[p])
Unmark(p) == SetMarker(p, "unmark", None)
UnmarkNamed(p) ==
  SetMarker(p, "unmarkNamed", IF marker = name[p] THEN None ELSE marker)

\* DeleteProfile: RemoveAll, which stops at what it cannot remove.
Delete(p) ==
  /\ Turn(p, "delete")
  /\ \/ /\ kube' = [kube EXCEPT ![name[p]] = None] /\ auth' = [auth EXCEPT ![name[p]] = None]
        /\ GoesOn(p) /\ UNCHANGED faults
     \/ /\ Faulty /\ Fails(p)
        /\ \/ auth' = [auth EXCEPT ![name[p]] = None] /\ UNCHANGED kube
           \/ kube' = [kube EXCEPT ![name[p]] = None] /\ UNCHANGED auth
           \/ UNCHANGED <<auth, kube>>
  /\ UNCHANGED <<marker, lock, memory, region>>

\* ClearAuthData, which logout calls last.
ClearAuth(p) ==
  /\ Turn(p, "clearAuth")
  /\ \/ auth' = [auth EXCEPT !["active"] = None] /\ GoesOn(p) /\ UNCHANGED faults
     \/ Faulty /\ Fails(p) /\ UNCHANGED auth
  /\ UNCHANGED <<kube, marker, lock, memory, region>>

ClearKube(p) ==
  /\ Turn(p, "clearKube")
  /\ \/ kube' = [kube EXCEPT !["active"] = None] /\ GoesOn(p) /\ UNCHANGED faults
     \/ Faulty /\ Fails(p) /\ UNCHANGED kube
  /\ UNCHANGED <<auth, marker, lock, memory, region>>
-----------------------------------------------------------------------------
(* The renewal, tryAuthRefresh. *)

\* Fault: renewals take no notice of each other.
LockShared == TRUE

LockFree == lock = None

Lock(p) ==
  /\ Turn(p, "lock")
  /\ \/ LockFree /\ lock' = p /\ Goes(p, After.refresh.lock)
     \/ ~LockFree /\ Goes(p, "end") /\ UNCHANGED lock \* ten seconds have passed
  /\ UNCHANGED <<files, memory, region, faults>>

Unlock(p) ==
  /\ \/ Turn(p, "unlock") /\ Goes(p, After[cmd[p]].unlock)
     \/ Turn(p, "release") /\ Goes(p, "end")
  /\ lock' = IF lock = p THEN None ELSE lock
  /\ UNCHANGED <<files, memory, region, faults>>

Issue == gen < MaxGen /\ gen' = gen + 1

\* RefreshTokens.  The region renews, with or without a new refresh token, or it
\* refuses, as it does a token that is spent; an answer may be lost on its way.
Renew(p) ==
  /\ Turn(p, "renew")
  /\ \/ /\ held[p].token \notin spent /\ Issue
        /\ \/ held' = [held EXCEPT ![p].gen = gen', ![p].token = gen']
              /\ spent' = spent \cup {held[p].token}
           \/ held' = [held EXCEPT ![p].gen = gen'] /\ UNCHANGED spent
        /\ GoesOn(p) /\ UNCHANGED faults
     \/ /\ held[p].token \in spent
        /\ Fails(p) /\ UNCHANGED <<held, region, faults>>
     \/ /\ Faulty /\ Fails(p)
        /\ spent' \in {spent, spent \cup {held[p].token}}
        /\ UNCHANGED <<held, gen>>
  /\ UNCHANGED <<files, lock, cmd, name, config, old>>

\* GetRegionToken with the new access token.
Region(p) ==
  /\ Turn(p, "region")
  /\ \/ /\ config' = [config EXCEPT ![p] = [gen |-> held[p].gen, ws |-> Default]]
        /\ GoesOn(p) /\ UNCHANGED faults
     \/ Faulty /\ Fails(p) /\ UNCHANGED config
  /\ UNCHANGED <<files, lock, cmd, name, held, old, region>>
-----------------------------------------------------------------------------
(* The other commands. *)

\* performLoginExchange up to its saves: whatever fails leaves the files alone.
Login(p) ==
  /\ Turn(p, "login")
  /\ Issue
  /\ held' = [held EXCEPT ![p] = [gen |-> gen', token |-> gen', ws |-> Default]]
  /\ config' = [config EXCEPT ![p] = [gen |-> gen', ws |-> Default]]
  /\ GoesOn(p)
  /\ UNCHANGED <<files, lock, cmd, name, old, spent, faults>>

\* ensureFreshRegionalToken: the access token may have expired, and is renewed.
Check(p) ==
  /\ Turn(p, "check")
  /\ GoesOn(p) \/ Goes(p, After.refresh.start)
  /\ UNCHANGED <<files, lock, memory, region, faults>>

\* runWorkspaceUse: a workspace other than the kubeconfig's, which the probe accepts.
Choose(p) ==
  /\ Turn(p, "choose")
  /\ \E w \in Workspaces \ {config[p].ws} :
       /\ held' = [held EXCEPT ![p].ws = w]
       /\ config' = [config EXCEPT ![p].ws = w]
  /\ GoesOn(p)
  /\ UNCHANGED <<files, lock, cmd, name, old, region, faults>>

\* The workspace is the one in use, there is none of that name, or the probe fails.
ChooseNothing(p) ==
  /\ Turn(p, "choose")
  /\ Fails(p)
  /\ UNCHANGED <<files, lock, memory, region, faults>>
-----------------------------------------------------------------------------
Process(p) ==
  \/ Begin(p) \/ End(p)
  \/ Load(p, "load", "active") \/ Load(p, "again", "active") \/ Load(p, "pload", name[p])
  \/ Read(p, "read", "active") \/ Read(p, "pread", name[p])
  \/ SaveKube(p) \/ SaveAuth(p) \/ RestoreKube(p) \/ Sync(p)
  \/ Mark(p) \/ Unmark(p) \/ UnmarkNamed(p) \/ Delete(p) \/ ClearAuth(p) \/ ClearKube(p)
  \/ Lock(p) \/ Unlock(p) \/ Renew(p) \/ Region(p)
  \/ Login(p) \/ Check(p) \/ Choose(p) \/ ChooseNothing(p)

Next == \E p \in Procs : Process(p)

Spec == Init /\ [][Next]_vars
-----------------------------------------------------------------------------
(* Properties. *)

Quiet == \A p \in Procs : Idle(p)

\* auth.json and kubeconfig belong together wherever both are there, though any one
\* write or call may have failed: what is put back is what was there (config.go:258-268).
PairAgrees ==
  Quiet /\ faults <= 1 =>
    \A d \in Dirs : auth[d] # None /\ kube[d] # None => auth[d].gen = kube[d].gen

\* Without failures, no renewal presents a refresh token that another has spent, and
\* none that is spent is left for a later `profile use` (auth_refresh.go:97-99,155-156).
\* A renewal updates the copy of the profile in use alone: of two profiles that hold the
\* same login the other keeps the spent token, so this is for one profile.
NoneSpent ==
  faults = 0 =>
    /\ \A p \in Procs : Turn(p, "renew") => held[p].token \notin spent
    /\ Quiet => \A d \in Dirs : auth[d] # None => auth[d].token \notin spent

\* What is kept of the credentials can be used.
CredentialsUsable == PairAgrees /\ NoneSpent

\* "Existing tunnels stay in their original workspace; new tunnels are created in the
\* selected one" (workspace.go:74-75).
WorkspaceKept ==
  Quiet /\ auth["active"] # None /\ kube["active"] # None
    => kube["active"].ws = auth["active"].ws
=============================================================================
