---------------------------- MODULE SessionStore ----------------------------
(***************************************************************************)
(* The session store of pkg/session: one file per tunnel, written through  *)
(* a temporary file and a rename, every call inside one flock.  A process  *)
(* is a goroutine of a CLI command or of the daemon; it may die between    *)
(* any two steps, and the kernel then drops its flock.                     *)
(*                                                                         *)
(*   idle -> locking -> locked -> (rename | scrub)* -> unlock | failed      *)
(***************************************************************************)
EXTENDS SessionData

CONSTANT NoProc       \* nobody holds the flock

ASSUME NoProcAssumption == NoProc \notin Procs

VARIABLES file,   \* file[t]: the session file of t
          lock,   \* the process that holds sessions.lock, or NoProc
          pc,     \* pc[p]: where p is in its call
          call,   \* call[p]: the call and its arguments, or NoCall
          copy,   \* copy[p]: the last record p was given, or NoCopy
          tmp,    \* tmp[p]: p's temporary file and whose it is, or NoCopy
          todo    \* todo[p]: the directory entries ScrubCredentials has left

vars == <<file, lock, pc, call, copy, tmp, todo>>

\* "unlock": the call succeeded, "failed": it did not; both still hold the lock.
PCs == {"idle", "locking", "locked", "rename", "scrub", "unlock", "failed"}

TypeOK ==
  /\ file \in [Tunnels -> Files]
  /\ lock \in Procs \cup {NoProc}
  /\ pc \in [Procs -> PCs]
  /\ call \in [Procs -> Calls \cup {NoCall}]
  /\ copy \in [Procs -> Copies \cup {NoCopy}]
  /\ tmp \in [Procs -> Copies \cup {NoCopy}]
  /\ todo \in [Procs -> SUBSET Tunnels]

Init ==
  /\ file \in [Tunnels -> {NoRecord, Corrupt}]
  /\ lock = NoProc
  /\ pc = [p \in Procs |-> "idle"]
  /\ call = [p \in Procs |-> NoCall]
  /\ copy = [p \in Procs |-> NoCopy]
  /\ tmp = [p \in Procs |-> NoCopy]
  /\ todo = [p \in Procs |-> {}]

Goto(p, l) == pc' = [pc EXCEPT ![p] = l]

Invoke(p, c) ==
  /\ pc[p] = "idle"
  /\ Callable(copy[p], c)
  /\ call' = [call EXCEPT ![p] = c]
  /\ copy' = [copy EXCEPT ![p] = Passing(@, c)]
  /\ Goto(p, "locking")
  /\ UNCHANGED <<file, lock, tmp, todo>>

\* Fault: the lock is not exclusive (a shared flock, or one lock per process).
AcquireShared(p) ==
  /\ pc[p] = "locking"
  /\ lock' = p
  /\ Goto(p, "locked")
  /\ UNCHANGED <<file, call, copy, tmp, todo>>

\* lockSessionFile: LOCK_EX | LOCK_NB succeeds.
Acquire(p) ==
  /\ pc[p] = "locking"
  /\ lock = NoProc
  /\ lock' = p
  /\ Goto(p, "locked")
  /\ UNCHANGED <<file, call, copy, tmp, todo>>

\* Fault: the wait has no deadline.
TimeOutNever(p) == pc[p] = "locking" /\ FALSE /\ UNCHANGED vars

\* lockSessionFile: another process still holds the lock when the wait ends.
\* Nothing was locked, so nothing is unlocked.
TimeOut(p) ==
  /\ pc[p] = "locking"
  /\ lock # NoProc
  /\ call' = [call EXCEPT ![p] = NoCall]
  /\ Goto(p, "idle")
  /\ UNCHANGED <<file, lock, copy, tmp, todo>>

\* Fault: a ScrubCredentials goes on with its other entries after an error.
ErrorIgnored(p) ==
  /\ pc[p] \in {"locked", "scrub", "rename"}
  /\ pc[p] = "scrub" => todo[p] # {}
  /\ tmp' = [tmp EXCEPT ![p] = NoCopy]
  /\ Goto(p, IF pc[p] = "rename" /\ call[p].op = "scrub" THEN "scrub" ELSE "failed")
  /\ UNCHANGED <<file, lock, call, copy, todo>>

\* The call returns an error: a missing or unreadable record where one is
\* needed, or any other failure of a read, a write, the rename or a removal.
\* Its temporary file goes, and a ScrubCredentials leaves its other entries.
Error(p) ==
  /\ pc[p] \in {"locked", "scrub", "rename"}
  /\ pc[p] = "scrub" => todo[p] # {}
  /\ tmp' = [tmp EXCEPT ![p] = NoCopy]
  /\ todo' = [todo EXCEPT ![p] = {}]
  /\ Goto(p, "failed")
  /\ UNCHANGED <<file, lock, call, copy>>

Get(p) ==
  LET f == file[call[p].t] IN
  /\ pc[p] = "locked"
  /\ Readable(f)
  /\ \/ call[p].op = "get"
     \/ call[p].op \in Atomic /\ Declines(call[p], f)
  /\ copy' = [copy EXCEPT ![p] = [t |-> call[p].t, rec |-> f]]
  /\ Goto(p, "unlock")
  /\ UNCHANGED <<file, lock, call, tmp, todo>>

\* saveLockedInDir up to the closed temporary file.
WriteTmp(p, t, rec) ==
  /\ tmp' = [tmp EXCEPT ![p] = [t |-> t, rec |-> Preserve(file[t], rec)]]
  /\ Goto(p, "rename")

Save(p) ==
  LET c == call[p] IN
  /\ pc[p] = "locked"
  /\ \/ c.op = "save" /\ file[c.t] # Corrupt
     \/ c.op = "update" /\ Readable(file[c.t])
  /\ WriteTmp(p, c.t, c.rec)
  /\ UNCHANGED <<file, lock, call, copy, todo>>

\* Fault: the mutation is applied to the copy the caller read before the lock.
UpdateStale(p) ==
  LET c == call[p] IN
  /\ pc[p] = "locked"
  /\ c.op \in Atomic
  /\ Readable(file[c.t]) /\ copy[p] # NoCopy
  /\ copy[p].t = c.t
  /\ ~Declines(c, copy[p].rec)
  /\ WriteTmp(p, c.t, Mutate(c, copy[p].rec))
  /\ UNCHANGED <<file, lock, call, copy, todo>>

UpdateAtomic(p) ==
  LET c == call[p] IN
  /\ pc[p] = "locked"
  /\ c.op \in Atomic
  /\ Readable(file[c.t])
  /\ ~Declines(c, file[c.t])
  /\ WriteTmp(p, c.t, Mutate(c, file[c.t]))
  /\ UNCHANGED <<file, lock, call, copy, todo>>

Delete(p) ==
  /\ pc[p] = "locked"
  /\ call[p].op = "delete"
  /\ file' = [file EXCEPT ![call[p].t] = NoRecord]
  /\ Goto(p, "unlock")
  /\ UNCHANGED <<lock, call, copy, tmp, todo>>

\* ScrubCredentials reads the directory once and walks the entries.
ScrubStart(p) ==
  /\ pc[p] = "locked"
  /\ call[p].op = "scrub"
  /\ todo' = [todo EXCEPT ![p] = {t \in Tunnels : file[t] # NoRecord}]
  /\ Goto(p, "scrub")
  /\ UNCHANGED <<file, lock, call, copy, tmp>>

ScrubSkip(p, t) ==
  /\ pc[p] = "scrub"
  /\ t \in todo[p]
  /\ Scrubbed(file[t])
  /\ todo' = [todo EXCEPT ![p] = @ \ {t}]
  /\ UNCHANGED <<file, lock, pc, call, copy, tmp>>

ScrubRemove(p, t) ==
  /\ pc[p] = "scrub"
  /\ t \in todo[p]
  /\ file[t] = Corrupt
  /\ file' = [file EXCEPT ![t] = NoRecord]
  /\ todo' = [todo EXCEPT ![p] = @ \ {t}]
  /\ UNCHANGED <<lock, pc, call, copy, tmp>>

ScrubWrite(p, t) ==
  /\ pc[p] = "scrub"
  /\ t \in todo[p]
  /\ Readable(file[t]) /\ ~Scrubbed(file[t])
  /\ todo' = [todo EXCEPT ![p] = @ \ {t}]
  /\ WriteTmp(p, t, Scrub(file[t]))
  /\ UNCHANGED <<file, lock, call, copy>>

ScrubEnd(p) ==
  /\ pc[p] = "scrub"
  /\ todo[p] = {}
  /\ Goto(p, "unlock")
  /\ UNCHANGED <<file, lock, call, copy, tmp, todo>>

Rename(p) ==
  LET c == call[p] IN
  /\ pc[p] = "rename"
  /\ file' = [file EXCEPT ![tmp[p].t] = tmp[p].rec]
  /\ tmp' = [tmp EXCEPT ![p] = NoCopy]
  /\ copy' = IF c.op \in Atomic
             THEN [copy EXCEPT ![p] = [t |-> c.t, rec |-> Mutate(c, file[c.t])]]
             ELSE copy
  /\ Goto(p, IF c.op = "scrub" THEN "scrub" ELSE "unlock")
  /\ UNCHANGED <<lock, call, todo>>

\* The deferred unlock, then the return.
Release(p) ==
  /\ pc[p] \in {"unlock", "failed"}
  /\ lock' = NoProc
  /\ call' = [call EXCEPT ![p] = NoCall]
  /\ Goto(p, "idle")
  /\ UNCHANGED <<file, copy, tmp, todo>>

\* The process dies.  Its temporary file stays on disk, where nothing looks
\* for it (List and ScrubCredentials only take *.json), so tmp forgets it.
Crash(p) ==
  /\ pc[p] # "idle" \/ copy[p] # NoCopy
  /\ lock' = IF lock = p THEN NoProc ELSE lock
  /\ call' = [call EXCEPT ![p] = NoCall]
  /\ copy' = [copy EXCEPT ![p] = NoCopy]
  /\ tmp' = [tmp EXCEPT ![p] = NoCopy]
  /\ todo' = [todo EXCEPT ![p] = {}]
  /\ Goto(p, "idle")
  /\ UNCHANGED file

Step(p) ==
  \/ Acquire(p) \/ TimeOut(p) \/ Error(p) \/ Get(p) \/ Save(p)
  \/ UpdateAtomic(p) \/ Delete(p) \/ ScrubStart(p)
  \/ \E t \in Tunnels : ScrubSkip(p, t) \/ ScrubRemove(p, t) \/ ScrubWrite(p, t)
  \/ ScrubEnd(p) \/ Rename(p) \/ Release(p)

Next ==
  \E p \in Procs : \/ \E c \in Calls : Invoke(p, c)
                   \/ Step(p)
                   \/ Crash(p)

Spec == Init /\ [][Next]_vars

\* A running goroutine keeps running, and a wait for the lock ends: by
\* acquiring it or by its deadline.
FairSpec == Spec /\ \A p \in Procs : WF_vars(Step(p))
-----------------------------------------------------------------------------
(* Properties. *)

Outcome(l) == IF l = "unlock" THEN "ok"
              ELSE IF l = "failed" THEN "error" ELSE "pending"

Register == INSTANCE SessionRegister
              WITH outcome <- [p \in Procs |-> Outcome(pc[p])]

\* Every history of lock, temporary file and rename, crashes included, is a
\* history of the register: Save, Update, UpdateAtomic, Get and Delete each
\* take effect at one instant or not at all.
ImplementsRegister == Register!Spec

\* A process that passed the lock and has not released it holds it.
Holding(p) == pc[p] \in {"locked", "rename", "scrub", "unlock", "failed"}

LockInv == \A p \in Procs : Holding(p) <=> lock = p

\* What p is about to rename into place is still what its call computes from
\* the record it would replace: nothing slipped in since p read it.
Intended(p) ==
  LET c == call[p]
      f == file[tmp[p].t]
  IN  /\ tmp[p] # NoCopy
      /\ c # NoCall
      /\ c.op # "scrub" => tmp[p].t = c.t
      /\ \/ /\ c.op \in {"save", "update"}
            /\ f # Corrupt
            /\ c.op = "update" => f # NoRecord
            /\ tmp[p].rec = Preserve(f, c.rec)
         \/ /\ c.op \in Atomic
            /\ Readable(f) /\ ~Declines(c, f)
            /\ tmp[p].rec = Preserve(f, Mutate(c, f))
         \/ /\ c.op = "scrub"
            /\ Readable(f) /\ ~Scrubbed(f)
            /\ tmp[p].rec = Scrub(f)

TmpInv == \A p \in Procs : pc[p] = "rename" => Intended(p)

\* A process between calls has no call, and whatever a ScrubCredentials has
\* already passed is free of credentials.
ScrubInv ==
  \A p \in Procs :
    /\ pc[p] = "idle" <=> call[p] = NoCall
    /\ pc[p] = "scrub" => /\ call[p].op = "scrub"
                          /\ \A t \in Tunnels \ todo[p] : Clean(file[t])
    /\ pc[p] = "rename" /\ call[p].op = "scrub" =>
         \A t \in Tunnels \ (todo[p] \cup {tmp[p].t}) : Clean(file[t])

\* No record a process remembers, is writing, or has written is marked
\* scrubbed and yet holds a secret.
Bare(r) == r.scrubbed => r.secret = NoSecret

SecretInv ==
  /\ \A t \in Tunnels : Readable(file[t]) => Bare(file[t])
  /\ \A p \in Procs :
       /\ copy[p] # NoCopy => Bare(copy[p].rec)
       /\ (call[p] # NoCall /\ call[p].op \in {"save", "update"})
            => Bare(call[p].rec)

\* The inductive invariant of the proofs.
IInv == TypeOK /\ LockInv /\ TmpInv /\ ScrubInv /\ SecretInv

\* preserveScrubbedCredentials: once a record is scrubbed, no write of a copy
\* that was read before the scrub brings the credentials back; only deleting
\* the record ends that.
ScrubSticky ==
  [][\A t \in Tunnels : Scrubbed(file[t]) /\ file'[t] # NoRecord
                          => Scrubbed(file'[t])]_vars

\* A scrubbed record holds no secret, whatever copies its writers started from.
ScrubbedHasNoSecret ==
  \A t \in Tunnels : Scrubbed(file[t]) => file[t].secret = NoSecret

\* ScrubCredentials reports success only when no record has credentials left.
ScrubCompletes ==
  [][\A p \in Procs : pc[p] = "scrub" /\ pc'[p] = "unlock"
                        => \A t \in Tunnels : Clean(file'[t])]_vars

\* The promise of UpdateAtomic to the daemon's workers: a connection state
\* written by mark never replaces "stopped", and never undoes a secret that
\* was saved after the worker last read the record.
MarkKeepsOthersWrites ==
  [][\A p \in Procs, t \in Tunnels :
        (/\ pc[p] = "rename" /\ call[p] # NoCall /\ call[p].op = "mark"
         /\ file'[t] # file[t])
        => /\ Readable(file[t]) /\ Readable(file'[t])
           /\ file[t].state # "stopped"
           /\ file'[t] = [file[t] EXCEPT !.state = file'[t].state]]_vars

\* Every call returns (or its process dies), however busy the lock is.
CallsReturn == \A p \in Procs : pc[p] # "idle" ~> pc[p] = "idle"
=============================================================================
