----------------------------- MODULE SessionKey -----------------------------
(***************************************************************************)
(* The key that session records are encrypted with, one file that the      *)
(* first process to need it creates, sessionEncryptionKeyFromConfigDir of  *)
(* pkg/session/encryption.go.  The key a process would create bears its    *)
(* name.  No lock is held around it by every caller.  A Close that fails   *)
(* after a Write that did not is left out.                                 *)
(***************************************************************************)
EXTENDS FiniteSets, Naturals

CONSTANTS Users,     \* processes that read or write session records
          NoFile,    \* the key file is not there
          Short,     \* it is there and is not 32 bytes long
          MaxCrashes \* bound: processes that die, in all

ASSUME FileAssumption ==
  /\ NoFile \notin Users /\ Short \notin Users /\ NoFile # Short
  /\ MaxCrashes \in Nat

VARIABLES file,    \* session.key
          step,    \* where each process is
          key,     \* the key it works with
          sealed,  \* the keys that records on the disk are encrypted with
          crashes  \* how many have died

vars == <<file, step, key, sealed, crashes>>

TypeOK ==
  /\ file \in Users \cup {NoFile, Short}
  /\ step \in [Users -> {"idle", "read", "create", "again", "write", "remove", "use"}]
  /\ key \in [Users -> Users \cup {NoFile}]
  /\ sealed \subseteq Users /\ crashes \in 0..MaxCrashes

Init ==
  /\ file = NoFile
  /\ step = [u \in Users |-> "idle"] /\ key = [u \in Users |-> NoFile]
  /\ sealed = {} /\ crashes = 0

Go(u, from, to) == step[u] = from /\ step' = [step EXCEPT ![u] = to]
Uses(u, k) == step' = [step EXCEPT ![u] = "use"] /\ key' = [key EXCEPT ![u] = k]

\* Lstat.
Look(u) ==
  /\ Go(u, "idle", IF file = NoFile THEN "create" ELSE "read")
  /\ UNCHANGED <<file, key, sealed, crashes>>

\* ReadFile, also after the race for the file is lost: without 32 bytes, an error.
Read(u) ==
  /\ step[u] \in {"read", "again"}
  /\ IF file \in Users THEN Uses(u, file)
     ELSE step' = [step EXCEPT ![u] = "idle"] /\ UNCHANGED key
  /\ UNCHANGED <<file, sealed, crashes>>

\* Fault: the file of another process is opened and truncated.
CreateAnyway(u) ==
  /\ Go(u, "create", "write") /\ file' = Short
  /\ UNCHANGED <<key, sealed, crashes>>

\* O_CREATE|O_EXCL.
Create(u) ==
  /\ IF file = NoFile THEN Go(u, "create", "write") /\ file' = Short
     ELSE Go(u, "create", "again") /\ UNCHANGED file
  /\ UNCHANGED <<key, sealed, crashes>>

Write(u) ==
  /\ step[u] = "write"
  /\ \/ file' = u /\ Uses(u, u)
     \/ step' = [step EXCEPT ![u] = "remove"] /\ UNCHANGED <<file, key>>
  /\ UNCHANGED <<sealed, crashes>>

\* The key that could not be written is removed, and the caller gets an error.
Remove(u) ==
  /\ Go(u, "remove", "idle")
  /\ file' = NoFile
  /\ UNCHANGED <<key, sealed, crashes>>

\* The caller writes a record encrypted with the key, or reads one.
Use(u) ==
  /\ Go(u, "use", "idle")
  /\ sealed' \in {sealed, sealed \cup {key[u]}}
  /\ key' = [key EXCEPT ![u] = NoFile]
  /\ UNCHANGED <<file, crashes>>

Crash(u) ==
  /\ step[u] # "idle" /\ crashes < MaxCrashes
  /\ step' = [step EXCEPT ![u] = "idle"] /\ key' = [key EXCEPT ![u] = NoFile]
  /\ crashes' = crashes + 1
  /\ UNCHANGED <<file, sealed>>

Process(u) ==
  Look(u) \/ Read(u) \/ Create(u) \/ Write(u) \/ Remove(u) \/ Use(u) \/ Crash(u)

Next == \E u \in Users : Process(u)

Spec == Init /\ [][Next]_vars
-----------------------------------------------------------------------------
(* Properties. *)

\* Whichever process wins the race for the file, and whoever dies in it, every record
\* that was written, and every key in use, is of the file's key: none is orphaned by a
\* key that is made anew (encryption.go:141-142).
KeyOpensAll ==
  \A k \in sealed \cup {key[u] : u \in {v \in Users : step[v] = "use"}} : file = k

\* One process at a time makes the key, in a file that is not there for anybody else.
OneMaker ==
  LET Makers == {u \in Users : step[u] \in {"write", "remove"}}
  IN  \A u, v \in Makers : u = v /\ file = Short

InHand == \A u \in Users : step[u] = "use" => key[u] \in Users

\* The inductive invariant of the proof.
IInv == TypeOK /\ OneMaker /\ InHand /\ KeyOpensAll
=============================================================================
