--------------------------- MODULE SessionRegister ---------------------------
(***************************************************************************)
(* What pkg/session promises its callers: a map from tunnels to records    *)
(* that behaves as if every call took effect at one instant between its    *)
(* invocation and its return.  The exception is ScrubCredentials, which    *)
(* scrubs the records one by one and may fail or crash half way, but       *)
(* returns successfully only at an instant when no record holds            *)
(* credentials.  SessionStore is the protocol of locks, temporary files    *)
(* and renames that implements this register.                              *)
(***************************************************************************)
EXTENDS SessionData

VARIABLES file,     \* file[t]: what Get would find for tunnel t
          call,     \* call[p]: p's current call, or NoCall
          copy,     \* copy[p]: the last record p was given, or NoCopy
          outcome   \* outcome[p]: the call is pending, has succeeded or has failed

vars == <<file, call, copy, outcome>>

TypeOK ==
  /\ file \in [Tunnels -> Files]
  /\ call \in [Procs -> Calls \cup {NoCall}]
  /\ copy \in [Procs -> Copies \cup {NoCopy}]
  /\ outcome \in [Procs -> {"pending", "ok", "error"}]

Init ==
  /\ file \in [Tunnels -> {NoRecord, Corrupt}]
  /\ call = [p \in Procs |-> NoCall]
  /\ copy = [p \in Procs |-> NoCopy]
  /\ outcome = [p \in Procs |-> "pending"]

Invoke(p, c) ==
  /\ call[p] = NoCall
  /\ Callable(copy[p], c)
  /\ call' = [call EXCEPT ![p] = c]
  /\ copy' = [copy EXCEPT ![p] = Passing(@, c)]
  /\ outcome' = [outcome EXCEPT ![p] = "pending"]
  /\ UNCHANGED file

Pending(p) == call[p] # NoCall /\ outcome[p] = "pending"

\* The call fails and changes nothing: missing file, I/O error.
Fail(p) ==
  /\ Pending(p)
  /\ outcome' = [outcome EXCEPT ![p] = "error"]
  /\ UNCHANGED <<file, call, copy>>

\* The wait for the lock ends and the call returns its error at once.
GiveUp(p) ==
  /\ Pending(p)
  /\ call' = [call EXCEPT ![p] = NoCall]
  /\ UNCHANGED <<file, copy, outcome>>

Write(p) ==
  /\ Pending(p)
  /\ call[p].op \in {"save", "update"}
  /\ file[call[p].t] # Corrupt
  /\ call[p].op = "update" => file[call[p].t] # NoRecord
  /\ file' = [file EXCEPT ![call[p].t] = Preserve(@, call[p].rec)]
  /\ outcome' = [outcome EXCEPT ![p] = "ok"]
  /\ UNCHANGED <<call, copy>>

\* The conditional update is a function of the record at this very instant.
Apply(p) ==
  LET c == call[p] IN
  /\ Pending(p)
  /\ c.op \in Atomic
  /\ Readable(file[c.t])
  /\ ~Declines(c, file[c.t])
  /\ file' = [file EXCEPT ![c.t] = Preserve(@, Mutate(c, @))]
  /\ copy' = [copy EXCEPT ![p] = [t |-> c.t, rec |-> Mutate(c, file[c.t])]]
  /\ outcome' = [outcome EXCEPT ![p] = "ok"]
  /\ UNCHANGED call

\* Get, and a conditional update whose condition does not hold.
Read(p) ==
  LET c == call[p] IN
  /\ Pending(p)
  /\ Readable(file[c.t])
  /\ c.op = "get" \/ (c.op \in Atomic /\ Declines(c, file[c.t]))
  /\ copy' = [copy EXCEPT ![p] = [t |-> c.t, rec |-> file[c.t]]]
  /\ outcome' = [outcome EXCEPT ![p] = "ok"]
  /\ UNCHANGED <<file, call>>

Remove(p) ==
  /\ Pending(p)
  /\ call[p].op = "delete"
  /\ file' = [file EXCEPT ![call[p].t] = NoRecord]
  /\ outcome' = [outcome EXCEPT ![p] = "ok"]
  /\ UNCHANGED <<call, copy>>

\* One record of a ScrubCredentials: an unreadable file is removed.
ScrubOne(p, t) ==
  /\ Pending(p)
  /\ call[p].op = "scrub"
  /\ ~Clean(file[t])
  /\ file' = [file EXCEPT ![t] = IF @ = Corrupt THEN NoRecord ELSE Scrub(@)]
  /\ UNCHANGED <<call, copy, outcome>>

ScrubDone(p) ==
  /\ Pending(p)
  /\ call[p].op = "scrub"
  /\ \A t \in Tunnels : Clean(file[t])
  /\ outcome' = [outcome EXCEPT ![p] = "ok"]
  /\ UNCHANGED <<file, call, copy>>

Return(p) ==
  /\ call[p] # NoCall
  /\ outcome[p] # "pending"
  /\ call' = [call EXCEPT ![p] = NoCall]
  /\ outcome' = [outcome EXCEPT ![p] = "pending"]
  /\ UNCHANGED <<file, copy>>

\* The process dies; what it had not renamed into place is not there.
Crash(p) ==
  /\ call[p] # NoCall \/ copy[p] # NoCopy
  /\ call' = [call EXCEPT ![p] = NoCall]
  /\ copy' = [copy EXCEPT ![p] = NoCopy]
  /\ outcome' = [outcome EXCEPT ![p] = "pending"]
  /\ UNCHANGED file

Next ==
  \E p \in Procs :
    \/ \E c \in Calls : Invoke(p, c)
    \/ Fail(p) \/ GiveUp(p) \/ Write(p) \/ Apply(p) \/ Read(p) \/ Remove(p)
    \/ \E t \in Tunnels : ScrubOne(p, t)
    \/ ScrubDone(p) \/ Return(p) \/ Crash(p)

Spec == Init /\ [][Next]_vars
=============================================================================
