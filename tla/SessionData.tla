---------------------------- MODULE SessionData ----------------------------
(***************************************************************************)
(* The records of pkg/session, the calls a process can make on them, and   *)
(* what each call computes.  No state: SessionRegister says when the calls *)
(* take effect, SessionStore how the code makes them do so.                *)
(***************************************************************************)
CONSTANTS Tunnels,    \* tunnel ids
          Procs,      \* callers: a goroutine of the CLI or of the daemon
          Secrets,    \* server secrets
          States,     \* connection states, "stopped" among them
          NoSecret,   \* the empty secret string
          NoRecord,   \* there is no file for this tunnel
          Corrupt,    \* the file exists but does not decrypt
          NoCopy,     \* the process remembers no record
          NoCall      \* the process is in no call

ASSUME RegisterAssumption ==
  /\ NoSecret \notin Secrets
  /\ "stopped" \in States

Records == [secret   : Secrets \cup {NoSecret},
            state    : States,
            scrubbed : BOOLEAN]

Files == Records \cup {NoRecord, Corrupt}

\* A record as a caller read it some time ago.
Copies == [t : Tunnels, rec : Records]

\* save, update: write the given record; mark, adopt: UpdateAtomic with the
\* mutation of the daemon's workers, or of refreshSessionFromRemote.
Ops == {"save", "update", "mark", "adopt", "get", "delete", "scrub"}

Calls == [op : Ops, t : Tunnels, rec : Records]

Atomic == {"mark", "adopt"}

\* The sentinels are no records, so a present record can be told from them.
ASSUME SentinelAssumption ==
  /\ NoRecord \notin Records /\ Corrupt \notin Records /\ NoRecord # Corrupt
  /\ NoCopy \notin Copies
  /\ NoCall \notin Calls

Readable(f) == f \in Records

Scrubbed(f) == Readable(f) /\ f.scrubbed

\* A scrubbed record has no credentials left to scrub; neither has no record.
Clean(f) == f = NoRecord \/ Scrubbed(f)

Scrub(r) == [r EXCEPT !.secret = NoSecret, !.state = "stopped",
                      !.scrubbed = TRUE]

\* Faulty variants of the next definition, to see which property notices: the
\* mark is kept without clearing the secret; the old record is not looked at.
PreserveMarkOnly(old, next) ==
  IF Scrubbed(old) THEN [next EXCEPT !.scrubbed = TRUE] ELSE next

\* preserveScrubbedCredentials: what a write of next leaves over old.
Preserve(old, next) == IF Scrubbed(old) THEN Scrub(next) ELSE next

\* UpdateAtomic's mutate callbacks answer FALSE, "nothing changed", for these.
Declines(c, r) ==
  \/ c.op = "mark"  /\ r.state = "stopped"
  \/ c.op = "adopt" /\ (r.scrubbed \/ c.rec.secret \in {NoSecret, r.secret})

Mutate(c, r) == CASE c.op = "mark"  -> [r EXCEPT !.state  = c.rec.state]
                  [] c.op = "adopt" -> [r EXCEPT !.secret = c.rec.secret]
                  [] OTHER          -> c.rec

\* The records a caller derives from the copy r it read: another connection
\* state, or (rotate, only when it holds a secret and is not stopped) another
\* secret.
Edits(r) ==
       {[r EXCEPT !.state = s] : s \in States}
  \cup {[r EXCEPT !.secret = x] :
           x \in {y \in Secrets : r.secret # NoSecret /\ r.state # "stopped"}}

\* The records a new or re-applied tunnel is saved with.
Fresh == [secret : Secrets, state : States, scrubbed : {FALSE}]

\* Stands for the fields a call does not pass.
Blank == [secret |-> NoSecret, state |-> "stopped", scrubbed |-> FALSE]

\* The arguments a caller holding the copy cp can pass: Save takes a new record
\* or an edited copy, Update an edited copy, mark a state, adopt a secret.
Callable(cp, c) ==
  LET Edited == /\ cp # NoCopy
                /\ c.t = cp.t
                /\ c.rec \in Edits(cp.rec)
  IN  /\ c \in Calls
      /\ c.op = "save" => c.rec \in Fresh \/ Edited
      /\ c.op = "update" => Edited
      /\ c.op = "mark" => c.rec \in {[Blank EXCEPT !.state = s] : s \in States}
      /\ c.op = "adopt" => c.rec \in {[Blank EXCEPT !.secret = x] : x \in Secrets}
      /\ c.op \in {"get", "delete", "scrub"} => c.rec = Blank

\* The caller edits its own copy before it passes it.
Passing(cp, c) == IF c.op \in {"save", "update"}
                  THEN [t |-> c.t, rec |-> c.rec] ELSE cp
=============================================================================
