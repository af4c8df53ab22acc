---------------------------- MODULE ProjectState ----------------------------
(***************************************************************************)
(* sealtun up (cmd/up.go) in the directory of one project.  It uses again  *)
(* the tunnel that .sealtun/state.json names, if there still is a record   *)
(* of it; otherwise it runs expose and then looks for the tunnel that      *)
(* expose has made: the newest that was not there before.  The file has no *)
(* lock.  An expose in the foreground removes its tunnel before it returns *)
(* (ForegroundTunnel), and other commands make and remove tunnels          *)
(* meanwhile.  The store may be busy or not be readable, which up takes    *)
(* for a tunnel that is gone, or for no tunnels (up.go:110-114, 997-999).  *)
(***************************************************************************)
EXTENDS Naturals

CONSTANTS Ups,     \* processes that run up in this directory
          Tunnels, \* tunnel IDs, each made at most once
          None,    \* no tunnel
          MaxTime  \* bound of the clock

VARIABLES now,     \* the clock, in seconds
          made,    \* when each tunnel was made, by whom
          records, \* the tunnels that have a record
          state,   \* the tunnel in state.json
          up       \* what each up is doing

vars == <<now, made, records, state, up>>

\* mine: what its expose made; with: the tunnels there were before; alone: since then
\* nobody else has made one; unread: the store was not read, and so not believed; raced:
\* another up has written the file since this one compared it.
TypeOK ==
  /\ now \in 0..MaxTime
  /\ made \in [Tunnels -> [at : 0..MaxTime, by : Ups \cup {"other", None}]]
  /\ records \subseteq Tunnels /\ state \in Tunnels \cup {None}
  /\ up \in [Ups -> [pc : {"idle", "load", "compare", "remove", "before", "expose", "serve",
                           "find", "save", "over"},
                     old : Tunnels \cup {None}, mine : Tunnels \cup {None},
                     found : Tunnels \cup {None}, with : SUBSET Tunnels, alone : BOOLEAN,
                     unread : BOOLEAN, raced : BOOLEAN]]

Idle == [pc |-> "idle", old |-> None, mine |-> None, found |-> None, with |-> {},
         alone |-> TRUE, unread |-> FALSE, raced |-> FALSE]
Over == [Idle EXCEPT !.pc = "over"]

Init ==
  /\ now = 0 /\ records = {} /\ state = None
  /\ made = [t \in Tunnels |-> [at |-> 0, by |-> None]]
  /\ up = [p \in Ups |-> Idle]
-----------------------------------------------------------------------------
At(p, place) == up[p].pc = place
Set(p, r) == up' = [up EXCEPT ![p] = r]
Go(p, place) == Set(p, [up[p] EXCEPT !.pc = place])
Still == UNCHANGED <<now, made, records, state>>

New == {t \in Tunnels : made[t].by = None}

\* A tunnel is made, which the ups that are at work have to tell from their own.
Make(by, t) ==
  /\ made' = [made EXCEPT ![t] = [at |-> now, by |-> by]]
  /\ records' = records \cup {t}

\* An explicit port, target, template or --guided goes past the state.
Begin(p) ==
  /\ At(p, "idle") /\ Still
  /\ Go(p, "load") \/ Go(p, "before")

\* The record is there, and shown, or the file cannot be read; otherwise, also if the
\* record cannot be read, the tunnel is taken for gone.
Load(p) ==
  /\ At(p, "load") /\ Still
  /\ \/ Set(p, Over)
     \/ state = None /\ Go(p, "before")
     \/ /\ state # None
        /\ Set(p, [up[p] EXCEPT !.pc = "compare", !.old = state, !.unread = state \in records])

\* A fault: the file is not read again.
CompareNothing(p) == At(p, "compare") /\ Still /\ Go(p, "remove")

\* removeProjectTunnelStateIfMatches reads the file again,
Compare(p) ==
  /\ At(p, "compare") /\ Still
  /\ Go(p, "before") \/ (state = up[p].old /\ Go(p, "remove"))

\* and then removes what is there; that it failed is no error.
Remove(p) ==
  /\ At(p, "remove") /\ (state' = None \/ UNCHANGED state)
  /\ Set(p, [Idle EXCEPT !.pc = "before"])
  /\ UNCHANGED <<now, made, records>>

\* existingSessionIDs: no tunnels if the store cannot be read.
Before(p) ==
  /\ At(p, "before") /\ Still
  /\ \E unread \in BOOLEAN :
       Set(p, [Idle EXCEPT !.pc = "expose", !.unread = unread,
                           !.with = IF unread THEN {} ELSE records])

\* runExpose: it fails, or the tunnel is there, in the background or until the interrupt.
Expose(p) ==
  /\ At(p, "expose") /\ UNCHANGED <<now, state>>
  /\ \/ Set(p, Over) /\ UNCHANGED <<made, records>>
     \/ /\ New # {} /\ Make(p, CHOOSE t \in New : TRUE)
        /\ \E place \in {"find", "serve"} :
             up' = [q \in Ups |->
               IF q = p THEN [up[p] EXCEPT !.pc = place, !.mine = CHOOSE t \in New : TRUE]
               ELSE [up[q] EXCEPT !.alone = FALSE]]

\* The interrupt: the foreground's tunnel is removed.
Serve(p) ==
  /\ At(p, "serve") /\ records' = records \ {up[p].mine} /\ Go(p, "find")
  /\ UNCHANGED <<now, made, state>>

Among(p) == records \ up[p].with

\* newestSessionNotIn; of several made in the same second any may be the first.  If there
\* is none, or the store cannot be read, a warning is all.
Find(p) ==
  /\ At(p, "find") /\ Still
  /\ \/ Set(p, Over)
     \/ \E t \in Among(p) : /\ \A u \in Among(p) : made[u].at <= made[t].at
                            /\ Set(p, [up[p] EXCEPT !.pc = "save", !.found = t])

\* saveProjectTunnelState; that it failed is a warning too.
Save(p) ==
  /\ At(p, "save") /\ UNCHANGED <<now, made, records>>
  /\ \/ /\ state' = up[p].found
        /\ up' = [q \in Ups |-> IF q = p THEN Over
                               ELSE [up[q] EXCEPT !.raced = @ \/ At(q, "remove")]]
     \/ UNCHANGED state /\ Set(p, Over)

\* Other commands, in other directories.
Other ==
  /\ UNCHANGED <<now, state>>
  /\ \/ /\ New # {} /\ Make("other", CHOOSE t \in New : TRUE)
        /\ up' = [p \in Ups |-> IF up[p].pc \in {"expose", "serve", "find"}
                                  THEN [up[p] EXCEPT !.alone = FALSE] ELSE up[p]]
     \/ \E t \in records : records' = records \ {t} /\ UNCHANGED <<made, up>>

\* Another command begins.
Again(p) == At(p, "over") /\ Still /\ Set(p, Idle)

Tick == now < MaxTime /\ now' = now + 1 /\ UNCHANGED <<made, records, state, up>>

Next ==
  \/ \E p \in Ups :
       \/ Begin(p) \/ Load(p) \/ Compare(p) \/ Remove(p) \/ Before(p)
       \/ Expose(p) \/ Serve(p) \/ Find(p) \/ Save(p) \/ Again(p)
  \/ Other
  \/ Tick

Spec == Init /\ [][Next]_vars
-----------------------------------------------------------------------------
(* Properties. *)

\* The tunnel that an up writes down is the one it made, if nobody else made one while
\* it was at work; otherwise it is at least one that was made since.  This is of an up
\* that could read what tunnels there were before (up.go:138-149, 997).
WritesOwn ==
  \A p \in Ups :
    At(p, "save") /\ ~(At(p, "save"))' /\ state' # state /\ ~up[p].unread
      => /\ up[p].alone => state' = up[p].mine
         /\ state' \notin up[p].with /\ made[state'].by # None

Removes(p) == At(p, "remove") /\ ~(At(p, "remove"))' /\ state # None /\ state' = None

\* The state that an up removes is of a tunnel that is gone, even if another up has
\* written a new one since it was read, as long as none does between the comparison and
\* the removal, and the record could be read (up.go:110-114, 941-952).
ForgetsTheGone ==
  \A p \in Ups : Removes(p) /\ ~up[p].unread /\ ~up[p].raced => state \notin records

\* removeProjectTunnelStateIfMatches says so, without exception.  It fails, as README.md
\* shows.
ForgetsNoLive == \A p \in Ups : Removes(p) => state \notin records

StateBy == WritesOwn /\ ForgetsTheGone
StateKept == [][StateBy]_vars

\* "up first reuses the current project tunnel recorded in .sealtun/state.json"
\* (up.go:84): not so if the newest tunnel was made elsewhere.
StateIsProjects == state # None => made[state].by # "other"
=============================================================================
