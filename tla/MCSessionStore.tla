---------------------------- MODULE MCSessionStore ----------------------------
(***************************************************************************)
(* The session store under two kinds of load, one for each behaviour:      *)
(* "walk", saves, deletions and scrubs of every tunnel, where only the     *)
(* secrets differ, and "race", every call on one tunnel, with connection   *)
(* states to mark and another secret to adopt.                             *)
(***************************************************************************)
EXTENDS SessionStore

CONSTANTS Raced,     \* the tunnel of the race
          Adopted    \* the secret that is only ever adopted

VARIABLE load

\* The calls that are made; how each is carried out is up to SessionStore.
Made(c) ==
  \/ /\ load = "walk"
     /\ c.op \in {"save", "delete", "scrub"}
     /\ c.rec.state = "stopped" /\ c.rec.secret # Adopted
  \/ load = "race" /\ c.t = Raced /\ (c.op = "adopt" <=> c.rec.secret = Adopted)

LoadInit ==
  /\ load \in {"walk", "race"}
  /\ Init
  /\ load = "race" => \A t \in Tunnels \ {Raced} : file[t] = NoRecord

LoadNext ==
  /\ \E p \in Procs : \/ \E c \in Calls : Made(c) /\ Invoke(p, c)
                      \/ Step(p)
                      \/ Crash(p)
  /\ UNCHANGED load

LoadSpec == LoadInit /\ [][LoadNext]_<<vars, load>> /\ \A p \in Procs : WF_vars(Step(p))
=============================================================================
