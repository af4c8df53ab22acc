------------------------- MODULE MCTunnelOperations -------------------------
(***************************************************************************)
(* The commands that change tunnels, and beside them, in behaviours of     *)
(* their own that `part` names, what pkg/k8s does to the objects of one    *)
(* tunnel: the two share no state, since a call of pkg/k8s is one step of  *)
(* TunnelChange.  CallsAreOneStep says that it may be.                     *)
(***************************************************************************)
EXTENDS MCTunnelChange

CONSTANTS Parts,  \* those that are checked: "change", "resources"
          Absent, Foreign,
          ResourceConfigs, Squatted, Perils, MaxMishaps \* as TunnelResources has them

VARIABLES part, objects, op, phase, todo, made, saved, outcome, before, mishaps, defects

resourceVars ==
  <<objects, op, phase, todo, made, saved, outcome, before, mishaps, defects>>

\* A tunnel with a TCP port, and one with another secret and a custom domain.
MCConfigs == {[auth |-> x, domain |-> NoDomain, raw |-> TRUE],
              [auth |-> y, domain |-> d, raw |-> FALSE]}

Resources == INSTANCE TunnelResources WITH
  Configs <- ResourceConfigs, MaxFaults <- MaxMishaps,
  cluster <- objects, result <- outcome, faults <- mishaps, flaws <- defects

ASSUME ResourcesAssumption ==
  Resources!ConfigsAssumption /\ Resources!FaultsAssumption /\ Resources!SentinelAssumption

\* Each part from all its initial states, the other from one of its own.
PartsInit ==
  /\ part \in Parts /\ Init /\ Resources!Init
  /\ part = "resources" \/ \A k \in DOMAIN objects : objects[k] = Absent
  /\ part = "change" \/ \A t \in Existing : /\ record[t].state = "stopped"
                                          /\ record[t].policy = CHOOSE z \in Policies : TRUE

PartsNext ==
  \/ part = "change" /\ Next /\ UNCHANGED <<part, resourceVars>>
  \/ part = "resources" /\ Resources!Next /\ UNCHANGED <<part, vars>>

PartsSpec == PartsInit /\ [][PartsNext]_<<part, vars, resourceVars>>
-----------------------------------------------------------------------------
(* What pkg/k8s promises: the properties of TunnelResources. *)

\* A cleanup that reports success has left nothing of the tunnel (client.go:1882).
CleanupComplete == Resources!CleanupComplete

\* No operation writes or deletes an object without Sealtun's label (client.go:417-1779).
OthersUntouched == [][Resources!OthersUntouchedBy]_resourceVars

\* None is no tunnel.
ASSUME SeenAssumption ==
  None \notin [auth : Resources!Auths, digest : Resources!Auths, up : BOOLEAN,
               domain : Resources!Hosts \cup {NoDomain}]

\* What the commands see of the objects: a tunnel whose core is there, or none.
Seen(o) ==
  IF \A k \in {"secret", "deployment", "service"} : o[k] \notin {Absent, Foreign}
    THEN [auth |-> o["secret"], digest |-> o["deployment"].auth,
          up |-> o["deployment"].replicas = 1,
          domain |-> IF o["ingress"] \in {Absent, Foreign} THEN NoDomain ELSE o["ingress"]]
    ELSE None

Wanted == [auth |-> op.config.auth, digest |-> op.config.auth, up |-> TRUE,
           domain |-> op.config.domain]

\* The calls of an operation add up to the one step that TunnelChange takes for it: an
\* ensure that succeeds makes what was asked, one that fails leaves what was there or one
\* of the halfway states, whichever call failed; a configure that fails leaves what was
\* there.  The objects that the commands do not see are taken back as well
\* (client.go:228-333, 1485-1494).
CallsAreOneStep ==
  /\ Resources!FailureUndone
  /\ phase = "idle" /\ defects = {} =>
       /\ op.name = "ensure" /\ outcome = "ok" => Seen(objects) = Wanted
       /\ op.name = "ensure" /\ outcome = "error" =>
            Seen(objects) \in Halfway(Seen(before), Wanted)
       /\ op.name = "configure" /\ outcome = "error" => Seen(objects) = Seen(before)
=============================================================================
